--------------------------- MODULE LifetimeProofs ---------------------------
(***************************************************************************)
(* That the execution of a function body implements Lifetime.              *)
(*                                                                         *)
(* While the body is parsed, every block is given the set of variables     *)
(* that hold a value when control enters it, such that each block, run     *)
(* from its set, only constructs what holds no value and destructs what    *)
(* does, and each branch hands over the set of the block it goes to.  At   *)
(* the end of the block the next form goes to, exactly the variables in    *)
(* scope hold values.                                                      *)
(***************************************************************************)
EXTENDS FlowProofs

USE DEF NoNode, NoFn, Root

(* The bodies the claim is about: those whose scopes end in the block they *)
(* began in, and whose gotos go neither into a closed scope nor over a     *)
(* declaration that the code forgets.                                      *)
Tame == /\ Uses \cap {"closed_over", "goto_in", "goto_over", "goto_into", "lost"} = {}
        /\ ~({"goto_on", "goto_ahead"} \subseteq Uses)

(***************************************************************************)
(* The context while the body is parsed.  The body's namespace is the b-th *)
(* on the stack; the indices of a namespace's variables are above all that *)
(* the namespaces around it have given out.                                *)
(***************************************************************************)
(* The variables of the d outermost active namespaces.                     *)
LocalsTo(c, d) == VarsOf(c, {c.active[j] : j \in 1 .. d})

FnIndex(c) == c.fnindex[CurrentFn(c)]

Numbered(c, b) ==
  /\ b \in Nat /\ 2 <= b /\ b <= Len(c.active) /\ 1 <= FnIndex(c)
  /\ \A j \in 1 .. b - 1 : c.vars[c.active[j]] = <<>> /\ c.lv[c.active[j]] <= FnIndex(c)
  /\ \A j \in b .. Len(c.active) : FnIndex(c) <= c.lv[c.active[j]]
  /\ \A j \in b .. Len(c.active) : \A x \in VarsOf(c, {c.active[j]}) :
       FnIndex(c) <= VarAt(c, x).index /\ VarAt(c, x).index <= c.lv[c.active[j]]
  /\ \A d, j \in b .. Len(c.active) : d < j =>
       /\ c.lv[c.active[d]] < c.lv[c.active[j]]
       /\ \A x \in VarsOf(c, {c.active[j]}) : c.lv[c.active[d]] < VarAt(c, x).index

InBody(c, b) ==
  /\ WF(c) /\ Tree(c) /\ c.used = c.active /\ NamesBelow(c) /\ c.scopes # <<>>
  /\ \A n \in Nodes : n >= c.fresh => c.vars[n] = <<>>
  /\ Numbered(c, b)

Begins(p, q) == Len(p) <= Len(q) /\ \A k \in 1 .. Len(p) : q[k] = p[k]

(* c has been reached from s by parsing forms in the scope that was open.  *)
Grew(s, c) ==
  /\ s.live \subseteq c.live /\ s.fresh <= c.fresh
  /\ c.scopes = s.scopes /\ c.fnindex = s.fnindex
  /\ Begins(s.active, c.active)
  /\ \A j \in Len(s.active) + 1 .. Len(c.active) : c.active[j] >= s.fresh
  /\ \A m \in Nodes : m < s.fresh =>
       /\ c.parent[m] = s.parent[m]
       /\ Begins(s.vars[m], c.vars[m]) /\ s.lv[m] <= c.lv[m]
       /\ m # NS(s) => c.vars[m] = s.vars[m] /\ c.lv[m] = s.lv[m]

(* One step further, of which what has been found of the code is not       *)
(* disturbed: namespaces are entered or left, and variables added to the   *)
(* innermost one.                                                          *)
Moves(c, d) ==
  /\ c.live \subseteq d.live /\ c.fresh <= d.fresh
  /\ d.scopes = c.scopes /\ d.fnindex = c.fnindex
  /\ \A j \in 1 .. Len(d.active) :
       d.active[j] >= c.fresh \/ (j <= Len(c.active) /\ d.active[j] = c.active[j])
  /\ d.active[2] = c.active[2]
  /\ \A m \in Nodes : m < c.fresh =>
       /\ d.parent[m] = c.parent[m] /\ c.lv[m] <= d.lv[m]
       /\ m # NS(c) => d.lv[m] = c.lv[m]
       /\ Begins(c.vars[m], d.vars[m])
       /\ \A k \in Len(c.vars[m]) + 1 .. Len(d.vars[m]) :
            m = NS(c) /\ c.lv[m] < d.vars[m][k].index

SameVars(c, d) == \A m \in Nodes : m < c.fresh => d.vars[m] = c.vars[m]

(* Of the forms being parsed, all but calls have a namespace of their own: *)
(* h[i] is the height of the stack when the i-th had been opened.          *)
Rising(h, fs, n) ==
  /\ \A i \in 0 .. n : h[i] \in Nat
  /\ \A i \in 1 .. n : h[i] = h[i - 1] + (IF fs[i].kind = "call" THEN 0 ELSE 1)
  /\ \A i, j \in 0 .. n : i < j => h[i] <= h[j]
  /\ \A i, j \in 0 .. n : i < j /\ fs[j].kind # "call" => h[i] < h[j]

(***************************************************************************)
(* The context.                                                            *)
(***************************************************************************)
LEMMA VarsOfIn ==
  ASSUME NEW c, NEW N
  PROVE  /\ \A x \in VarsOf(c, N) : /\ x = <<x[1], x[2]>> /\ x[1] \in N
                                    /\ x[2] \in 1 .. Len(c.vars[x[1]])
         /\ \A n \in N : \A k \in 1 .. Len(c.vars[n]) : <<n, k>> \in VarsOf(c, N)
BY DEF VarsOf

LEMMA BodyParts ==
  ASSUME NEW c, NEW b, InBody(c, b)
  PROVE  /\ c \in ContextType /\ c.fresh \in Nat /\ c.fresh <= MaxNodes + 1
         /\ c.live \subseteq Nodes /\ \A n \in c.live : n < c.fresh
         /\ c.active \in Seq(Nodes) /\ Len(c.active) \in Nat
         /\ 2 <= b /\ b \in Nat /\ b <= Len(c.active)
         /\ NS(c) = c.active[Len(c.active)] /\ NS(c) \in c.live
         /\ \A j \in 1 .. Len(c.active) : /\ c.active[j] \in Nodes /\ c.active[j] \in c.live
                                          /\ c.active[j] < c.fresh
         /\ \A i, j \in 1 .. Len(c.active) : i < j => c.active[i] < c.active[j]
         /\ c.lv \in [Nodes -> Nat] /\ c.parent \in [Nodes -> Nodes \cup {NoNode}]
         /\ c.vars \in [Nodes -> Seq(Variable)]
         /\ \A n \in Nodes : Len(c.vars[n]) \in Nat /\ c.lv[n] \in Nat
         /\ \A n \in Nodes : \A k \in 1 .. Len(c.vars[n]) : c.vars[n][k].index \in Nat
         /\ FnIndex(c) \in Nat
<1>1. WF(c) /\ Tree(c) /\ Numbered(c, b) /\ c.scopes # <<>> BY DEF InBody
<1>2. c \in ContextType BY <1>1 DEF WF
<1>3. /\ c.fresh \in 1 .. MaxNodes + 1 /\ c.live \subseteq Nodes /\ c.lv \in [Nodes -> Nat]
      /\ c.parent \in [Nodes -> Nodes \cup {NoNode}] /\ c.vars \in [Nodes -> Seq(Variable)]
      /\ c.active \in Seq(Nodes) /\ c.scopes \in Seq(Fns) /\ c.fnindex \in [Fns -> Nat]
  BY <1>2, FieldTypes
<1>4. MaxNodes \in Nat BY SizeAssumption
<1>5. \A n \in c.live : n < c.fresh BY <1>1, Parts
<1>6. \A j \in 1 .. Len(c.active) : c.active[j] \in c.live BY <1>1 DEF WF, StackNodes
<1>7. \A n \in Nodes : Len(c.vars[n]) \in Nat /\ c.lv[n] \in Nat BY <1>3
<1>8. \A n \in Nodes : \A k \in 1 .. Len(c.vars[n]) : c.vars[n][k].index \in Nat
  <2> SUFFICES ASSUME NEW n \in Nodes, NEW k \in 1 .. Len(c.vars[n])
               PROVE  c.vars[n][k].index \in Nat
    OBVIOUS
  <2>1. c.vars[n] \in Seq(Variable) BY <1>3
  <2>2. c.vars[n][k] \in Variable BY <2>1
  <2> QED BY <2>2 DEF Variable
<1>9. FnIndex(c) \in Nat
  <2>1. CurrentFn(c) = c.scopes[Len(c.scopes)] BY <1>1 DEF CurrentFn, Back
  <2>2. CurrentFn(c) \in Fns BY <1>1, <1>3, <2>1
  <2> QED BY <1>3, <2>2 DEF FnIndex
<1>10. 2 <= b /\ b \in Nat /\ b <= Len(c.active) /\ Len(c.active) \in Nat
  BY <1>1, <1>3 DEF Numbered
<1>11. NS(c) = c.active[Len(c.active)] /\ NS(c) \in c.live BY <1>6, <1>10 DEF NS, Back
<1>12. \A i, j \in 1 .. Len(c.active) : i < j => c.active[i] < c.active[j]
  BY <1>1 DEF Tree, StackIsPath
<1>13. \A j \in 1 .. Len(c.active) : /\ c.active[j] \in Nodes /\ c.active[j] \in c.live
                                     /\ c.active[j] < c.fresh
  BY <1>3, <1>5, <1>6
<1>14. c.fresh \in Nat /\ c.fresh <= MaxNodes + 1 BY <1>3, <1>4
<1> HIDE DEF InBody
<1> QED BY <1>2, <1>3, <1>5, <1>7, <1>8, <1>9, <1>10, <1>11, <1>12, <1>13, <1>14

(* The variables in scope are those of the namespaces from the current one *)
(* to the root.                                                            *)
LEMMA LocalsAreChain ==
  ASSUME NEW c, NEW b, InBody(c, b)
  PROVE  /\ \A d \in 1 .. Len(c.active) : LocalsTo(c, d) = VarsOf(c, Chain(c, c.active[d]))
         /\ LocalsTo(c, Len(c.active)) = VarsOf(c, Chain(c, NS(c)))
<1>1. Tree(c) BY DEF InBody
<1>2. \A d \in 1 .. Len(c.active) : Chain(c, c.active[d]) = {c.active[j] : j \in 1 .. d}
  BY <1>1, ChainOfStack DEF Tree
<1>3. Len(c.active) \in 1 .. Len(c.active) /\ NS(c) = c.active[Len(c.active)] BY BodyParts
<1> QED BY <1>2, <1>3 DEF LocalsTo

(* What the indices say of a variable in scope: it was declared after the  *)
(* function's index was given out, and after those of outer namespaces.    *)
LEMMA LocalsIndexed ==
  ASSUME NEW c, NEW b, InBody(c, b)
  PROVE  /\ \A d \in 1 .. Len(c.active) : \A x \in LocalsTo(c, d) :
              \E j \in b .. d : x[1] = c.active[j] /\ x \in VarsOf(c, {c.active[j]})
         /\ \A x \in LocalsTo(c, Len(c.active)) :
              /\ VarAt(c, x).index \in Nat /\ FnIndex(c) <= VarAt(c, x).index
              /\ VarAt(c, x).index <= c.lv[NS(c)] /\ VarAt(c, x).index # 0
         /\ \A d \in b .. Len(c.active) : \A x \in LocalsTo(c, Len(c.active)) :
              x \in LocalsTo(c, d) \/ c.lv[c.active[d]] < VarAt(c, x).index
<1>1. Numbered(c, b) BY DEF InBody
<1>2. \A d \in 1 .. Len(c.active) : \A x \in LocalsTo(c, d) :
        \E j \in b .. d : x[1] = c.active[j] /\ x \in VarsOf(c, {c.active[j]})
  <2> SUFFICES ASSUME NEW d \in 1 .. Len(c.active), NEW x \in LocalsTo(c, d)
               PROVE  \E j \in b .. d : x[1] = c.active[j] /\ x \in VarsOf(c, {c.active[j]})
    OBVIOUS
  <2>0. b \in Nat /\ Len(c.active) \in Nat BY BodyParts
  <2>1. x = <<x[1], x[2]>> /\ x[1] \in {c.active[j] : j \in 1 .. d}
        /\ x[2] \in 1 .. Len(c.vars[x[1]])
    BY VarsOfIn DEF LocalsTo
  <2>2. PICK j \in 1 .. d : x[1] = c.active[j] BY <2>1
  <2>3. x \in VarsOf(c, {c.active[j]}) BY <2>1, <2>2, VarsOfIn
  <2>4. j >= b
    <3> SUFFICES ASSUME ~(j >= b) PROVE FALSE OBVIOUS
    <3>1. j \in 1 .. b - 1 BY <2>0
    <3>2. c.vars[c.active[j]] = <<>> BY <1>1, <3>1 DEF Numbered
    <3> QED BY <2>1, <2>2, <3>2
  <2>5. j \in b .. d BY <2>0, <2>4
  <2> QED BY <2>2, <2>3, <2>5
<1>3. ASSUME NEW x \in LocalsTo(c, Len(c.active))
      PROVE  \E j \in b .. Len(c.active) :
               x[1] = c.active[j] /\ x \in VarsOf(c, {c.active[j]})
  <2>1. Len(c.active) \in 1 .. Len(c.active) BY BodyParts
  <2> QED BY <1>2, <2>1
<1>4. \A x \in LocalsTo(c, Len(c.active)) :
        /\ VarAt(c, x).index \in Nat /\ FnIndex(c) <= VarAt(c, x).index
        /\ VarAt(c, x).index <= c.lv[NS(c)] /\ VarAt(c, x).index # 0
  <2> SUFFICES ASSUME NEW x \in LocalsTo(c, Len(c.active))
               PROVE  /\ VarAt(c, x).index \in Nat /\ FnIndex(c) <= VarAt(c, x).index
                      /\ VarAt(c, x).index <= c.lv[NS(c)] /\ VarAt(c, x).index # 0
    OBVIOUS
  <2>1. PICK j \in b .. Len(c.active) :
          x[1] = c.active[j] /\ x \in VarsOf(c, {c.active[j]})
    BY <1>3
  <2>2. c.active[j] \in Nodes /\ x[2] \in 1 .. Len(c.vars[x[1]]) BY <2>1, BodyParts, VarsOfIn
  <2>3. VarAt(c, x).index \in Nat BY <2>1, <2>2, BodyParts DEF VarAt
  <2>4. FnIndex(c) <= VarAt(c, x).index /\ VarAt(c, x).index <= c.lv[c.active[j]]
    BY <1>1, <2>1 DEF Numbered
  <2>5. c.lv[c.active[j]] <= c.lv[NS(c)]
    <3>0. NS(c) = c.active[Len(c.active)] /\ Len(c.active) \in Nat /\ b \in Nat
          /\ c.lv[c.active[j]] \in Nat /\ NS(c) \in Nodes
      BY <2>2, BodyParts
    <3>1. CASE j = Len(c.active) BY <3>0, <3>1
    <3>2. CASE j # Len(c.active)
      <4>1. j < Len(c.active) /\ Len(c.active) \in b .. Len(c.active) BY <3>0, <3>2
      <4>2. c.lv[c.active[j]] < c.lv[c.active[Len(c.active)]]
        BY <1>1, <4>1 DEF Numbered
      <4>3. c.lv[NS(c)] \in Nat BY <3>0, BodyParts
      <4> QED BY <3>0, <4>2, <4>3
    <3> QED BY <3>1, <3>2
  <2>6. c.lv[c.active[j]] \in Nat /\ c.lv[NS(c)] \in Nat BY <2>2, BodyParts
  <2>7. 1 <= FnIndex(c) /\ FnIndex(c) \in Nat BY <1>1, BodyParts DEF Numbered
  <2> QED BY <2>3, <2>4, <2>5, <2>6, <2>7
<1>5. \A d \in b .. Len(c.active) : \A x \in LocalsTo(c, Len(c.active)) :
        x \in LocalsTo(c, d) \/ c.lv[c.active[d]] < VarAt(c, x).index
  <2> SUFFICES ASSUME NEW d \in b .. Len(c.active), NEW x \in LocalsTo(c, Len(c.active)),
                      ~(c.lv[c.active[d]] < VarAt(c, x).index)
               PROVE  x \in LocalsTo(c, d)
    OBVIOUS
  <2>1. PICK j \in b .. Len(c.active) :
          x[1] = c.active[j] /\ x \in VarsOf(c, {c.active[j]})
    BY <1>3
  <2>2. ~(d < j) BY <1>1, <2>1 DEF Numbered
  <2>3. j \in 1 .. d BY <2>2, BodyParts
  <2>4. x = <<x[1], x[2]>> /\ x[2] \in 1 .. Len(c.vars[x[1]]) BY <2>1, VarsOfIn
  <2>5. x[1] \in {c.active[i] : i \in 1 .. d} BY <2>1, <2>3
  <2>6. <<x[1], x[2]>> \in LocalsTo(c, d) BY <2>4, <2>5, VarsOfIn DEF LocalsTo
  <2> QED BY <2>4, <2>6
<1> QED BY <1>2, <1>4, <1>5

LEMMA GrewSelf ==
  ASSUME NEW c, NEW b, InBody(c, b)
  PROVE  Grew(c, c)
<1>1. /\ Len(c.active) \in Nat /\ c.lv \in [Nodes -> Nat]
      /\ \A n \in Nodes : Len(c.vars[n]) \in Nat /\ c.lv[n] \in Nat
      /\ c.fresh \in Nat
  BY BodyParts
<1> QED BY <1>1 DEF Grew, Begins

(* A prefix of a prefix.                                                   *)
LEMMA BeginsTransitive ==
  ASSUME NEW S, NEW p \in Seq(S), NEW q \in Seq(S), NEW r \in Seq(S),
         Begins(p, q), Begins(q, r)
  PROVE  Begins(p, r)
<1>1. Len(p) \in Nat /\ Len(q) \in Nat /\ Len(r) \in Nat
  BY LenProperties
<1> QED  BY <1>1 DEF Begins

LEMMA GrewMoves ==
  ASSUME NEW s, NEW c, NEW d, NEW b, InBody(s, b), InBody(c, b), InBody(d, b),
         Grew(s, c), Moves(c, d), Begins(s.active, d.active)
  PROVE  Grew(s, d)
<1>1. /\ s.fresh \in Nat /\ c.fresh \in Nat /\ d.fresh \in Nat
      /\ Len(s.active) \in Nat /\ Len(c.active) \in Nat /\ Len(d.active) \in Nat
  BY BodyParts
<1>2. s.live \subseteq d.live /\ s.fresh <= d.fresh /\ d.scopes = s.scopes
      /\ d.fnindex = s.fnindex
  BY <1>1 DEF Grew, Moves
<1>3. ASSUME NEW j \in Len(s.active) + 1 .. Len(d.active) PROVE d.active[j] >= s.fresh
  <2>1. j \in 1 .. Len(d.active) BY <1>1
  <2>2. d.active[j] \in Nodes BY <2>1, BodyParts
  <2>3. d.active[j] \in Nat BY <2>2 DEF Nodes
  <2>4. CASE d.active[j] >= c.fresh BY <1>1, <2>3, <2>4 DEF Grew
  <2>5. CASE j <= Len(c.active) /\ d.active[j] = c.active[j]
    <3>1. j \in Len(s.active) + 1 .. Len(c.active) BY <1>1, <2>5
    <3> QED BY <2>5, <3>1 DEF Grew
  <2> QED BY <2>1, <2>4, <2>5 DEF Moves
<1>4. ASSUME NEW m \in Nodes, m < s.fresh
      PROVE  /\ d.parent[m] = s.parent[m]
             /\ Begins(s.vars[m], d.vars[m]) /\ s.lv[m] <= d.lv[m]
             /\ m # NS(s) => d.vars[m] = s.vars[m] /\ d.lv[m] = s.lv[m]
  <2>0. m < c.fresh BY <1>1, <1>4 DEF Grew, Nodes
  <2>1. /\ Len(s.vars[m]) \in Nat /\ Len(c.vars[m]) \in Nat /\ Len(d.vars[m]) \in Nat
        /\ s.lv[m] \in Nat /\ c.lv[m] \in Nat /\ d.lv[m] \in Nat
        /\ s.vars[m] \in Seq(Variable) /\ c.vars[m] \in Seq(Variable)
        /\ d.vars[m] \in Seq(Variable)
    BY BodyParts
  <2>2. /\ c.parent[m] = s.parent[m] /\ Begins(s.vars[m], c.vars[m]) /\ s.lv[m] <= c.lv[m]
        /\ m # NS(s) => c.vars[m] = s.vars[m] /\ c.lv[m] = s.lv[m]
    BY <1>4 DEF Grew
  <2>3. /\ d.parent[m] = c.parent[m] /\ c.lv[m] <= d.lv[m]
        /\ m # NS(c) => d.lv[m] = c.lv[m]
        /\ Begins(c.vars[m], d.vars[m])
        /\ \A k \in Len(c.vars[m]) + 1 .. Len(d.vars[m]) : m = NS(c)
    BY <2>0 DEF Moves
  <2>4. Begins(s.vars[m], d.vars[m]) BY <2>1, <2>2, <2>3, BeginsTransitive
  <2>5. m # NS(s) => m # NS(c)
    <3>1. NS(c) = c.active[Len(c.active)] /\ NS(s) = s.active[Len(s.active)]
          /\ Len(s.active) >= 2
      BY BodyParts
    <3>2. Len(s.active) <= Len(c.active) BY DEF Grew, Begins
    <3>3. CASE Len(c.active) = Len(s.active)
      <4>1. c.active[Len(s.active)] = s.active[Len(s.active)]
        BY <1>1, <3>1, SMTT(30) DEF Grew, Begins
      <4> QED BY <3>1, <3>3, <4>1
    <3>4. CASE Len(c.active) # Len(s.active)
      <4>1. Len(c.active) \in Len(s.active) + 1 .. Len(c.active) BY <1>1, <3>2, <3>4
      <4>2. NS(c) >= s.fresh BY <3>1, <4>1 DEF Grew
      <4> QED BY <1>1, <1>4, <4>2 DEF Nodes
    <3> QED BY <3>3, <3>4
  <2>6. m # NS(s) => d.vars[m] = s.vars[m] /\ d.lv[m] = s.lv[m]
    <3> SUFFICES ASSUME m # NS(s) PROVE d.vars[m] = s.vars[m] /\ d.lv[m] = s.lv[m]
      OBVIOUS
    <3>1. d.lv[m] = s.lv[m] BY <2>2, <2>3, <2>5
    <3>2. Len(d.vars[m]) = Len(c.vars[m])
      <4>1. Len(c.vars[m]) <= Len(d.vars[m]) BY <2>3 DEF Begins
      <4>2. Len(c.vars[m]) + 1 \notin Len(c.vars[m]) + 1 .. Len(d.vars[m]) BY <2>3, <2>5
      <4> QED BY <2>1, <4>1, <4>2
    <3>3. \A k \in 1 .. Len(c.vars[m]) : d.vars[m][k] = c.vars[m][k] BY <2>3 DEF Begins
    <3>4. d.vars[m] = c.vars[m] BY <2>1, <3>2, <3>3, SeqEqual
    <3> QED BY <2>2, <3>1, <3>4
  <2> QED BY <2>1, <2>2, <2>3, <2>4, <2>6
<1> QED BY <1>2, <1>3, <1>4 DEF Grew

LEMMA OpenBody ==
  ASSUME MaxNodes < AnonLimit, NEW c, NEW b, InBody(c, b), c.fresh <= MaxNodes,
         NEW d, d = ActivateAnonymousNamespace(c)
  PROVE  /\ InBody(d, b) /\ Moves(c, d) /\ SameVars(c, d)
         /\ d.fresh = c.fresh + 1 /\ d.active = Append(c.active, c.fresh)
         /\ Len(d.active) = Len(c.active) + 1 /\ NS(d) = c.fresh
         /\ \A j \in 1 .. Len(c.active) : d.active[j] = c.active[j]
         /\ d.vars = c.vars
         /\ LocalsTo(d, Len(d.active)) = LocalsTo(c, Len(c.active))
<1>0. WF(c) /\ NamesBelow(c) /\ Tree(c) /\ Numbered(c, b) BY DEF InBody
<1>1. Fresh(c, d) /\ ScopeEntered(c, d) /\ Adds(c, d)
  BY <1>0, AnonymousIsFresh, AnonymousOpens, AnonymousAdds
<1>2. \E n \in Nodes : Pushed(c, d, n) BY <1>0, AnonymousPushes
<1>3. PICK n \in Nodes : d.active = Append(c.active, n) /\ d.used = Append(c.used, n)
  BY <1>2 DEF Pushed, Entered
<1>4. /\ c.fresh \in Nodes /\ c.fresh \in Nat /\ Len(c.active) \in Nat
      /\ c.active \in Seq(Nodes) /\ c.lv \in [Nodes -> Nat]
      /\ b \in Nat /\ 2 <= b /\ b <= Len(c.active)
      /\ NS(c) = c.active[Len(c.active)] /\ NS(c) \in Nodes
      /\ \A j \in 1 .. Len(c.active) : c.active[j] \in Nodes /\ c.active[j] < c.fresh
      /\ \A m \in Nodes : Len(c.vars[m]) \in Nat /\ c.lv[m] \in Nat
  BY <1>1, BodyParts DEF ScopeEntered
<1>5. /\ d.active = Append(c.active, c.fresh) /\ d.used = d.active
  <2>1. d.active = Append(c.active, c.fresh) BY <1>1 DEF ScopeEntered
  <2>2. Append(c.active, c.fresh)[Len(c.active) + 1] = c.fresh
        /\ Append(c.active, n)[Len(c.active) + 1] = n
    BY <1>4
  <2>3. n = c.fresh BY <1>3, <2>1, <2>2
  <2>4. c.used = c.active BY DEF InBody
  <2> QED BY <1>3, <2>1, <2>3, <2>4
<1>6. /\ Len(d.active) = Len(c.active) + 1 /\ d.active[Len(c.active) + 1] = c.fresh
      /\ \A j \in 1 .. Len(c.active) : d.active[j] = c.active[j]
  BY <1>4, <1>5
<1>7. /\ WF(d) /\ NamesBelow(d) /\ d.fresh = c.fresh + 1 /\ Tree(d) /\ NS(d) = c.fresh
      /\ d.scopes = c.scopes /\ d.vars = c.vars /\ d.fnindex = c.fnindex
      /\ d.lv = [c.lv EXCEPT ![c.fresh] = c.lv[NS(c)] + 1]
      /\ c.live \subseteq d.live
      /\ \A m \in Nodes : m < c.fresh => d.parent[m] = c.parent[m]
  BY <1>1 DEF Fresh, ScopeEntered, Adds, Extends
<1>8. c.vars[c.fresh] = <<>> BY <1>4 DEF InBody
<1>9. /\ FnIndex(d) = FnIndex(c)
      /\ \A j \in 1 .. Len(c.active) : d.lv[d.active[j]] = c.lv[c.active[j]]
      /\ d.lv[c.fresh] = c.lv[NS(c)] + 1
  <2>1. FnIndex(d) = FnIndex(c) BY <1>7 DEF FnIndex, CurrentFn
  <2>2. d.lv[c.fresh] = c.lv[NS(c)] + 1 BY <1>4, <1>7
  <2>3. ASSUME NEW j \in 1 .. Len(c.active) PROVE d.lv[d.active[j]] = c.lv[c.active[j]]
    <3>1. c.active[j] \in Nodes /\ c.active[j] # c.fresh /\ d.active[j] = c.active[j]
      BY <1>4, <1>6
    <3> QED BY <1>4, <1>7, <3>1
  <2> QED BY <2>1, <2>2, <2>3
<1>10. Numbered(d, b)
  <2>1. ASSUME NEW j \in b .. Len(d.active)
        PROVE  \/ j \in b .. Len(c.active)
               \/ j = Len(c.active) + 1 /\ VarsOf(d, {d.active[j]}) = {}
    <3>1. CASE j = Len(c.active) + 1
      <4>1. d.vars[d.active[j]] = <<>> BY <1>6, <1>7, <1>8, <3>1
      <4> QED BY <3>1, <4>1 DEF VarsOf
    <3>2. CASE j # Len(c.active) + 1 BY <1>4, <1>6, <3>2
    <3> QED BY <3>1, <3>2
  <2>2. \A N : VarsOf(d, N) = VarsOf(c, N) BY <1>7 DEF VarsOf
  <2>3. \A x : VarAt(d, x) = VarAt(c, x) BY <1>7 DEF VarAt
  <2>4. \A j \in b .. Len(c.active) : d.active[j] = c.active[j]
        /\ d.lv[d.active[j]] = c.lv[c.active[j]] /\ c.lv[c.active[j]] \in Nat
    <3> SUFFICES ASSUME NEW j \in b .. Len(c.active)
                 PROVE  d.active[j] = c.active[j] /\ d.lv[d.active[j]] = c.lv[c.active[j]]
                        /\ c.lv[c.active[j]] \in Nat
      OBVIOUS
    <3>1. j \in 1 .. Len(c.active) BY <1>4
    <3>2. c.active[j] \in Nodes BY <1>4, <3>1
    <3> QED BY <1>4, <1>6, <1>9, <3>1, <3>2
  <2>5. \A j \in b .. Len(c.active) : c.lv[c.active[j]] <= c.lv[NS(c)]
    <3> SUFFICES ASSUME NEW j \in b .. Len(c.active) PROVE c.lv[c.active[j]] <= c.lv[NS(c)]
      OBVIOUS
    <3>1. Len(c.active) \in b .. Len(c.active) BY <1>4
    <3>2. j < Len(c.active) \/ j = Len(c.active) BY <1>4
    <3>3. c.lv[c.active[j]] \in Nat /\ c.lv[NS(c)] \in Nat BY <1>4, <2>4
    <3>4. j < Len(c.active) => c.lv[c.active[j]] < c.lv[c.active[Len(c.active)]]
      BY <1>0, <3>1 DEF Numbered
    <3> QED BY <1>4, <3>2, <3>3, <3>4
  <2>6. b <= Len(d.active) /\ 1 <= FnIndex(d) BY <1>0, <1>4, <1>6, <1>9 DEF Numbered
  <2>7. \A j \in 1 .. b - 1 : d.vars[d.active[j]] = <<>> /\ d.lv[d.active[j]] <= FnIndex(d)
    <3> SUFFICES ASSUME NEW j \in 1 .. b - 1
                 PROVE  d.vars[d.active[j]] = <<>> /\ d.lv[d.active[j]] <= FnIndex(d)
      OBVIOUS
    <3>1. j \in 1 .. Len(c.active) BY <1>4
    <3>2. c.vars[c.active[j]] = <<>> /\ c.lv[c.active[j]] <= FnIndex(c) BY <1>0 DEF Numbered
    <3>3. c.active[j] \in Nodes BY <1>4, <3>1
    <3>4. d.lv[d.active[j]] = c.lv[c.active[j]] BY <1>4, <1>6, <1>9, <3>1, <3>3
    <3> QED BY <1>6, <1>7, <1>9, <3>1, <3>2, <3>4
  <2>8. FnIndex(c) \in Nat BY BodyParts
  <2>9. \A j \in b .. Len(c.active) : FnIndex(c) <= c.lv[c.active[j]] BY <1>0 DEF Numbered
  <2>10. FnIndex(c) <= c.lv[NS(c)] + 1
    <3>1. Len(c.active) \in b .. Len(c.active) BY <1>4
    <3>2. FnIndex(c) <= c.lv[NS(c)] BY <1>4, <2>9, <3>1
    <3> QED BY <1>4, <2>8, <3>2
  <2>11. \A j \in b .. Len(d.active) : FnIndex(d) <= d.lv[d.active[j]]
    <3> SUFFICES ASSUME NEW j \in b .. Len(d.active) PROVE FnIndex(d) <= d.lv[d.active[j]]
      OBVIOUS
    <3>1. CASE j \in b .. Len(c.active) BY <1>9, <2>4, <2>9, <3>1
    <3>2. CASE j = Len(c.active) + 1 BY <1>6, <1>9, <2>10, <3>2
    <3> QED BY <2>1, <3>1, <3>2
  <2>12. \A j \in b .. Len(d.active) : \A x \in VarsOf(d, {d.active[j]}) :
           FnIndex(d) <= VarAt(d, x).index /\ VarAt(d, x).index <= d.lv[d.active[j]]
    <3> SUFFICES ASSUME NEW j \in b .. Len(d.active), NEW x \in VarsOf(d, {d.active[j]})
                 PROVE  FnIndex(d) <= VarAt(d, x).index
                        /\ VarAt(d, x).index <= d.lv[d.active[j]]
      OBVIOUS
    <3>1. j \in b .. Len(c.active) BY <2>1
    <3>2. x \in VarsOf(c, {c.active[j]}) BY <2>2, <2>4, <3>1
    <3>3. FnIndex(c) <= VarAt(c, x).index /\ VarAt(c, x).index <= c.lv[c.active[j]]
      BY <1>0, <3>1, <3>2 DEF Numbered
    <3> QED BY <1>9, <2>3, <2>4, <3>1, <3>3
  <2>13. ASSUME NEW i \in b .. Len(d.active), NEW j \in b .. Len(d.active), i < j
         PROVE  /\ d.lv[d.active[i]] < d.lv[d.active[j]]
                /\ \A x \in VarsOf(d, {d.active[j]}) : d.lv[d.active[i]] < VarAt(d, x).index
    <3>1. i \in b .. Len(c.active) BY <1>4, <1>6, <2>13
    <3>2. CASE j \in b .. Len(c.active)
      <4>1. /\ c.lv[c.active[i]] < c.lv[c.active[j]]
            /\ \A x \in VarsOf(c, {c.active[j]}) : c.lv[c.active[i]] < VarAt(c, x).index
        BY <1>0, <2>13, <3>1, <3>2 DEF Numbered
      <4> QED BY <2>2, <2>3, <2>4, <3>1, <3>2, <4>1
    <3>3. CASE j = Len(c.active) + 1 /\ VarsOf(d, {d.active[j]}) = {}
      <4>1. c.lv[c.active[i]] < c.lv[NS(c)] + 1 BY <1>4, <2>4, <2>5, <3>1, SMTT(30)
      <4> QED BY <1>6, <1>9, <2>4, <3>1, <3>3, <4>1
    <3> QED BY <2>1, <3>2, <3>3
  <2> QED BY <1>4, <2>6, <2>7, <2>11, <2>12, <2>13 DEF Numbered
<1>11. InBody(d, b)
  <2>1. \A m \in Nodes : m >= d.fresh => d.vars[m] = <<>>
    <3> SUFFICES ASSUME NEW m \in Nodes, m >= d.fresh PROVE d.vars[m] = <<>> OBVIOUS
    <3>1. m >= c.fresh BY <1>4, <1>7 DEF Nodes
    <3> QED BY <1>7, <3>1 DEF InBody
  <2> QED BY <1>5, <1>7, <1>10, <2>1 DEF InBody
<1>12. Moves(c, d)
  <2>1. \A m \in Nodes : m < c.fresh => d.lv[m] = c.lv[m] BY <1>4, <1>7
  <2>2. \A m \in Nodes : Begins(c.vars[m], d.vars[m]) BY <1>4, <1>7 DEF Begins
  <2>3. \A m \in Nodes : \A k \in Len(c.vars[m]) + 1 .. Len(d.vars[m]) : FALSE
    BY <1>4, <1>7
  <2>4. \A j \in 1 .. Len(d.active) :
          d.active[j] >= c.fresh \/ (j <= Len(c.active) /\ d.active[j] = c.active[j])
    <3> SUFFICES ASSUME NEW j \in 1 .. Len(d.active)
                 PROVE  d.active[j] >= c.fresh
                        \/ (j <= Len(c.active) /\ d.active[j] = c.active[j])
      OBVIOUS
    <3>1. j \in 1 .. Len(c.active) \/ j = Len(c.active) + 1 BY <1>4, <1>6
    <3> QED BY <1>4, <1>6, <3>1
  <2>5. d.active[2] = c.active[2]
    <3>1. 2 \in 1 .. Len(c.active) BY <1>4
    <3> QED BY <1>6, <3>1
  <2>6. \A m \in Nodes : c.lv[m] \in Nat BY <1>4
  <2> QED BY <1>4, <1>7, <2>1, <2>2, <2>3, <2>4, <2>5, <2>6 DEF Moves
<1>13. LocalsTo(d, Len(d.active)) = LocalsTo(c, Len(c.active))
  <2>1. ASSUME NEW x \in LocalsTo(d, Len(d.active)) PROVE x \in LocalsTo(c, Len(c.active))
    <3>1. x = <<x[1], x[2]>> /\ x[1] \in {d.active[j] : j \in 1 .. Len(d.active)}
          /\ x[2] \in 1 .. Len(d.vars[x[1]])
      BY VarsOfIn DEF LocalsTo
    <3>2. PICK j \in 1 .. Len(d.active) : x[1] = d.active[j] BY <3>1
    <3>3. j # Len(c.active) + 1 BY <1>6, <1>7, <1>8, <3>1, <3>2
    <3>4. j \in 1 .. Len(c.active) BY <1>4, <1>6, <3>3
    <3>5. x[1] \in {c.active[i] : i \in 1 .. Len(c.active)} BY <1>6, <3>2, <3>4
    <3>6. <<x[1], x[2]>> \in LocalsTo(c, Len(c.active)) BY <1>7, <3>1, <3>5, VarsOfIn DEF LocalsTo
    <3> QED BY <3>1, <3>6
  <2>2. ASSUME NEW x \in LocalsTo(c, Len(c.active)) PROVE x \in LocalsTo(d, Len(d.active))
    <3>1. x = <<x[1], x[2]>> /\ x[1] \in {c.active[j] : j \in 1 .. Len(c.active)}
          /\ x[2] \in 1 .. Len(c.vars[x[1]])
      BY VarsOfIn DEF LocalsTo
    <3>2. PICK j \in 1 .. Len(c.active) : x[1] = c.active[j] BY <3>1
    <3>3. j \in 1 .. Len(d.active) /\ d.active[j] = x[1] BY <1>4, <1>6, <3>2
    <3>4. x[1] \in {d.active[i] : i \in 1 .. Len(d.active)} BY <3>3
    <3>5. <<x[1], x[2]>> \in LocalsTo(d, Len(d.active)) BY <1>7, <3>1, <3>4, VarsOfIn DEF LocalsTo
    <3> QED BY <3>1, <3>5
  <2> QED BY <2>1, <2>2
<1> QED BY <1>5, <1>6, <1>7, <1>11, <1>12, <1>13 DEF SameVars

LEMMA CountedUp ==
  ASSUME NEW f \in [Nodes -> Nat], NEW n \in Nodes, NEW g, g = [f EXCEPT ![n] = @ + 1]
  PROVE  /\ g[n] = f[n] + 1 /\ \A m \in Nodes : m # n => g[m] = f[m]
         /\ \A m \in Nodes : g[m] \in Nat /\ f[m] <= g[m]
         /\ g \in [Nodes -> Nat]
<1>1. g[n] = f[n] + 1 /\ \A m \in Nodes : m # n => g[m] = f[m] OBVIOUS
<1>2. \A m \in Nodes : f[m] \in Nat OBVIOUS
<1>3. \A m \in Nodes : g[m] \in Nat /\ f[m] <= g[m] BY <1>1, <1>2
<1> QED BY <1>1, <1>3

LEMMA CloseBody ==
  ASSUME NEW c, NEW b, InBody(c, b), b < Len(c.active),
         NEW d, \/ d = DeactivateAnonymousNamespace(c)
                \/ d = DeactivateNamespace(c, c.name[NS(c)])
  PROVE  /\ d = DeactivateAnonymousNamespace(c)
         /\ InBody(d, b) /\ Moves(c, d) /\ SameVars(c, d)
         /\ d.fresh = c.fresh /\ Len(d.active) = Len(c.active) - 1
         /\ \A j \in 1 .. Len(d.active) : d.active[j] = c.active[j]
         /\ d.vars = c.vars
         /\ LocalsTo(d, Len(d.active)) =
              LocalsTo(c, Len(c.active)) \ VarsOf(c, {NS(c)})
<1>0. WF(c) /\ NamesBelow(c) /\ Tree(c) /\ Numbered(c, b) /\ c.used = c.active
  BY DEF InBody
<1>1. d = [c EXCEPT !.active = Pop(@), !.used = Pop(@)]
  BY <1>0 DEF DeactivateNamespace, DeactivateAnonymousNamespace, NS
<1>2. /\ c.active \in Seq(Nodes) /\ Len(c.active) \in Nat /\ b \in Nat /\ 2 <= b
      /\ NS(c) = c.active[Len(c.active)] /\ c \in ContextType
      /\ \A j \in 1 .. Len(c.active) : c.active[j] \in Nodes
      /\ \A i, j \in 1 .. Len(c.active) : i < j => c.active[i] < c.active[j]
      /\ \A m \in Nodes : Len(c.vars[m]) \in Nat /\ c.lv[m] \in Nat
      /\ c.fresh \in Nat
  BY BodyParts
<1>3. /\ d.live = c.live /\ d.fresh = c.fresh /\ d.name = c.name /\ d.parent = c.parent
      /\ d.lv = c.lv /\ d.vars = c.vars /\ d.scopes = c.scopes /\ d.fnindex = c.fnindex
      /\ d.anon = c.anon /\ d.lv_index = c.lv_index
      /\ d.active = Pop(c.active) /\ d.used = Pop(c.used)
  BY <1>1, <1>2 DEF ContextType
<1>4. /\ Len(d.active) = Len(c.active) - 1 /\ d.used = d.active
      /\ \A j \in 1 .. Len(c.active) - 1 : d.active[j] = c.active[j]
  <2>1. c.active # <<>> BY <1>2
  <2> QED BY <1>0, <1>2, <1>3, <2>1, PopType, ZenonT(30)
<1>5. WF(d)
  <2>1. Len(c.active) > 1 /\ Len(c.used) > 1 BY <1>0, <1>2
  <2>2. Left(c, d) BY <1>0, <1>1, <2>1, PopBothLeaves
  <2> QED BY <2>2 DEF Left, Grows
<1>6. Tree(d)
  <2>1. d.active = Pop(c.active) /\ Len(c.active) > 1 BY <1>2, <1>3
  <2>2. Adds(c, d) BY <1>0, <1>3, <1>5, <2>1, RestAdds
  <2> QED BY <2>2 DEF Adds
<1>7. NamesBelow(d) BY <1>0, <1>3 DEF NamesBelow
<1>8. /\ \A N : VarsOf(d, N) = VarsOf(c, N)
      /\ \A x : VarAt(d, x) = VarAt(c, x)
      /\ FnIndex(d) = FnIndex(c)
  BY <1>3 DEF VarsOf, VarAt, FnIndex, CurrentFn
<1>9. Numbered(d, b)
  <2>1. b <= Len(d.active) BY <1>2, <1>4
  <2>2. \A j \in 1 .. b - 1 : j \in 1 .. Len(c.active) - 1 BY <1>2
  <2>3. \A j \in b .. Len(d.active) : j \in b .. Len(c.active) /\ j \in 1 .. Len(c.active) - 1
    BY <1>2, <1>4
  <2>4. \A j \in 1 .. b - 1 : d.vars[d.active[j]] = <<>> /\ d.lv[d.active[j]] <= FnIndex(d)
    BY <1>0, <1>3, <1>4, <1>8, <2>2 DEF Numbered
  <2>5. \A j \in b .. Len(d.active) : FnIndex(d) <= d.lv[d.active[j]]
    BY <1>0, <1>3, <1>4, <1>8, <2>3 DEF Numbered
  <2>6. \A j \in b .. Len(d.active) : \A x \in VarsOf(d, {d.active[j]}) :
          FnIndex(d) <= VarAt(d, x).index /\ VarAt(d, x).index <= d.lv[d.active[j]]
    <3> SUFFICES ASSUME NEW j \in b .. Len(d.active), NEW x \in VarsOf(d, {d.active[j]})
                 PROVE  FnIndex(d) <= VarAt(d, x).index
                        /\ VarAt(d, x).index <= d.lv[d.active[j]]
      OBVIOUS
    <3>1. j \in b .. Len(c.active) /\ d.active[j] = c.active[j] BY <1>4, <2>3
    <3>2. x \in VarsOf(c, {c.active[j]}) BY <1>8, <3>1
    <3>3. FnIndex(c) <= VarAt(c, x).index /\ VarAt(c, x).index <= c.lv[c.active[j]]
      BY <1>0, <3>1, <3>2 DEF Numbered
    <3> QED BY <1>3, <1>8, <3>1, <3>3
  <2>7. ASSUME NEW i \in b .. Len(d.active), NEW j \in b .. Len(d.active), i < j
        PROVE  /\ d.lv[d.active[i]] < d.lv[d.active[j]]
               /\ \A x \in VarsOf(d, {d.active[j]}) : d.lv[d.active[i]] < VarAt(d, x).index
    <3>1. /\ i \in b .. Len(c.active) /\ d.active[i] = c.active[i]
          /\ j \in b .. Len(c.active) /\ d.active[j] = c.active[j]
      BY <1>4, <2>3
    <3>2. /\ c.lv[c.active[i]] < c.lv[c.active[j]]
          /\ \A x \in VarsOf(c, {c.active[j]}) : c.lv[c.active[i]] < VarAt(c, x).index
      BY <1>0, <2>7, <3>1 DEF Numbered
    <3> QED BY <1>3, <1>8, <3>1, <3>2
  <2>8. 1 <= FnIndex(d) BY <1>0, <1>8 DEF Numbered
  <2> QED BY <1>2, <2>1, <2>4, <2>5, <2>6, <2>7, <2>8 DEF Numbered
<1>10. InBody(d, b)
  <2>1. \A m \in Nodes : m >= d.fresh => d.vars[m] = <<>> BY <1>3 DEF InBody
  <2>2. d.scopes # <<>> BY <1>3 DEF InBody
  <2> QED BY <1>4, <1>5, <1>6, <1>7, <1>9, <2>1, <2>2 DEF InBody
<1>11. Moves(c, d)
  <2>1. \A m \in Nodes : /\ Begins(c.vars[m], d.vars[m]) /\ c.lv[m] <= d.lv[m]
                         /\ \A k \in Len(c.vars[m]) + 1 .. Len(d.vars[m]) : FALSE
    BY <1>2, <1>3 DEF Begins
  <2>2. \A j \in 1 .. Len(d.active) : j <= Len(c.active) /\ d.active[j] = c.active[j]
    BY <1>2, <1>4
  <2>3. d.active[2] = c.active[2]
    <3>1. 2 \in 1 .. Len(c.active) - 1 BY <1>2
    <3> QED BY <1>4, <3>1
  <2> QED BY <1>2, <1>3, <2>1, <2>2, <2>3 DEF Moves
<1>12. LocalsTo(d, Len(d.active)) = LocalsTo(c, Len(c.active)) \ VarsOf(c, {NS(c)})
  <2>1. {d.active[j] : j \in 1 .. Len(d.active)} =
          {c.active[j] : j \in 1 .. Len(c.active)} \ {NS(c)}
    <3>1. ASSUME NEW j \in 1 .. Len(d.active)
          PROVE  d.active[j] \in {c.active[i] : i \in 1 .. Len(c.active)} \ {NS(c)}
      <4>1. j \in 1 .. Len(c.active) /\ j < Len(c.active) /\ d.active[j] = c.active[j]
            /\ Len(c.active) \in 1 .. Len(c.active)
        BY <1>2, <1>4
      <4>2. c.active[j] < c.active[Len(c.active)] BY <1>2, <4>1
      <4>3. c.active[j] # NS(c)
        <5>1. c.active[j] \in Nat /\ NS(c) \in Nat BY <1>2, <4>1 DEF Nodes
        <5> QED BY <1>2, <4>2, <5>1
      <4> QED BY <4>1, <4>3
    <3>2. ASSUME NEW j \in 1 .. Len(c.active), c.active[j] # NS(c)
          PROVE  c.active[j] \in {d.active[i] : i \in 1 .. Len(d.active)}
      <4>1. j \in 1 .. Len(d.active) BY <1>2, <1>4, <3>2
      <4>2. d.active[j] = c.active[j] BY <1>4, <4>1
      <4> QED BY <4>1, <4>2
    <3> QED BY <3>1, <3>2
  <2>2. \A N, M : VarsOf(c, N \ M) = VarsOf(c, N) \ VarsOf(c, M) BY DEF VarsOf
  <2>3. LocalsTo(d, Len(d.active)) =
          VarsOf(c, {c.active[j] : j \in 1 .. Len(c.active)} \ {NS(c)})
    BY <1>8, <2>1 DEF LocalsTo
  <2> QED BY <2>2, <2>3 DEF LocalsTo
<1>13. d = DeactivateAnonymousNamespace(c) BY <1>1 DEF DeactivateAnonymousNamespace
<1> QED BY <1>3, <1>4, <1>10, <1>11, <1>12, <1>13 DEF SameVars

(* A label takes the next index of its namespace.                          *)
LEMMA LabelBody ==
  ASSUME NEW c, NEW b, InBody(c, b), NEW d, d = [c EXCEPT !.lv[NS(c)] = @ + 1]
  PROVE  /\ InBody(d, b) /\ Moves(c, d) /\ SameVars(c, d)
         /\ d.active = c.active /\ d.fresh = c.fresh /\ d.vars = c.vars
         /\ d.live = c.live /\ d.parent = c.parent
         /\ d.lv[NS(c)] = c.lv[NS(c)] + 1
<1>0. WF(c) /\ NamesBelow(c) /\ Tree(c) /\ Numbered(c, b) /\ c.used = c.active
  BY DEF InBody
<1>1. /\ c.active \in Seq(Nodes) /\ Len(c.active) \in Nat /\ b \in Nat /\ 2 <= b
      /\ b <= Len(c.active)
      /\ NS(c) = c.active[Len(c.active)] /\ NS(c) \in Nodes /\ c \in ContextType
      /\ c.lv \in [Nodes -> Nat]
      /\ \A j \in 1 .. Len(c.active) : c.active[j] \in Nodes
      /\ \A i, j \in 1 .. Len(c.active) : i < j => c.active[i] < c.active[j]
      /\ \A m \in Nodes : Len(c.vars[m]) \in Nat /\ c.lv[m] \in Nat
      /\ c.fresh \in Nat /\ FnIndex(c) \in Nat
  BY BodyParts
<1>2. /\ d.live = c.live /\ d.fresh = c.fresh /\ d.name = c.name /\ d.parent = c.parent
      /\ d.vars = c.vars /\ d.scopes = c.scopes /\ d.fnindex = c.fnindex
      /\ d.anon = c.anon /\ d.active = c.active /\ d.used = c.used
      /\ d.lv = [c.lv EXCEPT ![NS(c)] = @ + 1] /\ d.nextfn = c.nextfn /\ d.errors = c.errors
  BY <1>1 DEF ContextType
<1>3. /\ d.lv[NS(c)] = c.lv[NS(c)] + 1
      /\ \A m \in Nodes : m # NS(c) => d.lv[m] = c.lv[m]
      /\ \A m \in Nodes : d.lv[m] \in Nat /\ c.lv[m] <= d.lv[m]
      /\ d.lv \in [Nodes -> Nat]
  <2>1. c.lv \in [Nodes -> Nat] /\ NS(c) \in Nodes /\ d.lv = [c.lv EXCEPT ![NS(c)] = @ + 1]
    BY <1>1, <1>2
  <2> QED BY <2>1, CountedUp
<1>4. WF(d)
  <2>1. d \in ContextType BY <1>1, <1>2, <1>3 DEF ContextType
  <2> QED BY <1>0, <1>2, <2>1 DEF WF, StackNodes
<1>5. Tree(d)
  <2>1. Sloped(d) BY <1>0, <1>2 DEF Tree, Sloped
  <2>2. StackIsPath(d) BY <1>0, <1>2 DEF Tree, StackIsPath
  <2> QED BY <2>1, <2>2 DEF Tree
<1>6. NamesBelow(d) BY <1>0, <1>2 DEF NamesBelow
<1>7. /\ \A N : VarsOf(d, N) = VarsOf(c, N)
      /\ \A x : VarAt(d, x) = VarAt(c, x)
      /\ FnIndex(d) = FnIndex(c)
  BY <1>2 DEF VarsOf, VarAt, FnIndex, CurrentFn
<1>8. Numbered(d, b)
  <2>1. ASSUME NEW j \in 1 .. b - 1
        PROVE  d.vars[d.active[j]] = <<>> /\ d.lv[d.active[j]] <= FnIndex(d)
    <3>1. j \in 1 .. Len(c.active) /\ j < Len(c.active) /\ Len(c.active) \in 1 .. Len(c.active)
      <4>1. b \in Nat /\ Len(c.active) \in Nat /\ b <= Len(c.active) /\ 2 <= b
        BY <1>1
      <4>2. j \in 1 .. b - 1
        OBVIOUS
      <4> QED  BY ONLY <4>1, <4>2
    <3>2. c.active[j] < NS(c) /\ c.active[j] \in Nodes BY <1>1, <3>1
    <3>3. d.lv[c.active[j]] = c.lv[c.active[j]] BY <1>1, <1>3, <3>2 DEF Nodes
    <3> QED BY <1>0, <1>2, <1>7, <3>3 DEF Numbered
  <2>2. \A j \in b .. Len(d.active) : c.active[j] \in Nodes BY <1>1, <1>2
  <2>3. \A j \in b .. Len(d.active) : FnIndex(d) <= d.lv[d.active[j]]
    <3> SUFFICES ASSUME NEW j \in b .. Len(d.active) PROVE FnIndex(d) <= d.lv[d.active[j]]
      OBVIOUS
    <3>1. FnIndex(c) <= c.lv[c.active[j]] BY <1>0, <1>2 DEF Numbered
    <3>2. c.lv[c.active[j]] <= d.lv[c.active[j]] /\ c.lv[c.active[j]] \in Nat
          /\ d.lv[c.active[j]] \in Nat
      BY <1>1, <1>3, <2>2
    <3> QED BY <1>1, <1>2, <1>7, <3>1, <3>2, SMTT(30)
  <2>4. \A j \in b .. Len(d.active) : \A x \in VarsOf(d, {d.active[j]}) :
          FnIndex(d) <= VarAt(d, x).index /\ VarAt(d, x).index <= d.lv[d.active[j]]
    <3> SUFFICES ASSUME NEW j \in b .. Len(d.active), NEW x \in VarsOf(d, {d.active[j]})
                 PROVE  FnIndex(d) <= VarAt(d, x).index
                        /\ VarAt(d, x).index <= d.lv[d.active[j]]
      OBVIOUS
    <3>1. x \in VarsOf(c, {c.active[j]}) BY <1>2, <1>7
    <3>2. FnIndex(c) <= VarAt(c, x).index /\ VarAt(c, x).index <= c.lv[c.active[j]]
      BY <1>0, <1>2, <3>1 DEF Numbered
    <3>3. VarAt(c, x).index \in Nat
      <4>1. x[1] \in Nodes /\ x[2] \in 1 .. Len(c.vars[x[1]]) BY <2>2, <3>1, VarsOfIn
      <4> QED BY <4>1, BodyParts DEF VarAt
    <3>4. c.lv[c.active[j]] <= d.lv[c.active[j]] /\ c.lv[c.active[j]] \in Nat
          /\ d.lv[c.active[j]] \in Nat
      BY <1>1, <1>3, <2>2
    <3> QED BY <1>2, <1>7, <3>2, <3>3, <3>4
  <2>5. ASSUME NEW i \in b .. Len(d.active), NEW j \in b .. Len(d.active), i < j
        PROVE  /\ d.lv[d.active[i]] < d.lv[d.active[j]]
               /\ \A x \in VarsOf(d, {d.active[j]}) : d.lv[d.active[i]] < VarAt(d, x).index
    <3>1. /\ c.lv[c.active[i]] < c.lv[c.active[j]]
          /\ \A x \in VarsOf(c, {c.active[j]}) : c.lv[c.active[i]] < VarAt(c, x).index
      BY <1>0, <1>2, <2>5 DEF Numbered
    <3>2. c.active[i] # NS(c)
      <4>1. i \in 1 .. Len(c.active) /\ i < Len(c.active) /\ Len(c.active) \in 1 .. Len(c.active)
        BY <1>1, <1>2, <2>5, SMTT(30)
      <4>2. c.active[i] < NS(c) /\ c.active[i] \in Nodes BY <1>1, <4>1
      <4> QED BY <1>1, <4>2 DEF Nodes
    <3>3. d.lv[c.active[i]] = c.lv[c.active[i]] BY <1>3, <2>2, <3>2
    <3>4. c.lv[c.active[j]] <= d.lv[c.active[j]] /\ c.lv[c.active[j]] \in Nat
          /\ d.lv[c.active[j]] \in Nat /\ c.lv[c.active[i]] \in Nat
      BY <1>1, <1>3, <2>2
    <3>5. d.lv[c.active[i]] < d.lv[c.active[j]] BY <3>1, <3>3, <3>4
    <3>6. \A x \in VarsOf(d, {c.active[j]}) : d.lv[c.active[i]] < VarAt(d, x).index
      BY <1>7, <3>1, <3>3
    <3> QED BY <1>2, <3>5, <3>6
  <2>6. 1 <= FnIndex(d) BY <1>0, <1>7 DEF Numbered
  <2> QED BY <1>1, <1>2, <2>1, <2>3, <2>4, <2>5, <2>6 DEF Numbered
<1>9. InBody(d, b)
  <2>1. \A m \in Nodes : m >= d.fresh => d.vars[m] = <<>> BY <1>2 DEF InBody
  <2>2. d.scopes # <<>> BY <1>2 DEF InBody
  <2> QED BY <1>0, <1>2, <1>4, <1>5, <1>6, <1>8, <2>1, <2>2 DEF InBody
<1>10. Moves(c, d)
  <2>1. \A m \in Nodes : /\ Begins(c.vars[m], d.vars[m])
                         /\ \A k \in Len(c.vars[m]) + 1 .. Len(d.vars[m]) : FALSE
    BY <1>1, <1>2, SMTT(30) DEF Begins
  <2> QED BY <1>1, <1>2, <1>3, <2>1 DEF Moves
<1> QED BY <1>2, <1>3, <1>9, <1>10 DEF SameVars

LEMMA DefineBody ==
  ASSUME NEW c, NEW b, InBody(c, b), NEW nm \in VarNames \ NamesOf(c.vars[NS(c)]),
         NEW d, d = AddVariable(c, nm),
         NEW x, x = <<NS(c), Len(c.vars[NS(c)]) + 1>>
  PROVE  /\ InBody(d, b) /\ Moves(c, d)
         /\ d.active = c.active /\ d.fresh = c.fresh
         /\ \A m \in Nodes : m # NS(c) => d.vars[m] = c.vars[m]
         /\ x \notin LocalsTo(c, Len(c.active))
         /\ LocalsTo(d, Len(d.active)) = LocalsTo(c, Len(c.active)) \cup {x}
<1>0. WF(c) /\ NamesBelow(c) /\ Tree(c) /\ Numbered(c, b) /\ c.used = c.active
  BY DEF InBody
<1>1. /\ c.active \in Seq(Nodes) /\ Len(c.active) \in Nat /\ b \in Nat /\ 2 <= b
      /\ b <= Len(c.active)
      /\ NS(c) = c.active[Len(c.active)] /\ NS(c) \in Nodes /\ c \in ContextType
      /\ c.lv \in [Nodes -> Nat] /\ c.vars \in [Nodes -> Seq(Variable)]
      /\ \A j \in 1 .. Len(c.active) : c.active[j] \in Nodes
      /\ \A i, j \in 1 .. Len(c.active) : i < j => c.active[i] < c.active[j]
      /\ \A m \in Nodes : Len(c.vars[m]) \in Nat /\ c.lv[m] \in Nat
      /\ c.fresh \in Nat /\ FnIndex(c) \in Nat /\ NS(c) < c.fresh
  BY BodyParts
<1> DEFINE v == [name |-> nm, fn |-> CurrentFn(c), index |-> c.lv[NS(c)] + 1]
           n == NS(c)
<1>2. d = [c EXCEPT !.lv[NS(c)] = @ + 1, !.vars[NS(c)] = Append(@, v)]
  BY DEF AddVariable
<1>3. /\ d.live = c.live /\ d.fresh = c.fresh /\ d.name = c.name /\ d.parent = c.parent
      /\ d.scopes = c.scopes /\ d.fnindex = c.fnindex
      /\ d.anon = c.anon /\ d.active = c.active /\ d.used = c.used
      /\ d.lv = [c.lv EXCEPT ![n] = @ + 1]
      /\ d.vars = [c.vars EXCEPT ![n] = Append(@, v)]
  BY <1>1, <1>2 DEF ContextType
<1>4. /\ d.lv[n] = c.lv[n] + 1
      /\ \A m \in Nodes : m # n => d.lv[m] = c.lv[m]
      /\ \A m \in Nodes : d.lv[m] \in Nat /\ c.lv[m] <= d.lv[m]
  BY <1>1, <1>3, CountedUp, SMTT(30)
<1>5. /\ \A m \in Nodes : m # n => d.vars[m] = c.vars[m]
      /\ d.vars[n] = Append(c.vars[n], v)
  BY <1>1, <1>3
<1>6. /\ Len(d.vars[n]) = Len(c.vars[n]) + 1 /\ d.vars[n][Len(c.vars[n]) + 1] = v
      /\ \A k \in 1 .. Len(c.vars[n]) : d.vars[n][k] = c.vars[n][k]
  <2>1. c.vars[n] \in Seq(Variable) /\ Len(c.vars[n]) \in Nat BY <1>1
  <2> QED BY <1>5, <2>1
<1>7. \A m \in Nodes : Begins(c.vars[m], d.vars[m])
  <2> HIDE DEF v, n
  <2>0. n \in Nodes /\ \A m \in Nodes : Len(c.vars[m]) \in Nat BY <1>1 DEF n
  <2>1. \A m \in Nodes : m # n => Begins(c.vars[m], d.vars[m]) BY <2>0, <1>5 DEF Begins
  <2>2. Begins(c.vars[n], d.vars[n]) BY <2>0, <1>6 DEF Begins
  <2> QED BY <2>1, <2>2
<1>8. WF(d) /\ Tree(d)
  <2>1. SameStacks(c, d) BY <1>0, AddVariableKeeps
  <2>2. Adds(c, d) BY <1>0, AddVariableAdds
  <2> QED BY <2>1, <2>2 DEF SameStacks, Grows, Adds
<1>9. NamesBelow(d) BY <1>0, <1>3 DEF NamesBelow
<1>10. FnIndex(d) = FnIndex(c) BY <1>3 DEF FnIndex, CurrentFn
<1>11. \A m \in Nodes : \A y \in VarsOf(d, {m}) :
         \/ y \in VarsOf(c, {m}) /\ VarAt(d, y) = VarAt(c, y)
         \/ m = n /\ y = x /\ VarAt(d, y) = v
  <2> SUFFICES ASSUME NEW m \in Nodes, NEW y \in VarsOf(d, {m})
               PROVE  \/ y \in VarsOf(c, {m}) /\ VarAt(d, y) = VarAt(c, y)
                      \/ m = n /\ y = x /\ VarAt(d, y) = v
    OBVIOUS
  <2>1. y = <<y[1], y[2]>> /\ y[1] = m /\ y[2] \in 1 .. Len(d.vars[m]) BY VarsOfIn
  <2>2. CASE y[2] \in 1 .. Len(c.vars[m])
    <3>1. <<m, y[2]>> \in VarsOf(c, {m}) BY <2>2, VarsOfIn
    <3>2. d.vars[m][y[2]] = c.vars[m][y[2]] BY <1>7, <2>2 DEF Begins
    <3> QED BY <2>1, <3>1, <3>2 DEF VarAt
  <2>3. CASE y[2] \notin 1 .. Len(c.vars[m])
    <3>1. m = n BY <1>5, <2>1, <2>3
    <3>2. y[2] = Len(c.vars[n]) + 1
      <4>1. Len(c.vars[n]) \in Nat BY <1>1
      <4> HIDE DEF v, n
      <4> QED BY <1>6, <2>1, <2>3, <3>1, <4>1
    <3> QED BY <1>6, <2>1, <3>1, <3>2 DEF VarAt
  <2> QED BY <2>2, <2>3
<1>12. Numbered(d, b)
  <2>1. ASSUME NEW j \in 1 .. b - 1
        PROVE  d.vars[d.active[j]] = <<>> /\ d.lv[d.active[j]] <= FnIndex(d)
    <3>1. j \in 1 .. Len(c.active) /\ j < Len(c.active) /\ Len(c.active) \in 1 .. Len(c.active)
      <4>1. b \in Nat /\ Len(c.active) \in Nat /\ b <= Len(c.active) /\ 2 <= b
        BY <1>1
      <4>2. j \in 1 .. b - 1
        OBVIOUS
      <4> QED  BY ONLY <4>1, <4>2
    <3>2. c.active[j] < n /\ c.active[j] \in Nodes BY <1>1, <3>1
    <3>3. c.active[j] # n BY <1>1, <3>2 DEF Nodes
    <3>4. c.vars[c.active[j]] = <<>> /\ c.lv[c.active[j]] <= FnIndex(c) BY <1>0 DEF Numbered
    <3>5. d.lv[c.active[j]] = c.lv[c.active[j]] BY <1>4, <3>2, <3>3
    <3>6. d.active[j] = c.active[j] BY <1>3
    <3> HIDE DEF v, n
    <3> QED BY <1>5, <1>10, <3>2, <3>3, <3>4, <3>5, <3>6
  <2>2. \A j \in b .. Len(d.active) : c.active[j] \in Nodes BY <1>1, <1>3
  <2>3. \A j \in b .. Len(d.active) : FnIndex(d) <= d.lv[d.active[j]]
    <3> SUFFICES ASSUME NEW j \in b .. Len(d.active) PROVE FnIndex(d) <= d.lv[d.active[j]]
      OBVIOUS
    <3>1. FnIndex(c) <= c.lv[c.active[j]] BY <1>0, <1>3 DEF Numbered
    <3>2. c.lv[c.active[j]] <= d.lv[c.active[j]] /\ c.lv[c.active[j]] \in Nat
          /\ d.lv[c.active[j]] \in Nat
      BY <1>1, <1>4, <2>2
    <3>3. d.active = c.active /\ FnIndex(c) \in Nat BY <1>1, <1>3
    <3> HIDE DEF v, n
    <3> QED BY <1>10, <3>1, <3>2, <3>3
  <2>4. \A j \in b .. Len(d.active) : \A y \in VarsOf(d, {d.active[j]}) :
          FnIndex(d) <= VarAt(d, y).index /\ VarAt(d, y).index <= d.lv[d.active[j]]
    <3> SUFFICES ASSUME NEW j \in b .. Len(d.active), NEW y \in VarsOf(d, {d.active[j]})
                 PROVE  FnIndex(d) <= VarAt(d, y).index
                        /\ VarAt(d, y).index <= d.lv[d.active[j]]
      OBVIOUS
    <3>0. c.lv[c.active[j]] <= d.lv[c.active[j]] /\ c.lv[c.active[j]] \in Nat
          /\ d.lv[c.active[j]] \in Nat
      BY <1>1, <1>4, <2>2
    <3>1. CASE y \in VarsOf(c, {c.active[j]}) /\ VarAt(d, y) = VarAt(c, y)
      <4>1. FnIndex(c) <= VarAt(c, y).index /\ VarAt(c, y).index <= c.lv[c.active[j]]
        BY <1>0, <1>3, <3>1 DEF Numbered
      <4>2. VarAt(c, y).index \in Nat
        <5>1. y[1] \in Nodes /\ y[2] \in 1 .. Len(c.vars[y[1]]) BY <2>2, <3>1, VarsOfIn
        <5> QED BY <5>1, BodyParts DEF VarAt
      <4> QED BY <1>3, <1>10, <3>0, <3>1, <4>1, <4>2
    <3>2. CASE c.active[j] = n /\ VarAt(d, y) = v
      <4>1. VarAt(d, y).index = c.lv[n] + 1 BY <3>2
      <4>2. FnIndex(c) <= c.lv[n] BY <1>0, <1>3, <3>2 DEF Numbered
      <4> QED BY <1>1, <1>3, <1>4, <1>10, <3>2, <4>1, <4>2, SMTT(30)
    <3> QED BY <1>3, <1>11, <2>2, <3>1, <3>2
  <2>5. ASSUME NEW i \in b .. Len(d.active), NEW j \in b .. Len(d.active), i < j
        PROVE  /\ d.lv[d.active[i]] < d.lv[d.active[j]]
               /\ \A y \in VarsOf(d, {d.active[j]}) : d.lv[d.active[i]] < VarAt(d, y).index
    <3>1. /\ c.lv[c.active[i]] < c.lv[c.active[j]]
          /\ \A y \in VarsOf(c, {c.active[j]}) : c.lv[c.active[i]] < VarAt(c, y).index
      BY <1>0, <1>3, <2>5 DEF Numbered
    <3>2. c.active[i] # n
      <4>1. i \in 1 .. Len(c.active) /\ i < Len(c.active) /\ Len(c.active) \in 1 .. Len(c.active)
        <5>1. d.active = c.active /\ Len(c.active) \in Nat /\ b \in Nat /\ 2 <= b BY <1>1, <1>3
        <5> HIDE DEF v, n
        <5> QED BY <2>5, <5>1
      <4>2. c.active[i] < n /\ c.active[i] \in Nodes BY <1>1, <4>1
      <4> QED BY <1>1, <4>2 DEF Nodes
    <3>3. d.lv[c.active[i]] = c.lv[c.active[i]] BY <1>4, <2>2, <3>2
    <3>4. c.lv[c.active[j]] <= d.lv[c.active[j]] /\ c.lv[c.active[j]] \in Nat
          /\ d.lv[c.active[j]] \in Nat /\ c.lv[c.active[i]] \in Nat
      BY <1>1, <1>4, <2>2
    <3>5. d.lv[d.active[i]] < d.lv[d.active[j]] BY <1>3, <3>1, <3>3, <3>4
    <3>6. ASSUME NEW y \in VarsOf(d, {d.active[j]})
          PROVE  d.lv[d.active[i]] < VarAt(d, y).index
      <4>1. CASE y \in VarsOf(c, {c.active[j]}) /\ VarAt(d, y) = VarAt(c, y)
        BY <1>3, <3>1, <3>3, <4>1
      <4>2. CASE c.active[j] = n /\ VarAt(d, y) = v
        <5>1. VarAt(d, y).index = c.lv[n] + 1 BY <4>2
        <5>2. c.lv[c.active[i]] < c.lv[n] /\ c.lv[n] \in Nat BY <1>1, <3>1, <4>2
        <5>3. d.active = c.active BY <1>3
        <5> HIDE DEF v, n
        <5> QED BY <3>3, <3>4, <5>1, <5>2, <5>3
      <4> QED BY <1>3, <1>11, <2>2, <4>1, <4>2
    <3> QED BY <3>5, <3>6
  <2>6. 1 <= FnIndex(d) BY <1>0, <1>10 DEF Numbered
  <2> HIDE DEF v, n
  <2> QED BY <1>1, <1>3, <2>1, <2>3, <2>4, <2>5, <2>6 DEF Numbered
<1>13. InBody(d, b)
  <2>1. \A m \in Nodes : m >= d.fresh => d.vars[m] = <<>>
    <3> SUFFICES ASSUME NEW m \in Nodes, m >= d.fresh PROVE d.vars[m] = <<>> OBVIOUS
    <3>1. m # n BY <1>1, <1>3 DEF Nodes
    <3> QED BY <1>3, <1>5, <3>1 DEF InBody
  <2>2. d.scopes # <<>> BY <1>3 DEF InBody
  <2> QED BY <1>0, <1>3, <1>8, <1>9, <1>12, <2>1, <2>2 DEF InBody
<1>14. Moves(c, d)
  <2>1. ASSUME NEW m \in Nodes, NEW k \in Len(c.vars[m]) + 1 .. Len(d.vars[m])
        PROVE  m = n /\ c.lv[m] < d.vars[m][k].index
    <3>0. Len(c.vars[m]) \in Nat /\ Len(c.vars[n]) \in Nat /\ c.lv[n] \in Nat BY <1>1
    <3>1. m = n
      <4> HIDE DEF v, n
      <4> QED BY <1>5, <3>0
    <3>2. k = Len(c.vars[n]) + 1
      <4> HIDE DEF v, n
      <4> QED BY <1>6, <3>0, <3>1
    <3>3. d.vars[m][k].index = c.lv[n] + 1 BY <1>6, <3>1, <3>2
    <3> HIDE DEF v, n
    <3> QED BY <3>0, <3>1, <3>3
  <2>2. /\ Len(c.active) \in Nat /\ Len(d.active) = Len(c.active) /\ d.active = c.active
        /\ c.fresh \in Nat
    BY <1>1, <1>3
  <2>3. /\ c.live \subseteq d.live /\ c.fresh <= d.fresh
        /\ d.scopes = c.scopes /\ d.fnindex = c.fnindex /\ d.parent = c.parent
    BY <1>3, <2>2
  <2> HIDE DEF v, n
  <2>4. n = NS(c) BY DEF n
  <2> QED BY <1>4, <1>7, <2>1, <2>2, <2>3, <2>4 DEF Moves
<1>15. x \notin LocalsTo(c, Len(c.active))
  <2>1. x[1] = n /\ x[2] = Len(c.vars[n]) + 1 OBVIOUS
  <2> QED BY <1>1, <2>1, VarsOfIn DEF LocalsTo
<1>16. LocalsTo(d, Len(d.active)) = LocalsTo(c, Len(c.active)) \cup {x}
  <2>0. d.active = c.active BY <1>3
  <2>1. ASSUME NEW y \in LocalsTo(d, Len(d.active))
        PROVE  y \in LocalsTo(c, Len(c.active)) \cup {x}
    <3>1. y = <<y[1], y[2]>> /\ y[1] \in {c.active[j] : j \in 1 .. Len(c.active)}
          /\ y[2] \in 1 .. Len(d.vars[y[1]])
      <4> HIDE DEF v, n
      <4> QED BY <2>0, VarsOfIn DEF LocalsTo
    <3>2. y[1] \in Nodes BY <1>1, <3>1
    <3>3. y \in VarsOf(d, {y[1]}) BY <3>1, VarsOfIn
    <3>4. y \in VarsOf(c, {y[1]}) \/ y = x BY <1>11, <3>2, <3>3
    <3>5. y \in VarsOf(c, {y[1]}) => y[2] \in 1 .. Len(c.vars[y[1]]) BY VarsOfIn
    <3>6. y[2] \in 1 .. Len(c.vars[y[1]]) => <<y[1], y[2]>> \in LocalsTo(c, Len(c.active))
      BY <3>1, VarsOfIn DEF LocalsTo
    <3> QED BY <3>1, <3>4, <3>5, <3>6
  <2>2. ASSUME NEW y \in LocalsTo(c, Len(c.active)) PROVE y \in LocalsTo(d, Len(d.active))
    <3>1. y = <<y[1], y[2]>> /\ y[1] \in {c.active[j] : j \in 1 .. Len(c.active)}
          /\ y[2] \in 1 .. Len(c.vars[y[1]])
      BY VarsOfIn DEF LocalsTo
    <3>2. y[1] \in Nodes BY <1>1, <3>1
    <3>3. y[2] \in 1 .. Len(d.vars[y[1]])
      <4>1. Len(c.vars[y[1]]) <= Len(d.vars[y[1]]) BY <1>7, <3>2 DEF Begins
      <4>2. Len(c.vars[y[1]]) \in Nat /\ Len(d.vars[y[1]]) \in Nat BY <1>13, <3>2, BodyParts
      <4> QED BY <3>1, <4>1, <4>2
    <3>4. <<y[1], y[2]>> \in LocalsTo(d, Len(d.active))
      <4> HIDE DEF v, n
      <4> QED BY <2>0, <3>1, <3>3, VarsOfIn DEF LocalsTo
    <3> QED BY <3>1, <3>4
  <2>3. x \in LocalsTo(d, Len(d.active))
    <3>1. n \in {c.active[j] : j \in 1 .. Len(c.active)}
      <4>1. Len(c.active) \in 1 .. Len(c.active) BY <1>1
      <4> QED BY <1>1, <4>1
    <3>2. Len(c.vars[n]) + 1 \in 1 .. Len(d.vars[n]) BY <1>1, <1>6
    <3> QED BY <1>3, <3>1, <3>2, VarsOfIn, SMTT(30) DEF LocalsTo
  <2> QED BY <2>1, <2>2, <2>3
<1> QED BY <1>3, <1>5, <1>13, <1>14, <1>15, <1>16

LEMMA LocalsStill ==
  ASSUME NEW c, NEW d, NEW b, InBody(c, b), InBody(d, b), SameVars(c, d),
         NEW k \in 0 .. Len(c.active), \A j \in 1 .. k : d.active[j] = c.active[j]
  PROVE  LocalsTo(d, k) = LocalsTo(c, k)
<1>1. \A j \in 1 .. k : /\ d.active[j] = c.active[j] /\ d.vars[c.active[j]] = c.vars[c.active[j]]
  <2> SUFFICES ASSUME NEW j \in 1 .. k
               PROVE  d.active[j] = c.active[j] /\ d.vars[c.active[j]] = c.vars[c.active[j]]
    OBVIOUS
  <2>1. j \in 1 .. Len(c.active) BY BodyParts
  <2>2. c.active[j] \in Nodes /\ c.active[j] < c.fresh BY <2>1, BodyParts
  <2> QED BY <2>2 DEF SameVars
<1>2. {d.active[j] : j \in 1 .. k} = {c.active[j] : j \in 1 .. k} BY <1>1
<1>3. \A n \in {c.active[j] : j \in 1 .. k} : d.vars[n] = c.vars[n] BY <1>1
<1> QED BY <1>2, <1>3 DEF LocalsTo, VarsOf

LEMMA RestoredBody ==
  ASSUME NEW s, NEW c, NEW b, InBody(s, b), InBody(c, b), Grew(s, c),
         Len(c.active) = Len(s.active), NEW d, d = RestoreContext(c, s)
  PROVE  /\ InBody(d, b) /\ Moves(s, d) /\ SameVars(s, d)
         /\ d.active = s.active /\ d.used = s.used
<1>0. /\ WF(c) /\ WF(s) /\ Tree(c) /\ Tree(s) /\ NamesBelow(c) /\ Numbered(s, b)
      /\ c.used = c.active /\ s.used = s.active /\ c.scopes # <<>>
  BY DEF InBody
<1>1. /\ s.active \in Seq(Nodes) /\ c.active \in Seq(Nodes) /\ Len(s.active) \in Nat
      /\ b \in Nat /\ 2 <= b /\ b <= Len(s.active)
      /\ NS(s) = s.active[Len(s.active)] /\ NS(s) \in s.live /\ NS(s) \in Nodes
      /\ s.live \subseteq Nodes
      /\ \A n \in s.live : n < s.fresh
      /\ \A j \in 1 .. Len(s.active) : s.active[j] \in Nodes /\ s.active[j] < s.fresh
      /\ \A i, j \in 1 .. Len(s.active) : i < j => s.active[i] < s.active[j]
      /\ \A m \in Nodes : /\ Len(s.vars[m]) \in Nat /\ Len(c.vars[m]) \in Nat
                          /\ s.lv[m] \in Nat /\ c.lv[m] \in Nat
                          /\ s.vars[m] \in Seq(Variable) /\ c.vars[m] \in Seq(Variable)
      /\ s.fresh \in Nat /\ c.fresh \in Nat /\ FnIndex(s) \in Nat
      /\ c \in ContextType
  BY BodyParts
<1>2. c.active = s.active
  <2>1. \A k \in 1 .. Len(s.active) : c.active[k] = s.active[k] BY DEF Grew, Begins
  <2> QED BY <1>1, <2>1, SeqEqual
<1>3. /\ s.live \subseteq c.live /\ s.fresh <= c.fresh
      /\ c.scopes = s.scopes /\ c.fnindex = s.fnindex
      /\ \A m \in Nodes : m < s.fresh =>
           /\ c.parent[m] = s.parent[m]
           /\ Begins(s.vars[m], c.vars[m]) /\ s.lv[m] <= c.lv[m]
           /\ m # NS(s) => c.vars[m] = s.vars[m] /\ c.lv[m] = s.lv[m]
  BY DEF Grew
<1> DEFINE below   == {n \in s.live : NS(s) \in Chain(s, n)}
           created == {n \in c.live \ s.live : NS(s) \in Chain(c, n)}
<1>4. /\ d.fresh = c.fresh /\ d.name = c.name /\ d.parent = c.parent /\ d.lv = c.lv
      /\ d.scopes = c.scopes /\ d.fnindex = c.fnindex /\ d.anon = c.anon
      /\ d.live = c.live \ created
      /\ d.vars = [n \in Nodes |-> IF n \in below THEN SubSeq(c.vars[n], 1, Len(s.vars[n]))
                                   ELSE c.vars[n]]
  BY <1>1 DEF RestoreContext, ContextType
<1>5. WF(d) /\ d.active = c.active /\ d.used = c.used
  <2>1. VarsReach(s, c)
    <3> SUFFICES ASSUME NEW n \in Nodes PROVE Len(s.vars[n]) <= Len(c.vars[n])
      BY DEF VarsReach
    <3>1. CASE n < s.fresh BY <1>3, <3>1 DEF Begins
    <3>2. CASE n >= s.fresh
      <4>1. s.vars[n] = <<>> BY <3>2 DEF InBody
      <4> QED BY <1>1, <4>1
    <3> QED BY <1>1, <3>1, <3>2 DEF Nodes
  <2>2. c.used = s.used BY <1>0, <1>2
  <2> QED BY <1>0, <1>2, <2>1, <2>2, RestoreContextKeeps
<1>6. \A m \in Nodes : m < s.fresh => d.vars[m] = s.vars[m]
  <2> SUFFICES ASSUME NEW m \in Nodes, m < s.fresh PROVE d.vars[m] = s.vars[m] OBVIOUS
  <2>1. Begins(s.vars[m], c.vars[m]) /\ (m # NS(s) => c.vars[m] = s.vars[m]) BY <1>3
  <2>2. s.vars[m] \in Seq(Variable) /\ c.vars[m] \in Seq(Variable)
        /\ Len(s.vars[m]) \in Nat /\ Len(c.vars[m]) \in Nat
    BY <1>1
  <2>3. Len(s.vars[m]) <= Len(c.vars[m])
        /\ \A i \in 1 .. Len(s.vars[m]) : c.vars[m][i] = s.vars[m][i]
    BY <2>1 DEF Begins
  <2>4. SubSeq(c.vars[m], 1, Len(s.vars[m])) = s.vars[m]
    <3>1. /\ SubSeq(c.vars[m], 1, Len(s.vars[m])) \in Seq(Variable)
          /\ Len(SubSeq(c.vars[m], 1, Len(s.vars[m]))) = Len(s.vars[m])
          /\ \A i \in 1 .. Len(s.vars[m]) :
               SubSeq(c.vars[m], 1, Len(s.vars[m]))[i] = c.vars[m][i]
      BY <2>2, <2>3, PrefixType
    <3> QED BY <2>2, <2>3, <3>1, SeqEqual
  <2>5. m = NS(s) => m \in below
    <3>1. Sloped(s) BY <1>0 DEF Tree
    <3>2. NS(s) \in Chain(s, NS(s)) BY <1>1, <3>1, ChainTransitive
    <3> QED BY <1>1, <3>2
  <2>6. d.vars[m] = IF m \in below THEN SubSeq(c.vars[m], 1, Len(s.vars[m])) ELSE c.vars[m]
    BY <1>4
  <2> QED BY <2>1, <2>4, <2>5, <2>6
<1>7. SameVars(s, d) BY <1>6 DEF SameVars
<1>8. s.live \subseteq d.live BY <1>3, <1>4
<1>9. Tree(d)
  <2>1. Sloped(d) BY <1>0, <1>4 DEF Tree, Sloped
  <2>2. StackIsPath(d) BY <1>0, <1>4, <1>5 DEF Tree, StackIsPath
  <2> QED BY <2>1, <2>2 DEF Tree
<1>10. NamesBelow(d)
  <2>1. d.live \subseteq c.live BY <1>4
  <2> QED BY <1>0, <1>4, <2>1 DEF NamesBelow
<1> HIDE DEF below, created
<1>11. FnIndex(d) = FnIndex(s) BY <1>3, <1>4 DEF FnIndex, CurrentFn
<1>12. ASSUME NEW j \in 1 .. Len(s.active)
       PROVE  /\ d.active[j] = s.active[j] /\ d.vars[d.active[j]] = s.vars[s.active[j]]
              /\ s.lv[s.active[j]] <= d.lv[d.active[j]]
              /\ s.lv[s.active[j]] \in Nat /\ d.lv[d.active[j]] \in Nat
              /\ j < Len(s.active) => d.lv[d.active[j]] = s.lv[s.active[j]]
  <2>1. s.active[j] \in Nodes /\ s.active[j] < s.fresh BY <1>1
  <2>2. d.active[j] = s.active[j] BY <1>2, <1>5
  <2>3. d.vars[d.active[j]] = s.vars[s.active[j]] BY <1>6, <2>1, <2>2
  <2>4. /\ s.lv[s.active[j]] <= c.lv[s.active[j]]
        /\ s.active[j] # NS(s) => c.lv[s.active[j]] = s.lv[s.active[j]]
    BY <1>3, <2>1
  <2>5. j < Len(s.active) => s.active[j] # NS(s)
    <3> SUFFICES ASSUME j < Len(s.active) PROVE s.active[j] # NS(s) OBVIOUS
    <3>1. Len(s.active) \in 1 .. Len(s.active) BY <1>1
    <3>2. s.active[j] < NS(s) BY <1>1, <3>1
    <3> QED BY <1>1, <2>1, <3>2 DEF Nodes
  <2> QED BY <1>1, <1>4, <2>1, <2>2, <2>3, <2>4, <2>5
<1>13. \A j \in 1 .. Len(s.active) :
         /\ VarsOf(d, {d.active[j]}) = VarsOf(s, {s.active[j]})
         /\ \A x \in VarsOf(s, {s.active[j]}) : VarAt(d, x) = VarAt(s, x)
  <2> SUFFICES ASSUME NEW j \in 1 .. Len(s.active)
               PROVE  /\ VarsOf(d, {d.active[j]}) = VarsOf(s, {s.active[j]})
                      /\ \A x \in VarsOf(s, {s.active[j]}) : VarAt(d, x) = VarAt(s, x)
    OBVIOUS
  <2>1. d.active[j] = s.active[j] /\ d.vars[s.active[j]] = s.vars[s.active[j]] BY <1>12
  <2>2. VarsOf(d, {d.active[j]}) = VarsOf(s, {s.active[j]}) BY <2>1 DEF VarsOf
  <2>3. \A x \in VarsOf(s, {s.active[j]}) : x[1] = s.active[j] BY VarsOfIn
  <2> QED BY <2>1, <2>2, <2>3 DEF VarAt
<1>14. Numbered(d, b)
  <2>1. Len(d.active) = Len(s.active) BY <1>2, <1>5
  <2>2. \A j \in 1 .. b - 1 : j \in 1 .. Len(s.active) BY <1>1
  <2>3. \A j \in b .. Len(d.active) : j \in b .. Len(s.active) /\ j \in 1 .. Len(s.active)
    BY <1>1, <2>1
  <2>4. ASSUME NEW j \in 1 .. b - 1
        PROVE  d.vars[d.active[j]] = <<>> /\ d.lv[d.active[j]] <= FnIndex(d)
    <3>1. s.vars[s.active[j]] = <<>> /\ s.lv[s.active[j]] <= FnIndex(s) BY <1>0 DEF Numbered
    <3>2. j < Len(s.active) BY <1>1
    <3>3. d.vars[d.active[j]] = s.vars[s.active[j]] /\ d.lv[d.active[j]] = s.lv[s.active[j]]
      BY <1>12, <2>2, <3>2
    <3> QED BY <1>11, <3>1, <3>3
  <2>5. ASSUME NEW j \in b .. Len(d.active) PROVE FnIndex(d) <= d.lv[d.active[j]]
    <3>1. FnIndex(s) <= s.lv[s.active[j]] BY <1>0, <2>3 DEF Numbered
    <3>2. s.lv[s.active[j]] <= d.lv[d.active[j]]
          /\ s.lv[s.active[j]] \in Nat /\ d.lv[d.active[j]] \in Nat
      BY <1>12, <2>3
    <3>3. FnIndex(s) \in Nat BY <1>1
    <3> QED BY <1>11, <3>1, <3>2, <3>3
  <2>6. ASSUME NEW j \in b .. Len(d.active), NEW x \in VarsOf(d, {d.active[j]})
        PROVE  FnIndex(d) <= VarAt(d, x).index /\ VarAt(d, x).index <= d.lv[d.active[j]]
    <3>1. x \in VarsOf(s, {s.active[j]}) /\ VarAt(d, x) = VarAt(s, x) BY <1>13, <2>3
    <3>2. FnIndex(s) <= VarAt(s, x).index /\ VarAt(s, x).index <= s.lv[s.active[j]]
      BY <1>0, <2>3, <3>1 DEF Numbered
    <3>3. s.lv[s.active[j]] <= d.lv[d.active[j]]
          /\ s.lv[s.active[j]] \in Nat /\ d.lv[d.active[j]] \in Nat
      BY <1>12, <2>3
    <3>4. VarAt(s, x).index \in Nat
      <4>1. s.active[j] \in Nodes BY <1>1, <2>3
      <4>2. x[1] \in Nodes /\ x[2] \in 1 .. Len(s.vars[x[1]]) BY <3>1, <4>1, VarsOfIn
      <4> QED BY <4>2, BodyParts DEF VarAt
    <3> QED BY <1>11, <3>1, <3>2, <3>3, <3>4
  <2>7. ASSUME NEW i \in b .. Len(d.active), NEW j \in b .. Len(d.active), i < j
        PROVE  /\ d.lv[d.active[i]] < d.lv[d.active[j]]
               /\ \A x \in VarsOf(d, {d.active[j]}) : d.lv[d.active[i]] < VarAt(d, x).index
    <3>1. /\ s.lv[s.active[i]] < s.lv[s.active[j]]
          /\ \A x \in VarsOf(s, {s.active[j]}) : s.lv[s.active[i]] < VarAt(s, x).index
      BY <1>0, <2>3, <2>7 DEF Numbered
    <3>2. i < Len(s.active) BY <1>1, <2>1, <2>7
    <3>3. d.lv[d.active[i]] = s.lv[s.active[i]] BY <1>12, <2>3, <3>2
    <3>4. s.lv[s.active[j]] <= d.lv[d.active[j]]
          /\ s.lv[s.active[j]] \in Nat /\ d.lv[d.active[j]] \in Nat /\ s.lv[s.active[i]] \in Nat
      BY <1>12, <2>3
    <3>5. d.lv[d.active[i]] < d.lv[d.active[j]] BY <3>1, <3>3, <3>4
    <3>6. \A x \in VarsOf(d, {d.active[j]}) : d.lv[d.active[i]] < VarAt(d, x).index
      BY <1>13, <2>3, <3>1, <3>3
    <3> QED BY <3>5, <3>6
  <2>8. 1 <= FnIndex(d) BY <1>0, <1>11 DEF Numbered
  <2> QED BY <1>1, <2>1, <2>4, <2>5, <2>6, <2>7, <2>8 DEF Numbered
<1>15. InBody(d, b)
  <2>1. ASSUME NEW m \in Nodes, m >= d.fresh PROVE d.vars[m] = <<>>
    <3>1. c.vars[m] = <<>> BY <1>4, <2>1 DEF InBody
    <3>2. m \notin below
      <4>1. m \in below => m \in s.live BY DEF below
      <4> QED BY <1>1, <1>3, <1>4, <2>1, <4>1 DEF Nodes
    <3> QED BY <1>4, <3>1, <3>2
  <2>2. d.scopes # <<>> /\ d.used = d.active BY <1>0, <1>4, <1>5
  <2> QED BY <1>5, <1>9, <1>10, <1>14, <2>1, <2>2 DEF InBody
<1>16. Moves(s, d)
  <2>1. \A m \in Nodes : m < s.fresh =>
          /\ d.parent[m] = s.parent[m] /\ s.lv[m] <= d.lv[m]
          /\ m # NS(s) => d.lv[m] = s.lv[m]
    BY <1>3, <1>4
  <2>2. \A m \in Nodes : m < s.fresh =>
          /\ Begins(s.vars[m], d.vars[m])
          /\ \A k \in Len(s.vars[m]) + 1 .. Len(d.vars[m]) : FALSE
    BY <1>1, <1>6 DEF Begins
  <2>3. d.active = s.active BY <1>2, <1>5
  <2>4. \A j \in 1 .. Len(d.active) : j <= Len(s.active) /\ d.active[j] = s.active[j]
    BY <1>1, <2>3
  <2>5. s.fresh <= d.fresh /\ d.scopes = s.scopes /\ d.fnindex = s.fnindex BY <1>3, <1>4
  <2> QED BY <1>8, <2>1, <2>2, <2>3, <2>4, <2>5 DEF Moves
<1> QED BY <1>0, <1>2, <1>5, <1>7, <1>15, <1>16

(* What a context is before a function is begun in it.                     *)
Bare(c) ==
  /\ WF(c) /\ Tree(c) /\ c.used = c.active /\ NamesBelow(c)
  /\ c.fresh <= 3 /\ c.nextfn = 1 /\ c.scopes = <<>>
  /\ \A n \in Nodes : c.vars[n] = <<>> /\ c.lv[n] <= c.lv[NS(c)]

LEMMA EmptyIsBare == Bare(EmptyContext(1000)) /\ EmptyContext(1000).fresh = 2
<1> DEFINE c == EmptyContext(1000)
<1>1. /\ 0 \in NodeNames /\ 1 \in 1 .. MaxFns + 1 /\ 2 \in 1 .. MaxNodes + 1 /\ 1 \in Nodes
  BY SizeAssumption DEF NodeNames, Nodes
<1>2. /\ <<>> \in Seq(Variable) /\ <<>> \in Seq(Fns) /\ <<1>> \in Seq(Nodes)
      /\ <<1>> # <<>> /\ Len(<<1>>) = 1 /\ <<1>>[1] = 1
  BY <1>1
<1>3. c \in ContextType BY <1>1, <1>2 DEF EmptyContext, ContextType
<1>4. /\ c.live = {1} /\ c.fresh = 2 /\ c.active = <<1>> /\ c.used = <<1>> /\ c.anon = 0
      /\ c.nextfn = 1 /\ c.scopes = <<>> /\ c.parent = [n \in Nodes |-> 0]
      /\ c.name = [n \in Nodes |-> 0] /\ c.vars = [n \in Nodes |-> <<>>]
      /\ c.lv = [n \in Nodes |-> 0]
  BY DEF EmptyContext
<1> HIDE DEF c
<1>5. WF(c) BY <1>2, <1>3, <1>4 DEF WF, StackNodes
<1>6. Tree(c)
  <2>1. Sloped(c) BY <1>1, <1>4 DEF Sloped, Nodes
  <2>2. StackIsPath(c) BY <1>1, <1>2, <1>4 DEF StackIsPath
  <2> QED BY <2>1, <2>2 DEF Tree
<1>7. NamesBelow(c) BY <1>1, <1>4 DEF NamesBelow
<1>8. \A n \in Nodes : c.vars[n] = <<>> /\ c.lv[n] <= c.lv[NS(c)]
  <2>1. NS(c) \in Nodes BY <1>1, <1>2, <1>4 DEF NS, Back
  <2> QED BY <1>4, <2>1
<1>9. Bare(c) /\ c.fresh = 2 BY <1>4, <1>5, <1>6, <1>7, <1>8 DEF Bare
<1> QED BY <1>9 DEF c

LEMMA NamedIsBare ==
  ASSUME NEW nm \in NsNames
  PROVE  Bare(ActivateNamespace(EmptyContext(1000), nm))
<1> DEFINE c == EmptyContext(1000)
           d == ActivateNamespace(c, nm)
<1>1. Bare(c) /\ c.fresh = 2 BY EmptyIsBare
<1>2. c.live = {1} /\ c.parent = [n \in Nodes |-> 0] /\ c.active = <<1>> BY DEF EmptyContext
<1> HIDE DEF c
<1>3. nm \in NodeNames /\ c.fresh <= MaxNodes /\ 1 \in Nodes
  BY <1>1, SizeAssumption, RoomAssumption DEF NodeNames, Nodes
<1>4. WF(c) /\ Tree(c) /\ NamesBelow(c) /\ c.used = c.active BY <1>1 DEF Bare
<1>5. Child(c, NS(c), nm) = NoNode
  <2>1. <<1>>[Len(<<1>>)] = 1 BY <1>3
  <2>2. NS(c) = 1 BY <1>2, <2>1 DEF NS, Back
  <2>3. \A m \in c.live : c.parent[m] # NS(c) BY <1>2, <1>3, <2>2
  <2> QED BY <2>3 DEF Child
<1>6. d = NewNamespace(c, nm) BY <1>5 DEF ActivateNamespace
<1>7. PICK n \in Nodes : Pushed(c, d, n) BY <1>3, <1>4, ActivatePushes
<1>8. d.active = Append(c.active, n) /\ d.used = Append(c.used, n) /\ d.nextfn = c.nextfn
      /\ WF(d)
  BY <1>7 DEF Pushed, Entered, Grows
<1>9. NamesBelow(d) BY <1>3, <1>4, NamedKeeps
<1>10. Tree(d)
  <2>1. Adds(c, d) BY <1>3, <1>4, ActivateAdds
  <2> QED BY <2>1 DEF Adds
<1>11. /\ d.fresh = c.fresh + 1 /\ d.vars = c.vars /\ d.scopes = c.scopes
       /\ d.lv = [c.lv EXCEPT ![c.fresh] = c.lv[NS(c)] + 1]
       /\ d.active = Append(c.active, c.fresh)
       /\ c.lv \in [Nodes -> Nat] /\ c.fresh \in Nodes /\ c.active \in Seq(Nodes)
  <2>1. c \in ContextType BY <1>4 DEF WF
  <2> QED BY <1>1, <1>3, <1>6, <2>1, FieldTypes DEF NewNamespace, ContextType, Nodes
<1> HIDE DEF d
<1>12. \A m \in Nodes : d.lv[m] <= d.lv[NS(d)]
  <2>1. NS(d) = c.fresh BY <1>11, AppendProperties DEF NS, Back
  <2>2. d.lv[c.fresh] = c.lv[NS(c)] + 1 BY <1>11
  <2>3. c.lv[NS(c)] \in Nat BY <1>4, Parts
  <2> SUFFICES ASSUME NEW m \in Nodes PROVE d.lv[m] <= c.lv[NS(c)] + 1 BY <2>1, <2>2
  <2>4. CASE m = c.fresh BY <2>2, <2>3, <2>4
  <2>5. CASE m # c.fresh
    <3>1. d.lv[m] = c.lv[m] /\ c.lv[m] \in Nat BY <1>11, <2>5
    <3>2. c.lv[m] <= c.lv[NS(c)] BY <1>1 DEF Bare
    <3> QED BY <2>3, <3>1, <3>2
  <2> QED BY <2>4, <2>5
<1>13. Bare(d) BY <1>1, <1>4, <1>8, <1>9, <1>10, <1>11, <1>12 DEF Bare
<1> QED BY <1>13 DEF c, d

LEMMA BeginBody ==
  ASSUME MaxNodes < AnonLimit, NEW c, Bare(c), NEW ps \in Parameters,
         NEW nm \in FunNames \cup Nat, NEW d, d = BeginFn(c, nm, ps)
  PROVE  /\ InBody(d, Len(d.active))
         /\ LocalsTo(d, Len(d.active)) = VarsOf(d, {NS(d)})
         /\ Len(d.vars[NS(d)]) \in {0, 1}
<1>1. WF(c) /\ Tree(c) /\ NamesBelow(c) /\ c.used = c.active BY DEF Bare
<1>2. /\ c.fresh \in Nat /\ c.fresh + 2 <= MaxNodes + 1 /\ c.nextfn \in Fns /\ MaxNodes \in Nat
      /\ c.fresh <= MaxNodes + 1
  BY <1>1, Parts, SizeAssumption, RoomAssumption DEF Bare, Fns
<1>3. PICK n \in Nodes : Entered(c, d, n) BY <1>1, <1>2, BeginFnEnters
<1>4. Adds(c, d) /\ d.scopes = Append(c.scopes, c.nextfn) BY <1>1, <1>2, BeginFnAdds
<1>5. NamesBelow(d) BY <1>1, <1>2, BeginFnIsFresh
<1>6. BodyEntered(c, d)
  <2>1. \A m \in Nodes : m >= c.fresh => c.vars[m] = <<>> BY DEF Bare
  <2> QED BY <1>1, <1>2, <2>1, BeginFnEntersBody
<1>7. WF(d) /\ Tree(d) /\ d.used = d.active BY <1>1, <1>3, <1>4 DEF Entered, Grows, Adds
<1> DEFINE p == c.fresh
           e == c.fresh + 1
<1>8. /\ d.active = Append(c.active, e) /\ p \in Nodes /\ e \in Nodes
      /\ d.fnindex = [c.fnindex EXCEPT ![c.nextfn] = c.lv[NS(c)] + 1]
      /\ \A m \in Nodes \ {p, e} : /\ VarsIn(d, m) = VarsIn(c, m)
                                   /\ m # NS(c) => d.lv[m] = c.lv[m]
      /\ d.lv[NS(c)] = c.lv[NS(c)] + 1 /\ Len(d.vars[e]) <= 1
      /\ d.lv[e] \in Nat /\ c.lv[NS(c)] + 1 <= d.lv[e]
      /\ \A v \in VarsIn(d, e) : c.lv[NS(c)] + 1 <= v.index /\ v.index <= d.lv[e]
  BY <1>6 DEF BodyEntered
<1>9. /\ c.active \in Seq(Nodes) /\ Len(c.active) \in Nat \ {0} /\ c.lv \in [Nodes -> Nat]
      /\ NS(c) \in Nodes /\ \A m \in c.live : m < c.fresh
  BY <1>1, Parts
<1>10. /\ Len(d.active) = Len(c.active) + 1 /\ d.active[Len(d.active)] = e
       /\ \A j \in 1 .. Len(c.active) : d.active[j] = c.active[j]
  <2>1. /\ Len(Append(c.active, e)) = Len(c.active) + 1
        /\ Append(c.active, e)[Len(c.active) + 1] = e
        /\ \A j \in 1 .. Len(c.active) : Append(c.active, e)[j] = c.active[j]
    BY <1>8, <1>9, AppendProperties
  <2> QED BY <1>8, <2>1
<1>11. FnIndex(d) = c.lv[NS(c)] + 1
  <2>1. c.fnindex \in [Fns -> Nat] /\ c.scopes = <<>>
    <3>1. c \in ContextType BY <1>1 DEF WF
    <3> QED BY <3>1, FieldTypes DEF Bare
  <2>2. d.scopes = <<c.nextfn>> BY <1>4, <2>1
  <2>3. <<c.nextfn>> # <<>> /\ Back(<<c.nextfn>>) = c.nextfn BY DEF Back
  <2>4. CurrentFn(d) = c.nextfn BY <2>2, <2>3 DEF CurrentFn
  <2> QED BY <1>2, <1>8, <2>1, <2>4 DEF FnIndex
<1>12. \A j \in 1 .. Len(c.active) : c.active[j] \in Nodes /\ c.active[j] < c.fresh
  <2>1. \A j \in 1 .. Len(c.active) : c.active[j] \in c.live BY <1>1 DEF WF, StackNodes
  <2> QED BY <1>9, <2>1
<1>13. \A m \in Nodes \ {p, e} : d.vars[m] = <<>>
  <2> SUFFICES ASSUME NEW m \in Nodes \ {p, e} PROVE d.vars[m] = <<>> OBVIOUS
  <2>1. VarsIn(d, m) = VarsIn(c, m) BY <1>8
  <2>2. c.vars[m] = <<>> BY DEF Bare
  <2>3. VarsIn(c, m) = {} BY <2>2 DEF VarsIn
  <2>4. d.vars[m] \in Seq(Variable) BY <1>7, Parts
  <2>5. Len(d.vars[m]) = 0
    <3> SUFFICES ASSUME Len(d.vars[m]) # 0 PROVE FALSE OBVIOUS
    <3>1. 1 \in 1 .. Len(d.vars[m]) BY <2>4
    <3>2. d.vars[m][1] \in VarsIn(d, m) BY <3>1 DEF VarsIn
    <3> QED BY <2>1, <2>3, <3>2
  <2> QED BY <2>4, <2>5
<1> DEFINE b == Len(d.active)
<1>14. Numbered(d, b)
  <2>1. b \in Nat /\ 2 <= b /\ b <= Len(d.active) BY <1>9, <1>10
  <2>2. 1 <= FnIndex(d) /\ FnIndex(d) <= d.lv[e] BY <1>8, <1>9, <1>11
  <2>3. ASSUME NEW j \in 1 .. b - 1
        PROVE  d.vars[d.active[j]] = <<>> /\ d.lv[d.active[j]] <= FnIndex(d)
    <3>1. j \in 1 .. Len(c.active) BY <1>9, <1>10
    <3>2. d.active[j] \in Nodes /\ d.active[j] < c.fresh BY <1>10, <1>12, <3>1
    <3>3. d.active[j] \notin {p, e} BY <1>2, <3>2 DEF Nodes
    <3>4. d.vars[d.active[j]] = <<>> BY <1>13, <3>2, <3>3
    <3>5. c.lv[d.active[j]] <= c.lv[NS(c)] /\ c.lv[d.active[j]] \in Nat /\ c.lv[NS(c)] \in Nat
      BY <1>9, <3>2 DEF Bare
    <3>6. d.lv[d.active[j]] \in {c.lv[d.active[j]], c.lv[NS(c)] + 1} BY <1>8, <3>2, <3>3
    <3> HIDE DEF b, e, p
    <3> QED BY <1>11, <3>4, <3>5, <3>6, SMTT(30)
  <2>4. \A j \in b .. Len(d.active) : j = Len(d.active) /\ d.active[j] = e BY <1>10, <2>1
  <2>5. ASSUME NEW x \in VarsOf(d, {e})
        PROVE  FnIndex(d) <= VarAt(d, x).index /\ VarAt(d, x).index <= d.lv[e]
    <3>1. x[1] = e /\ x[2] \in 1 .. Len(d.vars[e]) BY VarsOfIn
    <3>2. VarAt(d, x) \in VarsIn(d, e) BY <3>1 DEF VarAt, VarsIn
    <3> QED BY <1>8, <1>11, <3>2
  <2>6. \A i, j \in b .. Len(d.active) : ~(i < j) BY <2>1
  <2> HIDE DEF b, e, p
  <2> QED BY <2>1, <2>2, <2>3, <2>4, <2>5, <2>6 DEF Numbered
<1>15. InBody(d, b)
  <2>1. c.fresh + 2 <= d.fresh
    <3>1. e \in d.live /\ d.live \subseteq 1 .. d.fresh - 1 /\ d.fresh \in Nat
      <4>1. Len(d.active) \in 1 .. Len(d.active) BY <1>9, <1>10
      <4>2. e \in StackNodes(d) BY <1>10, <4>1 DEF StackNodes
      <4> QED BY <1>7, <4>2, Parts DEF WF
    <3> QED BY <1>2, <3>1
  <2>2. ASSUME NEW m \in Nodes, m >= d.fresh PROVE d.vars[m] = <<>>
    <3>1. d.fresh \in Nat BY <1>7, Parts
    <3>2. m \notin {p, e} BY <1>2, <2>1, <2>2, <3>1 DEF Nodes
    <3> QED BY <1>13, <3>2
  <2>3. d.scopes # <<>>
    <3>1. d.scopes = <<c.nextfn>> BY <1>4 DEF Bare
    <3> QED BY <3>1
  <2> QED BY <1>5, <1>7, <1>14, <2>2, <2>3 DEF InBody
<1>16. LocalsTo(d, b) = VarsOf(d, {NS(d)})
  <2>1. NS(d) = e BY <1>10 DEF NS, Back
  <2>2. ASSUME NEW x \in LocalsTo(d, b) PROVE x \in VarsOf(d, {e})
    <3>1. b \in 1 .. Len(d.active) BY <1>9, <1>10
    <3>2. PICK j \in b .. b : x[1] = d.active[j] /\ x \in VarsOf(d, {d.active[j]})
      BY <1>15, <3>1, LocalsIndexed
    <3>3. j = b BY <1>9, <1>10, <3>2
    <3> QED BY <1>10, <3>2, <3>3
  <2>3. ASSUME NEW x \in VarsOf(d, {e}) PROVE x \in LocalsTo(d, b)
    <3>1. x = <<x[1], x[2]>> /\ x[1] = e /\ x[2] \in 1 .. Len(d.vars[x[1]]) BY VarsOfIn
    <3>2. b \in 1 .. b BY <1>9, <1>10
    <3>3. x[1] \in {d.active[j] : j \in 1 .. b} BY <1>10, <3>1, <3>2
    <3>4. <<x[1], x[2]>> \in LocalsTo(d, b) BY <3>1, <3>3, VarsOfIn DEF LocalsTo
    <3> QED BY <3>1, <3>4
  <2> QED BY <2>1, <2>2, <2>3
<1>17. Len(d.vars[NS(d)]) \in {0, 1}
  <2>1. NS(d) = e BY <1>10 DEF NS, Back
  <2>2. d.vars[e] \in Seq(Variable) BY <1>7, <1>8, Parts
  <2>3. Len(d.vars[e]) \in Nat /\ Len(d.vars[e]) <= 1 BY <1>8, <2>2
  <2>4. \A k \in Nat : k <= 1 => k \in {0, 1} OBVIOUS
  <2> HIDE DEF e
  <2> QED BY <2>1, <2>3, <2>4
<1> QED BY <1>15, <1>16, <1>17

(***************************************************************************)
(* Code.  at[b] is the set of variables that hold a value when control     *)
(* enters block b; i is an instruction, X and Y such sets before and after *)
(* it.                                                                     *)
(***************************************************************************)
Does(i, X, Y) ==
  \/ i.op = "init" /\ \E x : i.objs = {x} /\ x \notin X /\ Y = X \cup {x}
  \/ i.op = "destroy" /\ i.objs \subseteq X /\ Y = X \ i.objs
  \/ i.op = "phi" /\ i.objs = {} /\ Y = X

(* A deferred goto without a label, so far: its label may turn out to be   *)
(* in a scope around it, or it may be one of the body's own scope.         *)
Awaits(c, i, X) ==
  /\ "goto_ahead" \notin Uses => X = VarsOf(c, Chain(c, i.ns))
  /\ c.parent[i.ns] = Root =>
       X = {x \in VarsOf(c, {i.ns}) : VarAt(c, x).index <= i.index}

(* One whose label is known: the label is in a scope around it, and the    *)
(* scopes in between have been left; or it is in a scope that the goto is  *)
(* not in, and what the label needs and the goto does not have is found    *)
(* when the goto is resolved.                                              *)
LeavesFor(c, i, lab) == Chain(c, i.ns) \ Chain(c, lab.ns)
Arrives(c, at, i, lab, X) ==
  \/ /\ lab.ns \in Chain(c, i.ns) /\ lab.ns # Root
     /\ \A j \in 1 .. Len(c.active) : c.active[j] \notin LeavesFor(c, i, lab)
     /\ VarsOf(c, LeavesFor(c, i, lab)) \subseteq X
     /\ at[lab.block] = X \ VarsOf(c, LeavesFor(c, i, lab))
  \/ /\ lab.ns \notin Chain(c, i.ns) /\ c.parent[i.ns] = Root /\ X \subseteq at[lab.block]
     /\ \A x \in at[lab.block] \ X :
          x \in VarsOf(c, Chain(c, lab.ns))
          /\ VarAt(c, x).index \in (i.index .. lab.index) \ {0}

(* The last instruction of a path hands X over.                            *)
Fits(c, labs, at, i, X) ==
  /\ i.op \in {"br", "cbr"} => \A t \in i.to : at[t] = X
  /\ i.op = "ret" => X = {}
  /\ i.op = "goto" =>
       /\ i.ns \in c.live /\ i.index \in Nat /\ i.index <= c.lv[i.ns]
       /\ c.parent[i.ns] = Root => i.ns = c.active[2]
       /\ (\A lab \in labs : lab.name # i.label) => Awaits(c, i, X)
       /\ \A lab \in labs : lab.name = i.label => Arrives(c, at, i, lab, X)

Reached(b, k) == k \in 1 .. Len(b) /\ \A j \in 1 .. k - 1 : ~Lands(b[j])

Follows(c, labs, at, b, t) ==
  \A k \in 1 .. Len(b) : Reached(b, k) =>
    /\ Lands(b[k])  => Fits(c, labs, at, b[k], t[k])
    /\ ~Lands(b[k]) => Does(b[k], t[k], t[k + 1])

(* Run from A, b does what its instructions may do, and goes on from its   *)
(* last one, if it gets there, with Z.                                     *)
Path(c, labs, at, b, A, Z) ==
  \E t : /\ t[1] = A /\ Follows(c, labs, at, b, t)
         /\ EndsPath(b) \/ t[Len(b) + 1] = Z

LEMMA EndsIsLands ==
  ASSUME NEW b PROVE EndsPath(b) <=> \E k \in 1 .. Len(b) : Lands(b[k])
BY DEF EndsPath, Lands

LEMMA PathEmpty ==
  ASSUME NEW c, NEW labs, NEW at, NEW A PROVE Path(c, labs, at, <<>>, A, A)
<1> DEFINE t == [k \in Nat |-> A]
<1>1. t[1] = A /\ t[Len(<<>>) + 1] = A BY ShortLists
<1>2. \A k \in 1 .. Len(<<>>) : FALSE BY ShortLists
<1> HIDE DEF t
<1>3. Follows(c, labs, at, <<>>, t) BY <1>2 DEF Follows
<1> QED BY <1>1, <1>3 DEF Path

LEMMA PathEnded ==
  ASSUME NEW c, NEW labs, NEW at, NEW b, NEW A, NEW X, NEW Z,
         EndsPath(b), Path(c, labs, at, b, A, X)
  PROVE  Path(c, labs, at, b, A, Z)
BY DEF Path

LEMMA PathOne ==
  ASSUME NEW c, NEW labs, NEW at, NEW i, NEW A, NEW Z,
         \/ Lands(i) /\ Fits(c, labs, at, i, A)
         \/ ~Lands(i) /\ Does(i, A, Z)
  PROVE  Path(c, labs, at, <<i>>, A, Z)
<1> DEFINE t == [k \in Nat |-> IF k = 1 THEN A ELSE Z]
<1>1. Len(<<i>>) = 1 /\ <<i>>[1] = i BY ShortLists
<1>2. t[1] = A /\ t[2] = Z OBVIOUS
<1> HIDE DEF t
<1>3. \A k \in 1 .. Len(<<i>>) : k = 1 /\ <<i>>[k] = i BY <1>1
<1>4. Follows(c, labs, at, <<i>>, t)
  <2> SUFFICES ASSUME NEW k \in 1 .. Len(<<i>>)
               PROVE  /\ Lands(<<i>>[k]) => Fits(c, labs, at, <<i>>[k], t[k])
                      /\ ~Lands(<<i>>[k]) => Does(<<i>>[k], t[k], t[k + 1])
    BY DEF Follows
  <2>1. k = 1 /\ <<i>>[k] = i /\ t[k] = A /\ t[k + 1] = Z BY <1>2, <1>3
  <2> QED BY <2>1
<1>5. EndsPath(<<i>>) \/ t[Len(<<i>>) + 1] = Z BY <1>1, <1>2
<1> QED BY <1>2, <1>4, <1>5 DEF Path

LEMMA PathConcat ==
  ASSUME NEW c, NEW labs, NEW at, NEW s, NEW u, IsList(s), IsList(u),
         NEW A, NEW X, NEW Z, Path(c, labs, at, s, A, X), Path(c, labs, at, u, X, Z)
  PROVE  Path(c, labs, at, s \o u, A, Z)
<1>1. PICK t : /\ t[1] = A /\ Follows(c, labs, at, s, t)
               /\ EndsPath(s) \/ t[Len(s) + 1] = X
  BY DEF Path
<1>2. PICK g : /\ g[1] = X /\ Follows(c, labs, at, u, g)
               /\ EndsPath(u) \/ g[Len(u) + 1] = Z
  BY DEF Path
<1>3. /\ Len(s) \in Nat /\ Len(u) \in Nat /\ Len(s \o u) = Len(s) + Len(u)
      /\ \A k \in 1 .. Len(s) : (s \o u)[k] = s[k]
      /\ \A k \in 1 .. Len(u) : (s \o u)[Len(s) + k] = u[k]
  BY ListConcat, ListLen
<1> DEFINE w == [k \in Nat |-> IF k <= Len(s) THEN t[k]
                               ELSE IF k = Len(s) + 1 /\ EndsPath(s) THEN t[k]
                               ELSE g[k - Len(s)]]
<1>4. \A k \in 1 .. Len(s) : w[k] = t[k] /\ (w[k + 1] = t[k + 1])
  <2> SUFFICES ASSUME NEW k \in 1 .. Len(s) PROVE w[k] = t[k] /\ w[k + 1] = t[k + 1]
    OBVIOUS
  <2>1. k \in Nat /\ k <= Len(s) /\ k + 1 \in Nat BY <1>3
  <2>2. w[k] = t[k] BY <2>1
  <2>3. CASE k + 1 <= Len(s) BY <2>1, <2>3
  <2>4. CASE ~(k + 1 <= Len(s))
    <3>1. k + 1 = Len(s) + 1 /\ (k + 1) - Len(s) = 1 BY <1>3, <2>1, <2>4
    <3>2. CASE EndsPath(s) BY <2>1, <2>4, <3>1, <3>2
    <3>3. CASE ~EndsPath(s)
      <4>1. w[k + 1] = g[(k + 1) - Len(s)] BY <2>1, <2>4, <3>3
      <4> QED BY <1>1, <1>2, <3>1, <3>3, <4>1
    <3> QED BY <3>2, <3>3
  <2> QED BY <2>2, <2>3, <2>4
<1>5. w[1] = A
  <2>1. CASE Len(s) = 0
    <3>1. ~EndsPath(s)
      <4>1. \A k \in 1 .. Len(s) : FALSE BY <2>1
      <4> QED BY <4>1 DEF EndsPath
    <3>2. w[1] = g[1 - Len(s)] /\ 1 - Len(s) = 1 BY <2>1, <3>1
    <3> QED BY <1>1, <1>2, <2>1, <3>1, <3>2
  <2>2. CASE Len(s) # 0
    <3>1. 1 \in 1 .. Len(s) BY <1>3, <2>2
    <3> QED BY <1>1, <1>4, <3>1
  <2> QED BY <2>1, <2>2
<1>6. ~EndsPath(s) => \A k \in 1 .. Len(u) + 1 : w[Len(s) + k] = g[k]
  <2> SUFFICES ASSUME ~EndsPath(s), NEW k \in 1 .. Len(u) + 1 PROVE w[Len(s) + k] = g[k]
    OBVIOUS
  <2>1. Len(s) + k \in Nat /\ ~(Len(s) + k <= Len(s)) /\ (Len(s) + k) - Len(s) = k BY <1>3
  <2> QED BY <2>1
<1> HIDE DEF w
<1>7. Follows(c, labs, at, s \o u, w)
  <2> SUFFICES ASSUME NEW k \in 1 .. Len(s \o u), Reached(s \o u, k)
               PROVE  /\ Lands((s \o u)[k]) => Fits(c, labs, at, (s \o u)[k], w[k])
                      /\ ~Lands((s \o u)[k]) => Does((s \o u)[k], w[k], w[k + 1])
    BY DEF Follows
  <2>1. CASE k <= Len(s)
    <3>1. k \in 1 .. Len(s) BY <1>3, <2>1
    <3>2. Reached(s, k)
      <4>1. \A j \in 1 .. k - 1 : j \in 1 .. Len(s) BY <1>3, <3>1
      <4> QED BY <1>3, <3>1, <4>1 DEF Reached
    <3>3. /\ Lands(s[k]) => Fits(c, labs, at, s[k], t[k])
          /\ ~Lands(s[k]) => Does(s[k], t[k], t[k + 1])
      BY <1>1, <3>1, <3>2 DEF Follows
    <3> QED BY <1>3, <1>4, <3>1, <3>3
  <2>2. CASE ~(k <= Len(s))
    <3>1. \A j \in 1 .. Len(s) : ~Lands(s[j])
      <4>1. \A j \in 1 .. Len(s) : j \in 1 .. k - 1 BY <1>3, <2>2
      <4> QED BY <1>3, <4>1 DEF Reached
    <3>2. ~EndsPath(s) BY <3>1, EndsIsLands
    <3>3. k - Len(s) \in 1 .. Len(u) /\ Len(s) + (k - Len(s)) = k BY <1>3, <2>2
    <3>4. (s \o u)[k] = u[k - Len(s)] BY <1>3, <3>3
    <3>5. Reached(u, k - Len(s))
      <4> SUFFICES ASSUME NEW j \in 1 .. (k - Len(s)) - 1 PROVE ~Lands(u[j])
        BY <3>3 DEF Reached
      <4>1. j \in 1 .. Len(u) /\ Len(s) + j \in 1 .. k - 1 BY <1>3, <3>3
      <4> QED BY <1>3, <4>1 DEF Reached
    <3>6. /\ Lands(u[k - Len(s)]) => Fits(c, labs, at, u[k - Len(s)], g[k - Len(s)])
          /\ ~Lands(u[k - Len(s)]) =>
               Does(u[k - Len(s)], g[k - Len(s)], g[(k - Len(s)) + 1])
      BY <1>2, <3>3, <3>5 DEF Follows
    <3>7. w[k] = g[k - Len(s)]
      <4>1. k - Len(s) \in 1 .. Len(u) + 1 BY <1>3, <3>3
      <4> QED BY <1>6, <3>2, <3>3, <4>1
    <3>8. w[k + 1] = g[(k - Len(s)) + 1]
      <4>1. (k - Len(s)) + 1 \in 1 .. Len(u) + 1 /\ Len(s) + ((k - Len(s)) + 1) = k + 1
        BY <1>3, <3>3
      <4> QED BY <1>6, <3>2, <4>1
    <3> QED BY <3>4, <3>6, <3>7, <3>8
  <2> QED BY <2>1, <2>2
<1>8. EndsPath(s \o u) \/ w[Len(s \o u) + 1] = Z
  <2>1. CASE EndsPath(s)
    <3>1. PICK k \in 1 .. Len(s) : Lands(s[k]) BY <2>1, EndsIsLands
    <3>2. k \in 1 .. Len(s \o u) /\ Lands((s \o u)[k]) BY <1>3, <3>1
    <3> QED BY <3>2, EndsIsLands
  <2>2. CASE EndsPath(u)
    <3>1. PICK k \in 1 .. Len(u) : Lands(u[k]) BY <2>2, EndsIsLands
    <3>2. Len(s) + k \in 1 .. Len(s \o u) /\ Lands((s \o u)[Len(s) + k]) BY <1>3, <3>1
    <3> QED BY <3>2, EndsIsLands
  <2>3. CASE ~EndsPath(s) /\ ~EndsPath(u)
    <3>1. Len(u) + 1 \in 1 .. Len(u) + 1 /\ Len(s) + (Len(u) + 1) = Len(s \o u) + 1 BY <1>3
    <3>2. w[Len(s \o u) + 1] = g[Len(u) + 1] BY <1>6, <2>3, <3>1
    <3> QED BY <1>2, <2>3, <3>2
  <2> QED BY <2>1, <2>2, <2>3
<1> QED BY <1>5, <1>7, <1>8 DEF Path

(* Code after the end of a path is never run.                              *)
LEMMA PathDead ==
  ASSUME NEW c, NEW labs, NEW at, NEW s, NEW u, IsList(s), IsList(u), EndsPath(s),
         NEW A, NEW X, NEW Z, Path(c, labs, at, s, A, X)
  PROVE  Path(c, labs, at, s \o u, A, Z) /\ EndsPath(s \o u)
<1>1. PICK t : t[1] = A /\ Follows(c, labs, at, s, t) BY DEF Path
<1>2. PICK m \in 1 .. Len(s) : Lands(s[m]) BY EndsIsLands
<1>3. /\ Len(s) \in Nat /\ Len(u) \in Nat /\ Len(s \o u) = Len(s) + Len(u)
      /\ \A k \in 1 .. Len(s) : (s \o u)[k] = s[k]
  BY ListConcat, ListLen
<1>4. EndsPath(s \o u)
  <2>1. m \in 1 .. Len(s \o u) /\ Lands((s \o u)[m]) BY <1>2, <1>3
  <2> QED BY <2>1, EndsIsLands
<1>5. Follows(c, labs, at, s \o u, t)
  <2> SUFFICES ASSUME NEW k \in 1 .. Len(s \o u), Reached(s \o u, k)
               PROVE  /\ Lands((s \o u)[k]) => Fits(c, labs, at, (s \o u)[k], t[k])
                      /\ ~Lands((s \o u)[k]) => Does((s \o u)[k], t[k], t[k + 1])
    BY DEF Follows
  <2>1. k <= m
    <3> SUFFICES ASSUME ~(k <= m) PROVE FALSE OBVIOUS
    <3>1. m \in 1 .. k - 1 BY <1>2, <1>3
    <3> QED BY <1>2, <1>3, <3>1 DEF Reached
  <2>2. k \in 1 .. Len(s) BY <1>2, <1>3, <2>1
  <2>3. Reached(s, k)
    <3>1. \A j \in 1 .. k - 1 : j \in 1 .. Len(s) BY <1>3, <2>2
    <3> QED BY <1>3, <2>2, <3>1 DEF Reached
  <2> QED BY <1>1, <1>3, <2>2, <2>3 DEF Follows
<1> QED BY <1>1, <1>4, <1>5 DEF Path

(* What leaves the ends of paths in place leaves the paths.                *)
LEMMA PathStill ==
  ASSUME NEW c, NEW labs, NEW at, NEW d, NEW mabs, NEW bt, NEW b, NEW A, NEW Z,
         \A k \in 1 .. Len(b) : \A X : Lands(b[k]) /\ Fits(c, labs, at, b[k], X) =>
           Fits(d, mabs, bt, b[k], X),
         Path(c, labs, at, b, A, Z)
  PROVE  Path(d, mabs, bt, b, A, Z)
<1>1. PICK t : /\ t[1] = A /\ Follows(c, labs, at, b, t)
               /\ EndsPath(b) \/ t[Len(b) + 1] = Z
  BY DEF Path
<1>2. Follows(d, mabs, bt, b, t) BY <1>1 DEF Follows
<1> QED BY <1>1, <1>2 DEF Path

LEMMA PathCalls ==
  ASSUME NEW c, NEW labs, NEW at, NEW objs, NEW X, objs \subseteq X
  PROVE  Path(c, labs, at, Calls("destroy", objs), X, X \ objs)
<1>1. CASE objs = {}
  <2>1. Calls("destroy", objs) = <<>> /\ X \ objs = X BY <1>1 DEF Calls
  <2> QED BY <2>1, PathEmpty
<1>2. CASE objs # {}
  <2>1. Calls("destroy", objs) = <<Instr("destroy", objs, {})>> BY <1>2 DEF Calls
  <2>2. ~Lands(Instr("destroy", objs, {})) BY DEF Lands, IsTerminator, Instr
  <2>3. Does(Instr("destroy", objs, {}), X, X \ objs) BY DEF Does, Instr
  <2> QED BY <2>1, <2>2, <2>3, PathOne
<1> QED BY <1>1, <1>2

(* Destructor calls, and then the end of the path.                         *)
LEMMA PathLeaves ==
  ASSUME NEW c, NEW labs, NEW at, NEW objs, NEW X, objs \subseteq X, NEW i, Lands(i),
         Fits(c, labs, at, i, X \ objs), NEW Z
  PROVE  Path(c, labs, at, Calls("destroy", objs) \o <<i>>, X, Z)
<1>1. Path(c, labs, at, Calls("destroy", objs), X, X \ objs) BY PathCalls
<1>2. Path(c, labs, at, <<i>>, X \ objs, Z) BY PathOne
<1>3. IsList(Calls("destroy", objs)) /\ IsList(<<i>>) BY CallsList, ShortLists
<1> QED BY <1>1, <1>2, <1>3, PathConcat

(***************************************************************************)
(* What has been found of the code, and that it holds on as the context    *)
(* moves on.                                                               *)
(***************************************************************************)
(* The block of a label is entered with the variables that had been        *)
(* declared around the label when it was parsed.                           *)
LabelFits(c, at, lab, b) ==
  /\ lab.ns \in c.live /\ lab.ns # Root /\ lab.index \in Nat /\ lab.index <= c.lv[lab.ns]
  /\ \A d \in 1 .. Len(c.active) : c.active[d] = lab.ns =>
       /\ b <= d
       /\ at[lab.block] = {x \in LocalsTo(c, d) : VarAt(c, x).index < lab.index}

Labelled(labs, i) == \E lab \in labs : lab.name = i.label

LEMMA MovesKeeps ==
  ASSUME NEW c, NEW d, NEW b, InBody(c, b), InBody(d, b), Moves(c, d)
  PROVE  /\ \A n \in c.live : /\ n \in d.live /\ n \in Nodes /\ n < c.fresh
                              /\ Chain(d, n) = Chain(c, n) /\ d.parent[n] = c.parent[n]
                              /\ \A m \in Chain(c, n) : m \in Nodes /\ m < c.fresh
         /\ \A m \in Nodes : m < c.fresh =>
              /\ Len(c.vars[m]) \in Nat /\ Len(d.vars[m]) \in Nat
              /\ \A k \in 1 .. Len(c.vars[m]) :
                   k \in 1 .. Len(d.vars[m]) /\ d.vars[m][k] = c.vars[m][k]
              /\ \A k \in 1 .. Len(d.vars[m]) : k \notin 1 .. Len(c.vars[m]) =>
                   /\ m = NS(c) /\ c.lv[m] < d.vars[m][k].index
                   /\ d.vars[m][k].index \in Nat
         /\ \A N : (\A m \in N : m \in Nodes /\ m < c.fresh) =>
              /\ VarsOf(c, N) \subseteq VarsOf(d, N)
              /\ \A x \in VarsOf(c, N) : VarAt(d, x) = VarAt(c, x)
              /\ \A x \in VarsOf(d, N) : x \in VarsOf(c, N) \/
                   (NS(c) \in N /\ x[1] = NS(c) /\ c.lv[NS(c)] < VarAt(d, x).index
                    /\ VarAt(d, x).index \in Nat)
              /\ SameVars(c, d) => VarsOf(d, N) = VarsOf(c, N)
<1>0. Sloped(c) /\ Sloped(d) BY DEF InBody, Tree
<1>1. /\ c.fresh \in Nat /\ d.fresh \in Nat /\ c.live \subseteq Nodes
      /\ \A n \in c.live : n < c.fresh
      /\ \A n \in Nodes : Len(c.vars[n]) \in Nat /\ Len(d.vars[n]) \in Nat
      /\ \A n \in Nodes : \A k \in 1 .. Len(d.vars[n]) : d.vars[n][k].index \in Nat
  BY BodyParts
<1>2. \A m \in Nodes : m < c.fresh => d.parent[m] = c.parent[m] BY DEF Moves
<1>3. \A n \in Nodes : n < c.fresh => Chain(d, n) = Chain(c, n)
  BY <1>0, <1>1, <1>2, ChainAgrees
<1>4. ASSUME NEW n \in c.live
      PROVE  /\ n \in d.live /\ n \in Nodes /\ n < c.fresh
             /\ Chain(d, n) = Chain(c, n) /\ d.parent[n] = c.parent[n]
             /\ \A m \in Chain(c, n) : m \in Nodes /\ m < c.fresh
  <2>1. n \in d.live /\ n \in Nodes /\ n < c.fresh BY <1>1 DEF Moves
  <2>2. Chain(d, n) = Chain(c, n) /\ d.parent[n] = c.parent[n] BY <1>2, <1>3, <2>1
  <2>3. ASSUME NEW m \in Chain(c, n) PROVE m \in Nodes /\ m < c.fresh
    <3>1. n \in Chain(c, n) BY <1>0, <2>1, ChainTransitive
    <3>2. m \in Nodes /\ m <= n BY <1>0, <2>1, <3>1, ChainComparable
    <3> QED BY <1>1, <2>1, <3>2 DEF Nodes
  <2> QED BY <2>1, <2>2, <2>3
<1>5. ASSUME NEW m \in Nodes, m < c.fresh
      PROVE  /\ Len(c.vars[m]) \in Nat /\ Len(d.vars[m]) \in Nat
             /\ \A k \in 1 .. Len(c.vars[m]) :
                  k \in 1 .. Len(d.vars[m]) /\ d.vars[m][k] = c.vars[m][k]
             /\ \A k \in 1 .. Len(d.vars[m]) : k \notin 1 .. Len(c.vars[m]) =>
                  /\ m = NS(c) /\ c.lv[m] < d.vars[m][k].index
                  /\ d.vars[m][k].index \in Nat
  <2>1. Len(c.vars[m]) \in Nat /\ Len(d.vars[m]) \in Nat BY <1>1
  <2>2. Begins(c.vars[m], d.vars[m]) BY <1>5 DEF Moves
  <2>3. ASSUME NEW k \in 1 .. Len(d.vars[m]), k \notin 1 .. Len(c.vars[m])
        PROVE  m = NS(c) /\ c.lv[m] < d.vars[m][k].index
    <3>1. k \in Len(c.vars[m]) + 1 .. Len(d.vars[m]) BY <2>1, <2>3
    <3> QED BY <1>5, <3>1 DEF Moves
  <2> QED BY <1>1, <2>1, <2>2, <2>3 DEF Begins
<1>6. ASSUME NEW N, \A m \in N : m \in Nodes /\ m < c.fresh
      PROVE  /\ VarsOf(c, N) \subseteq VarsOf(d, N)
             /\ \A x \in VarsOf(c, N) : VarAt(d, x) = VarAt(c, x)
             /\ \A x \in VarsOf(d, N) : x \in VarsOf(c, N) \/
                  (NS(c) \in N /\ x[1] = NS(c) /\ c.lv[NS(c)] < VarAt(d, x).index
                   /\ VarAt(d, x).index \in Nat)
             /\ SameVars(c, d) => VarsOf(d, N) = VarsOf(c, N)
  <2>1. ASSUME NEW x \in VarsOf(c, N) PROVE x \in VarsOf(d, N) /\ VarAt(d, x) = VarAt(c, x)
    <3>1. x = <<x[1], x[2]>> /\ x[1] \in N /\ x[2] \in 1 .. Len(c.vars[x[1]]) BY VarsOfIn
    <3>2. x[2] \in 1 .. Len(d.vars[x[1]]) /\ d.vars[x[1]][x[2]] = c.vars[x[1]][x[2]]
      BY <1>5, <1>6, <3>1
    <3>3. <<x[1], x[2]>> \in VarsOf(d, N) BY <3>1, <3>2, VarsOfIn
    <3> QED BY <3>1, <3>2, <3>3 DEF VarAt
  <2>2. ASSUME NEW x \in VarsOf(d, N)
        PROVE  x \in VarsOf(c, N) \/
                 (NS(c) \in N /\ x[1] = NS(c) /\ c.lv[NS(c)] < VarAt(d, x).index
                  /\ VarAt(d, x).index \in Nat)
    <3>1. x = <<x[1], x[2]>> /\ x[1] \in N /\ x[2] \in 1 .. Len(d.vars[x[1]]) BY VarsOfIn
    <3>2. CASE x[2] \in 1 .. Len(c.vars[x[1]])
      <4>1. <<x[1], x[2]>> \in VarsOf(c, N) BY <3>1, <3>2, VarsOfIn
      <4> QED BY <3>1, <4>1
    <3>3. CASE x[2] \notin 1 .. Len(c.vars[x[1]])
      BY <1>5, <1>6, <3>1, <3>3 DEF VarAt
    <3> QED BY <3>2, <3>3
  <2>3. ASSUME SameVars(c, d) PROVE VarsOf(d, N) = VarsOf(c, N)
    <3>1. \A m \in N : d.vars[m] = c.vars[m] BY <1>6, <2>3 DEF SameVars
    <3> QED BY <3>1 DEF VarsOf
  <2> QED BY <2>1, <2>2, <2>3
<1> QED BY <1>4, <1>5, <1>6

(* Namespaces that are left or entered do not change what an instruction   *)
(* does, nor do variables, unless a goto waits for its label.              *)
LEMMA FitsMoves ==
  ASSUME NEW c, NEW d, NEW b, InBody(c, b), InBody(d, b), Moves(c, d),
         NEW labs, \A lab \in labs : lab.ns \in c.live,
         NEW at, NEW i, NEW X, Fits(c, labs, at, i, X),
         \/ SameVars(c, d)
         \/ i.op = "goto" /\ "goto_ahead" \notin Uses => Labelled(labs, i)
  PROVE  Fits(d, labs, at, i, X)
<1>1. SUFFICES ASSUME i.op = "goto"
               PROVE  /\ i.ns \in d.live /\ i.index \in Nat /\ i.index <= d.lv[i.ns]
                      /\ d.parent[i.ns] = Root => i.ns = d.active[2]
                      /\ (\A lab \in labs : lab.name # i.label) => Awaits(d, i, X)
                      /\ \A lab \in labs : lab.name = i.label => Arrives(d, at, i, lab, X)
  BY DEF Fits
<1> USE <1>1
<1>2. /\ i.ns \in c.live /\ i.index \in Nat /\ i.index <= c.lv[i.ns]
      /\ c.parent[i.ns] = Root => i.ns = c.active[2]
      /\ (\A lab \in labs : lab.name # i.label) => Awaits(c, i, X)
      /\ \A lab \in labs : lab.name = i.label => Arrives(c, at, i, lab, X)
  BY DEF Fits
<1>3. /\ i.ns \in d.live /\ i.ns \in Nodes /\ i.ns < c.fresh
      /\ Chain(d, i.ns) = Chain(c, i.ns) /\ d.parent[i.ns] = c.parent[i.ns]
      /\ \A m \in Chain(c, i.ns) : m \in Nodes /\ m < c.fresh
  BY <1>2, MovesKeeps
<1>4. /\ c.lv[i.ns] \in Nat /\ d.lv[i.ns] \in Nat /\ c.lv[i.ns] <= d.lv[i.ns]
      /\ d.active[2] = c.active[2]
      /\ NS(c) = c.active[Len(c.active)] /\ Len(c.active) \in 1 .. Len(c.active)
      /\ c.fresh \in Nat /\ \A j \in 1 .. Len(d.active) : d.active[j] \in Nat
      /\ Len(c.active) \in Nat
  <2>1. \A j \in 1 .. Len(d.active) : d.active[j] \in Nat
    <3>1. \A j \in 1 .. Len(d.active) : d.active[j] \in Nodes BY BodyParts
    <3> QED BY <3>1 DEF Nodes
  <2>2. /\ c.lv[i.ns] \in Nat /\ d.lv[i.ns] \in Nat /\ c.fresh \in Nat
        /\ Len(c.active) \in Nat /\ 2 <= b /\ b \in Nat /\ b <= Len(c.active)
        /\ NS(c) = c.active[Len(c.active)]
    BY <1>3, BodyParts
  <2>3. Len(c.active) \in 1 .. Len(c.active) BY <2>2
  <2>4. d.active[2] = c.active[2] /\ c.lv[i.ns] <= d.lv[i.ns] BY <1>3 DEF Moves
  <2> QED BY <2>1, <2>2, <2>3, <2>4
<1>5. i.index <= d.lv[i.ns] BY <1>2, <1>4
<1>6. ASSUME \A lab \in labs : lab.name # i.label PROVE Awaits(d, i, X)
  <2>1. Awaits(c, i, X) BY <1>2, <1>6
  <2>2. ASSUME "goto_ahead" \notin Uses PROVE X = VarsOf(d, Chain(d, i.ns))
    <3>1. SameVars(c, d) BY <1>6, <2>2 DEF Labelled
    <3> QED BY <1>3, <2>1, <2>2, <3>1, MovesKeeps DEF Awaits
  <2>3. ASSUME d.parent[i.ns] = Root
        PROVE  X = {x \in VarsOf(d, {i.ns}) : VarAt(d, x).index <= i.index}
    <3>1. X = {x \in VarsOf(c, {i.ns}) : VarAt(c, x).index <= i.index}
      BY <1>3, <2>1, <2>3 DEF Awaits
    <3>2. \A m \in {i.ns} : m \in Nodes /\ m < c.fresh BY <1>3
    <3>3. /\ VarsOf(c, {i.ns}) \subseteq VarsOf(d, {i.ns})
          /\ \A x \in VarsOf(c, {i.ns}) : VarAt(d, x) = VarAt(c, x)
          /\ \A x \in VarsOf(d, {i.ns}) : x \in VarsOf(c, {i.ns}) \/
               (NS(c) = i.ns /\ c.lv[NS(c)] < VarAt(d, x).index /\ VarAt(d, x).index \in Nat)
      BY <3>2, MovesKeeps
    <3>4. ASSUME NEW x \in VarsOf(d, {i.ns}), VarAt(d, x).index <= i.index
          PROVE  x \in VarsOf(c, {i.ns})
      <4> SUFFICES ASSUME x \notin VarsOf(c, {i.ns}) PROVE FALSE OBVIOUS
      <4>1. c.lv[i.ns] < VarAt(d, x).index /\ VarAt(d, x).index \in Nat BY <3>3
      <4>2. i.index \in Nat /\ i.index <= c.lv[i.ns] /\ c.lv[i.ns] \in Nat BY <1>2, <1>4
      <4> QED BY <3>4, <4>1, <4>2
    <3> QED BY <3>1, <3>3, <3>4
  <2> QED BY <2>2, <2>3 DEF Awaits
<1>7. ASSUME NEW lab \in labs, lab.name = i.label PROVE Arrives(d, at, i, lab, X)
  <2>1. Arrives(c, at, i, lab, X) BY <1>2, <1>7
  <2>2. Chain(d, lab.ns) = Chain(c, lab.ns)
        /\ \A m \in Chain(c, lab.ns) : m \in Nodes /\ m < c.fresh
    BY MovesKeeps
  <2>3. LeavesFor(d, i, lab) = LeavesFor(c, i, lab) BY <1>3, <2>2 DEF LeavesFor
  <2>4. CASE /\ lab.ns \in Chain(c, i.ns) /\ lab.ns # Root
             /\ \A j \in 1 .. Len(c.active) : c.active[j] \notin LeavesFor(c, i, lab)
             /\ VarsOf(c, LeavesFor(c, i, lab)) \subseteq X
             /\ at[lab.block] = X \ VarsOf(c, LeavesFor(c, i, lab))
    <3>1. \A m \in LeavesFor(c, i, lab) : m \in Nodes /\ m < c.fresh
      BY <1>3 DEF LeavesFor
    <3>2. NS(c) \notin LeavesFor(c, i, lab) BY <1>4, <2>4
    <3>3. VarsOf(d, LeavesFor(c, i, lab)) = VarsOf(c, LeavesFor(c, i, lab))
      <4>1. VarsOf(c, LeavesFor(c, i, lab)) \subseteq VarsOf(d, LeavesFor(c, i, lab))
            /\ \A x \in VarsOf(d, LeavesFor(c, i, lab)) :
                 x \in VarsOf(c, LeavesFor(c, i, lab)) \/ NS(c) \in LeavesFor(c, i, lab)
        BY <3>1, MovesKeeps
      <4> QED BY <3>2, <4>1
    <3>4. \A j \in 1 .. Len(d.active) : d.active[j] \notin LeavesFor(c, i, lab)
      <4> SUFFICES ASSUME NEW j \in 1 .. Len(d.active),
                          d.active[j] \in LeavesFor(c, i, lab)
                   PROVE  FALSE
        OBVIOUS
      <4>1. ~(d.active[j] >= c.fresh)
        <5>1. d.active[j] < c.fresh /\ d.active[j] \in Nat BY <1>4, <3>1
        <5> QED BY <1>4, <5>1
      <4>2. j <= Len(c.active) /\ d.active[j] = c.active[j] BY <4>1 DEF Moves
      <4>3. j \in 1 .. Len(c.active) BY <1>4, <4>2
      <4> QED BY <2>4, <4>2, <4>3
    <3> QED BY <1>3, <2>3, <2>4, <3>3, <3>4 DEF Arrives
  <2>5. CASE /\ lab.ns \notin Chain(c, i.ns) /\ c.parent[i.ns] = Root
             /\ X \subseteq at[lab.block]
             /\ \A x \in at[lab.block] \ X :
                  x \in VarsOf(c, Chain(c, lab.ns))
                  /\ VarAt(c, x).index \in (i.index .. lab.index) \ {0}
    <3>1. ASSUME NEW x \in at[lab.block] \ X
          PROVE  x \in VarsOf(d, Chain(d, lab.ns))
                 /\ VarAt(d, x).index \in (i.index .. lab.index) \ {0}
      <4>1. VarsOf(c, Chain(c, lab.ns)) \subseteq VarsOf(d, Chain(c, lab.ns))
            /\ \A y \in VarsOf(c, Chain(c, lab.ns)) : VarAt(d, y) = VarAt(c, y)
        BY <2>2, MovesKeeps
      <4>2. x \in VarsOf(c, Chain(c, lab.ns))
            /\ VarAt(c, x).index \in (i.index .. lab.index) \ {0}
        BY <2>5, <3>1
      <4> QED BY <2>2, <4>1, <4>2
    <3> QED BY <1>3, <2>5, <3>1 DEF Arrives
  <2> QED BY <2>1, <2>4, <2>5 DEF Arrives
<1> QED BY <1>2, <1>3, <1>4, <1>5, <1>6, <1>7

LEMMA LabelMoves ==
  ASSUME NEW c, NEW d, NEW b, InBody(c, b), InBody(d, b), Moves(c, d),
         NEW at, NEW lab, LabelFits(c, at, lab, b)
  PROVE  LabelFits(d, at, lab, b)
<1>1. /\ lab.ns \in c.live /\ lab.ns # Root /\ lab.index \in Nat
      /\ lab.index <= c.lv[lab.ns]
  BY DEF LabelFits
<1>2. /\ lab.ns \in d.live /\ lab.ns \in Nodes /\ lab.ns < c.fresh BY <1>1, MovesKeeps
<1>3. /\ c.lv[lab.ns] \in Nat /\ d.lv[lab.ns] \in Nat /\ c.fresh \in Nat
      /\ Len(c.active) \in Nat /\ Len(d.active) \in Nat
      /\ NS(c) = c.active[Len(c.active)] /\ b \in Nat
      /\ \A j \in 1 .. Len(c.active) : c.active[j] \in Nodes /\ c.active[j] < c.fresh
      /\ \A j \in 1 .. Len(d.active) : d.active[j] \in Nodes
      /\ \A j, k \in 1 .. Len(d.active) : j < k => d.active[j] < d.active[k]
      /\ \A j, k \in 1 .. Len(c.active) : j < k => c.active[j] < c.active[k]
      /\ \A n \in Nodes : \A k \in 1 .. Len(c.vars[n]) : c.vars[n][k].index \in Nat
  BY <1>2, BodyParts
<1>4. c.lv[lab.ns] <= d.lv[lab.ns] BY <1>2 DEF Moves
<1>5. ASSUME NEW e \in 1 .. Len(d.active), d.active[e] = lab.ns
      PROVE  /\ b <= e
             /\ at[lab.block] = {x \in LocalsTo(d, e) : VarAt(d, x).index < lab.index}
  <2>1. \A j \in 1 .. e : j \in 1 .. Len(c.active) /\ d.active[j] = c.active[j]
    <3> SUFFICES ASSUME NEW j \in 1 .. e
                 PROVE  j \in 1 .. Len(c.active) /\ d.active[j] = c.active[j]
      OBVIOUS
    <3>1. j \in 1 .. Len(d.active) BY <1>3
    <3>2. d.active[j] \in Nodes /\ d.active[e] \in Nodes /\ (j < e => d.active[j] < d.active[e])
      BY <1>3, <3>1
    <3>3. d.active[j] < c.fresh
      <4>1. j < e \/ j = e BY <1>3
      <4> QED BY <1>2, <1>3, <1>5, <3>2, <4>1 DEF Nodes
    <3>4. ~(d.active[j] >= c.fresh) BY <1>3, <3>2, <3>3 DEF Nodes
    <3>5. j <= Len(c.active) /\ d.active[j] = c.active[j] BY <3>1, <3>4 DEF Moves
    <3> QED BY <1>3, <3>5
  <2>2. e \in 1 .. e BY <1>3
  <2>3. e \in 1 .. Len(c.active) /\ c.active[e] = lab.ns BY <1>5, <2>1, <2>2
  <2>4. b <= e /\ at[lab.block] = {x \in LocalsTo(c, e) : VarAt(c, x).index < lab.index}
    BY <2>3 DEF LabelFits
  <2> DEFINE N == {c.active[j] : j \in 1 .. e}
  <2>5. N = {d.active[j] : j \in 1 .. e} BY <2>1
  <2>6. \A m \in N : m \in Nodes /\ m < c.fresh BY <1>3, <2>1
  <2>7. LocalsTo(c, e) = VarsOf(c, N) /\ LocalsTo(d, e) = VarsOf(d, N)
    BY <2>5 DEF LocalsTo
  <2>8. NS(c) \in N => lab.ns = NS(c)
    <3> SUFFICES ASSUME NEW j \in 1 .. e, c.active[j] = NS(c) PROVE lab.ns = NS(c)
      OBVIOUS
    <3>1. j \in 1 .. Len(c.active) /\ Len(c.active) \in 1 .. Len(c.active)
      BY <1>3, <2>1
    <3>2. ~(c.active[j] < c.active[Len(c.active)]) BY <1>3, <3>1 DEF Nodes
    <3>3. j = Len(c.active) BY <1>3, <3>1, <3>2
    <3>4. e = Len(c.active) BY <1>3, <2>3, <3>3
    <3> QED BY <1>3, <2>3, <3>4
  <2> HIDE DEF N
  <2>9. /\ VarsOf(c, N) \subseteq VarsOf(d, N)
        /\ \A x \in VarsOf(c, N) : VarAt(d, x) = VarAt(c, x)
        /\ \A x \in VarsOf(d, N) : x \in VarsOf(c, N) \/
             (NS(c) \in N /\ c.lv[NS(c)] < VarAt(d, x).index /\ VarAt(d, x).index \in Nat)
    BY <2>6, MovesKeeps
  <2>10. ASSUME NEW x \in VarsOf(d, N), VarAt(d, x).index < lab.index
         PROVE  x \in VarsOf(c, N)
    <3> SUFFICES ASSUME x \notin VarsOf(c, N) PROVE FALSE OBVIOUS
    <3>1. /\ lab.ns = NS(c) /\ c.lv[NS(c)] < VarAt(d, x).index
          /\ VarAt(d, x).index \in Nat
      BY <2>8, <2>9
    <3> QED BY <1>1, <1>3, <2>10, <3>1
  <2>11. {x \in VarsOf(d, N) : VarAt(d, x).index < lab.index}
           = {x \in VarsOf(c, N) : VarAt(c, x).index < lab.index}
    BY <2>9, <2>10
  <2> QED BY <2>4, <2>7, <2>11
<1> QED BY <1>1, <1>2, <1>3, <1>4, <1>5 DEF LabelFits

(* Every block has been given what it is entered with and, unless it ends, *)
(* what it is left with.                                                   *)
Typing(c, bs, labs, at, zs, b) ==
  /\ at[1] = {}
  /\ \A p \in 1 .. Len(bs) : Path(c, labs, at, bs[p], at[p], zs[p])
  /\ \A lab \in labs : LabelFits(c, at, lab, b)

(* The next form, and what follows a branch that waits for the end of an   *)
(* if, find exactly the variables that are in scope there.                 *)
Exits(c, zs, cur, fs, n, h) ==
  /\ zs[cur] = LocalsTo(c, h[n])
  /\ \A i \in 1 .. n : \A p \in Waiting(fs[i]) : zs[p] = LocalsTo(c, h[i - 1])

Typed(c, bs, labs, cur, fs, n, h) ==
  \E at, zs : Typing(c, bs, labs, at, zs, h[0]) /\ Exits(c, zs, cur, fs, n, h)

LEMMA TypingMoves ==
  ASSUME NEW c, NEW d, NEW b, InBody(c, b), InBody(d, b), Moves(c, d),
         NEW bs, NEW labs, NEW at, NEW zs, Typing(c, bs, labs, at, zs, b),
         \/ SameVars(c, d)
         \/ \A p \in 1 .. Len(bs) : \A k \in 1 .. Len(bs[p]) :
              bs[p][k].op = "goto" /\ "goto_ahead" \notin Uses => Labelled(labs, bs[p][k])
  PROVE  Typing(d, bs, labs, at, zs, b)
<1>1. \A lab \in labs : lab.ns \in c.live BY DEF Typing, LabelFits
<1>2. \A lab \in labs : LabelFits(d, at, lab, b) BY LabelMoves DEF Typing
<1>3. ASSUME NEW p \in 1 .. Len(bs) PROVE Path(d, labs, at, bs[p], at[p], zs[p])
  <2>1. \A k \in 1 .. Len(bs[p]) : \A X : Lands(bs[p][k]) /\ Fits(c, labs, at, bs[p][k], X) =>
          Fits(d, labs, at, bs[p][k], X)
    BY <1>1, FitsMoves
  <2>2. Path(c, labs, at, bs[p], at[p], zs[p]) BY DEF Typing
  <2> QED BY <2>1, <2>2, PathStill
<1> QED BY <1>2, <1>3 DEF Typing

LEMMA FitsExtended ==
  ASSUME NEW c, NEW labs, NEW at, NEW bt, NEW i, NEW X, NEW n,
         Fits(c, labs, at, i, X), i.to \subseteq 1 .. n,
         \A lab \in labs : lab.block \in 1 .. n, \A p \in 1 .. n : bt[p] = at[p]
  PROVE  Fits(c, labs, bt, i, X)
<1>1. \A lab \in labs : Arrives(c, at, i, lab, X) => Arrives(c, bt, i, lab, X)
  BY DEF Arrives
<1> QED BY <1>1 DEF Fits

(* Instructions are added to blocks, and new blocks.                       *)
LEMMA TypingGrows ==
  ASSUME NEW c, NEW b, NEW bs, NEW labs, NEW at, NEW zs, Typing(c, bs, labs, at, zs, b),
         NEW new, NEW mabs, NEW bt, NEW ys, Len(bs) \in Nat \ {0}, Len(new) \in Nat,
         \A p \in 1 .. Len(bs) : bt[p] = at[p] /\ IsList(bs[p]),
         \A p \in 1 .. Len(bs) : \A k \in 1 .. Len(bs[p]) : \A X :
           Lands(bs[p][k]) /\ Fits(c, labs, at, bs[p][k], X) =>
             Fits(c, mabs, bt, bs[p][k], X),
         \A p \in 1 .. Len(bs) :
           \/ new[p] = bs[p] /\ (EndsPath(bs[p]) \/ ys[p] = zs[p])
           \/ \E code : /\ IsList(code) /\ new[p] = bs[p] \o code
                        /\ EndsPath(bs[p]) \/ Path(c, mabs, bt, code, zs[p], ys[p]),
         \A p \in Len(bs) + 1 .. Len(new) : Path(c, mabs, bt, new[p], bt[p], ys[p]),
         \A lab \in mabs : LabelFits(c, bt, lab, b)
  PROVE  Typing(c, new, mabs, bt, ys, b)
<1>1. bt[1] = {} BY DEF Typing
<1>2. ASSUME NEW p \in 1 .. Len(new) PROVE Path(c, mabs, bt, new[p], bt[p], ys[p])
  <2>1. CASE p \in 1 .. Len(bs)
    <3>1. Path(c, labs, at, bs[p], at[p], zs[p]) /\ bt[p] = at[p] /\ IsList(bs[p])
      BY <2>1 DEF Typing
    <3>2. \A k \in 1 .. Len(bs[p]) : \A X : Lands(bs[p][k]) /\ Fits(c, labs, at, bs[p][k], X) =>
            Fits(c, mabs, bt, bs[p][k], X)
      BY <2>1
    <3>3. Path(c, mabs, bt, bs[p], bt[p], zs[p]) BY <3>1, <3>2, PathStill
    <3>4. CASE new[p] = bs[p] /\ (EndsPath(bs[p]) \/ ys[p] = zs[p])
      BY <3>3, <3>4, PathEnded
    <3>5. CASE \E code : /\ IsList(code) /\ new[p] = bs[p] \o code
                         /\ EndsPath(bs[p]) \/ Path(c, mabs, bt, code, zs[p], ys[p])
      <4>1. PICK code : /\ IsList(code) /\ new[p] = bs[p] \o code
                        /\ EndsPath(bs[p]) \/ Path(c, mabs, bt, code, zs[p], ys[p])
        BY <3>5
      <4>2. CASE EndsPath(bs[p]) BY <3>1, <3>3, <4>1, <4>2, PathDead
      <4>3. CASE Path(c, mabs, bt, code, zs[p], ys[p])
        BY <3>1, <3>3, <4>1, <4>3, PathConcat
      <4> QED BY <4>1, <4>2, <4>3
    <3> QED BY <2>1, <3>4, <3>5
  <2>2. CASE p \notin 1 .. Len(bs)
    <3>1. p \in Len(bs) + 1 .. Len(new) BY <2>2
    <3> QED BY <3>1
  <2> QED BY <2>1, <2>2
<1> QED BY <1>1, <1>2 DEF Typing

LEMMA TypingEmit ==
  ASSUME NEW c, NEW b, NEW bs, NEW labs, NEW at, NEW zs, Typing(c, bs, labs, at, zs, b),
         IsCode(bs), NEW p \in 1 .. Len(bs), NEW code, IsList(code), NEW Z,
         EndsPath(bs[p]) \/ Path(c, labs, at, code, zs[p], Z),
         NEW ys, ys[p] = Z, \A q \in 1 .. Len(bs) : q # p => ys[q] = zs[q]
  PROVE  Typing(c, Emit(bs, p, code), labs, at, ys, b)
<1>1. Len(bs) \in Nat \ {0} BY ListLen DEF IsCode
<1>2. Len(Emit(bs, p, code)) = Len(bs) BY EmitLonger
<1>3. IsList(bs) /\ \A q \in 1 .. Len(bs) : IsList(bs[q]) BY DEF IsCode
<1>4. /\ Emit(bs, p, code)[p] = bs[p] \o code
      /\ \A q \in 1 .. Len(bs) : q # p => Emit(bs, p, code)[q] = bs[q]
  BY <1>3, ListReplace DEF Emit
<1>5. \A lab \in labs : LabelFits(c, at, lab, b) BY DEF Typing
<1>6. \A q \in 1 .. Len(bs) :
        \/ Emit(bs, p, code)[q] = bs[q] /\ (EndsPath(bs[q]) \/ ys[q] = zs[q])
        \/ \E co : /\ IsList(co) /\ Emit(bs, p, code)[q] = bs[q] \o co
                   /\ EndsPath(bs[q]) \/ Path(c, labs, at, co, zs[q], ys[q])
  <2> SUFFICES ASSUME NEW q \in 1 .. Len(bs)
               PROVE  \/ Emit(bs, p, code)[q] = bs[q] /\ (EndsPath(bs[q]) \/ ys[q] = zs[q])
                      \/ \E co : /\ IsList(co) /\ Emit(bs, p, code)[q] = bs[q] \o co
                                 /\ EndsPath(bs[q]) \/ Path(c, labs, at, co, zs[q], ys[q])
    OBVIOUS
  <2>1. CASE q # p BY <1>4, <2>1
  <2>2. CASE q = p BY <1>4, <2>2, Zenon
  <2> QED BY <2>1, <2>2
<1> DEFINE new == Emit(bs, p, code)
<1>7. \A q \in Len(bs) + 1 .. Len(new) : FALSE BY <1>1, <1>2
<1>8. Len(new) \in Nat BY <1>1, <1>2
<1> HIDE DEF new
<1>9. Typing(c, new, labs, at, ys, b)
  BY <1>1, <1>3, <1>5, <1>6, <1>7, <1>8, TypingGrows DEF new
<1> QED BY <1>9 DEF new

(***************************************************************************)
(* The context and the forms that are being parsed.                        *)
(***************************************************************************)
(* The stack is as high as the forms say, and calls can go back to what    *)
(* they found.                                                             *)
Scoped(c, fs, h) ==
  /\ IsList(fs) /\ Rising(h, fs, Len(fs))
  /\ h[Len(fs)] = Len(c.active) /\ InBody(c, h[0])
  /\ \A i \in 1 .. Len(fs) : \A s \in fs[i].saved :
       /\ Len(s.ctx.active) = h[i] /\ InBody(s.ctx, h[0]) /\ Grew(s.ctx, c)
       /\ \A j \in 1 .. i - 1 : \A u \in fs[j].saved : Grew(u.ctx, s.ctx)

(* The heights when fr is opened too.                                      *)
Opened(h, fs, fr) ==
  [i \in 0 .. Len(fs) + 1 |->
     IF i <= Len(fs) THEN h[i] ELSE h[Len(fs)] + (IF fr.kind = "call" THEN 0 ELSE 1)]

LEMMA RisingPush ==
  ASSUME NEW h, NEW fs, IsList(fs), Rising(h, fs, Len(fs)), NEW fr
  PROVE  LET g == Opened(h, fs, fr)
         IN  /\ Rising(g, Append(fs, fr), Len(fs) + 1)
             /\ \A i \in 0 .. Len(fs) : g[i] = h[i]
             /\ g[Len(fs) + 1] = h[Len(fs)] + (IF fr.kind = "call" THEN 0 ELSE 1)
<1> DEFINE n == Len(fs)
           g == Opened(h, fs, fr)
           gs == Append(fs, fr)
           k == IF fr.kind = "call" THEN 0 ELSE 1
<1>1. n \in Nat /\ n \in 0 .. n BY ListLen
<1>2. /\ \A i \in 1 .. n : gs[i] = fs[i]
      /\ gs[n + 1] = fr
  BY ListAppend
<1>3. \A i \in 0 .. n : g[i] = h[i] /\ h[i] \in Nat BY <1>1 DEF Opened, Rising
<1>4. g[n + 1] = h[n] + k /\ k \in {0, 1} BY <1>1 DEF Opened
<1>5. /\ \A i \in 1 .. n : h[i] = h[i - 1] + (IF fs[i].kind = "call" THEN 0 ELSE 1)
      /\ \A i, j \in 0 .. n : i < j => h[i] <= h[j]
      /\ \A i, j \in 0 .. n : i < j /\ fs[j].kind # "call" => h[i] < h[j]
  BY DEF Rising
<1>6. \A i \in 0 .. n + 1 : i \in 0 .. n \/ i = n + 1 BY <1>1
<1> HIDE DEF g, gs, n, Opened
<1>7. \A i \in 0 .. n + 1 : g[i] \in Nat BY <1>1, <1>3, <1>4, <1>6
<1>8. ASSUME NEW i \in 1 .. n + 1
      PROVE  g[i] = g[i - 1] + (IF gs[i].kind = "call" THEN 0 ELSE 1)
  <2>1. CASE i = n + 1 BY <1>1, <1>2, <1>3, <1>4, <2>1
  <2>2. CASE i \in 1 .. n
    <3>1. i \in 0 .. n /\ i - 1 \in 0 .. n BY <1>1, <2>2
    <3> QED BY <1>2, <1>3, <1>5, <2>2, <3>1
  <2> QED BY <1>1, <2>1, <2>2
<1>9. ASSUME NEW i \in 0 .. n + 1, NEW j \in 0 .. n + 1, i < j
      PROVE  g[i] <= g[j] /\ (gs[j].kind # "call" => g[i] < g[j])
  <2>1. CASE j = n + 1
    <3>1. i \in 0 .. n /\ (i < n \/ i = n) BY <1>1, <1>9, <2>1
    <3>2. h[i] <= h[n] BY <1>1, <1>3, <1>5, <3>1
    <3>3. g[i] = h[i] /\ h[i] \in Nat /\ h[n] \in Nat BY <1>1, <1>3, <3>1
    <3>4. gs[j] = fr BY <1>2, <2>1
    <3>5. k = 1 \/ gs[j].kind = "call" BY <3>4
    <3> QED BY <1>4, <2>1, <3>2, <3>3, <3>5
  <2>2. CASE j \in 0 .. n
    <3>1. i \in 0 .. n /\ j \in 1 .. n BY <1>1, <1>9, <2>2
    <3> QED BY <1>2, <1>3, <1>5, <1>9, <2>2, <3>1
  <2> QED BY <1>6, <2>1, <2>2
<1>10. Rising(g, gs, n + 1) BY <1>7, <1>8, <1>9 DEF Rising
<1>11. (\A i \in 0 .. n : g[i] = h[i]) /\ g[n + 1] = h[n] + k BY <1>3, <1>4
<1> QED BY <1>10, <1>11 DEF g, gs, n

LEMMA RisingPop ==
  ASSUME NEW h, NEW fs, IsList(fs), fs # <<>>, Rising(h, fs, Len(fs))
  PROVE  /\ Rising(h, Pop(fs), Len(fs) - 1)
         /\ h[Len(fs)] = h[Len(fs) - 1] + (IF Back(fs).kind = "call" THEN 0 ELSE 1)
         /\ h[0] <= h[Len(fs) - 1] /\ h[0] \in Nat /\ h[Len(fs) - 1] \in Nat
<1>1. /\ Len(fs) \in Nat \ {0} /\ Back(fs) = fs[Len(fs)]
      /\ \A k \in 1 .. Len(fs) - 1 : Pop(fs)[k] = fs[k]
  BY ListPop
<1>2. \A i \in 0 .. Len(fs) - 1 : i \in 0 .. Len(fs) /\ (i # 0 => i \in 1 .. Len(fs) - 1)
  BY <1>1
<1>3. \A i \in 1 .. Len(fs) - 1 : i \in 1 .. Len(fs) BY <1>1
<1>4. Rising(h, Pop(fs), Len(fs) - 1)
  <2>1. \A i \in 0 .. Len(fs) - 1 : h[i] \in Nat BY <1>2 DEF Rising
  <2>2. \A i \in 1 .. Len(fs) - 1 :
          h[i] = h[i - 1] + (IF Pop(fs)[i].kind = "call" THEN 0 ELSE 1)
    BY <1>1, <1>3 DEF Rising
  <2>3. \A i, j \in 0 .. Len(fs) - 1 : i < j => h[i] <= h[j] BY <1>2 DEF Rising
  <2>4. \A i, j \in 0 .. Len(fs) - 1 : i < j => j \in 1 .. Len(fs) - 1 BY <1>1
  <2>5. \A i, j \in 0 .. Len(fs) - 1 : i < j /\ Pop(fs)[j].kind # "call" => h[i] < h[j]
    BY <1>1, <1>2, <2>4 DEF Rising
  <2> QED BY <2>1, <2>2, <2>3, <2>5 DEF Rising
<1>5. Len(fs) \in 1 .. Len(fs) /\ 0 \in 0 .. Len(fs) - 1 /\ Len(fs) - 1 \in 0 .. Len(fs) - 1
  BY <1>1
<1>6. h[Len(fs)] = h[Len(fs) - 1] + (IF Back(fs).kind = "call" THEN 0 ELSE 1)
  BY <1>1, <1>5 DEF Rising
<1>7. h[0] \in Nat /\ h[Len(fs) - 1] \in Nat BY <1>4, <1>5 DEF Rising
<1>8. h[0] <= h[Len(fs) - 1]
  <2>0. Len(fs) = 1 \/ 0 < Len(fs) - 1
    <3>1. Len(fs) \in Nat /\ Len(fs) # 0 BY <1>1
    <3>2. \A m \in Nat : m # 0 => m = 1 \/ 0 < m - 1 OBVIOUS
    <3> QED BY <3>1, <3>2
  <2>1. CASE Len(fs) = 1
    <3>1. h[Len(fs) - 1] = h[0] BY <2>1
    <3> QED BY <1>7, <3>1
  <2>2. CASE 0 < Len(fs) - 1
    <3>2. \A i, j \in 0 .. Len(fs) - 1 : i < j => h[i] <= h[j] BY <1>4 DEF Rising
    <3> QED BY <1>5, <2>2, <3>2
  <2> QED BY <2>0, <2>1, <2>2
<1> QED BY <1>4, <1>6, <1>7, <1>8

(* Every call still finds its own beginning below.                         *)
LEMMA SavedBegin ==
  ASSUME NEW c, NEW fs, NEW h, Scoped(c, fs, h), NEW i \in 1 .. Len(fs),
         NEW s \in fs[i].saved, NEW d, Len(d.active) \in Nat, h[i] <= Len(d.active),
         \A j \in 1 .. Len(d.active) : j <= Len(c.active) => d.active[j] = c.active[j]
  PROVE  Begins(s.ctx.active, d.active)
<1>1. Len(s.ctx.active) = h[i] /\ InBody(s.ctx, h[0]) /\ Grew(s.ctx, c) BY DEF Scoped
<1>2. Begins(s.ctx.active, c.active) /\ Len(s.ctx.active) \in Nat
  BY <1>1, BodyParts DEF Grew
<1>3. InBody(c, h[0]) BY DEF Scoped
<1>4. Len(c.active) \in Nat BY <1>3, BodyParts
<1>5. ASSUME NEW j \in 1 .. Len(s.ctx.active) PROVE d.active[j] = s.ctx.active[j]
  <2>1. j \in 1 .. Len(d.active) /\ j <= Len(c.active)
    BY <1>1, <1>2, <1>4 DEF Begins
  <2> QED BY <1>2, <2>1 DEF Begins
<1> QED BY <1>1, <1>5 DEF Begins

LEMMA ScopedStays ==
  ASSUME NEW c, NEW d, NEW fs, NEW h, Scoped(c, fs, h), InBody(d, h[0]), Moves(c, d),
         d.active = c.active
  PROVE  Scoped(d, fs, h)
<1>1. IsList(fs) /\ Rising(h, fs, Len(fs)) /\ h[Len(fs)] = Len(c.active) /\ InBody(c, h[0])
  BY DEF Scoped
<1>2. Len(d.active) \in Nat BY <1>1, BodyParts
<1>3. ASSUME NEW i \in 1 .. Len(fs), NEW s \in fs[i].saved PROVE Grew(s.ctx, d)
  <2>1. h[i] <= Len(d.active)
    <3>1. Len(fs) \in Nat BY <1>1, ListLen
    <3>2. i \in 0 .. Len(fs) /\ Len(fs) \in 0 .. Len(fs) /\ (i < Len(fs) \/ i = Len(fs))
      BY <3>1
    <3> QED BY <1>1, <1>2, <3>2 DEF Rising
  <2>2. Begins(s.ctx.active, d.active) BY <1>2, <2>1, SavedBegin
  <2>3. InBody(s.ctx, h[0]) /\ Grew(s.ctx, c) BY DEF Scoped
  <2> QED BY <1>1, <2>2, <2>3, GrewMoves
<1> QED BY <1>1, <1>3 DEF Scoped

LEMMA ScopedEnters ==
  ASSUME NEW c, NEW d, NEW fs, NEW h, Scoped(c, fs, h), InBody(d, h[0]), Moves(c, d),
         Len(d.active) = Len(c.active) + 1,
         \A j \in 1 .. Len(c.active) : d.active[j] = c.active[j],
         NEW fr, fr.kind # "call", fr.saved = {}
  PROVE  Scoped(d, Append(fs, fr), Opened(h, fs, fr))
<1> DEFINE g == Opened(h, fs, fr)
           gs == Append(fs, fr)
<1>1. IsList(fs) /\ Rising(h, fs, Len(fs)) /\ h[Len(fs)] = Len(c.active) /\ InBody(c, h[0])
  BY DEF Scoped
<1>2. Len(fs) \in Nat BY <1>1, ListLen
<1>3. /\ IsList(gs) /\ Len(gs) = Len(fs) + 1 /\ gs[Len(fs) + 1] = fr
      /\ \A i \in 1 .. Len(fs) : gs[i] = fs[i]
  BY <1>1, ListAppend
<1>4. /\ Rising(g, gs, Len(fs) + 1) /\ \A i \in 0 .. Len(fs) : g[i] = h[i]
      /\ g[Len(fs) + 1] = h[Len(fs)] + 1
  BY <1>1, RisingPush
<1> HIDE DEF g, gs
<1>5. g[0] = h[0] /\ \A i \in 1 .. Len(fs) : g[i] = h[i] BY <1>2, <1>4
<1>6. Len(d.active) \in Nat /\ Len(c.active) \in Nat BY <1>1, BodyParts
<1>7. ASSUME NEW i \in 1 .. Len(fs), NEW s \in fs[i].saved PROVE Grew(s.ctx, d)
  <2>1. h[i] <= Len(d.active)
    <3>2. i \in 0 .. Len(fs) /\ Len(fs) \in 0 .. Len(fs) /\ (i < Len(fs) \/ i = Len(fs))
      BY <1>2
    <3>3. h[i] <= h[Len(fs)] /\ h[i] \in Nat BY <1>1, <1>6, <3>2 DEF Rising
    <3> QED BY <1>1, <1>6, <3>3
  <2>2. Begins(s.ctx.active, d.active)
    <3>1. \A j \in 1 .. Len(d.active) : j <= Len(c.active) => d.active[j] = c.active[j]
      BY <1>6
    <3> QED BY <1>6, <2>1, <3>1, SavedBegin
  <2>3. InBody(s.ctx, h[0]) /\ Grew(s.ctx, c) BY DEF Scoped
  <2> QED BY <1>1, <2>2, <2>3, GrewMoves
<1>8. ASSUME NEW i \in 1 .. Len(gs), NEW s \in gs[i].saved
      PROVE  /\ Len(s.ctx.active) = g[i] /\ InBody(s.ctx, g[0]) /\ Grew(s.ctx, d)
             /\ \A j \in 1 .. i - 1 : \A u \in gs[j].saved : Grew(u.ctx, s.ctx)
  <2>1. i \in 1 .. Len(fs) BY <1>2, <1>3, <1>8
  <2>2. gs[i] = fs[i] /\ \A j \in 1 .. i - 1 : gs[j] = fs[j] BY <1>2, <1>3, <2>1
  <2>3. /\ Len(s.ctx.active) = h[i] /\ InBody(s.ctx, h[0])
        /\ \A j \in 1 .. i - 1 : \A u \in fs[j].saved : Grew(u.ctx, s.ctx)
    BY <1>8, <2>1, <2>2 DEF Scoped
  <2> QED BY <1>5, <1>7, <1>8, <2>1, <2>2, <2>3
<1>9. Scoped(d, gs, g) BY <1>1, <1>3, <1>4, <1>5, <1>8 DEF Scoped
<1> QED BY <1>9 DEF g, gs

LEMMA ScopedCalls ==
  ASSUME NEW c, NEW fs, NEW h, Scoped(c, fs, h), NEW fr, fr.kind = "call",
         \A s \in fr.saved : s.ctx = c
  PROVE  Scoped(c, Append(fs, fr), Opened(h, fs, fr))
<1> DEFINE g == Opened(h, fs, fr)
           gs == Append(fs, fr)
<1>1. IsList(fs) /\ Rising(h, fs, Len(fs)) /\ h[Len(fs)] = Len(c.active) /\ InBody(c, h[0])
  BY DEF Scoped
<1>2. Len(fs) \in Nat /\ Len(c.active) \in Nat BY <1>1, ListLen, BodyParts
<1>3. /\ IsList(gs) /\ Len(gs) = Len(fs) + 1 /\ gs[Len(fs) + 1] = fr
      /\ \A i \in 1 .. Len(fs) : gs[i] = fs[i]
  BY <1>1, ListAppend
<1>4. /\ Rising(g, gs, Len(fs) + 1) /\ \A i \in 0 .. Len(fs) : g[i] = h[i]
      /\ g[Len(fs) + 1] = h[Len(fs)] + 0
  BY <1>1, RisingPush
<1> HIDE DEF g, gs
<1>5. g[0] = h[0] /\ (\A i \in 1 .. Len(fs) : g[i] = h[i]) /\ g[Len(fs) + 1] = Len(c.active)
  BY <1>1, <1>2, <1>4
<1>6. Grew(c, c) BY <1>1, GrewSelf
<1>7. ASSUME NEW i \in 1 .. Len(gs), NEW s \in gs[i].saved
      PROVE  /\ Len(s.ctx.active) = g[i] /\ InBody(s.ctx, g[0]) /\ Grew(s.ctx, c)
             /\ \A j \in 1 .. i - 1 : \A u \in gs[j].saved : Grew(u.ctx, s.ctx)
  <2>1. CASE i \in 1 .. Len(fs)
    <3>1. gs[i] = fs[i] /\ \A j \in 1 .. i - 1 : gs[j] = fs[j] BY <1>2, <1>3, <2>1
    <3>2. /\ Len(s.ctx.active) = h[i] /\ InBody(s.ctx, h[0]) /\ Grew(s.ctx, c)
          /\ \A j \in 1 .. i - 1 : \A u \in fs[j].saved : Grew(u.ctx, s.ctx)
      BY <1>7, <2>1, <3>1 DEF Scoped
    <3> QED BY <1>5, <1>7, <2>1, <3>1, <3>2
  <2>2. CASE i = Len(fs) + 1
    <3>1. s.ctx = c BY <1>3, <1>7, <2>2
    <3>2. \A j \in 1 .. i - 1 : \A u \in gs[j].saved : Grew(u.ctx, c)
      <4>1. \A j \in 1 .. i - 1 : j \in 1 .. Len(fs) /\ gs[j] = fs[j] BY <1>2, <1>3, <2>2
      <4> QED BY <4>1 DEF Scoped
    <3> QED BY <1>1, <1>5, <1>6, <2>2, <3>1, <3>2
  <2> QED BY <1>2, <1>3, <2>1, <2>2
<1>8. Scoped(c, gs, g) BY <1>1, <1>3, <1>4, <1>5, <1>7 DEF Scoped
<1> QED BY <1>8 DEF g, gs

LEMMA ScopedLeaves ==
  ASSUME NEW c, NEW d, NEW fs, NEW h, Scoped(c, fs, h), fs # <<>>,
         \/ /\ Back(fs).kind # "call" /\ InBody(d, h[0]) /\ Moves(c, d)
            /\ Len(d.active) = Len(c.active) - 1
            /\ \A j \in 1 .. Len(d.active) : d.active[j] = c.active[j]
         \/ Back(fs).kind = "call" /\ d = c
  PROVE  Scoped(d, Pop(fs), h)
<1>1. IsList(fs) /\ Rising(h, fs, Len(fs)) /\ h[Len(fs)] = Len(c.active) /\ InBody(c, h[0])
  BY DEF Scoped
<1>2. /\ Len(fs) \in Nat \ {0} /\ Back(fs) = fs[Len(fs)]
      /\ IsList(Pop(fs)) /\ Len(Pop(fs)) = Len(fs) - 1
      /\ \A k \in 1 .. Len(fs) - 1 : Pop(fs)[k] = fs[k]
  BY <1>1, ListPop
<1>3. /\ Rising(h, Pop(fs), Len(fs) - 1)
      /\ h[Len(fs)] = h[Len(fs) - 1] + (IF Back(fs).kind = "call" THEN 0 ELSE 1)
      /\ h[Len(fs) - 1] \in Nat
  BY <1>1, RisingPop
<1>4. h[Len(fs) - 1] = Len(d.active) /\ InBody(d, h[0])
      /\ Len(d.active) \in Nat /\ Len(d.active) <= Len(c.active)
      /\ \A j \in 1 .. Len(d.active) : j <= Len(c.active) => d.active[j] = c.active[j]
  <2>1. Len(c.active) \in Nat BY <1>1, BodyParts
  <2>2. CASE /\ Back(fs).kind # "call" /\ InBody(d, h[0]) /\ Moves(c, d)
             /\ Len(d.active) = Len(c.active) - 1
             /\ \A j \in 1 .. Len(d.active) : d.active[j] = c.active[j]
    <3>1. Len(d.active) \in Nat BY <2>2, BodyParts
    <3>2. h[Len(fs)] = h[Len(fs) - 1] + 1 BY <1>3, <2>2
    <3>3. h[Len(fs) - 1] = Len(d.active) /\ Len(d.active) <= Len(c.active)
      BY <1>1, <1>3, <2>1, <2>2, <3>1, <3>2
    <3>4. \A j \in 1 .. Len(d.active) : d.active[j] = c.active[j] BY <2>2
    <3>5. InBody(d, h[0]) BY <2>2
    <3> QED BY <3>1, <3>3, <3>4, <3>5
  <2>3. CASE Back(fs).kind = "call" /\ d = c
    <3>1. h[Len(fs)] = h[Len(fs) - 1] + 0 BY <1>3, <2>3
    <3>2. h[Len(fs) - 1] = Len(c.active) BY <1>1, <1>3, <3>1
    <3>3. InBody(c, h[0]) BY <1>1
    <3>4. d = c BY <2>3
    <3> QED BY <2>1, <3>2, <3>3, <3>4
  <2> QED BY <2>2, <2>3
<1>5. ASSUME NEW i \in 1 .. Len(fs) - 1, NEW s \in fs[i].saved PROVE Grew(s.ctx, d)
  <2>0. i \in 1 .. Len(fs) BY <1>2
  <2>1. h[i] <= Len(d.active)
    <3>1. i \in 0 .. Len(fs) - 1 /\ Len(fs) - 1 \in 0 .. Len(fs) - 1
          /\ (i < Len(fs) - 1 \/ i = Len(fs) - 1)
      BY <1>2
    <3> QED BY <1>3, <1>4, <3>1 DEF Rising
  <2>2. Begins(s.ctx.active, d.active) BY <1>4, <2>0, <2>1, SavedBegin
  <2>3. InBody(s.ctx, h[0]) /\ Grew(s.ctx, c) BY <2>0 DEF Scoped
  <2> QED BY <1>1, <1>4, <2>2, <2>3, GrewMoves
<1>6. ASSUME NEW i \in 1 .. Len(Pop(fs)), NEW s \in Pop(fs)[i].saved
      PROVE  /\ Len(s.ctx.active) = h[i] /\ InBody(s.ctx, h[0]) /\ Grew(s.ctx, d)
             /\ \A j \in 1 .. i - 1 : \A u \in Pop(fs)[j].saved : Grew(u.ctx, s.ctx)
  <2>1. i \in 1 .. Len(fs) /\ i \in 1 .. Len(fs) - 1 BY <1>2, <1>6
  <2>2. Pop(fs)[i] = fs[i] /\ \A j \in 1 .. i - 1 : Pop(fs)[j] = fs[j] BY <1>2, <2>1
  <2>3. /\ Len(s.ctx.active) = h[i] /\ InBody(s.ctx, h[0])
        /\ \A j \in 1 .. i - 1 : \A u \in fs[j].saved : Grew(u.ctx, s.ctx)
    BY <1>6, <2>1, <2>2 DEF Scoped
  <2> QED BY <1>5, <1>6, <2>1, <2>2, <2>3
<1> QED BY <1>2, <1>3, <1>4, <1>6 DEF Scoped

LEMMA ScopedRestores ==
  ASSUME NEW c, NEW fs, NEW h, Scoped(c, fs, h), fs # <<>>, Back(fs).kind = "call",
         NEW s \in Back(fs).saved, NEW d, d = RestoreContext(c, s.ctx)
  PROVE  /\ Scoped(d, Pop(fs), h) /\ Moves(s.ctx, d) /\ SameVars(s.ctx, d)
         /\ d.active = s.ctx.active /\ InBody(s.ctx, h[0]) /\ InBody(d, h[0])
         /\ h[Len(fs) - 1] = Len(s.ctx.active)
<1>1. IsList(fs) /\ Rising(h, fs, Len(fs)) /\ h[Len(fs)] = Len(c.active) /\ InBody(c, h[0])
  BY DEF Scoped
<1>2. /\ Len(fs) \in Nat \ {0} /\ Back(fs) = fs[Len(fs)] /\ Len(fs) \in 1 .. Len(fs)
      /\ IsList(Pop(fs)) /\ Len(Pop(fs)) = Len(fs) - 1
      /\ \A k \in 1 .. Len(fs) - 1 : Pop(fs)[k] = fs[k]
  BY <1>1, ListPop
<1>3. /\ Rising(h, Pop(fs), Len(fs) - 1)
      /\ h[Len(fs)] = h[Len(fs) - 1] + 0 /\ h[Len(fs) - 1] \in Nat
  BY <1>1, RisingPop
<1>4. /\ Len(s.ctx.active) = h[Len(fs)] /\ InBody(s.ctx, h[0]) /\ Grew(s.ctx, c)
      /\ \A j \in 1 .. Len(fs) - 1 : \A u \in fs[j].saved : Grew(u.ctx, s.ctx)
  BY <1>2 DEF Scoped
<1>5. /\ InBody(d, h[0]) /\ Moves(s.ctx, d) /\ SameVars(s.ctx, d) /\ d.active = s.ctx.active
  BY <1>1, <1>4, RestoredBody, ZenonT(30)
<1>6. h[Len(fs) - 1] = Len(s.ctx.active) BY <1>3, <1>4
<1>7. ASSUME NEW i \in 1 .. Len(Pop(fs)), NEW u \in Pop(fs)[i].saved
      PROVE  /\ Len(u.ctx.active) = h[i] /\ InBody(u.ctx, h[0]) /\ Grew(u.ctx, d)
             /\ \A j \in 1 .. i - 1 : \A v \in Pop(fs)[j].saved : Grew(v.ctx, u.ctx)
  <2>1. i \in 1 .. Len(fs) /\ i \in 1 .. Len(fs) - 1 BY <1>2, <1>7
  <2>2. Pop(fs)[i] = fs[i] /\ \A j \in 1 .. i - 1 : Pop(fs)[j] = fs[j] BY <1>2, <2>1
  <2>3. /\ Len(u.ctx.active) = h[i] /\ InBody(u.ctx, h[0])
        /\ \A j \in 1 .. i - 1 : \A v \in fs[j].saved : Grew(v.ctx, u.ctx)
    BY <1>7, <2>1, <2>2 DEF Scoped
  <2>4. Grew(u.ctx, s.ctx) BY <1>4, <1>7, <2>1, <2>2
  <2>5. Begins(u.ctx.active, d.active) BY <1>5, <2>4 DEF Grew
  <2>6. Grew(u.ctx, d) BY <1>4, <1>5, <2>3, <2>4, <2>5, GrewMoves
  <2> QED BY <2>2, <2>3, <2>6
<1> QED BY <1>2, <1>3, <1>4, <1>5, <1>6, <1>7 DEF Scoped

(***************************************************************************)
(* The invariant while forms are parsed.                                   *)
(***************************************************************************)
FoundTyped(fs, n, h) ==
  \A i \in 1 .. n : \A s \in fs[i].saved :
    Typed(s.ctx, s.blocks, s.labels, fs[i].entry, fs, i - 1, h)

Lives(c, bs, labs, r, fs, h) ==
  /\ Scoped(c, fs, h) /\ FoundTyped(fs, Len(fs), h)
  /\ r.type # "error" => Typed(c, bs, labs, r.block, fs, Len(fs), h)

LEMMA NoneWaits == \A fr : fr.kind \in {"scope", "call"} => Waiting(fr) = {}
BY DEF Waiting

LEMMA HeightsIn ==
  ASSUME NEW c, NEW fs, NEW h, Scoped(c, fs, h)
  PROVE  /\ Len(fs) \in Nat /\ Len(c.active) \in Nat /\ h[0] \in Nat
         /\ h[Len(fs)] = Len(c.active) /\ InBody(c, h[0])
         /\ \A i \in 0 .. Len(fs) : h[i] \in 0 .. Len(c.active)
         /\ \A i \in 1 .. Len(fs) : Waiting(fs[i]) # {} => h[i - 1] < Len(c.active)
<1>1. IsList(fs) /\ Rising(h, fs, Len(fs)) /\ h[Len(fs)] = Len(c.active) /\ InBody(c, h[0])
  BY DEF Scoped
<1>2. Len(fs) \in Nat /\ Len(c.active) \in Nat BY <1>1, ListLen, BodyParts
<1>3. /\ \A i \in 0 .. Len(fs) : h[i] \in Nat
      /\ \A i, j \in 0 .. Len(fs) : i < j => h[i] <= h[j]
      /\ \A i, j \in 0 .. Len(fs) : i < j /\ fs[j].kind # "call" => h[i] < h[j]
  BY <1>1 DEF Rising
<1>4. ASSUME NEW i \in 0 .. Len(fs) PROVE h[i] \in Nat /\ h[i] <= Len(c.active)
  <2>1. i = Len(fs) \/ i < Len(fs) BY <1>2
  <2>2. Len(fs) \in 0 .. Len(fs) BY <1>2
  <2> QED BY <1>1, <1>2, <1>3, <2>1, <2>2
<1>5. ASSUME NEW i \in 1 .. Len(fs), Waiting(fs[i]) # {} PROVE h[i - 1] < Len(c.active)
  <2>1. fs[i].kind # "call" BY <1>5, NoneWaits
  <2>2. i \in 0 .. Len(fs) /\ i - 1 \in 0 .. Len(fs) /\ i - 1 < i BY <1>2
  <2>3. h[i - 1] < h[i] BY <1>3, <2>1, <2>2
  <2>4. h[i] <= Len(c.active) /\ h[i] \in Nat /\ h[i - 1] \in Nat BY <1>4, <2>2
  <2> QED BY <1>2, <2>3, <2>4
<1>6. 0 \in 0 .. Len(fs) BY <1>2
<1> QED BY <1>1, <1>2, <1>4, <1>5, <1>6

LEMMA TypedSame ==
  ASSUME NEW fs, NEW gs, NEW h, NEW g, NEW n \in Nat,
         \A i \in 1 .. n : gs[i] = fs[i], \A i \in 0 .. n : g[i] = h[i]
  PROVE  /\ \A c, zs, cur : Exits(c, zs, cur, fs, n, h) => Exits(c, zs, cur, gs, n, g)
         /\ \A c, bs, labs, cur :
              Typed(c, bs, labs, cur, fs, n, h) => Typed(c, bs, labs, cur, gs, n, g)
         /\ FoundTyped(fs, n, h) => FoundTyped(gs, n, g)
<1>1. ASSUME NEW m \in 0 .. n, NEW c, NEW zs, NEW cur, Exits(c, zs, cur, fs, m, h)
      PROVE  Exits(c, zs, cur, gs, m, g)
  <2>1. m \in Nat /\ g[m] = h[m] OBVIOUS
  <2>2. \A i \in 1 .. m : gs[i] = fs[i] /\ g[i - 1] = h[i - 1]
    <3> SUFFICES ASSUME NEW i \in 1 .. m PROVE gs[i] = fs[i] /\ g[i - 1] = h[i - 1] OBVIOUS
    <3>1. i \in 1 .. n /\ i - 1 \in 0 .. n OBVIOUS
    <3> QED BY <3>1
  <2> QED BY <1>1, <2>1, <2>2 DEF Exits
<1>2. 0 \in 0 .. n /\ n \in 0 .. n OBVIOUS
<1>3. ASSUME NEW m \in 0 .. n, NEW c, NEW bs, NEW labs, NEW cur,
             Typed(c, bs, labs, cur, fs, m, h)
      PROVE  Typed(c, bs, labs, cur, gs, m, g)
  <2>1. PICK at, zs : Typing(c, bs, labs, at, zs, h[0]) /\ Exits(c, zs, cur, fs, m, h)
    BY <1>3 DEF Typed
  <2>2. Exits(c, zs, cur, gs, m, g) BY <1>1, <2>1
  <2>3. g[0] = h[0] BY <1>2
  <2> QED BY <2>1, <2>2, <2>3 DEF Typed
<1>4. FoundTyped(fs, n, h) => FoundTyped(gs, n, g)
  <2> SUFFICES ASSUME FoundTyped(fs, n, h), NEW i \in 1 .. n, NEW s \in gs[i].saved
               PROVE  Typed(s.ctx, s.blocks, s.labels, gs[i].entry, gs, i - 1, g)
    BY DEF FoundTyped
  <2>1. gs[i] = fs[i] /\ i - 1 \in 0 .. n OBVIOUS
  <2>2. Typed(s.ctx, s.blocks, s.labels, fs[i].entry, fs, i - 1, h) BY <2>1 DEF FoundTyped
  <2> QED BY <1>3, <2>1, <2>2
<1> QED BY <1>1, <1>2, <1>3, <1>4

(* When no variable is added, what is in scope below stays in scope.       *)
LEMMA ExitsMove ==
  ASSUME NEW c, NEW d, NEW b, InBody(c, b), InBody(d, b), SameVars(c, d),
         NEW fs, NEW h, NEW n \in Nat, NEW zs, NEW cur, Exits(c, zs, cur, fs, n, h),
         \A i \in 0 .. n : /\ h[i] \in 0 .. Len(c.active)
                           /\ \A j \in 1 .. h[i] : d.active[j] = c.active[j]
  PROVE  Exits(d, zs, cur, fs, n, h)
<1>1. \A i \in 0 .. n : LocalsTo(d, h[i]) = LocalsTo(c, h[i]) BY LocalsStill
<1>2. \A i \in 1 .. n : i - 1 \in 0 .. n OBVIOUS
<1>3. n \in 0 .. n OBVIOUS
<1> QED BY <1>1, <1>2, <1>3 DEF Exits

(* A step that neither opens nor closes a form.                            *)
LEMMA ExitsOn ==
  ASSUME NEW c, NEW fs, NEW h, Scoped(c, fs, h),
         NEW zs, NEW cur, Exits(c, zs, cur, fs, Len(fs), h),
         NEW d, d.active = c.active,
         \A m \in Nodes : m # NS(c) => d.vars[m] = c.vars[m],
         NEW ys, NEW to, ys[to] = LocalsTo(d, Len(d.active)),
         \A i \in 1 .. Len(fs) : \A p \in Waiting(fs[i]) : ys[p] = zs[p]
  PROVE  Exits(d, ys, to, fs, Len(fs), h)
<1>1. /\ Len(fs) \in Nat /\ Len(c.active) \in Nat
      /\ h[Len(fs)] = Len(c.active) /\ InBody(c, h[0])
      /\ \A i \in 0 .. Len(fs) : h[i] \in 0 .. Len(c.active)
      /\ \A i \in 1 .. Len(fs) : Waiting(fs[i]) # {} => h[i - 1] < Len(c.active)
  BY HeightsIn
<1>2. ASSUME NEW k \in Nat, k < Len(c.active) PROVE LocalsTo(d, k) = LocalsTo(c, k)
  <2>1. ASSUME NEW j \in 1 .. k PROVE d.vars[c.active[j]] = c.vars[c.active[j]]
    <3>1. /\ j \in 1 .. Len(c.active) /\ Len(c.active) \in 1 .. Len(c.active)
          /\ j < Len(c.active)
      BY <1>1, <1>2
    <3>2. c.active[j] < c.active[Len(c.active)] /\ c.active[j] \in Nodes
          /\ NS(c) = c.active[Len(c.active)] /\ NS(c) \in Nodes
      <4>1. /\ \A i, l \in 1 .. Len(c.active) : i < l => c.active[i] < c.active[l]
            /\ \A i \in 1 .. Len(c.active) : c.active[i] \in Nodes
            /\ NS(c) = c.active[Len(c.active)]
        BY <1>1, BodyParts
      <4> QED BY <3>1, <4>1
    <3>3. c.active[j] # NS(c) BY <3>2 DEF Nodes
    <3> QED BY <3>2, <3>3
  <2> DEFINE N == {c.active[j] : j \in 1 .. k}
  <2>2. \A m \in N : d.vars[m] = c.vars[m] BY <2>1
  <2>3. LocalsTo(d, k) = VarsOf(d, N) /\ LocalsTo(c, k) = VarsOf(c, N) BY DEF LocalsTo
  <2> HIDE DEF N
  <2>4. VarsOf(d, N) = VarsOf(c, N) BY <2>2 DEF VarsOf
  <2> QED BY <2>3, <2>4
<1>3. ASSUME NEW i \in 1 .. Len(fs), NEW p \in Waiting(fs[i])
      PROVE  ys[p] = LocalsTo(d, h[i - 1])
  <2>1. i - 1 \in 0 .. Len(fs) BY <1>1
  <2>2. h[i - 1] < Len(c.active) BY <1>1
  <2>3. h[i - 1] \in Nat BY <1>1, <2>1
  <2>4. zs[p] = LocalsTo(c, h[i - 1]) BY DEF Exits
  <2> QED BY <1>2, <2>2, <2>3, <2>4
<1> QED BY <1>1, <1>3 DEF Exits

(***************************************************************************)
(* Forms that stay in their scope.                                         *)
(***************************************************************************)
LEMMA ReturnCloses ==
  ASSUME NEW c, NEW b, InBody(c, b)
  PROVE  ClosedByReturn(c) = LocalsTo(c, Len(c.active))
<1>1. LocalsTo(c, Len(c.active)) = VarsOf(c, Chain(c, NS(c))) BY LocalsAreChain
<1>2. \A x \in LocalsTo(c, Len(c.active)) :
        FnIndex(c) <= VarAt(c, x).index /\ VarAt(c, x).index # 0 /\ VarAt(c, x).index \in Nat
  BY LocalsIndexed
<1>3. FnIndex(c) \in Nat BY BodyParts
<1>4. ClosedByReturn(c) = {x \in LocalsTo(c, Len(c.active)) :
                             VarAt(c, x).index # 0 /\ VarAt(c, x).index >= FnIndex(c)}
  BY <1>1 DEF ClosedByReturn, VarsAfterIndex, FnIndex
<1> QED BY <1>2, <1>3, <1>4

(* A goto back leaves the variables that the label's block is entered with.*)
LEMMA GotoCloses ==
  ASSUME NEW c, NEW b, InBody(c, b), NEW at, NEW lab, LabelFits(c, at, lab, b),
         lab.ns \in Chain(c, NS(c))
  PROVE  /\ VarsAfterIndex(c, lab.index) \subseteq LocalsTo(c, Len(c.active))
         /\ LocalsTo(c, Len(c.active)) \ VarsAfterIndex(c, lab.index) = at[lab.block]
<1> DEFINE X == LocalsTo(c, Len(c.active))
<1>1. X = VarsOf(c, Chain(c, NS(c))) BY LocalsAreChain
<1>2. /\ Len(c.active) \in Nat /\ Len(c.active) \in 1 .. Len(c.active)
      /\ NS(c) = c.active[Len(c.active)] /\ b \in Nat
      /\ lab.index \in Nat /\ lab.index <= c.lv[lab.ns]
  <2>1. /\ Len(c.active) \in Nat /\ 2 <= b /\ b <= Len(c.active) /\ b \in Nat
        /\ NS(c) = c.active[Len(c.active)]
    BY BodyParts
  <2> QED BY <2>1 DEF LabelFits
<1>3. PICK d \in 1 .. Len(c.active) : lab.ns = c.active[d]
  <2>1. Tree(c) BY DEF InBody
  <2>2. Chain(c, NS(c)) = {c.active[j] : j \in 1 .. Len(c.active)}
    BY <1>2, <2>1, ChainOfStack DEF Tree
  <2> QED BY <2>2
<1>4. b <= d /\ at[lab.block] = {x \in LocalsTo(c, d) : VarAt(c, x).index < lab.index}
  BY <1>3 DEF LabelFits
<1>5. d \in b .. Len(c.active) BY <1>2, <1>3, <1>4
<1>6. \A x \in X : /\ VarAt(c, x).index \in Nat /\ VarAt(c, x).index # 0
                   /\ x \in LocalsTo(c, d) \/ c.lv[lab.ns] < VarAt(c, x).index
  BY <1>3, <1>5, LocalsIndexed
<1>7. LocalsTo(c, d) \subseteq X
  <2>1. {c.active[j] : j \in 1 .. d} \subseteq {c.active[j] : j \in 1 .. Len(c.active)}
    BY <1>2
  <2> QED BY <2>1 DEF LocalsTo, VarsOf
<1>8. c.lv[lab.ns] \in Nat BY <1>3, BodyParts
<1>9. VarsAfterIndex(c, lab.index) = {x \in X : VarAt(c, x).index >= lab.index}
  BY <1>1, <1>6 DEF VarsAfterIndex
<1> HIDE DEF X
<1>10. ASSUME NEW x \in X
       PROVE  ~(VarAt(c, x).index >= lab.index) <=>
                x \in LocalsTo(c, d) /\ VarAt(c, x).index < lab.index
  <2>1. VarAt(c, x).index \in Nat BY <1>6
  <2>2. VarAt(c, x).index < lab.index => ~(c.lv[lab.ns] < VarAt(c, x).index)
    BY <1>2, <1>8, <2>1
  <2> QED BY <1>2, <1>6, <2>1, <2>2
<1>11. X \ VarsAfterIndex(c, lab.index)
         = {x \in LocalsTo(c, d) : VarAt(c, x).index < lab.index}
  BY <1>7, <1>9, <1>10
<1> QED BY <1>4, <1>9, <1>11 DEF X

LEMMA AtTheRoot ==
  ASSUME NEW c, NEW b, InBody(c, b)
  PROVE  /\ c.active[1] = Root /\ NS(c) # Root
         /\ c.parent[NS(c)] = Root => NS(c) = c.active[2] /\ Len(c.active) = 2
<1>1. StackIsPath(c) BY DEF InBody, Tree
<1>2. /\ Len(c.active) \in Nat /\ 2 <= Len(c.active) /\ NS(c) = c.active[Len(c.active)]
      /\ \A i, j \in 1 .. Len(c.active) : i < j => c.active[i] < c.active[j]
      /\ \A j \in 1 .. Len(c.active) : c.active[j] \in Nodes
  <2>1. 2 <= b /\ b \in Nat /\ b <= Len(c.active) /\ Len(c.active) \in Nat BY BodyParts
  <2> QED BY <2>1, BodyParts
<1>3. c.active[1] = 1 /\ \A k \in 2 .. Len(c.active) : c.parent[c.active[k]] = c.active[k - 1]
  BY <1>1 DEF StackIsPath
<1>4. Len(c.active) \in 2 .. Len(c.active) /\ 1 \in 1 .. Len(c.active)
      /\ Len(c.active) \in 1 .. Len(c.active) /\ Len(c.active) - 1 \in 1 .. Len(c.active)
  BY <1>2
<1>5. NS(c) # 1
  <2>1. c.active[1] < c.active[Len(c.active)] BY <1>2, <1>4
  <2>2. c.active[Len(c.active)] \in Nodes BY <1>2, <1>4
  <2> QED BY <1>2, <1>3, <2>1, <2>2 DEF Nodes
<1>6. ASSUME c.parent[NS(c)] = 1 PROVE Len(c.active) = 2
  <2>1. c.active[Len(c.active) - 1] = 1 BY <1>2, <1>3, <1>4, <1>6
  <2>2. ~(1 < Len(c.active) - 1)
    <3> SUFFICES ASSUME 1 < Len(c.active) - 1 PROVE FALSE OBVIOUS
    <3>1. c.active[1] < c.active[Len(c.active) - 1] BY <1>2, <1>4
    <3>2. 1 < 1 BY <1>3, <2>1, <3>1
    <3> QED BY <3>2
  <2>3. Len(c.active) \in Nat /\ 2 <= Len(c.active) BY <1>2
  <2>4. \A k \in Nat : 2 <= k /\ ~(1 < k - 1) => k = 2 OBVIOUS
  <2> QED BY <2>2, <2>3, <2>4
<1> QED BY <1>2, <1>3, <1>5, <1>6

(* What a goto awaits when it is met.                                      *)
LEMMA GotoAwaits ==
  ASSUME NEW c, NEW b, InBody(c, b), NEW labs, NEW at, NEW i, i.op = "goto",
         i.ns = NS(c), i.index = c.lv[NS(c)], \A lab \in labs : lab.name # i.label
  PROVE  Fits(c, labs, at, i, LocalsTo(c, Len(c.active)))
<1> DEFINE X == LocalsTo(c, Len(c.active))
<1>1. /\ NS(c) \in c.live /\ c.lv[NS(c)] \in Nat /\ X = VarsOf(c, Chain(c, NS(c)))
      /\ NS(c) \in Nodes
  <2>1. NS(c) \in c.live /\ c.live \subseteq Nodes BY BodyParts
  <2> QED BY <2>1, LocalsAreChain, BodyParts
<1>2. c.parent[NS(c)] = Root => NS(c) = c.active[2] /\ Len(c.active) = 2 BY AtTheRoot
<1>3. ASSUME c.parent[NS(c)] = Root
      PROVE  X = {x \in VarsOf(c, {NS(c)}) : VarAt(c, x).index <= c.lv[NS(c)]}
  <2>1. Len(c.active) = 2 /\ NS(c) = c.active[2] BY <1>2, <1>3
  <2>2. b \in Nat /\ 2 <= b /\ b <= Len(c.active) BY BodyParts
  <2>3. b = 2 /\ 2 \in 1 .. Len(c.active) /\ Len(c.active) \in 1 .. Len(c.active)
    BY <2>1, <2>2
  <2>4. \A x \in X : x \in VarsOf(c, {NS(c)})
    <3> SUFFICES ASSUME NEW x \in X PROVE x \in VarsOf(c, {NS(c)}) OBVIOUS
    <3>1. PICK j \in b .. Len(c.active) :
            x[1] = c.active[j] /\ x \in VarsOf(c, {c.active[j]})
      BY <2>3, LocalsIndexed
    <3>2. j = 2 BY <2>1, <2>3
    <3> QED BY <2>1, <3>1, <3>2
  <2>5. VarsOf(c, {NS(c)}) \subseteq X
    <3>1. NS(c) \in {c.active[j] : j \in 1 .. Len(c.active)} BY <2>1, <2>3
    <3> QED BY <3>1 DEF LocalsTo, VarsOf
  <2>6. \A x \in X : VarAt(c, x).index <= c.lv[NS(c)] BY LocalsIndexed
  <2> QED BY <2>4, <2>5, <2>6
<1>4. Awaits(c, i, X) BY <1>1, <1>3 DEF Awaits
<1> QED BY <1>1, <1>2, <1>4 DEF Fits, IsTerminator

(* What a goto that has been waiting finds at its label.                   *)
LEMMA GotoArrives ==
  ASSUME Tame, NEW c, NEW b, InBody(c, b), NEW at, NEW i, NEW X, Awaits(c, i, X),
         i.ns \in c.live, i.index \in Nat, i.index <= c.lv[i.ns],
         c.parent[i.ns] = Root => i.ns = c.active[2],
         IF NS(c) \in Chain(c, i.ns) THEN Uses \cap {"goto_on", "goto_over"} # {}
         ELSE "goto_into" \in Uses \/ ("goto_ahead" \in Uses /\ c.parent[i.ns] = Root),
         NEW lab, lab.ns = NS(c), lab.index = c.lv[NS(c)],
         at[lab.block] = LocalsTo(c, Len(c.active))
  PROVE  Arrives(c, at, i, lab, X)
<1> DEFINE Z == LocalsTo(c, Len(c.active))
<1>1. /\ Z = VarsOf(c, Chain(c, NS(c))) /\ NS(c) # Root /\ NS(c) \in c.live
      /\ c.live \subseteq Nodes
      /\ Len(c.active) \in Nat /\ b \in Nat /\ 2 <= b /\ b <= Len(c.active)
      /\ NS(c) = c.active[Len(c.active)]
  BY LocalsAreChain, AtTheRoot, BodyParts
<1>2. Sloped(c) /\ Tree(c) BY DEF InBody, Tree
<1>3. Len(c.active) \in 1 .. Len(c.active) /\ 2 \in 1 .. Len(c.active) BY <1>1
<1>4. Chain(c, NS(c)) = {c.active[j] : j \in 1 .. Len(c.active)}
  BY <1>1, <1>2, <1>3, ChainOfStack, ZenonT(30) DEF Tree
<1>5. CASE NS(c) \in Chain(c, i.ns)
  <2>1. "goto_ahead" \notin Uses BY <1>5 DEF Tame
  <2>2. X = VarsOf(c, Chain(c, i.ns)) BY <2>1 DEF Awaits
  <2>3. Chain(c, NS(c)) \subseteq Chain(c, i.ns) BY <1>1, <1>2, <1>5, ChainTransitive
  <2>4. LeavesFor(c, i, lab) = Chain(c, i.ns) \ Chain(c, NS(c)) BY DEF LeavesFor
  <2>5. VarsOf(c, LeavesFor(c, i, lab)) \subseteq X BY <2>2, <2>4 DEF VarsOf
  <2>6. Z = X \ VarsOf(c, LeavesFor(c, i, lab))
    <3>1. ASSUME NEW x \in Z PROVE x \in X /\ x \notin VarsOf(c, LeavesFor(c, i, lab))
      <4>1. x[1] \in Chain(c, NS(c)) /\ x = <<x[1], x[2]>> /\ x[2] \in 1 .. Len(c.vars[x[1]])
        BY <1>1, VarsOfIn
      <4>2. <<x[1], x[2]>> \in X BY <2>2, <2>3, <4>1, VarsOfIn
      <4>3. x \in VarsOf(c, LeavesFor(c, i, lab)) => x[1] \in LeavesFor(c, i, lab)
        BY VarsOfIn
      <4> QED BY <2>4, <4>1, <4>2, <4>3
    <3>2. ASSUME NEW x \in X, x \notin VarsOf(c, LeavesFor(c, i, lab)) PROVE x \in Z
      <4>1. x[1] \in Chain(c, i.ns) /\ x = <<x[1], x[2]>> /\ x[2] \in 1 .. Len(c.vars[x[1]])
        BY <2>2, VarsOfIn
      <4>2. x[1] \notin LeavesFor(c, i, lab) BY <3>2, <4>1, VarsOfIn
      <4>3. x[1] \in Chain(c, NS(c)) BY <2>4, <4>1, <4>2
      <4>4. <<x[1], x[2]>> \in Z BY <1>1, <4>1, <4>3, VarsOfIn
      <4> QED BY <4>1, <4>4
    <3> QED BY <3>1, <3>2
  <2>7. \A j \in 1 .. Len(c.active) : c.active[j] \notin LeavesFor(c, i, lab)
    BY <1>4, <2>4
  <2> QED BY <1>1, <1>5, <2>5, <2>6, <2>7 DEF Arrives
<1>6. CASE NS(c) \notin Chain(c, i.ns)
  <2>1. c.parent[i.ns] = Root /\ i.ns = c.active[2] BY <1>6 DEF Tame
  <2>2. X = {x \in VarsOf(c, {i.ns}) : VarAt(c, x).index <= i.index} BY <2>1 DEF Awaits
  <2>3. i.ns \in Chain(c, NS(c)) BY <1>3, <1>4, <2>1
  <2>4. X \subseteq Z
    <3>1. VarsOf(c, {i.ns}) \subseteq Z BY <1>1, <2>3 DEF VarsOf
    <3> QED BY <2>2, <3>1
  <2>5. ASSUME NEW x \in Z \ X
        PROVE  VarAt(c, x).index \in (i.index .. lab.index) \ {0}
    <3>1. /\ VarAt(c, x).index \in Nat /\ VarAt(c, x).index <= c.lv[NS(c)]
          /\ VarAt(c, x).index # 0
      BY LocalsIndexed
    <3>2. i.index <= VarAt(c, x).index
      <4>1. PICK j \in b .. Len(c.active) :
              x[1] = c.active[j] /\ x \in VarsOf(c, {c.active[j]})
        BY <1>3, LocalsIndexed
      <4>2. CASE j = 2 BY <2>1, <2>2, <2>5, <3>1, <4>1, <4>2
      <4>3. CASE j # 2 /\ b = 2
        <5>1. 2 \in b .. Len(c.active) /\ 2 < j BY <1>1, <4>1, <4>3
        <5>2. c.lv[c.active[2]] < VarAt(c, x).index
          BY <4>1, <5>1 DEF InBody, Numbered
        <5>3. c.lv[c.active[2]] \in Nat BY <1>3, BodyParts
        <5> QED BY <2>1, <3>1, <5>2, <5>3
      <4>4. CASE b # 2
        <5>1. 2 \in 1 .. b - 1 BY <1>1, <4>4
        <5>2. c.lv[c.active[2]] <= FnIndex(c) BY <5>1 DEF InBody, Numbered
        <5>3. FnIndex(c) <= VarAt(c, x).index BY LocalsIndexed
        <5>4. c.lv[c.active[2]] \in Nat /\ FnIndex(c) \in Nat BY <1>3, BodyParts
        <5>5. i.index <= c.lv[c.active[2]] BY <2>1
        <5> QED BY <3>1, <5>2, <5>3, <5>4, <5>5
      <4> QED BY <4>2, <4>3, <4>4
    <3>3. c.lv[NS(c)] \in Nat BY <1>1, BodyParts
    <3> QED BY <3>1, <3>2, <3>3
  <2> QED BY <1>1, <1>6, <2>1, <2>4, <2>5 DEF Arrives
<1> QED BY <1>5, <1>6

LEMMA WaitsApart ==
  ASSUME Sound(blocks, pr, forms), Flowing(blocks, labels, pr, forms)
  PROVE  \A i \in 1 .. Len(forms) : \A p \in Waiting(forms[i]) :
           p \in 1 .. Len(blocks) /\ p # pr.block
<1> SUFFICES ASSUME NEW i \in 1 .. Len(forms), NEW p \in Waiting(forms[i])
             PROVE  p \in 1 .. Len(blocks) /\ p # pr.block
  OBVIOUS
<1>1. FrameOK(blocks, forms[i]) BY SoundTypes DEF Placed
<1>2. p \in 1 .. Len(blocks) BY <1>1, WaitingIsWritten
<1>3. Apart(pr.block, forms, Len(forms)) BY DEF Flowing, Flows
<1> QED BY <1>2, <1>3 DEF Apart

(* A form that only appends to the block it goes to.                       *)
LEMMA EmitLives ==
  ASSUME Sound(blocks, pr, forms), Flowing(blocks, labels, pr, forms),
         NEW h, Scoped(ctx, forms, h), FoundTyped(forms, Len(forms), h),
         NEW at, NEW zs, Exits(ctx, zs, pr.block, forms, Len(forms), h),
         NEW d, InBody(d, h[0]), Moves(ctx, d), d.active = ctx.active,
         \A m \in Nodes : m # NS(ctx) => d.vars[m] = ctx.vars[m],
         Typing(d, blocks, labels, at, zs, h[0]), NEW code, IsList(code),
         \/ EndsPath(blocks[pr.block])
         \/ Path(d, labels, at, code, zs[pr.block], LocalsTo(d, Len(d.active))),
         NEW r, r.block = pr.block
  PROVE  Lives(d, Emit(blocks, pr.block, code), labels, r, forms, h)
<1> DEFINE Z  == LocalsTo(d, Len(d.active))
           ys == [q \in 1 .. Len(blocks) |-> IF q = pr.block THEN Z ELSE zs[q]]
           new == Emit(blocks, pr.block, code)
<1>1. IsCode(blocks) /\ pr.block \in 1 .. Len(blocks) BY SoundTypes
<1>2. ys[pr.block] = Z /\ \A q \in 1 .. Len(blocks) : q # pr.block => ys[q] = zs[q] BY <1>1
<1> HIDE DEF ys
<1>3. Typing(d, new, labels, at, ys, h[0]) BY <1>1, <1>2, TypingEmit
<1>4. \A i \in 1 .. Len(forms) : \A p \in Waiting(forms[i]) : ys[p] = zs[p]
  BY <1>2, WaitsApart
<1>5. ys[r.block] = LocalsTo(d, Len(d.active)) BY <1>2
<1> HIDE DEF new, Z
<1>6. Exits(d, ys, r.block, forms, Len(forms), h) BY <1>4, <1>5, ExitsOn
<1>7. Typed(d, new, labels, r.block, forms, Len(forms), h) BY <1>3, <1>6 DEF Typed
<1>8. Scoped(d, forms, h) BY ScopedStays
<1> QED BY <1>7, <1>8 DEF Lives, new

LEMMA StillMoves ==
  ASSUME NEW c, NEW b, InBody(c, b)
  PROVE  Moves(c, c) /\ SameVars(c, c)
<1>1. /\ c.fresh \in Nat /\ \A m \in Nodes : Len(c.vars[m]) \in Nat /\ c.lv[m] \in Nat
      /\ Len(c.active) \in Nat
  BY BodyParts
<1>2. \A m \in Nodes : /\ Begins(c.vars[m], c.vars[m])
                       /\ \A k \in Len(c.vars[m]) + 1 .. Len(c.vars[m]) : FALSE
  BY <1>1 DEF Begins
<1> QED BY <1>1, <1>2 DEF Moves, SameVars

LEMMA UnchangedLives ==
  ASSUME NEW h, Lives(ctx, blocks, labels, pr, forms, h), Value \/ Fail
  PROVE  Lives(ctx', blocks', labels', pr', forms', h)
<1>1. CASE Value
  <2>1. /\ ctx' = ctx /\ blocks' = blocks /\ labels' = labels /\ forms' = forms
        /\ pr'.block = pr.block /\ pr.type # "error"
    BY <1>1 DEF Value, Parse, Result
  <2> QED BY <2>1 DEF Lives
<1>2. CASE Fail
  <2>1. /\ ctx' = ctx /\ blocks' = blocks /\ labels' = labels /\ forms' = forms
        /\ pr'.type = "error"
    BY <1>2 DEF Fail, Parse, Result
  <2> QED BY <2>1 DEF Lives
<1> QED BY <1>1, <1>2

LEMMA DefineLives ==
  ASSUME Tame, Sound(blocks, pr, forms), Flowing(blocks, labels, pr, forms),
         NEW h, Lives(ctx, blocks, labels, pr, forms, h), Define
  PROVE  Lives(ctx', blocks', labels', pr', forms', h)
<1> DEFINE nm == CHOOSE nm \in VarNames \ NamesOf(ctx.vars[NS(ctx)]) : TRUE
           x  == <<NS(ctx), Len(ctx.vars[NS(ctx)]) + 1>>
           X  == LocalsTo(ctx, Len(ctx.active))
           d  == AddVariable(ctx, nm)
           i  == InitOf({x})
<1>1. /\ VarNames \ NamesOf(ctx.vars[NS(ctx)]) # {} /\ pr.type # "error"
      /\ ctx' = d /\ blocks' = Emit(blocks, pr.block, <<i>>)
      /\ pr'.block = pr.block /\ labels' = labels /\ forms' = forms
  BY DEF Define, Parse, Result
<1>2. nm \in VarNames \ NamesOf(ctx.vars[NS(ctx)]) BY <1>1
<1> HIDE DEF nm
<1>3. Scoped(ctx, forms, h) /\ FoundTyped(forms, Len(forms), h) BY DEF Lives
<1>4. PICK at, zs : /\ Typing(ctx, blocks, labels, at, zs, h[0])
                    /\ Exits(ctx, zs, pr.block, forms, Len(forms), h)
  BY <1>1 DEF Lives, Typed
<1>5. InBody(ctx, h[0]) /\ h[Len(forms)] = Len(ctx.active) BY <1>3 DEF Scoped
<1>6. /\ InBody(d, h[0]) /\ Moves(ctx, d) /\ d.active = ctx.active
      /\ \A m \in Nodes : m # NS(ctx) => d.vars[m] = ctx.vars[m]
      /\ x \notin X /\ LocalsTo(d, Len(d.active)) = X \cup {x}
  BY <1>2, <1>5, DefineBody
<1> HIDE DEF d, X, x
<1>7. Typing(d, blocks, labels, at, zs, h[0])
  <2>1. ASSUME NEW p \in 1 .. Len(blocks), NEW k \in 1 .. Len(blocks[p]),
               blocks[p][k].op = "goto", "goto_ahead" \notin Uses
        PROVE  Labelled(labels, blocks[p][k])
    <3>1. Pending = {} BY <2>1 DEF Tame, Define
    <3>2. LabelNamed(blocks[p][k].label) # {} BY <2>1, <3>1 DEF Pending
    <3> QED BY <3>2 DEF LabelNamed, Labelled
  <2> QED BY <1>4, <1>5, <1>6, <2>1, TypingMoves
<1>8. zs[pr.block] = X BY <1>4, <1>5 DEF Exits, X
<1>9. Path(d, labels, at, <<i>>, X, X \cup {x})
  <2>1. i.op = "init" /\ i.objs = {x} BY DEF InitOf, Instr
  <2>2. Does(i, X, X \cup {x}) BY <1>6, <2>1 DEF Does
  <2>3. ~Lands(i) BY <2>1 DEF Lands, IsTerminator
  <2> QED BY <2>2, <2>3, PathOne
<1>10. IsList(<<i>>) BY ShortLists
<1> HIDE DEF i
<1>11. Lives(d, Emit(blocks, pr.block, <<i>>), labels, pr', forms, h)
  BY <1>1, <1>3, <1>4, <1>6, <1>7, <1>8, <1>9, <1>10, EmitLives
<1> QED BY <1>1, <1>11

LEMMA ReturnLives ==
  ASSUME Sound(blocks, pr, forms), Flowing(blocks, labels, pr, forms),
         NEW h, Lives(ctx, blocks, labels, pr, forms, h), Return
  PROVE  Lives(ctx', blocks', labels', pr', forms', h)
<1> DEFINE X == LocalsTo(ctx, Len(ctx.active))
           objs == ClosedByReturn(ctx)
           code == Calls("destroy", objs) \o <<Ret>>
<1>1. /\ pr.type # "error" /\ ctx' = ctx
      /\ blocks' = [blocks EXCEPT ![pr.block] = Append(CloseFunction(@), Ret)]
      /\ pr'.block = pr.block /\ labels' = labels /\ forms' = forms
  BY DEF Return, Parse, Result
<1>2. blocks' = Emit(blocks, pr.block, code)
  <2> DEFINE s == blocks[pr.block]
  <2>1. IsList(s) BY SoundTypes
  <2> HIDE DEF s
  <2>2. Append(CloseFunction(s), Ret) = s \o code
    <3>1. \A op, all, i : Append(s \o Calls(op, all), i) = s \o (Calls(op, all) \o <<i>>)
      BY ONLY <2>1, AppendCalls
    <3> QED BY <3>1 DEF CloseFunction
  <2>3. blocks' = [blocks EXCEPT ![pr.block] = s \o code]
    BY <1>1, <2>2 DEF s
  <2> QED BY <2>3 DEF Emit, s
<1>3. Scoped(ctx, forms, h) /\ FoundTyped(forms, Len(forms), h) BY DEF Lives
<1>4. PICK at, zs : /\ Typing(ctx, blocks, labels, at, zs, h[0])
                    /\ Exits(ctx, zs, pr.block, forms, Len(forms), h)
  BY <1>1 DEF Lives, Typed
<1>5. InBody(ctx, h[0]) /\ h[Len(forms)] = Len(ctx.active) BY <1>3 DEF Scoped
<1>6. Moves(ctx, ctx) BY <1>5, StillMoves
<1>7. zs[pr.block] = X BY <1>4, <1>5 DEF Exits
<1>8. Path(ctx, labels, at, code, X, X)
  <2>1. objs = X BY <1>5, ReturnCloses
  <2>2. Ret.op = "ret" BY DEF Ret, Instr
  <2>3. Lands(Ret) /\ Fits(ctx, labels, at, Ret, X \ objs)
    BY <2>1, <2>2 DEF Lands, IsTerminator, Fits
  <2> QED BY <2>1, <2>3, PathLeaves
<1>9. IsList(code) BY CallsThen
<1> HIDE DEF code
<1>10. Lives(ctx, Emit(blocks, pr.block, code), labels, pr', forms, h)
  BY <1>1, <1>3, <1>4, <1>5, <1>6, <1>7, <1>8, <1>9, EmitLives
<1> QED BY <1>1, <1>2, <1>10

LEMMA GotoKnownLives ==
  ASSUME Tame, Sound(blocks, pr, forms), Flowing(blocks, labels, pr, forms),
         NEW h, Lives(ctx, blocks, labels, pr, forms, h), NEW l, GotoKnown(l)
  PROVE  Lives(ctx', blocks', labels', pr', forms', h)
<1>1. PICK lab \in LabelNamed(l) :
        /\ lab.ns \in Chain(ctx, NS(ctx)) /\ pr.type # "error" /\ ctx' = ctx
        /\ blocks' = Emit(blocks, pr.block,
                          Calls("destroy", VarsAfterIndex(ctx, lab.index)) \o <<Br(lab.block)>>)
        /\ pr'.block = pr.block /\ labels' = labels /\ forms' = forms
  BY DEF GotoKnown, Parse, Result, Tame
<1> DEFINE X == LocalsTo(ctx, Len(ctx.active))
           objs == VarsAfterIndex(ctx, lab.index)
           code == Calls("destroy", objs) \o <<Br(lab.block)>>
<1>2. lab \in labels BY DEF LabelNamed
<1>3. Scoped(ctx, forms, h) /\ FoundTyped(forms, Len(forms), h) BY DEF Lives
<1>4. PICK at, zs : /\ Typing(ctx, blocks, labels, at, zs, h[0])
                    /\ Exits(ctx, zs, pr.block, forms, Len(forms), h)
  BY <1>1 DEF Lives, Typed
<1>5. InBody(ctx, h[0]) /\ h[Len(forms)] = Len(ctx.active) BY <1>3 DEF Scoped
<1>6. Moves(ctx, ctx) BY <1>5, StillMoves
<1>7. zs[pr.block] = X BY <1>4, <1>5 DEF Exits
<1>8. Path(ctx, labels, at, code, X, X)
  <2>1. LabelFits(ctx, at, lab, h[0]) BY <1>2, <1>4 DEF Typing
  <2>2. objs \subseteq X /\ X \ objs = at[lab.block] BY <1>1, <1>5, <2>1, GotoCloses
  <2>3. Br(lab.block).op = "br" /\ Br(lab.block).to = {lab.block} BY DEF Br, Instr
  <2>4. Lands(Br(lab.block)) /\ Fits(ctx, labels, at, Br(lab.block), X \ objs)
    BY <2>2, <2>3 DEF Lands, IsTerminator, Fits
  <2> QED BY <2>2, <2>4, PathLeaves
<1>9. IsList(code) BY CallsThen
<1> HIDE DEF code
<1>10. Lives(ctx, Emit(blocks, pr.block, code), labels, pr', forms, h)
  BY <1>1, <1>3, <1>4, <1>5, <1>6, <1>7, <1>8, <1>9, EmitLives
<1> QED BY <1>1, <1>10 DEF code

LEMMA GotoDeferredLives ==
  ASSUME Sound(blocks, pr, forms), Flowing(blocks, labels, pr, forms),
         NEW h, Lives(ctx, blocks, labels, pr, forms, h), NEW l, GotoDeferred(l)
  PROVE  Lives(ctx', blocks', labels', pr', forms', h)
<1> DEFINE X == LocalsTo(ctx, Len(ctx.active))
           i == Deferred(l)
<1>1. /\ pr.type # "error" /\ ctx' = ctx /\ LabelNamed(l) = {}
      /\ blocks' = Emit(blocks, pr.block, <<i>>)
      /\ pr'.block = pr.block /\ labels' = labels /\ forms' = forms
  BY DEF GotoDeferred, Parse, Result
<1>2. /\ i.op = "goto" /\ i.label = l /\ i.ns = NS(ctx) /\ i.index = ctx.lv[NS(ctx)]
  BY DEF Deferred
<1> HIDE DEF i
<1>3. Scoped(ctx, forms, h) /\ FoundTyped(forms, Len(forms), h) BY DEF Lives
<1>4. PICK at, zs : /\ Typing(ctx, blocks, labels, at, zs, h[0])
                    /\ Exits(ctx, zs, pr.block, forms, Len(forms), h)
  BY <1>1 DEF Lives, Typed
<1>5. InBody(ctx, h[0]) /\ h[Len(forms)] = Len(ctx.active) BY <1>3 DEF Scoped
<1>6. Moves(ctx, ctx) BY <1>5, StillMoves
<1>7. zs[pr.block] = X BY <1>4, <1>5 DEF Exits
<1>8. Path(ctx, labels, at, <<i>>, X, X)
  <2>1. \A lab \in labels : lab.name # i.label BY <1>1, <1>2 DEF LabelNamed
  <2>2. Fits(ctx, labels, at, i, X) BY <1>2, <1>5, <2>1, GotoAwaits
  <2>3. Lands(i) BY <1>2 DEF Lands
  <2> QED BY <2>2, <2>3, PathOne
<1>9. IsList(<<i>>) BY ShortLists
<1>10. Lives(ctx, Emit(blocks, pr.block, <<i>>), labels, pr', forms, h)
  BY <1>1, <1>3, <1>4, <1>5, <1>6, <1>7, <1>8, <1>9, EmitLives
<1> QED BY <1>1, <1>10

(* A label of the current scope.                                           *)
LEMMA NewLabelFits ==
  ASSUME NEW c, NEW b, InBody(c, b), NEW d, d = [c EXCEPT !.lv[NS(c)] = @ + 1],
         NEW lab, lab.ns = NS(c), lab.index = d.lv[NS(c)],
         NEW at, at[lab.block] = LocalsTo(c, Len(c.active))
  PROVE  LabelFits(d, at, lab, b)
<1>1. /\ InBody(d, b) /\ d.active = c.active /\ d.vars = c.vars /\ d.live = c.live
      /\ d.lv[NS(c)] = c.lv[NS(c)] + 1
  BY LabelBody
<1>2. NS(d) = NS(c) /\ NS(d) \in d.live /\ NS(d) # Root
  BY <1>1, BodyParts, AtTheRoot DEF NS
<1>3. /\ Len(c.active) \in Nat /\ b \in Nat /\ b <= Len(c.active)
      /\ NS(c) = c.active[Len(c.active)] /\ NS(c) \in Nodes /\ c.lv[NS(c)] \in Nat
      /\ \A i, j \in 1 .. Len(c.active) : i < j => c.active[i] < c.active[j]
      /\ \A j \in 1 .. Len(c.active) : c.active[j] \in Nodes
  BY <1>1, BodyParts
<1>4. lab.index \in Nat /\ lab.index <= d.lv[lab.ns] BY <1>1, <1>3
<1>5. \A x \in LocalsTo(c, Len(c.active)) : VarAt(d, x).index < lab.index
  <2> SUFFICES ASSUME NEW x \in LocalsTo(c, Len(c.active)) PROVE VarAt(d, x).index < lab.index
    OBVIOUS
  <2>1. VarAt(c, x).index \in Nat /\ VarAt(c, x).index <= c.lv[NS(c)] BY LocalsIndexed
  <2>2. VarAt(d, x) = VarAt(c, x) BY <1>1 DEF VarAt
  <2> QED BY <1>1, <1>3, <2>1, <2>2
<1>6. ASSUME NEW k \in 1 .. Len(d.active), d.active[k] = lab.ns
      PROVE  /\ b <= k
             /\ at[lab.block] = {x \in LocalsTo(d, k) : VarAt(d, x).index < lab.index}
  <2>1. k = Len(c.active)
    <3> SUFFICES ASSUME k < Len(c.active) PROVE FALSE BY <1>1, <1>3
    <3>1. k \in 1 .. Len(c.active) /\ Len(c.active) \in 1 .. Len(c.active) BY <1>1, <1>3
    <3>2. c.active[k] < NS(c) BY <1>3, <3>1
    <3>3. c.active[k] = NS(c) BY <1>1, <1>6
    <3>4. NS(c) \in Nat BY <1>3 DEF Nodes
    <3> QED BY <3>2, <3>3, <3>4
  <2>2. LocalsTo(d, k) = LocalsTo(c, Len(c.active)) BY <1>1, <2>1 DEF LocalsTo, VarsOf
  <2> QED BY <1>3, <1>5, <2>1, <2>2
<1> QED BY <1>1, <1>2, <1>4, <1>6 DEF LabelFits

LEMMA LabelLives ==
  ASSUME Tame, Sound(blocks, pr, forms), Flowing(blocks, labels, pr, forms),
         NEW h, Lives(ctx, blocks, labels, pr, forms, h), NEW l, Label(l)
  PROVE  Lives(ctx', blocks', labels', pr', forms', h)
<1> DEFINE n    == Len(blocks) + 1
           d    == [ctx EXCEPT !.lv[NS(ctx)] = @ + 1]
           X    == LocalsTo(ctx, Len(ctx.active))
           code == IF Terminated(blocks[pr.block]) THEN <<>> ELSE <<Br(n)>>
           lab  == [name |-> l, block |-> n, ns |-> NS(ctx), index |-> d.lv[NS(ctx)]]
           mid  == Emit(blocks, pr.block, code)
<1>1. /\ pr.type # "error" /\ ctx' = d /\ LabelNamed(l) = {}
      /\ blocks' = Append(mid, <<>>)
      /\ labels' = labels \cup {lab} /\ pr'.block = n /\ forms' = forms
  BY DEF Label, Parse, Result
<1>2. ASSUME NEW g \in Pending, g.label = l
      PROVE  IF NS(ctx) \in Chain(ctx, g.ns) THEN Uses \cap {"goto_on", "goto_over"} # {}
             ELSE "goto_into" \in Uses \/ ("goto_ahead" \in Uses /\ ctx.parent[g.ns] = Root)
  BY <1>2 DEF Label
<1>3. /\ IsCode(blocks) /\ Len(blocks) \in Nat /\ pr.block \in 1 .. Len(blocks)
      /\ \A p \in 1 .. Len(blocks) : IsList(blocks[p])
  BY SoundTypes DEF IsCode
<1>4. Scoped(ctx, forms, h) /\ FoundTyped(forms, Len(forms), h) BY DEF Lives
<1>5. PICK at, zs : /\ Typing(ctx, blocks, labels, at, zs, h[0])
                    /\ Exits(ctx, zs, pr.block, forms, Len(forms), h)
  BY <1>1 DEF Lives, Typed
<1>6. InBody(ctx, h[0]) /\ h[Len(forms)] = Len(ctx.active) BY <1>4 DEF Scoped
<1>7. /\ InBody(d, h[0]) /\ Moves(ctx, d) /\ SameVars(ctx, d)
      /\ d.active = ctx.active /\ d.vars = ctx.vars /\ d.parent = ctx.parent
  BY <1>6, LabelBody
<1>8. NS(d) = NS(ctx) /\ LocalsTo(d, Len(d.active)) = X
      /\ \A m : Chain(d, m) = Chain(ctx, m)
  BY <1>7 DEF NS, LocalsTo, VarsOf, Chain
<1>9. Typing(d, blocks, labels, at, zs, h[0]) BY <1>5, <1>6, <1>7, TypingMoves
<1>10. zs[pr.block] = X BY <1>5, <1>6 DEF Exits
<1> DEFINE bt == [p \in 1 .. n |-> IF p = n THEN X ELSE at[p]]
           ys == [p \in 1 .. n |-> IF p = n THEN X ELSE zs[p]]
<1>11. /\ bt[n] = X /\ ys[n] = X /\ 1 \in 1 .. Len(blocks) /\ n \in Nat
       /\ \A p \in 1 .. Len(blocks) : bt[p] = at[p] /\ ys[p] = zs[p] /\ p # n
  BY <1>3
<1>12. /\ lab.name = l /\ lab.block = n /\ lab.ns = NS(ctx) /\ lab.index = d.lv[NS(ctx)]
  OBVIOUS
<1>13. LabelFits(d, bt, lab, h[0]) BY <1>6, <1>11, <1>12, NewLabelFits, ZenonT(30)
<1> HIDE DEF bt, ys, lab, d, X
<1>14. Targets(blocks, labels) BY DEF Flowing, Flows
<1>15. ASSUME NEW p \in 1 .. Len(blocks), NEW k \in 1 .. Len(blocks[p]), NEW Y,
              Fits(d, labels, at, blocks[p][k], Y)
       PROVE  Fits(d, labels', bt, blocks[p][k], Y)
  <2> DEFINE i == blocks[p][k]
  <2>1. i.to \subseteq 1 .. Len(blocks) /\ \A m \in labels : m.block \in 1 .. Len(blocks)
    BY <1>14 DEF Targets
  <2>2. Fits(d, labels, bt, i, Y) BY <1>11, <1>15, <2>1, FitsExtended
  <2>3. ASSUME i.op = "goto", i.label = l PROVE Arrives(d, bt, i, lab, Y)
    <3>1. \A m \in labels : m.name # i.label BY <1>1, <2>3 DEF LabelNamed
    <3>2. /\ Awaits(d, i, Y) /\ i.ns \in d.live /\ i.index \in Nat /\ i.index <= d.lv[i.ns]
          /\ d.parent[i.ns] = Root => i.ns = d.active[2]
      BY <2>2, <2>3, <3>1 DEF Fits
    <3>3. i \in Pending
      <4>1. LabelNamed(i.label) = {} BY <1>1, <2>3
      <4> QED BY <2>3, <4>1 DEF Pending
    <3>4. IF NS(d) \in Chain(d, i.ns) THEN Uses \cap {"goto_on", "goto_over"} # {}
          ELSE "goto_into" \in Uses \/ ("goto_ahead" \in Uses /\ d.parent[i.ns] = Root)
      BY <1>2, <1>7, <1>8, <2>3, <3>3
    <3>5. lab.ns = NS(d) /\ lab.index = d.lv[NS(d)] /\ bt[lab.block] = LocalsTo(d, Len(d.active))
      BY <1>8, <1>11, <1>12
    <3> HIDE DEF i
    <3> QED BY <1>7, <3>2, <3>4, <3>5, GotoArrives
  <2>4. \A m \in labels' : m \in labels \/ m = lab BY <1>1
  <2>5. \A m \in labels : m \in labels' BY <1>1
  <2> HIDE DEF i
  <2>6. i.op = "goto" =>
          /\ (\A m \in labels' : m.name # i.label) => Awaits(d, i, Y)
          /\ \A m \in labels' : m.name = i.label => Arrives(d, bt, i, m, Y)
    BY <1>12, <2>2, <2>3, <2>4, <2>5 DEF Fits
  <2>7. Fits(d, labels', bt, i, Y) BY <2>2, <2>6 DEF Fits
  <2> QED BY <2>7 DEF i
<1>16. /\ IsList(code)
       /\ EndsPath(blocks[pr.block]) \/ Path(d, labels', bt, code, zs[pr.block], ys[pr.block])
  <2>1. CASE Terminated(blocks[pr.block])
    BY <1>3, <2>1, TerminatedEnds, ShortLists
  <2>2. CASE ~Terminated(blocks[pr.block])
    <3>1. code = <<Br(n)>> BY <2>2
    <3>2. Br(n).op = "br" /\ Br(n).to = {n} BY PlainInstr
    <3>3. Lands(Br(n)) /\ Fits(d, labels', bt, Br(n), X)
      BY <1>11, <3>2 DEF Lands, IsTerminator, Fits
    <3> QED BY <1>10, <3>1, <3>3, PathOne, ShortLists
  <2> QED BY <2>1, <2>2
<1> HIDE DEF code
<1>17. /\ IsCode(mid) /\ Len(mid) = Len(blocks)
       /\ mid[pr.block] = blocks[pr.block] \o code
       /\ \A p \in 1 .. Len(blocks) : p # pr.block => mid[p] = blocks[p]
  <2>1. IsCode(mid) /\ Len(mid) = Len(blocks) BY <1>3, <1>16, EmitLonger
  <2>2. IsList(blocks) BY <1>3 DEF IsCode
  <2> QED BY <1>3, <2>1, <2>2, ListReplace DEF Emit
<1> HIDE DEF mid
<1>18. /\ Len(blocks') = n /\ blocks'[n] = <<>>
       /\ \A p \in 1 .. Len(blocks) : blocks'[p] = mid[p]
  <2>1. IsList(mid) BY <1>17 DEF IsCode
  <2> QED BY <1>1, <1>17, <2>1, ListAppend
<1>19. \A p \in 1 .. Len(blocks) :
         \/ blocks'[p] = blocks[p] /\ (EndsPath(blocks[p]) \/ ys[p] = zs[p])
         \/ \E cd : /\ IsList(cd) /\ blocks'[p] = blocks[p] \o cd
                    /\ EndsPath(blocks[p]) \/ Path(d, labels', bt, cd, zs[p], ys[p])
  <2> SUFFICES ASSUME NEW p \in 1 .. Len(blocks)
               PROVE  \/ blocks'[p] = blocks[p] /\ (EndsPath(blocks[p]) \/ ys[p] = zs[p])
                      \/ \E cd : /\ IsList(cd) /\ blocks'[p] = blocks[p] \o cd
                                 /\ EndsPath(blocks[p]) \/ Path(d, labels', bt, cd, zs[p], ys[p])
    OBVIOUS
  <2>1. CASE p = pr.block BY <1>16, <1>17, <1>18, <2>1
  <2>2. CASE p # pr.block BY <1>11, <1>17, <1>18, <2>2
  <2> QED BY <2>1, <2>2
<1>20. \A p \in Len(blocks) + 1 .. Len(blocks') : Path(d, labels', bt, blocks'[p], bt[p], ys[p])
  <2>1. \A p \in Len(blocks) + 1 .. Len(blocks') : p = n BY <1>3, <1>18
  <2> QED BY <1>11, <1>18, <2>1, PathEmpty
<1>21. \A m \in labels' : LabelFits(d, bt, m, h[0])
  <2> SUFFICES ASSUME NEW m \in labels' PROVE LabelFits(d, bt, m, h[0]) OBVIOUS
  <2>1. CASE m = lab BY <1>13, <2>1
  <2>2. CASE m \in labels
    <3>1. LabelFits(d, at, m, h[0]) BY <1>9, <2>2 DEF Typing
    <3>2. bt[m.block] = at[m.block] BY <1>11, <1>14, <2>2 DEF Targets
    <3> QED BY <3>1, <3>2 DEF LabelFits
  <2> QED BY <1>1, <2>1, <2>2
<1>22. Len(blocks) \in Nat \ {0} /\ Len(blocks') \in Nat BY <1>3, <1>11, <1>18
<1>23. Typing(d, blocks', labels', bt, ys, h[0])
  <2>1. \A p \in 1 .. Len(blocks) : \A k \in 1 .. Len(blocks[p]) : \A Y :
          Lands(blocks[p][k]) /\ Fits(d, labels, at, blocks[p][k], Y) =>
            Fits(d, labels', bt, blocks[p][k], Y)
    BY <1>15
  <2>2. \A p \in 1 .. Len(blocks) : bt[p] = at[p] /\ IsList(blocks[p]) BY <1>3, <1>11
  <2> QED BY <1>9, <1>19, <1>20, <1>21, <1>22, <2>1, <2>2, TypingGrows
<1>24. Exits(d, ys, n, forms, Len(forms), h)
  <2>1. \A i \in 1 .. Len(forms) : \A p \in Waiting(forms[i]) : ys[p] = zs[p]
    BY <1>11, WaitsApart
  <2>2. \A m \in Nodes : m # NS(ctx) => d.vars[m] = ctx.vars[m] BY <1>7
  <2> QED BY <1>4, <1>5, <1>7, <1>8, <1>11, <2>1, <2>2, ExitsOn
<1>25. Typed(d, blocks', labels', n, forms, Len(forms), h) BY <1>23, <1>24 DEF Typed
<1>26. Scoped(d, forms, h) BY <1>4, <1>7, ScopedStays
<1> QED BY <1>1, <1>4, <1>25, <1>26 DEF Lives

(* What a form that opens leaves of the forms around it.                   *)
LEMMA ExitsPush ==
  ASSUME NEW d, NEW fs, IsList(fs), NEW fr, NEW h, NEW ys, NEW to,
         \A i \in 1 .. Len(fs) : \A p \in Waiting(fs[i]) : ys[p] = LocalsTo(d, h[i - 1]),
         \A p \in Waiting(fr) : ys[p] = LocalsTo(d, h[Len(fs)]),
         ys[to] = LocalsTo(d, h[Len(fs)] + (IF fr.kind = "call" THEN 0 ELSE 1))
  PROVE  Exits(d, ys, to, Append(fs, fr), Len(fs) + 1, Opened(h, fs, fr))
<1> DEFINE gs == Append(fs, fr)
           g  == Opened(h, fs, fr)
           n  == Len(fs)
<1>1. n \in Nat /\ (\A k \in 1 .. n : gs[k] = fs[k]) /\ gs[n + 1] = fr
  BY ListAppend, ListLen
<1>2. \A i \in 0 .. n : g[i] = h[i] BY <1>1 DEF Opened
<1>3. g[n + 1] = h[n] + (IF fr.kind = "call" THEN 0 ELSE 1)
  <2>1. n + 1 \in 0 .. n + 1 /\ ~(n + 1 <= n) BY <1>1
  <2> QED BY <2>1 DEF Opened
<1> HIDE DEF g, gs
<1>4. ASSUME NEW i \in 1 .. n + 1, NEW p \in Waiting(gs[i])
      PROVE  ys[p] = LocalsTo(d, g[i - 1])
  <2>1. CASE i = n + 1
    <3>1. i - 1 = n /\ n \in 0 .. n BY <1>1, <2>1
    <3> QED BY <1>1, <1>2, <1>4, <2>1, <3>1
  <2>2. CASE i # n + 1
    <3>1. i \in 1 .. n /\ i - 1 \in 0 .. n BY <1>1, <2>2
    <3> QED BY <1>1, <1>2, <1>4, <3>1
  <2> QED BY <2>1, <2>2
<1>5. ys[to] = LocalsTo(d, g[n + 1]) BY <1>3
<1> QED BY <1>4, <1>5 DEF Exits, g, gs

LEMMA FoundPush ==
  ASSUME NEW fs, IsList(fs), NEW fr, NEW h, FoundTyped(fs, Len(fs), h),
         \A s \in fr.saved : Typed(s.ctx, s.blocks, s.labels, fr.entry, fs, Len(fs), h)
  PROVE  FoundTyped(Append(fs, fr), Len(fs) + 1, Opened(h, fs, fr))
<1> DEFINE gs == Append(fs, fr)
           g  == Opened(h, fs, fr)
           n  == Len(fs)
<1>1. n \in Nat /\ (\A k \in 1 .. n : gs[k] = fs[k]) /\ gs[n + 1] = fr
  BY ListAppend, ListLen
<1>2. \A i \in 0 .. n : g[i] = h[i] BY <1>1 DEF Opened
<1> HIDE DEF g, gs
<1>3. FoundTyped(gs, n, g) BY <1>1, <1>2, TypedSame
<1>4. ASSUME NEW i \in 1 .. n + 1, NEW s \in gs[i].saved
      PROVE  Typed(s.ctx, s.blocks, s.labels, gs[i].entry, gs, i - 1, g)
  <2>1. CASE i = n + 1
    <3>1. i - 1 = n BY <1>1, <2>1
    <3>2. s \in fr.saved /\ gs[i].entry = fr.entry BY <1>1, <1>4, <2>1
    <3>3. Typed(s.ctx, s.blocks, s.labels, fr.entry, fs, n, h) BY <3>2
    <3>4. Typed(s.ctx, s.blocks, s.labels, fr.entry, gs, n, g) BY <1>1, <1>2, <3>3, TypedSame
    <3> QED BY <3>1, <3>2, <3>4
  <2>2. CASE i # n + 1
    <3>1. i \in 1 .. n BY <1>1, <2>2
    <3> QED BY <1>3, <1>4, <3>1 DEF FoundTyped
  <2> QED BY <2>1, <2>2
<1> QED BY <1>4 DEF FoundTyped, g, gs

LEMMA FoundPop ==
  ASSUME NEW fs, IsList(fs), fs # <<>>, NEW h, FoundTyped(fs, Len(fs), h)
  PROVE  FoundTyped(Pop(fs), Len(fs) - 1, h)
<1>1. /\ Len(fs) \in Nat \ {0} /\ \A k \in 1 .. Len(fs) - 1 : Pop(fs)[k] = fs[k]
  BY ListPop
<1>2. Len(fs) - 1 \in Nat /\ \A i \in 1 .. Len(fs) - 1 : i \in 1 .. Len(fs) BY <1>1
<1>3. FoundTyped(fs, Len(fs) - 1, h) BY <1>2 DEF FoundTyped
<1> QED BY <1>1, <1>2, <1>3, TypedSame

LEMMA EndCallLives ==
  ASSUME NEW h, Lives(ctx, blocks, labels, pr, forms, h), EndCall
  PROVE  Lives(ctx', blocks', labels', pr', forms', h)
<1> DEFINE n == Len(forms)
<1>1. /\ forms # <<>> /\ Back(forms).kind = "call" /\ pr.type # "error"
      /\ ctx' = ctx /\ blocks' = blocks /\ labels' = labels /\ forms' = Pop(forms)
      /\ pr'.block = pr.block /\ pr'.type # "error"
  BY DEF EndCall, Inner, Result
<1>2. /\ Scoped(ctx, forms, h) /\ FoundTyped(forms, n, h)
      /\ Typed(ctx, blocks, labels, pr.block, forms, n, h)
  BY <1>1 DEF Lives
<1>3. IsList(forms) /\ Rising(h, forms, n) BY <1>2 DEF Scoped
<1>4. /\ n \in Nat \ {0} /\ Len(Pop(forms)) = n - 1
      /\ \A k \in 1 .. n - 1 : Pop(forms)[k] = forms[k]
  BY <1>1, <1>3, ListPop
<1>5. h[n] = h[n - 1]
  <2>1. h[n] = h[n - 1] + 0 /\ h[n - 1] \in Nat BY <1>1, <1>3, RisingPop
  <2> QED BY <2>1
<1>6. Scoped(ctx, Pop(forms), h) BY <1>1, <1>2, ScopedLeaves
<1>7. FoundTyped(Pop(forms), n - 1, h) BY <1>1, <1>2, <1>3, FoundPop
<1>8. Typed(ctx, blocks, labels, pr.block, forms, n - 1, h)
  <2>1. PICK at, zs : /\ Typing(ctx, blocks, labels, at, zs, h[0])
                      /\ Exits(ctx, zs, pr.block, forms, n, h)
    BY <1>2 DEF Typed
  <2>2. \A i \in 1 .. n - 1 : i \in 1 .. n BY <1>4
  <2>3. Exits(ctx, zs, pr.block, forms, n - 1, h) BY <1>5, <2>1, <2>2 DEF Exits
  <2> QED BY <2>1, <2>3 DEF Typed
<1>9. Typed(ctx, blocks, labels, pr.block, Pop(forms), n - 1, h)
  <2> DEFINE m == n - 1
  <2>1. m \in Nat BY <1>4
  <2>2. \A k \in 1 .. m : Pop(forms)[k] = forms[k] BY <1>4
  <2> HIDE DEF m
  <2>3. \A c, bs, labs, cur :
          Typed(c, bs, labs, cur, forms, m, h) => Typed(c, bs, labs, cur, Pop(forms), m, h)
    BY <2>1, <2>2, TypedSame
  <2>4. Typed(ctx, blocks, labels, pr.block, forms, m, h) BY <1>8 DEF m
  <2> QED BY <2>3, <2>4 DEF m
<1> QED BY <1>1, <1>4, <1>6, <1>7, <1>9 DEF Lives

LEMMA BeginCallLives ==
  ASSUME NEW h, Lives(ctx, blocks, labels, pr, forms, h), BeginCall
  PROVE  \E g : Lives(ctx', blocks', labels', pr', forms', g)
<1> DEFINE n  == Len(forms)
           fr == Frame("call", pr.block, pr.block, pr)
           g  == Opened(h, forms, fr)
<1>1. /\ pr.type # "error" /\ ctx' = ctx /\ blocks' = blocks /\ labels' = labels
      /\ forms' = Append(forms, fr) /\ pr'.block = pr.block
  BY DEF BeginCall, Parse, Result
<1>2. /\ fr.kind = "call" /\ fr.entry = pr.block
      /\ \A s \in fr.saved : s.ctx = ctx /\ s.blocks = blocks /\ s.labels = labels
  BY FrameFields, FrameKind
<1> HIDE DEF fr
<1>3. /\ Scoped(ctx, forms, h) /\ FoundTyped(forms, n, h)
      /\ Typed(ctx, blocks, labels, pr.block, forms, n, h)
  BY <1>1 DEF Lives
<1>4. IsList(forms) /\ h[n] = Len(ctx.active) /\ Rising(h, forms, n) BY <1>3 DEF Scoped
<1>5. n \in Nat /\ Len(Append(forms, fr)) = n + 1 BY <1>4, ListLen, ListAppend
<1>6. Scoped(ctx, Append(forms, fr), g) BY <1>2, <1>3, ScopedCalls
<1>7. FoundTyped(Append(forms, fr), n + 1, g) BY <1>2, <1>3, <1>4, FoundPush
<1>8. PICK at, zs : /\ Typing(ctx, blocks, labels, at, zs, h[0])
                    /\ Exits(ctx, zs, pr.block, forms, n, h)
  BY <1>3 DEF Typed
<1>9. Exits(ctx, zs, pr.block, Append(forms, fr), n + 1, g)
  <2>1. Waiting(fr) = {} BY <1>2, NoneWaits
  <2>2. h[n] \in Nat /\ h[n] + (IF fr.kind = "call" THEN 0 ELSE 1) = h[n]
    <3>1. h[n] \in Nat BY <1>5, <1>4 DEF Rising
    <3> QED BY <1>2, <3>1
  <2>3. zs[pr.block] = LocalsTo(ctx, h[n] + (IF fr.kind = "call" THEN 0 ELSE 1))
    BY <1>8, <2>2 DEF Exits
  <2>4. \A i \in 1 .. n : \A p \in Waiting(forms[i]) : zs[p] = LocalsTo(ctx, h[i - 1])
    BY <1>8 DEF Exits
  <2> QED BY <1>4, <2>1, <2>3, <2>4, ExitsPush
<1>10. g[0] = h[0] BY <1>5 DEF Opened
<1> HIDE DEF g
<1>11. Typed(ctx, blocks, labels, pr.block, Append(forms, fr), n + 1, g)
  BY <1>8, <1>9, <1>10 DEF Typed
<1>12. Lives(ctx', blocks', labels', pr', forms', g)
  BY <1>1, <1>5, <1>6, <1>7, <1>11 DEF Lives
<1> QED BY <1>12

(* The scope of a form that ends.                                          *)
ClosedTo(c, d) ==
  d \in {DeactivateAnonymousNamespace(c), DeactivateNamespace(c, c.name[NS(c)])}
AroundIt(c, d, fs, h) ==
  /\ h[Len(fs) - 1] = Len(d.active)
  /\ \A i \in 0 .. Len(fs) - 1 : /\ h[i] \in 0 .. Len(c.active)
                                 /\ \A j \in 1 .. h[i] : d.active[j] = c.active[j]

LEMMA ScopeLeaves ==
  ASSUME NEW c, NEW fs, NEW h, Scoped(c, fs, h), fs # <<>>, Back(fs).kind # "call",
         NEW d, ClosedTo(c, d)
  PROVE  /\ Scoped(d, Pop(fs), h) /\ InBody(c, h[0]) /\ InBody(d, h[0])
         /\ Moves(c, d) /\ SameVars(c, d) /\ d = DeactivateAnonymousNamespace(c)
         /\ AroundIt(c, d, fs, h) /\ d.fresh = c.fresh /\ d.vars = c.vars
         /\ LocalsTo(d, Len(d.active)) =
              LocalsTo(c, Len(c.active)) \ VarsOf(c, {NS(c)})
<1> DEFINE n == Len(fs)
<1>1. /\ IsList(fs) /\ Rising(h, fs, n) /\ InBody(c, h[0]) /\ h[n] = Len(c.active)
  BY DEF Scoped
<1>2. n \in Nat \ {0} BY <1>1, ListPop
<1>3. /\ h[n] = h[n - 1] + 1 /\ h[0] <= h[n - 1] /\ h[0] \in Nat /\ h[n - 1] \in Nat
  BY <1>1, RisingPop
<1>4. h[0] < Len(c.active) BY <1>1, <1>3
<1>5. /\ d = DeactivateAnonymousNamespace(c)
      /\ InBody(d, h[0]) /\ Moves(c, d) /\ SameVars(c, d)
      /\ d.fresh = c.fresh /\ Len(d.active) = Len(c.active) - 1
      /\ \A j \in 1 .. Len(d.active) : d.active[j] = c.active[j]
      /\ d.vars = c.vars
      /\ LocalsTo(d, Len(d.active)) = LocalsTo(c, Len(c.active)) \ VarsOf(c, {NS(c)})
  BY <1>1, <1>4, CloseBody DEF ClosedTo
<1>6. Scoped(d, Pop(fs), h) BY <1>5, ScopedLeaves
<1>7. h[n - 1] = Len(d.active)
  <2>1. h[n - 1] \in Nat /\ Len(c.active) = h[n - 1] + 1 BY <1>1, <1>3
  <2>2. Len(d.active) = Len(c.active) - 1 BY <1>5
  <2> HIDE DEF n
  <2> QED BY <2>1, <2>2
<1>8. ASSUME NEW i \in 0 .. n - 1
      PROVE  /\ h[i] \in 0 .. Len(c.active) /\ \A j \in 1 .. h[i] : d.active[j] = c.active[j]
  <2>1. i \in 0 .. n /\ n - 1 \in 0 .. n BY <1>2
  <2>2. h[i] \in Nat BY <1>1, <2>1 DEF Rising
  <2>3. h[i] <= h[n - 1]
    <3>1. CASE i = n - 1 BY <1>3, <3>1
    <3>2. CASE i < n - 1 BY <1>1, <2>1, <3>2 DEF Rising
    <3> QED BY <1>2, <3>1, <3>2
  <2>4. h[i] <= Len(d.active) BY <1>7, <2>3
  <2>5. Len(d.active) \in Nat BY <1>3, <1>7
  <2>6. h[i] \in 0 .. Len(c.active) BY <1>5, <2>2, <2>4, <2>5
  <2>7. \A j \in 1 .. h[i] : j \in 1 .. Len(d.active) BY <2>2, <2>4, <2>5
  <2> QED BY <1>5, <2>6, <2>7
<1> QED BY <1>1, <1>5, <1>6, <1>7, <1>8 DEF AroundIt

WaitOn(d, ys, h) ==
  \A i \in 1 .. Len(forms) - 1 : \A p \in Waiting(Pop(forms)[i]) :
    ys[p] = LocalsTo(d, h[i - 1])

(* Its variables are destructed where it began, and that is where it ends, *)
(* if it has any.                                                          *)
LEMMA ScopeCloses ==
  ASSUME Tame, Sound(blocks, pr, forms), Flowing(blocks, labels, pr, forms),
         NEW h, Lives(ctx, blocks, labels, pr, forms, h), forms # <<>>,
         Back(forms).kind # "call", MayClose,
         NEW d, ClosedTo(ctx, d)
  PROVE  \E at, ys :
           /\ Typing(d, CloseScope(blocks, Back(forms).entry), labels, at, ys, h[0])
           /\ ys[pr.block] = LocalsTo(d, Len(d.active))
           /\ \A p \in Waiting(Back(forms)) : ys[p] = LocalsTo(d, Len(d.active))
           /\ WaitOn(d, ys, h)
<1> DEFINE n  == Len(forms)
           e  == Back(forms).entry
           V  == VarsOf(ctx, {NS(ctx)})
           X  == LocalsTo(ctx, Len(ctx.active))
           Y  == LocalsTo(d, Len(d.active))
<1>1. pr.type # "error" /\ (ctx.vars[NS(ctx)] = <<>> \/ pr.block = e)
  BY DEF MayClose, Tame
<1>2. Scoped(ctx, forms, h) BY DEF Lives
<1>3. PICK at, zs : /\ Typing(ctx, blocks, labels, at, zs, h[0])
                    /\ Exits(ctx, zs, pr.block, forms, n, h)
  BY <1>1 DEF Lives, Typed
<1>4. IsList(forms) /\ h[n] = Len(ctx.active) BY <1>2 DEF Scoped
<1>5. /\ n \in Nat \ {0} /\ n - 1 \in Nat /\ Back(forms) = forms[n]
      /\ \A k \in 1 .. n - 1 : Pop(forms)[k] = forms[k]
  BY <1>4, ListPop
<1>6. /\ InBody(ctx, h[0]) /\ InBody(d, h[0]) /\ Moves(ctx, d) /\ SameVars(ctx, d)
      /\ h[n - 1] = Len(d.active) /\ Y = X \ V
      /\ \A i \in 0 .. n - 1 : /\ h[i] \in 0 .. Len(ctx.active)
                               /\ \A j \in 1 .. h[i] : d.active[j] = ctx.active[j]
  <2>1. /\ InBody(ctx, h[0]) /\ InBody(d, h[0]) /\ Moves(ctx, d) /\ SameVars(ctx, d)
        /\ h[Len(forms) - 1] = Len(d.active)
        /\ LocalsTo(d, Len(d.active)) =
             LocalsTo(ctx, Len(ctx.active)) \ VarsOf(ctx, {NS(ctx)})
        /\ \A i \in 0 .. Len(forms) - 1 :
             /\ h[i] \in 0 .. Len(ctx.active)
             /\ \A j \in 1 .. h[i] : d.active[j] = ctx.active[j]
    <3>1. /\ InBody(ctx, h[0]) /\ InBody(d, h[0]) /\ Moves(ctx, d) /\ SameVars(ctx, d)
          /\ AroundIt(ctx, d, forms, h)
          /\ LocalsTo(d, Len(d.active)) =
               LocalsTo(ctx, Len(ctx.active)) \ VarsOf(ctx, {NS(ctx)})
      BY <1>2, ScopeLeaves
    <3> QED BY <3>1 DEF AroundIt
  <2> QED BY <2>1
<1>7. V = {} \/ (pr.block = e /\ V \subseteq X)
  <2>1. ASSUME ctx.vars[NS(ctx)] = <<>> PROVE V = {}
    <3>1. Len(ctx.vars[NS(ctx)]) = 0 BY <2>1, ShortLists
    <3>2. \A x \in VarsOf(ctx, {NS(ctx)}) :
            x[1] \in {NS(ctx)} /\ x[2] \in 1 .. Len(ctx.vars[x[1]])
      BY VarsOfIn
    <3>3. \A x \in VarsOf(ctx, {NS(ctx)}) : x[2] \in 1 .. 0 BY <3>1, <3>2
    <3>4. 1 .. 0 = {} OBVIOUS
    <3> QED BY <3>3, <3>4
  <2>2. V \subseteq X
    <3>1. Len(ctx.active) \in Nat /\ Len(ctx.active) >= 1
          /\ NS(ctx) = ctx.active[Len(ctx.active)]
      BY <1>6, BodyParts
    <3>2. Len(ctx.active) \in 1 .. Len(ctx.active) BY <3>1
    <3> QED BY <3>1, <3>2 DEF LocalsTo, VarsOf
  <2> QED BY <1>1, <2>1, <2>2
<1>8. zs[pr.block] = X BY <1>3, <1>4 DEF Exits
<1>9. IsCode(blocks) /\ e \in 1 .. Len(blocks) /\ pr.block \in 1 .. Len(blocks)
  BY Popped, SoundTypes DEF FrameOK, Writes
<1> DEFINE ys == [q \in 1 .. Len(blocks) |-> IF q = e THEN zs[e] \ V ELSE zs[q]]
           code == Calls("destroy", V)
<1>10. /\ ys[e] = zs[e] \ V /\ \A q \in 1 .. Len(blocks) : q # e => ys[q] = zs[q]
       /\ V = {} => \A q \in 1 .. Len(blocks) : ys[q] = zs[q]
  BY <1>9
<1> HIDE DEF ys
<1>11. ys[pr.block] = Y BY <1>6, <1>7, <1>8, <1>9, <1>10
<1>12. ASSUME NEW q \in 1 .. Len(blocks), q # pr.block PROVE ys[q] = zs[q]
  BY <1>7, <1>10, <1>12
<1>13. Path(ctx, labels, at, code, zs[e], zs[e] \ V)
  <2>1. V \subseteq zs[e] BY <1>7, <1>8
  <2> HIDE DEF V, X
  <2> QED BY <2>1, PathCalls
<1>14. Typing(ctx, Emit(blocks, e, code), labels, at, ys, h[0])
  <2>1. IsList(code) BY CallsList
  <2> HIDE DEF code, V, X, e
  <2> QED BY <1>3, <1>9, <1>10, <1>13, <2>1, TypingEmit
<1>15. Typing(d, Emit(blocks, e, code), labels, at, ys, h[0])
  <2> HIDE DEF code, V, X, e
  <2> QED BY <1>6, <1>14, TypingMoves
<1>16. \A i \in 1 .. n : \A p \in Waiting(forms[i]) : ys[p] = zs[p]
  BY <1>12, WaitsApart
<1>17. ASSUME NEW i \in 1 .. n, NEW p \in Waiting(forms[i])
       PROVE  ys[p] = LocalsTo(d, h[i - 1])
  <2>1. zs[p] = LocalsTo(ctx, h[i - 1]) BY <1>3, <1>17 DEF Exits
  <2>2. i - 1 \in 0 .. n - 1 BY <1>5
  <2>3. LocalsTo(d, h[i - 1]) = LocalsTo(ctx, h[i - 1])
    <3>1. h[i - 1] \in 0 .. Len(ctx.active)
          /\ \A j \in 1 .. h[i - 1] : d.active[j] = ctx.active[j]
      BY <1>6, <2>2
    <3> QED BY <1>6, <3>1, LocalsStill
  <2> QED BY <1>16, <1>17, <2>1, <2>3
<1>18. \A p \in Waiting(Back(forms)) : ys[p] = Y
  <2>1. n \in 1 .. n BY <1>5
  <2>2. \A p \in Waiting(forms[n]) : ys[p] = LocalsTo(d, h[n - 1]) BY <1>17, <2>1
  <2> QED BY <1>5, <1>6, <2>2
<1>19. \A i \in 1 .. n - 1 : \A p \in Waiting(Pop(forms)[i]) : ys[p] = LocalsTo(d, h[i - 1])
  <2>1. \A i \in 1 .. n - 1 : i \in 1 .. n BY <1>5
  <2> QED BY <1>5, <1>17, <2>1
<1>20. CloseScope(blocks, e) = Emit(blocks, e, code) BY DEF CloseScope
<1> HIDE DEF code, V, X, Y
<1> QED BY <1>11, <1>15, <1>18, <1>19, <1>20 DEF Y, WaitOn

LEMMA CloseNewScopeLives ==
  ASSUME Tame, Sound(blocks, pr, forms), Flowing(blocks, labels, pr, forms),
         NEW h, Lives(ctx, blocks, labels, pr, forms, h), CloseNewScope
  PROVE  Lives(ctx', blocks', labels', pr', forms', h)
<1> DEFINE n == Len(forms)
           d == DeactivateNamespace(ctx, ctx.name[NS(ctx)])
           new == CloseScope(blocks, Back(forms).entry)
<1>1. /\ forms # <<>> /\ Back(forms).kind # "call" /\ MayClose
      /\ ctx' = d /\ blocks' = new /\ labels' = labels /\ forms' = Pop(forms) /\ pr' = pr
  BY DEF CloseNewScope, Inner
<1>2. Scoped(ctx, forms, h) /\ FoundTyped(forms, n, h) BY DEF Lives
<1>3. IsList(forms) BY <1>2 DEF Scoped
<1>4. Len(Pop(forms)) = n - 1 BY <1>1, <1>3, ListPop
<1>5. Scoped(d, Pop(forms), h) /\ h[n - 1] = Len(d.active)
  <2>1. forms # <<>> /\ Back(forms).kind # "call" BY <1>1
  <2>2. ClosedTo(ctx, d) BY DEF ClosedTo
  <2> HIDE DEF d
  <2>3. Scoped(d, Pop(forms), h) /\ AroundIt(ctx, d, forms, h)
    BY <1>2, <2>1, <2>2, ScopeLeaves
  <2> QED BY <2>3 DEF AroundIt
<1>6. FoundTyped(Pop(forms), n - 1, h) BY <1>1, <1>2, <1>3, FoundPop
<1>7. Typed(d, new, labels, pr.block, Pop(forms), n - 1, h)
  <2>0. forms # <<>> /\ Back(forms).kind # "call" /\ MayClose BY <1>1
  <2>2. ClosedTo(ctx, d) BY DEF ClosedTo
  <2> HIDE DEF d, new, n
  <2>1. PICK at, ys :
           /\ Typing(d, CloseScope(blocks, Back(forms).entry), labels, at, ys, h[0])
           /\ ys[pr.block] = LocalsTo(d, Len(d.active))
           /\ WaitOn(d, ys, h)
    BY <2>0, <2>2, ScopeCloses
  <2>3. Exits(d, ys, pr.block, Pop(forms), n - 1, h) BY <1>5, <2>1 DEF Exits, n, WaitOn
  <2> QED BY <2>1, <2>3 DEF Typed, new
<1> QED BY <1>1, <1>4, <1>5, <1>6, <1>7 DEF Lives

LEMMA AbandonLives ==
  ASSUME Sound(blocks, pr, forms), NEW h, Lives(ctx, blocks, labels, pr, forms, h), Abandon
  PROVE  Lives(ctx', blocks', labels', pr', forms', h)
<1> DEFINE n == Len(forms)
           d == DeactivateAnonymousNamespace(ctx)
<1>1. /\ pr.type = "error" /\ Back(forms).kind # "call" /\ ctx' = d
      /\ labels' = labels /\ forms' = Pop(forms) /\ pr' = pr
  BY DEF Abandon
<1>2. Scoped(ctx, forms, h) /\ FoundTyped(forms, n, h) BY DEF Lives
<1>3. IsList(forms) BY <1>2 DEF Scoped
<1>4. forms # <<>>
  <2>1. \E i \in 1 .. Len(forms) : forms[i].kind = "call" BY <1>1 DEF Sound
  <2> QED BY <2>1, ShortLists
<1>5. Len(Pop(forms)) = n - 1 BY <1>3, <1>4, ListPop
<1>6. Scoped(d, Pop(forms), h)
  <2>1. ClosedTo(ctx, d) BY DEF ClosedTo
  <2> HIDE DEF d
  <2> QED BY <1>1, <1>2, <1>4, <2>1, ScopeLeaves
<1>7. FoundTyped(Pop(forms), n - 1, h) BY <1>2, <1>3, <1>4, FoundPop
<1> QED BY <1>1, <1>5, <1>6, <1>7 DEF Lives

LEMMA RestoreCallLives ==
  ASSUME Sound(blocks, pr, forms), NEW h, Lives(ctx, blocks, labels, pr, forms, h),
         RestoreCall
  PROVE  Lives(ctx', blocks', labels', pr', forms', h)
<1> DEFINE n == Len(forms)
<1>1. PICK s \in Back(forms).saved : ctx' = RestoreContext(ctx, s.ctx)
  BY DEF RestoreCall
<1>2. /\ forms # <<>> /\ Back(forms).kind = "call"
      /\ forms' = Pop(forms) /\ pr'.block = Back(forms).entry
  BY DEF RestoreCall, Inner, Result
<1>3. blocks' = s.blocks /\ labels' = s.labels BY RestoreSound
<1> DEFINE d == RestoreContext(ctx, s.ctx)
<1>4. Scoped(ctx, forms, h) /\ FoundTyped(forms, n, h) BY DEF Lives
<1>5. IsList(forms) /\ Rising(h, forms, n) BY <1>4 DEF Scoped
<1>6. /\ n \in Nat \ {0} /\ n - 1 \in Nat /\ Back(forms) = forms[n] /\ Len(Pop(forms)) = n - 1
      /\ \A k \in 1 .. n - 1 : Pop(forms)[k] = forms[k]
  BY <1>2, <1>5, ListPop
<1>7. /\ Scoped(d, Pop(forms), h) /\ Moves(s.ctx, d) /\ SameVars(s.ctx, d)
      /\ d.active = s.ctx.active /\ InBody(s.ctx, h[0]) /\ InBody(d, h[0])
      /\ h[n - 1] = Len(s.ctx.active)
  BY <1>2, <1>4, ScopedRestores
<1> HIDE DEF d
<1>8. FoundTyped(Pop(forms), n - 1, h) BY <1>2, <1>4, <1>5, FoundPop
<1>9. Typed(s.ctx, s.blocks, s.labels, forms[n].entry, forms, n - 1, h)
  <2>1. n \in 1 .. n /\ s \in forms[n].saved BY <1>6
  <2> QED BY <1>4, <2>1 DEF FoundTyped
<1>10. PICK at, zs : /\ Typing(s.ctx, s.blocks, s.labels, at, zs, h[0])
                     /\ Exits(s.ctx, zs, forms[n].entry, forms, n - 1, h)
  BY <1>9 DEF Typed
<1>11. Typing(d, s.blocks, s.labels, at, zs, h[0]) BY <1>7, <1>10, TypingMoves
<1>12. \A i \in 0 .. n - 1 : /\ h[i] \in 0 .. Len(s.ctx.active)
                             /\ \A j \in 1 .. h[i] : d.active[j] = s.ctx.active[j]
  <2>1. \A i \in 0 .. n - 1 : i \in 0 .. n /\ n - 1 \in 0 .. n BY <1>6
  <2>2. \A i \in 0 .. n : h[i] \in Nat BY <1>5 DEF Rising
  <2>3. \A i \in 0 .. n - 1 : i < n - 1 => h[i] <= h[n - 1] BY <1>5, <2>1 DEF Rising
  <2>4. ASSUME NEW i \in 0 .. n - 1 PROVE h[i] \in 0 .. Len(s.ctx.active)
    <3>1. h[i] <= h[n - 1]
      <4>1. CASE i = n - 1 BY <1>6, <2>1, <2>2, <4>1
      <4>2. CASE i < n - 1 BY <2>3, <4>2
      <4> QED BY <1>6, <4>1, <4>2
    <3>2. h[i] \in Nat /\ h[n - 1] \in Nat BY <2>1, <2>2
    <3> QED BY <1>7, <3>1, <3>2
  <2> QED BY <1>7, <2>4
<1>13. Exits(d, zs, forms[n].entry, forms, n - 1, h) BY <1>6, <1>7, <1>10, <1>12, ExitsMove
<1>14. Exits(d, zs, forms[n].entry, Pop(forms), n - 1, h)
  <2> DEFINE m == n - 1
  <2>1. m \in Nat /\ \A k \in 1 .. m : Pop(forms)[k] = forms[k] BY <1>6
  <2> HIDE DEF m
  <2>2. \A c, us, cur : Exits(c, us, cur, forms, m, h) => Exits(c, us, cur, Pop(forms), m, h)
    BY <2>1, TypedSame
  <2>3. Exits(d, zs, forms[n].entry, forms, m, h) BY <1>13 DEF m
  <2> QED BY <2>2, <2>3 DEF m
<1>15. Typed(d, s.blocks, s.labels, forms[n].entry, Pop(forms), n - 1, h)
  BY <1>11, <1>14 DEF Typed
<1> QED BY <1>1, <1>2, <1>3, <1>6, <1>7, <1>8, <1>15 DEF Lives, d

LEMMA AppendJoins ==
  ASSUME NEW s, IsList(s), NEW e
  PROVE  Append(s, e) = s \o <<e>>
<1>1. IsList(<<e>>) /\ Len(<<e>>) = 1 /\ <<e>>[1] = e BY ShortLists
<1>2. /\ IsList(s \o <<e>>) /\ Len(s \o <<e>>) = Len(s) + 1 /\ (s \o <<e>>)[Len(s) + 1] = e
      /\ \A k \in 1 .. Len(s) : (s \o <<e>>)[k] = s[k]
  <2>1. /\ IsList(s \o <<e>>) /\ Len(s \o <<e>>) = Len(s) + Len(<<e>>)
        /\ \A k \in 1 .. Len(s) : (s \o <<e>>)[k] = s[k]
        /\ \A k \in 1 .. Len(<<e>>) : (s \o <<e>>)[Len(s) + k] = <<e>>[k]
    BY <1>1, ListConcat
  <2>2. 1 \in 1 .. Len(<<e>>) BY <1>1
  <2> QED BY <1>1, <2>1, <2>2
<1>3. /\ IsList(Append(s, e)) /\ Len(Append(s, e)) = Len(s) + 1
      /\ \A k \in 1 .. Len(s) : Append(s, e)[k] = s[k]
      /\ Append(s, e)[Len(s) + 1] = e
  BY ListAppend
<1>4. Len(s) \in Nat BY ListLen
<1>5. ASSUME NEW k \in 1 .. Len(Append(s, e)) PROVE Append(s, e)[k] = (s \o <<e>>)[k]
  <2>1. k \in 1 .. Len(s) \/ k = Len(s) + 1 BY <1>3, <1>4
  <2> QED BY <1>2, <1>3, <2>1
<1> QED BY <1>2, <1>3, <1>5, ListEqual

(* New blocks that are branched to from the ends of others.                *)
NewBlocks(bs, new, zs, Z) ==
  /\ Len(new) \in Nat
  /\ \A p \in 1 .. Len(bs) :
       \/ new[p] = bs[p]
       \/ zs[p] = Z /\ \E i : /\ new[p] = bs[p] \o <<i>> /\ i.op \in {"br", "cbr"}
                              /\ i.to \subseteq Len(bs) + 1 .. Len(new)
  /\ \A p \in Len(bs) + 1 .. Len(new) :
       new[p] = <<>> \/ \E i : new[p] = <<i>> /\ i.op = "phi" /\ i.objs = {}

LEMMA TypingAdds ==
  ASSUME NEW c, NEW b, NEW bs, NEW labs, NEW at, NEW zs, Typing(c, bs, labs, at, zs, b),
         IsCode(bs), Len(bs) \in Nat \ {0}, Targets(bs, labs),
         NEW new, NEW Z, NewBlocks(bs, new, zs, Z)
  PROVE  \E bt, ys : /\ Typing(c, new, labs, bt, ys, b)
                     /\ \A p \in 1 .. Len(bs) : ys[p] = zs[p]
                     /\ \A p \in Len(bs) + 1 .. Len(new) : ys[p] = Z
<1> DEFINE N  == Len(bs)
           bt == [p \in 1 .. N \cup (N + 1 .. Len(new)) |-> IF p \in 1 .. N THEN at[p] ELSE Z]
           ys == [p \in 1 .. N \cup (N + 1 .. Len(new)) |-> IF p \in 1 .. N THEN zs[p] ELSE Z]
<1>1. /\ \A p \in 1 .. N : bt[p] = at[p] /\ ys[p] = zs[p] /\ IsList(bs[p])
      /\ \A p \in N + 1 .. Len(new) : p \notin 1 .. N
  BY DEF IsCode
<1>2. \A p \in N + 1 .. Len(new) : bt[p] = Z /\ ys[p] = Z BY <1>1
<1> HIDE DEF bt, ys
<1>3. ASSUME NEW p \in 1 .. N, NEW k \in 1 .. Len(bs[p]), NEW X, Fits(c, labs, at, bs[p][k], X)
      PROVE  Fits(c, labs, bt, bs[p][k], X)
  <2>1. bs[p][k].to \subseteq 1 .. N /\ \A lab \in labs : lab.block \in 1 .. N BY DEF Targets
  <2>2. \A q \in 1 .. N : bt[q] = at[q] BY <1>1
  <2> DEFINE i == bs[p][k]
  <2>3. i.to \subseteq 1 .. N /\ Fits(c, labs, at, i, X) BY <1>3, <2>1
  <2> HIDE DEF i, N
  <2>4. Fits(c, labs, bt, i, X) BY <2>1, <2>2, <2>3, FitsExtended
  <2> QED BY <2>4 DEF i
<1>4. ASSUME NEW p \in 1 .. N
      PROVE  \/ new[p] = bs[p] /\ (EndsPath(bs[p]) \/ ys[p] = zs[p])
             \/ \E code : /\ IsList(code) /\ new[p] = bs[p] \o code
                          /\ EndsPath(bs[p]) \/ Path(c, labs, bt, code, zs[p], ys[p])
  <2>0. \/ new[p] = bs[p]
        \/ zs[p] = Z /\ \E i : /\ new[p] = bs[p] \o <<i>> /\ i.op \in {"br", "cbr"}
                               /\ i.to \subseteq N + 1 .. Len(new)
    BY DEF NewBlocks
  <2>1. CASE new[p] = bs[p] BY <1>1, <2>1
  <2>2. CASE zs[p] = Z /\ \E i : /\ new[p] = bs[p] \o <<i>> /\ i.op \in {"br", "cbr"}
                                 /\ i.to \subseteq N + 1 .. Len(new)
    <3>1. PICK i : /\ new[p] = bs[p] \o <<i>> /\ i.op \in {"br", "cbr"}
                   /\ i.to \subseteq N + 1 .. Len(new)
      BY <2>2
    <3>2. Lands(i) /\ Fits(c, labs, bt, i, Z)
      BY <1>2, <3>1 DEF Lands, IsTerminator, Fits
    <3>3. Path(c, labs, bt, <<i>>, zs[p], ys[p]) BY <2>2, <3>2, PathOne
    <3> QED BY <3>1, <3>3, ShortLists
  <2> QED BY <2>0, <2>1, <2>2
<1>5. ASSUME NEW p \in N + 1 .. Len(new) PROVE Path(c, labs, bt, new[p], bt[p], ys[p])
  <2>0. new[p] = <<>> \/ \E i : new[p] = <<i>> /\ i.op = "phi" /\ i.objs = {}
    BY DEF NewBlocks
  <2>1. CASE new[p] = <<>> BY <1>2, <2>1, PathEmpty
  <2>2. CASE \E i : new[p] = <<i>> /\ i.op = "phi" /\ i.objs = {}
    <3>1. PICK i : new[p] = <<i>> /\ i.op = "phi" /\ i.objs = {} BY <2>2
    <3>2. ~Lands(i) /\ Does(i, Z, Z) BY <3>1 DEF Lands, IsTerminator, Does
    <3> QED BY <1>2, <3>1, <3>2, PathOne
  <2> QED BY <2>0, <2>1, <2>2
<1>6. ASSUME NEW lab \in labs PROVE LabelFits(c, bt, lab, b)
  <2>1. LabelFits(c, at, lab, b) BY DEF Typing
  <2>2. bt[lab.block] = at[lab.block] BY <1>1 DEF Targets
  <2> QED BY <2>1, <2>2 DEF LabelFits
<1>7. /\ \A p \in 1 .. Len(bs) : bt[p] = at[p] /\ IsList(bs[p])
      /\ \A p \in 1 .. Len(bs) : \A k \in 1 .. Len(bs[p]) : \A X :
           Lands(bs[p][k]) /\ Fits(c, labs, at, bs[p][k], X) => Fits(c, labs, bt, bs[p][k], X)
      /\ \A p \in 1 .. Len(bs) :
           \/ new[p] = bs[p] /\ (EndsPath(bs[p]) \/ ys[p] = zs[p])
           \/ \E code : /\ IsList(code) /\ new[p] = bs[p] \o code
                        /\ EndsPath(bs[p]) \/ Path(c, labs, bt, code, zs[p], ys[p])
      /\ \A p \in Len(bs) + 1 .. Len(new) : Path(c, labs, bt, new[p], bt[p], ys[p])
      /\ \A lab \in labs : LabelFits(c, bt, lab, b)
  BY <1>1, <1>3, <1>4, <1>5, <1>6
<1>8. Len(new) \in Nat BY DEF NewBlocks
<1>9. Typing(c, new, labs, bt, ys, b) BY <1>7, <1>8, TypingGrows
<1> QED BY <1>1, <1>2, <1>9

(* A scope that opens, and the blocks that wait for the forms around it.   *)
WaitIn(d, fs, n, ys, h) ==
  \A i \in 1 .. n : \A p \in Waiting(fs[i]) : ys[p] = LocalsTo(d, h[i - 1])

LEMMA ScopeOpens ==
  ASSUME MaxNodes < AnonLimit, NEW c, c.fresh \in Nodes,
         NEW fs, NEW h, Scoped(c, fs, h), FoundTyped(fs, Len(fs), h),
         NEW bs, NEW labs, NEW at, NEW ys, Typing(c, bs, labs, at, ys, h[0]),
         WaitIn(c, fs, Len(fs), ys, h), NEW fr, fr.kind # "call", fr.saved = {},
         \A p \in Waiting(fr) : ys[p] = LocalsTo(c, Len(c.active)),
         NEW r, ys[r.block] = LocalsTo(c, Len(c.active)),
         NEW d, d = ActivateAnonymousNamespace(c)
  PROVE  Lives(d, bs, labs, r, Append(fs, fr), Opened(h, fs, fr))
<1> DEFINE n == Len(fs)
           g == Opened(h, fs, fr)
           X == LocalsTo(c, Len(c.active))
<1>1. IsList(fs) /\ h[n] = Len(c.active) /\ InBody(c, h[0]) BY DEF Scoped
<1>2. n \in Nat /\ Len(Append(fs, fr)) = n + 1 BY <1>1, ListLen, ListAppend
<1>3. c.fresh <= MaxNodes BY DEF Nodes
<1>4. /\ InBody(d, h[0]) /\ Moves(c, d) /\ SameVars(c, d)
      /\ Len(d.active) = Len(c.active) + 1
      /\ \A j \in 1 .. Len(c.active) : d.active[j] = c.active[j]
      /\ LocalsTo(d, Len(d.active)) = X
  <2>1. InBody(c, h[0]) BY <1>1
  <2> HIDE DEF X
  <2>2. /\ InBody(d, h[0]) /\ Moves(c, d) /\ SameVars(c, d)
        /\ Len(d.active) = Len(c.active) + 1
        /\ \A j \in 1 .. Len(c.active) : d.active[j] = c.active[j]
        /\ LocalsTo(d, Len(d.active)) = LocalsTo(c, Len(c.active))
    <3> DEFINE e == ActivateAnonymousNamespace(c)
    <3>1. /\ InBody(e, h[0]) /\ Moves(c, e) /\ SameVars(c, e)
          /\ Len(e.active) = Len(c.active) + 1
          /\ \A j \in 1 .. Len(c.active) : e.active[j] = c.active[j]
          /\ LocalsTo(e, Len(e.active)) = LocalsTo(c, Len(c.active))
      BY ONLY MaxNodes < AnonLimit, <1>3, <2>1, OpenBody
    <3>2. d = e OBVIOUS
    <3> QED BY <3>1, <3>2
  <2> QED BY <2>2 DEF X
<1>5. Typing(d, bs, labs, at, ys, h[0]) BY <1>1, <1>4, TypingMoves
<1>6. \A i \in 0 .. n : LocalsTo(d, h[i]) = LocalsTo(c, h[i])
  <2>1. \A i \in 0 .. n : h[i] \in 0 .. Len(c.active) BY HeightsIn
  <2>2. Len(c.active) \in Nat BY HeightsIn
  <2>3. \A k \in 0 .. Len(c.active) : \A j \in 1 .. k : d.active[j] = c.active[j]
    <3>1. \A k \in 0 .. Len(c.active) : \A j \in 1 .. k : j \in 1 .. Len(c.active)
      BY <2>2
    <3> QED BY <1>4, <3>1
  <2> QED BY <1>1, <1>4, <2>1, <2>3, LocalsStill
<1>7. \A i \in 1 .. n : \A p \in Waiting(fs[i]) : ys[p] = LocalsTo(d, h[i - 1])
  <2>1. \A i \in 1 .. n : i - 1 \in 0 .. n BY <1>2
  <2> QED BY <1>6, <2>1 DEF WaitIn
<1>8. Exits(d, ys, r.block, Append(fs, fr), n + 1, g)
  <2>1. n \in 0 .. n BY <1>2
  <2>2. \A p \in Waiting(fr) : ys[p] = LocalsTo(d, h[n]) BY <1>1, <1>6, <2>1
  <2>3. ys[r.block] = LocalsTo(d, h[n] + (IF fr.kind = "call" THEN 0 ELSE 1))
    BY <1>1, <1>4
  <2> HIDE DEF g
  <2> QED BY <1>1, <1>7, <2>2, <2>3, ExitsPush DEF g
<1>9. Scoped(d, Append(fs, fr), g)
  <2> HIDE DEF g
  <2> QED BY <1>4, ScopedEnters DEF g
<1>10. FoundTyped(Append(fs, fr), n + 1, g) BY <1>1, FoundPush
<1>11. g[0] = h[0] BY <1>2 DEF Opened
<1> HIDE DEF g
<1>12. Typed(d, bs, labs, r.block, Append(fs, fr), n + 1, g) BY <1>5, <1>8, <1>11 DEF Typed
<1>13. Lives(d, bs, labs, r, Append(fs, fr), g) BY <1>2, <1>9, <1>10, <1>12 DEF Lives
<1> QED BY <1>13 DEF g

LEMMA OpenNewScopeLives ==
  ASSUME MaxNodes < AnonLimit, NEW h, Lives(ctx, blocks, labels, pr, forms, h), OpenNewScope
  PROVE  \E g : Lives(ctx', blocks', labels', pr', forms', g)
<1> DEFINE n  == Len(forms)
           fr == Frame("scope", pr.block, pr.block, pr)
           d  == ActivateAnonymousNamespace(ctx)
<1>1. /\ pr.type # "error" /\ ctx' = d /\ blocks' = blocks /\ labels' = labels
      /\ forms' = Append(forms, fr) /\ pr'.block = pr.block /\ ctx.fresh \in Nodes
  BY DEF OpenNewScope, Parse, Result
<1>2. fr.kind = "scope" /\ fr.saved = {} BY FrameFields, FrameKind
<1>3. Scoped(ctx, forms, h) /\ FoundTyped(forms, n, h) BY DEF Lives
<1>4. h[n] = Len(ctx.active) BY <1>3 DEF Scoped
<1>5. PICK at, zs : /\ Typing(ctx, blocks, labels, at, zs, h[0])
                    /\ Exits(ctx, zs, pr.block, forms, n, h)
  BY <1>1 DEF Lives, Typed
<1>6. WaitIn(ctx, forms, n, zs, h) BY <1>5 DEF Exits, WaitIn
<1>7. zs[pr'.block] = LocalsTo(ctx, Len(ctx.active)) BY <1>1, <1>4, <1>5 DEF Exits
<1>8. \A p \in Waiting(fr) : FALSE BY <1>2, NoneWaits
<1>9. d = ActivateAnonymousNamespace(ctx) OBVIOUS
<1> HIDE DEF fr, d
<1>10. Lives(d, blocks, labels, pr', Append(forms, fr), Opened(h, forms, fr))
  BY <1>1, <1>2, <1>3, <1>5, <1>6, <1>7, <1>8, <1>9, ScopeOpens
<1> QED BY <1>1, <1>10

LEMMA OpenIfLives ==
  ASSUME MaxNodes < AnonLimit, Sound(blocks, pr, forms),
         Flowing(blocks, labels, pr, forms),
         NEW h, Lives(ctx, blocks, labels, pr, forms, h), OpenIf
  PROVE  \E g : Lives(ctx', blocks', labels', pr', forms', g)
<1> DEFINE n    == Len(forms)
           then == Len(blocks) + 1
           cbr  == Instr("cbr", {}, {then, then + 1})
           mid  == Emit(blocks, pr.block, <<cbr>>)
           fr   == Frame("then", then, pr.block, pr)
           d    == ActivateAnonymousNamespace(ctx)
           X    == LocalsTo(ctx, Len(ctx.active))
<1>1. /\ pr.type # "error" /\ ctx' = d /\ blocks' = mid \o <<<<>>, <<>>>> /\ labels' = labels
      /\ forms' = Append(forms, fr) /\ pr'.block = then
  BY DEF OpenIf, Parse, Result
<1>2. ctx.fresh \in Nodes
  <2>1. ctx.fresh + 1 \in Nodes BY DEF OpenIf
  <2>2. InBody(ctx, h[0]) BY DEF Lives, Scoped
  <2>3. ctx.fresh \in Nat /\ ctx.fresh >= 1
    <3>1. /\ ctx.fresh \in Nat /\ NS(ctx) \in ctx.live /\ ctx.live \subseteq Nodes
          /\ \A m \in ctx.live : m < ctx.fresh
      BY <2>2, BodyParts
    <3>2. NS(ctx) < ctx.fresh /\ NS(ctx) \in Nodes BY <3>1
    <3> QED BY <3>1, <3>2 DEF Nodes
  <2> QED BY <2>1, <2>3, SizeAssumption DEF Nodes
<1>3. fr.kind = "then" /\ fr.saved = {} /\ Waiting(fr) = {then + 1}
  BY DEF Frame, Waiting
<1>4. /\ Scoped(ctx, forms, h) /\ FoundTyped(forms, n, h) BY DEF Lives
<1>5. h[n] = Len(ctx.active) BY <1>4 DEF Scoped
<1>6. PICK at, zs : /\ Typing(ctx, blocks, labels, at, zs, h[0])
                    /\ Exits(ctx, zs, pr.block, forms, n, h)
  BY <1>1 DEF Lives, Typed
<1>7. /\ IsCode(blocks) /\ Len(blocks) \in Nat \ {0} /\ pr.block \in 1 .. Len(blocks)
      /\ IsList(blocks)
  BY SoundTypes DEF IsCode
<1>8. zs[pr.block] = X BY <1>5, <1>6 DEF Exits
<1>9. cbr.op = "cbr" /\ cbr.to = {then, then + 1} BY DEF Instr
<1>10. IsList(<<cbr>>) BY ShortLists
<1> HIDE DEF cbr, fr, d, X
<1>11. /\ IsCode(mid) /\ Len(mid) = Len(blocks)
       /\ mid[pr.block] = blocks[pr.block] \o <<cbr>>
       /\ \A p \in 1 .. Len(blocks) : p # pr.block => mid[p] = blocks[p]
  <2>1. IsCode(mid) /\ Len(mid) = Len(blocks) BY <1>7, <1>10, EmitLonger
  <2> QED BY <1>7, <2>1, ListReplace DEF Emit
<1> HIDE DEF mid
<1>12. /\ Len(blocks') = Len(blocks) + 2
       /\ \A p \in 1 .. Len(blocks) : blocks'[p] = mid[p]
       /\ blocks'[then] = <<>> /\ blocks'[then + 1] = <<>>
  <2>1. /\ IsList(<<<<>>, <<>>>>) /\ Len(<<<<>>, <<>>>>) = 2
        /\ <<<<>>, <<>>>>[1] = <<>> /\ <<<<>>, <<>>>>[2] = <<>>
    BY ShortLists
  <2>2. IsList(mid) BY <1>11 DEF IsCode
  <2>3. /\ Len(blocks') = Len(mid) + Len(<<<<>>, <<>>>>)
        /\ \A k \in 1 .. Len(mid) : blocks'[k] = mid[k]
        /\ \A k \in 1 .. Len(<<<<>>, <<>>>>) : blocks'[Len(mid) + k] = <<<<>>, <<>>>>[k]
    BY <1>1, <2>1, <2>2, ListConcat
  <2>4. 1 \in 1 .. Len(<<<<>>, <<>>>>) /\ 2 \in 1 .. Len(<<<<>>, <<>>>>) BY <2>1
  <2>5. then = Len(mid) + 1 /\ then + 1 = Len(mid) + 2 BY <1>7, <1>11
  <2> QED BY <1>11, <2>1, <2>3, <2>4, <2>5
<1>13. /\ Len(blocks') \in Nat /\ cbr.to \subseteq Len(blocks) + 1 .. Len(blocks')
       /\ \A p \in Len(blocks) + 1 .. Len(blocks') : p = then \/ p = then + 1
       /\ then \in Len(blocks) + 1 .. Len(blocks')
       /\ then + 1 \in Len(blocks) + 1 .. Len(blocks')
  BY <1>7, <1>9, <1>12
<1> HIDE DEF then
<1>14. \A p \in 1 .. Len(blocks) :
         \/ blocks'[p] = blocks[p]
         \/ zs[p] = X /\ \E i : /\ blocks'[p] = blocks[p] \o <<i>> /\ i.op \in {"br", "cbr"}
                                /\ i.to \subseteq Len(blocks) + 1 .. Len(blocks')
  <2> SUFFICES ASSUME NEW p \in 1 .. Len(blocks), blocks'[p] # blocks[p]
               PROVE  zs[p] = X /\ \E i : /\ blocks'[p] = blocks[p] \o <<i>>
                                          /\ i.op \in {"br", "cbr"}
                                          /\ i.to \subseteq Len(blocks) + 1 .. Len(blocks')
    OBVIOUS
  <2>1. p = pr.block /\ blocks'[p] = blocks[p] \o <<cbr>> BY <1>11, <1>12
  <2> QED BY <1>8, <1>9, <1>13, <2>1
<1>15. \A p \in Len(blocks) + 1 .. Len(blocks') : blocks'[p] = <<>> BY <1>12, <1>13
<1>16. Targets(blocks, labels) BY DEF Flowing, Flows
<1>17. PICK bt, ys : /\ Typing(ctx, blocks', labels, bt, ys, h[0])
                     /\ \A p \in 1 .. Len(blocks) : ys[p] = zs[p]
                     /\ \A p \in Len(blocks) + 1 .. Len(blocks') : ys[p] = X
  <2> DEFINE new == blocks'
             b   == h[0]
  <2>1. /\ Typing(ctx, blocks, labels, at, zs, b) /\ Targets(blocks, labels)
        /\ IsCode(blocks) /\ Len(blocks) \in Nat \ {0} /\ Len(new) \in Nat
    BY <1>6, <1>7, <1>13, <1>16
  <2>2. \A p \in 1 .. Len(blocks) :
          \/ new[p] = blocks[p]
          \/ zs[p] = X /\ \E i : /\ new[p] = blocks[p] \o <<i>> /\ i.op \in {"br", "cbr"}
                                 /\ i.to \subseteq Len(blocks) + 1 .. Len(new)
    BY <1>14
  <2>3. NewBlocks(blocks, new, zs, X) BY <1>15, <2>1, <2>2 DEF NewBlocks
  <2> HIDE DEF new, b
  <2>4. \E bt, ys : /\ Typing(ctx, new, labels, bt, ys, b)
                    /\ \A p \in 1 .. Len(blocks) : ys[p] = zs[p]
                    /\ \A p \in Len(blocks) + 1 .. Len(new) : ys[p] = X
    BY ONLY <2>1, <2>3, TypingAdds
  <2> QED BY <2>4 DEF new, b
<1>18. WaitIn(ctx, forms, n, ys, h)
  <2>1. \A i \in 1 .. n : \A p \in Waiting(forms[i]) : ys[p] = zs[p] BY <1>17, WaitsApart
  <2> QED BY <1>6, <2>1 DEF Exits, WaitIn
<1>19. ys[pr'.block] = LocalsTo(ctx, Len(ctx.active)) BY <1>1, <1>13, <1>17 DEF X
<1>20. \A p \in Waiting(fr) : ys[p] = LocalsTo(ctx, Len(ctx.active))
  BY <1>3, <1>13, <1>17 DEF X
<1>21. d = ActivateAnonymousNamespace(ctx) BY DEF d
<1>22. Lives(d, blocks', labels, pr', Append(forms, fr), Opened(h, forms, fr))
  BY <1>2, <1>3, <1>4, <1>17, <1>18, <1>19, <1>20, <1>21, ScopeOpens
<1> QED BY <1>1, <1>22

LEMMA ElseBranchLives ==
  ASSUME Tame, MaxNodes < AnonLimit, Sound(blocks, pr, forms),
         Flowing(blocks, labels, pr, forms),
         NEW h, Lives(ctx, blocks, labels, pr, forms, h), ElseBranch
  PROVE  \E g : Lives(ctx', blocks', labels', pr', forms', g)
<1> DEFINE n   == Len(forms)
           fr  == Back(forms)
           gs  == Pop(forms)
           new == CloseScope(blocks, fr.entry)
           gr  == Frame("else", fr.entry + 1, fr.cond, pr)
           c   == DeactivateAnonymousNamespace(ctx)
           d   == ActivateAnonymousNamespace(c)
           Y   == LocalsTo(c, Len(c.active))
<1>1. /\ forms # <<>> /\ fr.kind = "then" /\ MayClose /\ ctx.fresh \in Nodes
      /\ ctx' = d /\ blocks' = new /\ labels' = labels /\ forms' = Append(gs, gr)
      /\ pr'.block = fr.entry + 1
  BY DEF ElseBranch, Inner, Result
<1>2. gr.kind = "else" /\ gr.saved = {} /\ Waiting(gr) = {pr.block}
  BY DEF Frame, Waiting
<1>3. Waiting(fr) = {fr.entry + 1} BY <1>1 DEF Waiting
<1>4. Scoped(ctx, forms, h) /\ FoundTyped(forms, n, h) BY DEF Lives
<1>5. IsList(forms) BY <1>4 DEF Scoped
<1>6. Len(gs) = n - 1 BY <1>1, <1>5, ListPop
<1>7. ClosedTo(ctx, c) BY DEF ClosedTo
<1>8. d = ActivateAnonymousNamespace(c) OBVIOUS
<1> HIDE DEF c, d, gr
<1>9. Scoped(c, gs, h) /\ c.fresh \in Nodes
  <2>1. Scoped(c, Pop(forms), h) /\ c.fresh = ctx.fresh BY <1>1, <1>4, <1>7, ScopeLeaves
  <2> QED BY <1>1, <2>1
<1>10. FoundTyped(gs, Len(gs), h)
  <2>1. FoundTyped(Pop(forms), Len(forms) - 1, h) BY <1>1, <1>4, <1>5, FoundPop
  <2> QED BY <1>6, <2>1
<1>11. PICK at, ys :
         /\ Typing(c, CloseScope(blocks, Back(forms).entry), labels, at, ys, h[0])
         /\ ys[pr.block] = LocalsTo(c, Len(c.active))
         /\ \A p \in Waiting(Back(forms)) : ys[p] = LocalsTo(c, Len(c.active))
         /\ WaitOn(c, ys, h)
  <2>1. forms # <<>> /\ Back(forms).kind # "call" /\ MayClose BY <1>1
  <2> QED BY <1>7, <2>1, ScopeCloses
<1>12. WaitIn(c, gs, Len(gs), ys, h) BY <1>6, <1>11 DEF WaitOn, WaitIn
<1>13. ys[pr'.block] = Y BY <1>1, <1>3, <1>11
<1>14. \A p \in Waiting(gr) : ys[p] = Y BY <1>2, <1>11
<1>15. Typing(c, new, labels, at, ys, h[0]) BY <1>11
<1> HIDE DEF fr, gs, new
<1>16. Lives(d, new, labels, pr', Append(gs, gr), Opened(h, gs, gr))
  BY <1>2, <1>8, <1>9, <1>10, <1>12, <1>13, <1>14, <1>15, ScopeOpens
<1> QED BY <1>1, <1>16

(* A block that has ended: what is alive at its end does not matter.       *)
LEMMA TypingEnded ==
  ASSUME NEW c, NEW b, NEW bs, NEW labs, NEW at, NEW zs, Typing(c, bs, labs, at, zs, b),
         NEW p, p \in 1 .. Len(bs) => EndsPath(bs[p]),
         NEW ys, \A q \in 1 .. Len(bs) : q # p => ys[q] = zs[q]
  PROVE  Typing(c, bs, labs, at, ys, b)
<1>1. ASSUME NEW q \in 1 .. Len(bs) PROVE Path(c, labs, at, bs[q], at[q], ys[q])
  <2>1. Path(c, labs, at, bs[q], at[q], zs[q]) BY DEF Typing
  <2>2. CASE q = p BY <2>1, <2>2, PathEnded
  <2>3. CASE q # p BY <2>1, <2>3
  <2> QED BY <2>2, <2>3
<1> QED BY <1>1 DEF Typing

LEMMA EndIfLives ==
  ASSUME Tame, Sound(blocks, pr, forms), Flowing(blocks, labels, pr, forms),
         NEW h, Lives(ctx, blocks, labels, pr, forms, h), EndIf
  PROVE  Lives(ctx', blocks', labels', pr', forms', h)
<1> DEFINE n    == Len(forms)
           fr   == Back(forms)
           gs   == Pop(forms)
           bs   == CloseScope(blocks, fr.entry)
           both == {fr.then, pr}
           goOn == {r \in both : GoesOn(bs, r)}
           type == IF \A r \in goOn : r.type = "int" THEN "int" ELSE "void"
           ends == {r.block : r \in goOn}
           phi  == IF goOn = both /\ type = "int" THEN <<Instr("phi", {}, ends)>> ELSE <<>>
           d    == DeactivateAnonymousNamespace(ctx)
           Y    == LocalsTo(d, Len(d.active))
<1>1. /\ forms # <<>> /\ fr.kind = "else" /\ MayClose /\ ctx' = d /\ forms' = gs
      /\ labels' = labels
      /\ \/ goOn = {} /\ blocks' = bs /\ pr' = Result(fr.cond, "void", FALSE)
         \/ /\ goOn # {} /\ blocks' = Join(bs, ends, phi)
            /\ pr' = Result(Len(bs) + 1, type, FALSE)
  BY DEF EndIf, Inner
<1>2. Scoped(ctx, forms, h) /\ FoundTyped(forms, n, h) BY DEF Lives
<1>3. IsList(forms) BY <1>2 DEF Scoped
<1>4. Len(gs) = n - 1 /\ fr = forms[n] /\ n \in Nat \ {0} /\ IsList(gs)
  BY <1>1, <1>3, ListPop
<1>5. ClosedTo(ctx, d) BY DEF ClosedTo
<1>6. /\ IsCode(bs) /\ Len(bs) = Len(blocks) /\ Targets(bs, labels) /\ Framed(bs, fr)
  BY <1>1, CloseFlows DEF Flows
<1>7. /\ Len(blocks) \in Nat \ {0} /\ FrameOK(blocks, fr)
      /\ \A i \in 1 .. n - 1 : \A p \in Waiting(gs[i]) : p \in 1 .. Len(blocks) /\ p # fr.cond
  <2>1. FrameOK(blocks, fr) /\ Len(blocks) \in Nat \ {0}
    <3>1. FrameOK(blocks, Back(forms)) BY <1>1, Popped
    <3>2. Len(blocks) \in Nat /\ pr.block \in 1 .. Len(blocks) BY SoundTypes
    <3>3. Len(blocks) # 0 BY <3>2
    <3> QED BY <3>1, <3>2, <3>3
  <2>2. \A i \in 1 .. n - 1 : \A p \in Waiting(gs[i]) : p # pr.block /\ p \notin Writes(fr)
    BY <1>1, <1>3, FlowingPop
  <2>3. fr.cond \in Writes(fr) BY DEF Writes
  <2>4. \A i \in 1 .. n - 1 : i \in 1 .. n /\ gs[i] = forms[i] BY <1>1, <1>3, ListPop
  <2>5. \A i \in 1 .. n - 1 : \A p \in Waiting(gs[i]) : p \in 1 .. Len(blocks)
    BY <2>4, WaitsApart
  <2> QED BY <2>1, <2>2, <2>3, <2>5
<1>8. EndsPath(bs[fr.cond]) BY <1>1, <1>6 DEF Framed, Branches
<1>9. Waiting(fr) = {fr.then.block} BY <1>1 DEF Waiting
<1>10. /\ goOn \subseteq both /\ ends = {r.block : r \in goOn} OBVIOUS
<1>11. phi = <<>> \/ phi = <<Instr("phi", {}, ends)>> OBVIOUS
<1>12. PICK at, ys :
         /\ Typing(d, CloseScope(blocks, Back(forms).entry), labels, at, ys, h[0])
         /\ ys[pr.block] = LocalsTo(d, Len(d.active))
         /\ \A p \in Waiting(Back(forms)) : ys[p] = LocalsTo(d, Len(d.active))
         /\ WaitOn(d, ys, h)
  <2>1. forms # <<>> /\ Back(forms).kind # "call" /\ MayClose BY <1>1
  <2> HIDE DEF d
  <2> QED BY <1>5, <2>1, ScopeCloses
<1>13. Scoped(d, gs, h) /\ h[n - 1] = Len(d.active)
  <2>1. forms # <<>> /\ Back(forms).kind # "call" BY <1>1
  <2> HIDE DEF d
  <2>2. Scoped(d, Pop(forms), h) /\ AroundIt(ctx, d, forms, h)
    BY <1>2, <1>5, <2>1, ScopeLeaves
  <2> QED BY <2>2 DEF AroundIt
<1>14. FoundTyped(gs, n - 1, h) BY <1>1, <1>2, <1>3, FoundPop
<1>15. Typing(d, bs, labels, at, ys, h[0]) /\ ys[pr.block] = Y /\ ys[fr.then.block] = Y
  BY <1>9, <1>12
<1>16. \A i \in 1 .. n - 1 : \A p \in Waiting(gs[i]) : ys[p] = LocalsTo(d, h[i - 1])
  BY <1>12 DEF WaitOn
<1> HIDE DEF fr, gs, bs, goOn, type, ends, phi, d, Y, n
<1>17. CASE goOn = {} /\ blocks' = bs /\ pr' = Result(fr.cond, "void", FALSE)
  <2> DEFINE us == [p \in 1 .. Len(blocks) |-> IF p = fr.cond THEN Y ELSE ys[p]]
  <2>1. /\ us[fr.cond] = Y
        /\ \A p \in 1 .. Len(blocks) : p # fr.cond => us[p] = ys[p]
    <3>1. fr.cond \in 1 .. Len(blocks) BY <1>7 DEF FrameOK, Writes
    <3> QED BY <3>1
  <2> HIDE DEF us
  <2>2. Typing(d, bs, labels, at, us, h[0])
    <3>1. \A p \in 1 .. Len(bs) : p # fr.cond => us[p] = ys[p] BY <1>6, <2>1
    <3> QED BY <1>8, <1>15, <3>1, TypingEnded
  <2>3. \A i \in 1 .. n - 1 : \A p \in Waiting(gs[i]) : us[p] = LocalsTo(d, h[i - 1])
    BY <1>7, <1>16, <2>1
  <2>4. Exits(d, us, fr.cond, gs, n - 1, h) BY <1>13, <2>1, <2>3 DEF Exits, Y
  <2>5. Typed(d, bs, labels, fr.cond, gs, n - 1, h) BY <2>2, <2>4 DEF Typed
  <2>6. pr'.block = fr.cond BY <1>17 DEF Result
  <2> QED BY <1>1, <1>4, <1>13, <1>14, <1>17, <2>5, <2>6 DEF Lives
<1>18. CASE /\ goOn # {} /\ blocks' = Join(bs, ends, phi)
            /\ pr' = Result(Len(bs) + 1, type, FALSE)
  <2> DEFINE N   == Len(bs) + 1
             new == Join(bs, ends, phi)
             b   == h[0]
             phn == Instr("phi", {}, ends)
  <2>1. phn.op = "phi" /\ phn.objs = {} BY DEF Instr
  <2> HIDE DEF phn
  <2>2. IsList(phi) /\ (phi = <<>> \/ phi = <<phn>>) BY <1>11, ShortLists DEF phn
  <2>3. /\ Len(new) = N /\ new[N] = phi
        /\ \A p \in 1 .. Len(bs) : /\ p \in ends => new[p] = Append(bs[p], Br(N))
                                   /\ p \notin ends => new[p] = bs[p]
    BY <1>6, <2>2, JoinLonger, JoinBlocks
  <2>4. \A p \in ends : ys[p] = Y BY <1>10, <1>15
  <2>5. N \in Nat /\ Len(bs) + 1 .. N = {N} BY <1>6, <1>7
  <2>6. Br(N).op = "br" /\ Br(N).to = {N} BY PlainInstr
  <2> HIDE DEF new, N
  <2>7. ASSUME NEW p \in 1 .. Len(bs), new[p] # bs[p]
        PROVE  ys[p] = Y /\ \E i : /\ new[p] = bs[p] \o <<i>> /\ i.op \in {"br", "cbr"}
                                   /\ i.to \subseteq Len(bs) + 1 .. Len(new)
    <3>1. p \in ends /\ new[p] = Append(bs[p], Br(N)) BY <2>3, <2>7
    <3>2. new[p] = bs[p] \o <<Br(N)>>
      <4>1. IsList(bs[p]) BY <1>6 DEF IsCode
      <4> QED BY <3>1, <4>1, AppendJoins
    <3>3. Br(N).to \subseteq Len(bs) + 1 .. Len(new) BY <2>3, <2>5, <2>6
    <3> QED BY <2>4, <2>6, <3>1, <3>2, <3>3
  <2>8. \A p \in Len(bs) + 1 .. Len(new) :
          new[p] = <<>> \/ \E i : new[p] = <<i>> /\ i.op = "phi" /\ i.objs = {}
    <3>1. \A p \in Len(bs) + 1 .. Len(new) : p = N BY <2>3, <2>5
    <3> QED BY <2>1, <2>2, <2>3, <3>1
  <2>9. NewBlocks(bs, new, ys, Y) BY <2>3, <2>5, <2>7, <2>8 DEF NewBlocks
  <2>10. /\ Typing(d, bs, labels, at, ys, b) /\ Targets(bs, labels)
         /\ IsCode(bs) /\ Len(bs) \in Nat \ {0}
    BY <1>6, <1>7, <1>15
  <2> HIDE DEF b
  <2>11. PICK bt, us : /\ Typing(d, new, labels, bt, us, b)
                       /\ \A p \in 1 .. Len(bs) : us[p] = ys[p]
                       /\ \A p \in Len(bs) + 1 .. Len(new) : us[p] = Y
    BY ONLY <2>9, <2>10, TypingAdds
  <2>12. us[N] = Y BY <2>3, <2>5, <2>11
  <2>13. \A i \in 1 .. n - 1 : \A p \in Waiting(gs[i]) : us[p] = LocalsTo(d, h[i - 1])
    BY <1>6, <1>7, <1>16, <2>11
  <2>14. Exits(d, us, N, gs, n - 1, h) BY <1>13, <2>12, <2>13 DEF Exits, Y
  <2>15. Typed(d, new, labels, N, gs, n - 1, h) BY <2>11, <2>14 DEF Typed, b
  <2>16. pr'.block = N BY <1>18 DEF Result, N
  <2>17. blocks' = new BY <1>18 DEF new
  <2> QED BY <1>1, <1>4, <1>13, <1>14, <2>15, <2>16, <2>17 DEF Lives
<1> QED BY <1>1, <1>17, <1>18

-----------------------------------------------------------------------------
(***************************************************************************)
(* The invariant.                                                          *)
(***************************************************************************)
LifeInv ==
  Parsing => /\ \E h : Lives(ctx, blocks, labels, pr, forms, h)
             /\ run = [phase |-> "parse", block |-> 1, at |-> 1, values |-> NoValues]

(* At first at most a parameter, which the entry block constructs.         *)
LEMMA InitLives == ASSUME MaxNodes < AnonLimit, Init PROVE LifeInv
<1>1. PICK ps \in Parameters, inner \in {{}} \cup {{nm} : nm \in NsNames} :
        /\ "namespace" \in Uses \/ inner = {}
        /\ ctx = LET c == EmptyContext(1000)
                     d == IF inner = {} THEN c
                          ELSE ActivateNamespace(c, CHOOSE nm \in inner : TRUE)
                 IN  BeginFn(d, CHOOSE nm \in FunNames : TRUE, ps)
        /\ blocks = <<Calls("init", VarsOf(ctx, {NS(ctx)}))>>
        /\ labels = {} /\ forms = <<>> /\ count = 0
        /\ pr = Result(1, "void", FALSE)
        /\ run = [phase |-> "parse", block |-> 1, at |-> 1, values |-> NoValues]
  BY Zenon DEF Init
<1> DEFINE e == IF inner = {} THEN EmptyContext(1000)
                ELSE ActivateNamespace(EmptyContext(1000), CHOOSE nm \in inner : TRUE)
           f == CHOOSE nm \in FunNames : TRUE
           V == VarsOf(ctx, {NS(ctx)})
           D == Len(ctx.active)
<1>2. f \in FunNames \cup Nat
  BY RoomAssumption
<1>3. Bare(e)
  <2>1. CASE inner = {}
    BY <2>1, EmptyIsBare
  <2>2. CASE inner # {}
    <3>1. (CHOOSE nm \in inner : TRUE) \in NsNames
      BY <2>2
    <3> QED  BY <2>2, <3>1, NamedIsBare
  <2> QED  BY <2>1, <2>2
<1>4. ctx = BeginFn(e, f, ps)
  BY <1>1
<1> HIDE DEF e, f
<1>5. /\ InBody(ctx, D) /\ LocalsTo(ctx, D) = V /\ Len(ctx.vars[NS(ctx)]) \in {0, 1}
  BY <1>2, <1>3, <1>4, BeginBody
<1>6. V = {} \/ V = {<<NS(ctx), 1>>}
  <2> DEFINE n == NS(ctx)
             k == Len(ctx.vars[n])
  <2>1. V = {n} \X (1 .. k)
    BY ONLY DEF V, VarsOf
  <2>2. k \in {0, 1}
    BY <1>5
  <2> HIDE DEF n, k
  <2>3. CASE k = 0
    <3>1. 1 .. k = {}
      BY <2>3
    <3> QED  BY ONLY <2>1, <3>1
  <2>4. CASE k = 1
    <3>1. 1 .. k = {1}
      BY <2>4
    <3>2. V = {<<n, 1>>}
      BY ONLY <2>1, <3>1
    <3> QED  BY <3>2 DEF n
  <2> QED  BY <2>2, <2>3, <2>4
<1> HIDE DEF V, D
<1> DEFINE at == [p \in {1} |-> {}]
           zs == [p \in {1} |-> V]
           h  == [i \in {0} |-> D]
<1>7. Path(ctx, {}, at, Calls("init", V), {}, V)
  <2>1. CASE V = {}
    <3>1. Calls("init", V) = <<>>
      BY <2>1 DEF Calls
    <3> QED  BY <2>1, <3>1, PathEmpty
  <2>2. CASE V # {}
    <3>1. Calls("init", V) = <<Instr("init", V, {})>>
      BY <2>2 DEF Calls
    <3>2. ~Lands(Instr("init", V, {})) /\ Does(Instr("init", V, {}), {}, V)
      BY <1>6, <2>2 DEF Lands, IsTerminator, Instr, Does
    <3> QED  BY <3>1, <3>2, PathOne
  <2> QED  BY <2>1, <2>2
<1>8. Len(blocks) = 1 /\ blocks[1] = Calls("init", V)
  BY <1>1 DEF V
<1>9. at[1] = {} /\ zs[1] = V /\ h[0] = D
  OBVIOUS
<1> HIDE DEF at, zs, h
<1>10. Typing(ctx, blocks, labels, at, zs, h[0])
  <2>1. labels = {}
    BY <1>1
  <2>2. \A p \in 1 .. Len(blocks) : p = 1
    BY <1>8
  <2>3. \A p \in 1 .. Len(blocks) : Path(ctx, labels, at, blocks[p], at[p], zs[p])
    BY <1>7, <1>8, <1>9, <2>1, <2>2
  <2> QED  BY <1>9, <2>1, <2>3 DEF Typing
<1>11. /\ Len(forms) = 0 /\ IsList(forms) /\ pr.block = 1
  BY <1>1, ShortLists DEF Result
<1>12. Exits(ctx, zs, pr.block, forms, Len(forms), h)
  BY <1>5, <1>9, <1>11 DEF Exits
<1>13. Typed(ctx, blocks, labels, pr.block, forms, Len(forms), h)
  BY <1>10, <1>12 DEF Typed
<1>14. Scoped(ctx, forms, h)
  <2>1. D \in Nat
    BY <1>5, BodyParts DEF D
  <2>2. Rising(h, forms, Len(forms))
    BY <1>9, <1>11, <2>1 DEF Rising
  <2> QED  BY <1>5, <1>9, <1>11, <2>2 DEF Scoped, D
<1>15. FoundTyped(forms, Len(forms), h)
  BY <1>11 DEF FoundTyped
<1>16. Lives(ctx, blocks, labels, pr, forms, h)
  BY <1>13, <1>14, <1>15 DEF Lives
<1>17. run = [phase |-> "parse", block |-> 1, at |-> 1, values |-> NoValues]
  BY <1>1
<1> QED  BY ONLY <1>16, <1>17 DEF LifeInv

(* Every form keeps it.                                                    *)
LEMMA FormLives ==
  ASSUME Tame, MaxNodes < AnonLimit, IInv, FlowInv, LifeInv,
         Next /\ ~Step /\ ~Finish /\ ~Reject
  PROVE  /\ Parsing /\ UNCHANGED run
         /\ \E g : Lives(ctx', blocks', labels', pr', forms', g)
<1>1. Parsing /\ UNCHANGED run
  BY DEF Next, Define, Value, Return, Label, GotoKnown, GotoDeferred, OpenNewScope,
         CloseNewScope, OpenIf, ElseBranch, EndIf, BeginCall, Fail, Abandon,
         EndCall, RestoreCall, Parse
<1>2. Sound(blocks, pr, forms) /\ Flowing(blocks, labels, pr, forms)
  BY <1>1 DEF IInv, FlowInv
<1>3. PICK h : Lives(ctx, blocks, labels, pr, forms, h)
  BY <1>1 DEF LifeInv
<1> DEFINE Goal == \E g : Lives(ctx', blocks', labels', pr', forms', g)
<1>4. ASSUME Define PROVE Goal
  BY <1>2, <1>3, <1>4, DefineLives
<1>5. ASSUME Value \/ Fail PROVE Goal
  BY <1>3, <1>5, UnchangedLives
<1>6. ASSUME Return PROVE Goal
  BY <1>2, <1>3, <1>6, ReturnLives
<1>7. ASSUME NEW l, Label(l) PROVE Goal
  BY <1>2, <1>3, <1>7, LabelLives
<1>8. ASSUME NEW l, GotoKnown(l) PROVE Goal
  BY <1>2, <1>3, <1>8, GotoKnownLives
<1>9. ASSUME NEW l, GotoDeferred(l) PROVE Goal
  BY <1>2, <1>3, <1>9, GotoDeferredLives
<1>10. ASSUME OpenNewScope PROVE Goal
  BY <1>3, <1>10, OpenNewScopeLives
<1>11. ASSUME CloseNewScope PROVE Goal
  BY <1>2, <1>3, <1>11, CloseNewScopeLives
<1>12. ASSUME OpenIf PROVE Goal
  BY <1>2, <1>3, <1>12, OpenIfLives
<1>13. ASSUME ElseBranch PROVE Goal
  BY <1>2, <1>3, <1>13, ElseBranchLives
<1>14. ASSUME EndIf PROVE Goal
  BY <1>2, <1>3, <1>14, EndIfLives
<1>15. ASSUME BeginCall PROVE Goal
  BY <1>3, <1>15, BeginCallLives
<1>16. ASSUME Abandon PROVE Goal
  BY <1>2, <1>3, <1>16, AbandonLives
<1>17. ASSUME EndCall PROVE Goal
  BY <1>3, <1>17, EndCallLives
<1>18. ASSUME RestoreCall PROVE Goal
  BY <1>2, <1>3, <1>18, RestoreCallLives
<1> HIDE DEF Goal
<1>19. Goal
  BY <1>4, <1>5, <1>6, <1>7, <1>8, <1>9, <1>10, <1>11, <1>12, <1>13, <1>14, <1>15,
     <1>16, <1>17, <1>18 DEF Next
<1> QED  BY <1>1, <1>19 DEF Goal

-----------------------------------------------------------------------------
(***************************************************************************)
(* The end of the body.                                                    *)
(***************************************************************************)
(* The namespaces that a deferred goto out of them destructs.              *)
LEMMA WalkedLeaves ==
  ASSUME NEW b, InBody(ctx, b), NEW i, i.ns \in ctx.live, NEW lab
  PROVE  /\ lab.ns \in Chain(ctx, i.ns) /\ lab.ns # Root =>
              Walked(i, lab) = LeavesFor(ctx, i, lab)
         /\ ctx.parent[i.ns] = Root => Walked(i, lab) = {}
<1> DEFINE C(n) == Chain(ctx, n)
           p == ctx.parent
<1>1. Sloped(ctx) /\ i.ns \in Nodes
  BY BodyParts DEF InBody, Tree
<1>2. /\ C(NoNode) = {} /\ \A n \in Nodes : C(n) = {n} \cup C(p[n])
      /\ \A n \in Nodes \cup {NoNode} : C(n) \subseteq Nodes
  BY <1>1, ChainEquation
<1>3. \A n \in Nodes : n \in C(n) /\ \A m \in C(n) : C(m) \subseteq C(n)
  BY <1>1, ChainTransitive
<1>4. \A m, k \in C(i.ns) : (m \in C(k) \/ k \in C(m)) /\ m \in Nodes
  BY <1>1, ChainComparable
<1>5. Root \in Nodes /\ C(Root) = {Root}
  <2>1. Root \in Nodes
    BY SizeAssumption DEF Nodes
  <2>2. p[Root] = NoNode
    <3>1. p[Root] \in Nodes \cup {NoNode} /\ p[Root] < Root
      BY <1>1, <2>1 DEF Sloped
    <3> HIDE DEF p
    <3> QED  BY <3>1 DEF Nodes
  <2> QED  BY <1>2, <2>1, <2>2
<1>6. \A m \in Nodes : p[m] = Root => C(m) = {m, Root}
  BY <1>2, <1>5
<1>7. \A n : n \in Walked(i, lab) <=>
        n \in C(i.ns) /\ \A m \in C(i.ns) : n \in C(m) => m # lab.ns /\ p[m] # Root
  BY DEF Walked, WalkEnds
<1> HIDE DEF C, p
<1>8. ASSUME lab.ns \in C(i.ns), lab.ns # Root
      PROVE  Walked(i, lab) = C(i.ns) \ C(lab.ns)
  <2>1. ASSUME NEW n \in C(i.ns), n \notin C(lab.ns) PROVE n \in Walked(i, lab)
    <3>1. n # Root
      <4>1. CASE n = Root
        <5>1. lab.ns \in C(Root) \/ Root \in C(lab.ns)
          BY <1>4, <1>8, <4>1
        <5> QED  BY <1>5, <1>8, <2>1, <4>1, <5>1
      <4> QED  BY <4>1
    <3>2. ASSUME NEW m \in C(i.ns), n \in C(m) PROVE m # lab.ns /\ p[m] # Root
      <4>1. CASE p[m] = Root
        <5>1. C(m) = {m, Root} /\ m = n
          BY <1>4, <1>6, <3>1, <3>2, <4>1
        <5>2. lab.ns \in C(n) \/ n \in C(lab.ns)
          BY <1>4, <1>8
        <5>3. lab.ns = n
          BY <1>8, <2>1, <5>1, <5>2
        <5>4. n \in C(n)
          BY <1>3, <1>4
        <5> QED  BY <2>1, <5>3, <5>4
      <4> QED  BY <2>1, <3>2, <4>1
    <3> QED  BY <1>7, <3>2
  <2>2. ASSUME NEW n \in Walked(i, lab) PROVE n \in C(i.ns) /\ n \notin C(lab.ns)
    BY <1>7, <1>8
  <2> QED  BY <2>1, <2>2
<1>9. ASSUME p[i.ns] = Root PROVE Walked(i, lab) = {}
  <2>1. i.ns \in C(i.ns)
    BY <1>1, <1>3
  <2> QED  BY <1>7, <1>9, <2>1
<1> QED  BY <1>8, <1>9 DEF C, p, LeavesFor

(* What a deferred goto has become leaves the block as it fits.            *)
LEMMA GotoResolved ==
  ASSUME NEW b, InBody(ctx, b), NEW at, NEW i, i.op = "goto", NEW X,
         Fits(ctx, labels, at, i, X), ~Rejected(i), NEW Z
  PROVE  Path(ctx, labels, at, Resolved(i), X, Z)
<1> DEFINE lab  == CHOOSE r \in labels : r.name = i.label
           objs == VarsOf(ctx, Walked(i, lab))
           br   == Br(lab.block)
<1>1. lab \in labels /\ lab.name = i.label /\ lab \in LabelNamed(i.label)
  BY DEF Rejected, LabelNamed
<1>2. Resolved(i) = Calls("destroy", objs) \o <<br>>
  BY DEF Resolved
<1>3. br.op = "br" /\ br.to = {lab.block} /\ Lands(br)
  BY PlainInstr DEF Lands, IsTerminator
<1> HIDE DEF lab, br
<1>4. i.ns \in ctx.live /\ Arrives(ctx, at, i, lab, X)
  BY <1>1 DEF Fits
<1>5. objs \subseteq X /\ at[lab.block] = X \ objs
  <2>1. CASE /\ lab.ns \in Chain(ctx, i.ns) /\ lab.ns # Root
             /\ VarsOf(ctx, LeavesFor(ctx, i, lab)) \subseteq X
             /\ at[lab.block] = X \ VarsOf(ctx, LeavesFor(ctx, i, lab))
    <3>1. Walked(i, lab) = LeavesFor(ctx, i, lab)
      BY <1>4, <2>1, WalkedLeaves
    <3> QED  BY <2>1, <3>1
  <2>2. CASE /\ lab.ns \notin Chain(ctx, i.ns) /\ ctx.parent[i.ns] = Root
             /\ X \subseteq at[lab.block]
             /\ \A x \in at[lab.block] \ X :
                  x \in VarsOf(ctx, Chain(ctx, lab.ns))
                  /\ VarAt(ctx, x).index \in (i.index .. lab.index) \ {0}
    <3>1. Walked(i, lab) = {}
      BY <1>4, <2>2, WalkedLeaves
    <3>2. objs = {}
      BY <3>1 DEF VarsOf
    <3>3. ~GotoCrossesDeclaration(i, lab)
      BY <1>1, <2>2 DEF Rejected
    <3>4. at[lab.block] \ X = {}
      BY <2>2, <3>3 DEF GotoCrossesDeclaration
    <3> QED  BY <2>2, <3>2, <3>4
  <2> QED  BY <1>4, <2>1, <2>2 DEF Arrives
<1> HIDE DEF objs
<1>6. Fits(ctx, labels, at, br, X \ objs)
  BY <1>3, <1>5 DEF Fits
<1> QED  BY <1>2, <1>3, <1>5, <1>6, PathLeaves

(* An instruction after the deferred gotos have been resolved.             *)
LEMMA InstrResolved ==
  ASSUME NEW b, InBody(ctx, b), NEW at, NEW i, NEW X, NEW Y,
         i.op = "goto" => ~Rejected(i),
         Lands(i) => Fits(ctx, labels, at, i, X), ~Lands(i) => Does(i, X, Y)
  PROVE  Path(ctx, labels, at, Resolved(i), X, Y)
<1>1. CASE i.op = "goto"
  <2>1. Fits(ctx, labels, at, i, X) /\ ~Rejected(i)
    BY <1>1 DEF Lands
  <2> QED  BY <1>1, <2>1, GotoResolved
<1>2. CASE i.op # "goto"
  <2>1. Resolved(i) = <<i>>
    BY <1>2 DEF Resolved
  <2> QED  BY <2>1, PathOne
<1> QED  BY <1>1, <1>2
(* The whole of a block.                                                   *)
LEMMA BlockResolved ==
  ASSUME NEW b, InBody(ctx, b), NEW at, NEW body, IsList(body), NEW A, NEW Z,
         Path(ctx, labels, at, body, A, Z),
         \A k \in 1 .. Len(body) : body[k].op = "goto" => ~Rejected(body[k])
  PROVE  Path(ctx, labels, at, ResolveDeferredGotos(body), A, Z)
<1> DEFINE n  == Len(body)
           ss == [k \in 1 .. n |-> Resolved(body[k])]
<1>1. PICK t : /\ t[1] = A /\ Follows(ctx, labels, at, body, t)
               /\ EndsPath(body) \/ t[n + 1] = Z
  BY DEF Path
<1>2. n \in Nat
  BY ListLen
<1>3. ResolveDeferredGotos(body) = FlattenSeq(ss)
  BY DEF ResolveDeferredGotos
<1>4. ASSUME NEW k \in 1 .. n
      PROVE  /\ IsList(Resolved(body[k]))
             /\ Lands(body[k]) => EndsPath(Resolved(body[k]))
             /\ Reached(body, k) =>
                  Path(ctx, labels, at, Resolved(body[k]), t[k], t[k + 1])
  <2> DEFINE i == body[k]
  <2>1. i.op = "goto" => ~Rejected(i) /\ LabelNamed(i.label) # {}
    BY DEF Rejected
  <2>2. Reached(body, k) => /\ Lands(i)  => Fits(ctx, labels, at, i, t[k])
                            /\ ~Lands(i) => Does(i, t[k], t[k + 1])
    BY <1>1 DEF Follows
  <2> HIDE DEF i
  <2>3. Reached(body, k) => Path(ctx, labels, at, Resolved(i), t[k], t[k + 1])
    BY <2>1, <2>2, InstrResolved
  <2>4. /\ IsList(Resolved(i))
        /\ Lands(i) => \E e : Ending(Resolved(i), e)
    BY <2>1, ResolvedEnds DEF Lands
  <2>5. (\E e : Ending(Resolved(i), e)) => EndsPath(Resolved(i))
    BY EndsIsLands DEF Ending, IsEnd
  <2> QED  BY <2>3, <2>4, <2>5 DEF i
<1>5. Len(ss) = n /\ IsCode(ss) /\ \A k \in 1 .. n : ss[k] = Resolved(body[k])
  <2>1. Len(ss) = n /\ IsList(ss)
    BY <1>2, FunctionIsList
  <2>2. \A k \in 1 .. n : ss[k] = Resolved(body[k])
    OBVIOUS
  <2> QED  BY <1>4, <2>1, <2>2 DEF IsCode
<1> HIDE DEF ss, n
<1>6. CASE n = 0
  <2>1. FlattenSeq(ss) = ss
    BY <1>5, <1>6 DEF FlattenSeq
  <2>2. ~EndsPath(body)
    BY <1>6 DEF EndsPath, n
  <2>3. A = Z
    BY <1>1, <1>6, <2>2
  <2>4. Path(ctx, labels, at, ss, A, Z)
    BY <1>1, <1>5, <1>6, <2>3 DEF Path, Follows
  <2> QED  BY <1>3, <2>1, <2>4
<1>7. CASE n # 0
  <2> DEFINE f == Flat(ss)
             Good(i) == /\ IsList(f[i]) /\ Path(ctx, labels, at, f[i], A, t[i + 1])
                        /\ (\E j \in 1 .. i : Lands(body[j])) => EndsPath(f[i])
             T == {i \in 1 .. n : ~Good(i)}
  <2>1. FlattenSeq(ss) = f[n] /\ f[1] = ss[1]
        /\ \A i \in 1 .. n : i # 1 => f[i] = f[i - 1] \o ss[i]
    BY <1>5, <1>7, FlattenEquation
  <2> HIDE DEF f
  <2>2. Good(1)
    <3>1. 1 \in 1 .. n /\ 1 + 1 = 2 /\ \A j \in 1 .. 1 : j = 1
      BY <1>2, <1>7
    <3>2. Reached(body, 1)
      BY <3>1 DEF Reached, n
    <3>3. f[1] = Resolved(body[1])
      BY <1>5, <2>1, <3>1
    <3> QED  BY <1>1, <1>4, <3>1, <3>2, <3>3
  <2>3. ASSUME NEW i \in 1 .. n, i # 1, Good(i - 1) PROVE Good(i)
    <3> DEFINE a == f[i - 1]
               c == ss[i]
               E == \E j \in 1 .. i - 1 : Lands(body[j])
    <3>1. IsList(a) /\ Path(ctx, labels, at, a, A, t[i]) /\ (E => EndsPath(a))
      <4>1. (i - 1) + 1 = i
        OBVIOUS
      <4> QED  BY <2>3, <4>1
    <3>2. /\ IsList(c) /\ (Lands(body[i]) => EndsPath(c))
          /\ ~E => Path(ctx, labels, at, c, t[i], t[i + 1])
      <4>1. ~E => Reached(body, i)
        BY DEF Reached, n
      <4> HIDE DEF E
      <4> QED  BY <1>4, <1>5, <4>1
    <3>3. f[i] = a \o c
      BY <2>1, <2>3
    <3>4. (\E j \in 1 .. i : Lands(body[j])) => E \/ Lands(body[i])
      <4>1. \A j \in 1 .. i : j = i \/ j \in 1 .. i - 1
        OBVIOUS
      <4> QED  BY <4>1
    <3> HIDE DEF a, c, E
    <3>5. IsList(a \o c)
      BY <3>1, <3>2, ListConcat
    <3>6. Path(ctx, labels, at, a \o c, A, t[i + 1])
          /\ (E \/ Lands(body[i]) => EndsPath(a \o c))
      <4>1. CASE E
        BY <3>1, <3>2, <4>1, PathDead
      <4>2. CASE ~E
        BY <3>1, <3>2, <4>2, PathConcat, EndsConcat
      <4> QED  BY <4>1, <4>2
    <3> QED  BY <3>3, <3>4, <3>5, <3>6
  <2> HIDE DEF Good
  <2>4. T = {}
    <3> SUFFICES ASSUME T # {} PROVE FALSE
      OBVIOUS
    <3>1. PICK i \in T : \A j \in T : i <= j
      <4>1. T \in SUBSET Nat
        BY <1>2
      <4> HIDE DEF T
      <4> QED  BY <4>1, Smallest
    <3>2. i \in 1 .. n /\ ~Good(i)
      BY <3>1
    <3>3. i # 1
      BY <2>2, <3>2
    <3>4. i - 1 \in 1 .. n /\ ~(i <= i - 1)
      BY <1>2, <3>2, <3>3
    <3>5. i - 1 \notin T
      <4> HIDE DEF T
      <4> QED  BY <3>1, <3>4
    <3>6. Good(i - 1)
      BY <3>4, <3>5
    <3> QED  BY <2>3, <3>2, <3>3, <3>6
  <2>5. n \in 1 .. n
    BY <1>2, <1>7
  <2>6. Good(n)
    BY <2>4, <2>5
  <2>7. /\ Path(ctx, labels, at, f[n], A, t[n + 1])
        /\ EndsPath(body) => EndsPath(f[n])
    BY <2>6, EndsIsLands DEF Good, n
  <2>8. Path(ctx, labels, at, f[n], A, Z)
    BY <1>1, <2>7, PathEnded
  <2> QED  BY <1>3, <2>1, <2>8
<1> QED  BY <1>6, <1>7

(* A block as it is terminated: what falls through hands over what it      *)
(* holds, or what it holds is destructed.                                  *)
LEMMA BlockClosed ==
  ASSUME Sound(blocks, pr, forms), Flowing(blocks, labels, pr, forms), forms = <<>>,
         \A g \in Gotos : ~Rejected(g),
         NEW h, InBody(ctx, h[0]), h[Len(forms)] = Len(ctx.active),
         NEW at, NEW zs, Typing(ctx, blocks, labels, at, zs, h[0]),
         Exits(ctx, zs, pr.block, forms, Len(forms), h), NEW b \in 1 .. Len(blocks)
  PROVE  \E Z : Path(ctx, labels, at, Closing(b, blocks[b]), at[b], Z)
<1> DEFINE body == blocks[b]
           s    == ResolveDeferredGotos(body)
           objs == ClosedByReturn(ctx)
           tail == Calls("destroy", objs) \o <<Ret>>
<1>1. /\ IsCode(blocks) /\ Len(blocks) \in Nat
      /\ EndsPath(body) \/ b = Len(blocks)
      /\ \A k \in 1 .. Len(body) : body[k].op = "goto" => LabelNamed(body[k].label) # {}
  BY ParsedBody
<1>2. IsList(body)
  BY <1>1 DEF IsCode
<1>3. \A k \in 1 .. Len(body) : body[k].op = "goto" => ~Rejected(body[k])
  BY DEF Gotos
<1>4. Path(ctx, labels, at, body, at[b], zs[b])
  BY DEF Typing
<1>5. EndsPath(body) \/ b = pr.block
  <2>1. Len(forms) = 0 /\ \A i : i \notin 1 .. Len(forms)
    BY ShortLists
  <2>2. pr.type # "error"
    BY <2>1 DEF Sound
  <2> QED  BY <2>1, <2>2 DEF Sound, NoneLost
<1>6. zs[pr.block] = objs /\ objs = LocalsTo(ctx, Len(ctx.active))
  BY ReturnCloses DEF Exits
<1> HIDE DEF body, objs
<1>7. Path(ctx, labels, at, s, at[b], zs[b])
  BY <1>2, <1>3, <1>4, BlockResolved
<1>8. IsList(s) /\ (EndsPath(body) => EndsPath(s))
  <2>1. IsList(s) /\ (EndsPath(body) => \E e : Ending(s, e))
    BY ONLY <1>1, <1>2, ResolvedBlock DEF ResolvedTo
  <2>2. (\E e : Ending(s, e)) => EndsPath(s)
    BY EndsIsLands DEF Ending, IsEnd
  <2> QED  BY <2>1, <2>2
<1>9. Closing(b, blocks[b]) = IF Terminated(s) THEN s
                              ELSE IF b < Len(blocks) THEN Append(s, Br(b + 1))
                              ELSE Append(CloseFunction(s), Ret)
  BY DEF Closing, body
<1> HIDE DEF s
<1>10. CASE Closing(b, blocks[b]) = s
  BY <1>7, <1>10
<1>11. CASE Closing(b, blocks[b]) = Append(s, Br(b + 1)) /\ b < Len(blocks)
  <2>1. EndsPath(s)
    BY <1>1, <1>8, <1>11
  <2>2. IsList(<<Br(b + 1)>>) /\ Append(s, Br(b + 1)) = s \o <<Br(b + 1)>>
    BY <1>8, OneList, AppendJoins
  <2> QED  BY <1>7, <1>8, <1>11, <2>1, <2>2, PathDead
<1>12. CASE Closing(b, blocks[b]) = Append(CloseFunction(s), Ret)
  <2>1. Closing(b, blocks[b]) = s \o tail
    <3>1. CloseFunction(s) = s \o Calls("destroy", objs)
      BY DEF CloseFunction, objs
    <3>2. IsList(s)
      BY <1>8
    <3>3. \A op, X, i : Append(s \o Calls(op, X), i) = s \o (Calls(op, X) \o <<i>>)
      BY ONLY <3>2, AppendCalls
    <3> QED  BY <1>12, <3>1, <3>3
  <2>2. IsList(tail)
    BY CallsThen
  <2>3. Path(ctx, labels, at, tail, objs, {})
    <3>1. Ret.op = "ret"
      BY DEF Ret, Instr
    <3>2. Lands(Ret) /\ Fits(ctx, labels, at, Ret, objs \ objs)
      BY <3>1 DEF Lands, IsTerminator, Fits
    <3> QED  BY <3>2, PathLeaves
  <2> HIDE DEF tail
  <2>4. CASE EndsPath(s)
    BY <1>7, <1>8, <2>1, <2>2, <2>4, PathDead
  <2>5. CASE ~EndsPath(s)
    <3>1. zs[b] = objs
      BY <1>5, <1>6, <1>8, <2>5
    <3> QED  BY <1>7, <1>8, <2>1, <2>2, <2>3, <3>1, PathConcat
  <2> QED  BY <2>4, <2>5
<1> QED  BY <1>9, <1>10, <1>11, <1>12, Zenon

-----------------------------------------------------------------------------
(***************************************************************************)
(* Execution.                                                              *)
(***************************************************************************)
(* t: the sets of variables that hold a value before each instruction of   *)
(* b and after it.                                                         *)
Runs(at, b, t) ==
  \A k \in 1 .. Len(b) :
    /\ b[k].op \in {"br", "cbr"} => \A n \in b[k].to : at[n] = t[k]
    /\ b[k].op = "ret" => t[k] = {}
    /\ ~Lands(b[k]) => Does(b[k], t[k], t[k + 1])

LEMMA CutRuns ==
  ASSUME NEW c, NEW labs, NEW at, NEW p, NEW s, Whole(p), Cuts(p, s),
         NEW A, NEW Z, Path(c, labs, at, s, A, Z)
  PROVE  \E t : t[1] = A /\ Runs(at, p, t)
<1>1. PICK t : t[1] = A /\ Follows(c, labs, at, s, t)
  BY DEF Path
<1>2. PICK m \in 1 .. Len(s) : /\ IsEnd(s, m) /\ Len(p) = m
                               /\ \A k \in 1 .. m : p[k] = s[k]
  BY DEF Cuts
<1>3. ASSUME NEW k \in 1 .. m PROVE Reached(s, k) /\ p[k] = s[k]
  <2>1. k \in 1 .. Len(s) /\ \A j \in 1 .. k - 1 : j \in 1 .. m - 1
    BY <1>2
  <2> QED  BY <1>2, <2>1 DEF Reached, IsEnd
<1>4. \A k \in 1 .. m : /\ Lands(p[k])  => Fits(c, labs, at, p[k], t[k])
                        /\ ~Lands(p[k]) => Does(p[k], t[k], t[k + 1])
  <2>1. \A k \in 1 .. m : k \in 1 .. Len(s)
    BY <1>3 DEF Reached
  <2> QED  BY <1>1, <1>3, <2>1 DEF Follows
<1>5. Runs(at, p, t)
  BY <1>2, <1>4 DEF Runs, Fits, Lands, IsTerminator
<1> QED  BY <1>1, <1>5

(* Every block of the finished function, entered with the variables at     *)
(* gives it, only constructs what holds no value and destructs what does.  *)
LEMMA FinishedRuns ==
  ASSUME Tame, Sound(blocks, pr, forms), Flowing(blocks, labels, pr, forms), Finish,
         NEW h, Lives(ctx, blocks, labels, pr, forms, h)
  PROVE  \E at, tr : at[1] = {} /\ \A b \in 1 .. Len(blocks') :
                       tr[b][1] = at[b] /\ Runs(at, blocks'[b], tr[b])
<1>1. forms = <<>> /\ \A g \in Gotos : ~Rejected(g)
  BY DEF Finish
<1>2. pr.type # "error"
  <2>1. Len(forms) = 0 /\ \A i : i \notin 1 .. Len(forms)
    BY <1>1, ShortLists
  <2> QED  BY <2>1 DEF Sound
<1>3. InBody(ctx, h[0]) /\ h[Len(forms)] = Len(ctx.active)
  BY DEF Lives, Scoped
<1>4. PICK at, zs : /\ Typing(ctx, blocks, labels, at, zs, h[0])
                    /\ Exits(ctx, zs, pr.block, forms, Len(forms), h)
  BY <1>2 DEF Lives, Typed
<1>5. Len(blocks') = Len(blocks) /\ \A b \in 1 .. Len(blocks) :
        Whole(blocks'[b]) /\ Cuts(blocks'[b], Closing(b, blocks[b]))
  <2>1. \A b \in 1 .. Len(blocks) : ~Overtakes(blocks[b])
    BY DEF Tame, Overtakes
  <2>2. \A b \in 1 .. Len(blocks) : \A l : Laid(l, blocks[b]) => l = blocks[b]
    BY <2>1 DEF Laid
  <2> QED  BY <2>2, FinishedBlocks DEF Becomes
<1>6. ASSUME NEW b \in 1 .. Len(blocks)
      PROVE  \E t : t[1] = at[b] /\ Runs(at, blocks'[b], t)
  <2>1. \E Z : Path(ctx, labels, at, Closing(b, blocks[b]), at[b], Z)
    BY <1>1, <1>3, <1>4, BlockClosed
  <2> QED  BY <1>5, <2>1, CutRuns
<1> DEFINE tr == [b \in 1 .. Len(blocks) |->
                    CHOOSE t : t[1] = at[b] /\ Runs(at, blocks'[b], t)]
<1>7. \A b \in 1 .. Len(blocks) : tr[b][1] = at[b] /\ Runs(at, blocks'[b], tr[b])
  BY <1>6
<1> HIDE DEF tr
<1>8. at[1] = {}
  BY <1>4 DEF Typing
<1> QED  BY <1>5, <1>7, <1>8

(* The values of a run are those the set before the next instruction says. *)
Held(X) == [o \in Objects |-> IF o \in X THEN 1 ELSE 0]

RunsAs(at, tr) ==
  /\ at[1] = {} /\ \A b \in Blocks : tr[b][1] = at[b] /\ Runs(at, blocks[b], tr[b])
  /\ run.values = Held(tr[run.block][run.at])

RunInv ==
  run.phase \in {"run", "returned"} =>
    /\ run = [phase |-> run.phase, block |-> run.block, at |-> run.at,
              values |-> run.values]
    /\ run.block \in Blocks /\ run.at \in 1 .. Len(blocks[run.block])
    /\ \E at, tr : RunsAs(at, tr)

(* Execution starts in the entry block, with no value.                     *)
LEMMA FinishRuns ==
  ASSUME Tame, IInv, FlowInv, LifeInv, Finish PROVE RunInv' /\ run'.values = run.values
<1>1. Parsing
  BY DEF Finish
<1>2. Sound(blocks, pr, forms) /\ Flowing(blocks, labels, pr, forms)
  BY <1>1 DEF IInv, FlowInv
<1>3. PICK h : Lives(ctx, blocks, labels, pr, forms, h)
  BY <1>1 DEF LifeInv
<1>4. run' = [phase |-> "run", block |-> 1, at |-> 1, values |-> NoValues]
  <2>1. run = [phase |-> "parse", block |-> 1, at |-> 1, values |-> NoValues]
    BY <1>1 DEF LifeInv
  <2>2. run' = [run EXCEPT !.phase = "run"]
    BY DEF Finish
  <2> QED  BY <2>1, <2>2
<1>5. PICK at, tr : at[1] = {} /\ \A b \in 1 .. Len(blocks') :
                      tr[b][1] = at[b] /\ Runs(at, blocks'[b], tr[b])
  BY <1>2, <1>3, FinishedRuns
<1>6. 1 \in 1 .. Len(blocks')
  <2>1. Len(blocks') = Len(blocks)
    BY <1>2, FinishedBlocks
  <2>2. pr.block \in 1 .. Len(blocks) /\ Len(blocks) \in Nat
    BY <1>2, SoundTypes
  <2> QED  BY <2>1, <2>2
<1>7. 1 \in 1 .. Len(blocks'[1])
  <2>1. WholeCode'
    BY <1>2, FinishFlows
  <2>2. IsList(blocks'[1]) /\ blocks'[1] # <<>>
    BY <1>6, <2>1 DEF WholeCode, Blocks, Whole
  <2>3. Len(blocks'[1]) \in Nat \ {0}
    BY <2>2, ListPop
  <2> QED  BY <2>3
<1>8. NoValues = Held(tr[1][1])
  BY <1>5, <1>6 DEF NoValues, Held
<1>9. RunsAs(at, tr)'
  BY <1>4, <1>5, <1>8 DEF RunsAs, Blocks, Held, Objects
<1>10. RunInv'
  BY <1>4, <1>6, <1>7, <1>9 DEF RunInv, Blocks
<1>11. run.values = NoValues
  BY <1>1 DEF LifeInv
<1> QED  BY <1>4, <1>10, <1>11
(* What an instruction does to the values, as the abstract machine does it.*)
LEMMA DoesAsPromised ==
  ASSUME run.phase = "run", NEW i, NEW X, NEW Y, Does(i, X, Y), run.values = Held(X),
         run'.values = Add(i.objs, IF i.op = "init" THEN 1 ELSE -1), run'.phase = "run"
  PROVE  /\ run'.values = Held(Y)
         /\ UNCHANGED run.values \/ LT!Next
<1> DEFINE n == IF i.op = "init" THEN 1 ELSE -1
<1>1. /\ \A o \in Objects : run.values[o] = IF o \in X THEN 1 ELSE 0
      /\ run.values = [o \in Objects |-> run.values[o]]
  BY DEF Held
<1>2. /\ \A o \in Objects : run'.values[o] = run.values[o] + IF o \in i.objs THEN n ELSE 0
      /\ run'.values = [o \in Objects |-> run'.values[o]]
  BY DEF Add
<1>3. CASE i.op = "init"
  <2>1. PICK x : i.objs = {x} /\ x \notin X /\ Y = X \cup {x}
    BY <1>3 DEF Does
  <2>2. \A o \in Objects : run'.values[o] = IF o \in Y THEN 1 ELSE 0
    BY <1>1, <1>2, <1>3, <2>1
  <2>3. run'.values = Held(Y)
    BY <1>2, <2>2 DEF Held
  <2>4. CASE x \notin Objects
    <3>1. \A o \in Objects : run'.values[o] = run.values[o]
      BY <1>1, <2>1, <2>2, <2>4
    <3> QED  BY <1>1, <1>2, <2>3, <3>1
  <2>5. CASE x \in Objects
    <3>1. run'.values = [run.values EXCEPT ![x] = 1]
      BY <1>1, <1>2, <2>1, <2>2, <2>5, SMTT(30)
    <3>2. LT!Construct(x)
      BY <1>1, <2>1, <2>5, <3>1 DEF LT!Construct
    <3> QED  BY <2>3, <2>5, <3>2 DEF LT!Next
  <2> QED  BY <2>4, <2>5
<1>4. CASE i.op \in {"destroy", "phi"}
  <2>1. i.objs \subseteq X /\ Y = X \ i.objs
    BY <1>4 DEF Does
  <2>2. \A o \in Objects : run'.values[o] = IF o \in Y THEN 1 ELSE 0
    BY <1>1, <1>2, <1>4, <2>1
  <2>3. run'.values = Held(Y)
    BY <1>2, <2>2 DEF Held
  <2>4. CASE run'.values # run.values
    <3>1. run'.values \in [Objects -> {0, 1}]
      BY <1>2, <2>2
    <3>2. \A o \in Objects : run'.values[o] <= run.values[o]
      BY <1>1, <2>1, <2>2
    <3>3. LT!Destruct
      BY <2>4, <3>1, <3>2 DEF LT!Destruct
    <3> QED  BY <2>3, <3>3 DEF LT!Next
  <2> QED  BY <2>3, <2>4
<1> QED  BY <1>3, <1>4 DEF Does

(* Every step of the run is one of the abstract machine, or none.          *)
LEMMA StepRuns ==
  ASSUME FlowInv, RunInv, Step
  PROVE  /\ RunInv' /\ run.phase = "run" /\ run'.phase \in {"run", "returned"}
         /\ UNCHANGED <<run.values, run.phase = "returned">> \/ LT!Next
<1> DEFINE b == run.block
           k == run.at
           i == blocks[b][k]
           n == Len(blocks[b])
<1>1. run.phase = "run" /\ UNCHANGED blocks
  BY DEF Step, StepCall, StepBranch, StepReturn, Running
<1>2. /\ run = [phase |-> "run", block |-> b, at |-> k, values |-> run.values]
      /\ b \in Blocks /\ k \in 1 .. n
  BY <1>1 DEF RunInv
<1>3. PICK at, tr : RunsAs(at, tr)
  BY <1>1 DEF RunInv
<1> DEFINE X == tr[b][k]
           Y == tr[b][k + 1]
<1>4. /\ at[1] = {} /\ \A p \in Blocks : tr[p][1] = at[p] /\ Runs(at, blocks[p], tr[p])
      /\ run.values = Held(X)
  BY <1>3 DEF RunsAs
<1>5. /\ i.op \in {"br", "cbr"} => \A p \in i.to : at[p] = X
      /\ i.op = "ret" => X = {}
      /\ ~Lands(i) => Does(i, X, Y)
  BY <1>2, <1>4 DEF Runs
<1>6. WholeCode
  BY <1>1 DEF FlowInv
<1>7. /\ n \in Nat \ {0} /\ Back(blocks[b]) = blocks[b][n]
      /\ \A j \in 1 .. n - 1 : ~Lands(blocks[b][j])
      /\ Lands(blocks[b][n]) /\ blocks[b][n].to \subseteq Blocks
  BY <1>2, <1>6, ListPop DEF WholeCode, Whole, Lands
<1>8. /\ ~Lands(i) => k + 1 \in 1 .. n
      /\ Lands(i) => i.to \subseteq Blocks
  <2>1. k = n \/ k \in 1 .. n - 1
    BY <1>2, <1>7
  <2>2. k \in 1 .. n - 1 => k + 1 \in 1 .. n
    BY <1>7
  <2> QED  BY <1>7, <2>1, <2>2
<1>9. \A p \in Blocks : 1 \in 1 .. Len(blocks[p])
  <2> SUFFICES ASSUME NEW p \in Blocks PROVE 1 \in 1 .. Len(blocks[p])
    OBVIOUS
  <2>1. Len(blocks[p]) \in Nat \ {0}
    BY <1>6, ListPop DEF WholeCode, Whole
  <2> QED  BY <2>1
<1> HIDE DEF b, k, i, n, X, Y
<1>10. ASSUME NEW q \in Blocks, NEW m \in 1 .. Len(blocks[q]), NEW v, NEW ph,
              ph \in {"run", "returned"}, v = Held(tr[q][m]),
              run' = [phase |-> ph, block |-> q, at |-> m, values |-> v]
       PROVE  RunInv'
  <2>1. RunsAs(at, tr)'
    BY <1>1, <1>4, <1>10 DEF RunsAs, Blocks, Held, Objects
  <2> QED  BY <1>1, <1>10, <2>1 DEF RunInv, Blocks
<1>11. DOMAIN run = {"phase", "block", "at", "values"} /\ run.at = k
       /\ run.block = b /\ run.phase = "run"
  <2>1. k = run.at /\ b = run.block
    BY DEF k, b
  <2> QED  BY <1>2, <2>1
<1>12. CASE StepCall
  <2>1. /\ i.op \in {"init", "destroy", "phi"}
        /\ run' = [run EXCEPT !.at = @ + 1,
                              !.values = Add(i.objs, IF i.op = "init" THEN 1 ELSE -1)]
    BY <1>12 DEF StepCall, Running, Here, i, b, k
  <2> DEFINE v == Add(i.objs, IF i.op = "init" THEN 1 ELSE -1)
  <2> HIDE DEF v
  <2>2. run' = [phase |-> "run", block |-> b, at |-> k + 1, values |-> v]
    <3>1. run' = [run EXCEPT !.at = @ + 1, !.values = v]
      BY <2>1 DEF v
    <3>2. /\ run' = [f \in {"phase", "block", "at", "values"} |-> run'[f]]
          /\ run'.phase = "run" /\ run'.block = b /\ run'.at = k + 1 /\ run'.values = v
      BY <1>11, <3>1
    <3> QED  BY ONLY <3>2
  <2>3. ~Lands(i) /\ Does(i, X, Y) /\ k + 1 \in 1 .. n
    BY <1>5, <1>8, <2>1 DEF Lands, IsTerminator
  <2>4. /\ v = Held(Y) /\ (UNCHANGED run.values \/ LT!Next)
    BY <1>1, <1>4, <2>2, <2>3, DoesAsPromised DEF v
  <2>5. RunInv'
    BY <1>2, <1>10, <2>2, <2>3, <2>4 DEF n, Y
  <2> QED  BY <1>1, <2>2, <2>4, <2>5
<1>13. CASE StepBranch
  <2>1. PICK q \in i.to : i.op \in {"br", "cbr"} /\ run' = [run EXCEPT !.block = q, !.at = 1]
    BY <1>13 DEF StepBranch, Running, Here, i, b, k
  <2>2. run' = [phase |-> "run", block |-> q, at |-> 1, values |-> run.values]
    <3>1. /\ run' = [f \in {"phase", "block", "at", "values"} |-> run'[f]]
          /\ run'.phase = "run" /\ run'.block = q /\ run'.at = 1 /\ run'.values = run.values
      BY <1>11, <2>1
    <3> QED  BY ONLY <3>1
  <2>3. Lands(i) /\ q \in Blocks /\ 1 \in 1 .. Len(blocks[q])
    <3>1. Lands(i)
      BY <2>1 DEF Lands, IsTerminator
    <3> QED  BY <1>8, <1>9, <3>1
  <2>4. run.values = Held(tr[q][1])
    BY <1>4, <1>5, <2>1, <2>3
  <2>5. RunInv'
    BY <1>10, <2>2, <2>3, <2>4
  <2> QED  BY <1>1, <2>2, <2>5
<1>14. CASE StepReturn
  <2>1. i.op = "ret" /\ run' = [run EXCEPT !.phase = "returned"]
    BY <1>14 DEF StepReturn, Running, Here, i, b, k
  <2>2. run' = [phase |-> "returned", block |-> b, at |-> k, values |-> run.values]
    BY <1>2, <2>1
  <2>3. RunInv'
    BY <1>2, <1>4, <1>10, <2>2 DEF n, X
  <2>4. \A o \in Objects : run.values[o] = 0
    BY <1>4, <1>5, <2>1 DEF Held
  <2>5. LT!Return
    BY <2>2, <2>4 DEF LT!Return
  <2> QED  BY <1>1, <2>2, <2>3, <2>5 DEF LT!Next
<1> QED  BY <1>12, <1>13, <1>14 DEF Step

(* Every step keeps what has been found of the code and of the run, and is *)
(* a step of Lifetime or none.                                             *)
LEMMA NextLives ==
  ASSUME Tame, MaxNodes < AnonLimit, IInv, FlowInv, LifeInv, RunInv, [Next]_vars
  PROVE  /\ LifeInv' /\ RunInv'
         /\ [LT!Next]_<<run.values, run.phase = "returned">>
<1>1. CASE UNCHANGED vars
  <2>1. UNCHANGED <<ctx, blocks, labels, pr, forms, run>>
    BY <1>1 DEF vars
  <2>2. LifeInv'
    BY <2>1 DEF LifeInv, Parsing, Lives, Scoped, FoundTyped, Typed, NoValues, Objects
  <2>3. RunInv'
    <3>1. \A at, tr : RunsAs(at, tr) => RunsAs(at, tr)'
      BY <2>1 DEF RunsAs, Blocks, Held, Objects
    <3>2. run' = run /\ Blocks' = Blocks /\ blocks' = blocks
      BY <2>1 DEF Blocks
    <3> QED  BY <3>1, <3>2 DEF RunInv
  <2> QED  BY <2>1, <2>2, <2>3
<1>2. CASE Step
  <2>1. /\ RunInv' /\ run'.phase \in {"run", "returned"}
        /\ UNCHANGED <<run.values, run.phase = "returned">> \/ LT!Next
    BY <1>2, StepRuns
  <2> QED  BY <2>1 DEF LifeInv, Parsing
<1>3. CASE Reject
  <2>1. /\ run = [phase |-> "parse", block |-> 1, at |-> 1, values |-> NoValues]
        /\ run' = [run EXCEPT !.phase = "rejected"]
    BY <1>3 DEF Reject, LifeInv
  <2>2. run'.phase = "rejected" /\ run'.values = run.values /\ run.phase = "parse"
    BY <2>1
  <2> QED  BY <2>2 DEF LifeInv, RunInv, Parsing
<1>4. CASE Finish
  <2>1. RunInv' /\ run'.values = run.values
    BY <1>4, FinishRuns
  <2>2. run.phase = "parse" /\ run'.phase = "run"
    BY <1>4 DEF Finish, Parsing, IInv
  <2> QED  BY <2>1, <2>2 DEF LifeInv, Parsing
<1>5. CASE Next /\ ~Step /\ ~Finish /\ ~Reject
  <2>1. /\ Parsing /\ UNCHANGED run
        /\ \E g : Lives(ctx', blocks', labels', pr', forms', g)
    BY <1>5, FormLives
  <2>2. LifeInv'
    BY <2>1 DEF LifeInv, NoValues, Objects
  <2> QED  BY <2>1, <2>2 DEF RunInv, Parsing
<1> QED  BY <1>1, <1>2, <1>3, <1>4, <1>5

(* Executing the code that the handlers produce for a body, whatever its   *)
(* forms, constructs and destructs the variables as the language promises: *)
(* none over another, none that holds no value, and none is left when the  *)
(* function returns.                                                       *)
THEOREM LifetimesKept ==
  ASSUME Tame, MaxNodes < AnonLimit
  PROVE  Spec => Lifetimes
<1>1. ASSUME Init PROVE LifeInv /\ RunInv /\ LT!Init
  <2>1. LifeInv
    BY <1>1, InitLives
  <2>2. run = [phase |-> "parse", block |-> 1, at |-> 1, values |-> NoValues]
    BY <1>1 DEF Init
  <2>3. run.phase = "parse" /\ run.values = [o \in Objects |-> 0]
    BY <2>2 DEF NoValues
  <2> QED  BY <2>1, <2>3 DEF RunInv, LT!Init
<1>2. IInv /\ FlowInv /\ LifeInv /\ RunInv /\ [Next]_vars =>
        LifeInv' /\ RunInv' /\ [LT!Next]_<<run.values, run.phase = "returned">>
  BY NextLives
<1> QED  BY <1>1, <1>2, CodeInvariant, FlowInvariant, PTL DEF Spec, Lifetimes, LT!Spec
====
