----------------------------- MODULE FlowProofs -----------------------------
(***************************************************************************)
(* Proofs about the finished function, for every value of the constants:   *)
(* each block ends with one terminator, which goes to blocks that there    *)
(* are, and its PHI nodes match the blocks that go to them.                *)
(*                                                                         *)
(* What a path meets first, a terminator or a deferred goto, is where its  *)
(* block will end: removePostTerminators cuts off the rest.  That does not *)
(* change when code is added to a block; so the blocks that go to another  *)
(* are known as soon as that one is made, as branches are only made to     *)
(* blocks that are made with them, or that have a label.                   *)
(*                                                                         *)
(* The last part is about types: what is emitted names variables that can  *)
(* be declared, and blocks that there are.                                 *)
(***************************************************************************)
EXTENDS ProcBodyProofs, NamespaceProofs, FiniteSetTheorems

(* The body has no unreachable forms, and no goto to a label seen before:  *)
(* after either, what the code takes for the end of a branch need not be.  *)
NoDetour == Uses \cap {"dead", "goto_back", "goto_in"} = {}

Lands(i) == IsTerminator(i) \/ i.op = "goto"

(* Where a block ends, and the blocks it goes to.                          *)
IsEnd(b, k) == /\ k \in 1 .. Len(b) /\ Lands(b[k])
               /\ \A j \in 1 .. k - 1 : ~Lands(b[j])
GoesTo(b)   == UNION {b[k].to : k \in {j \in 1 .. Len(b) : IsEnd(b, j)}}
From(bs, p) == {q \in 1 .. Len(bs) : p \in GoesTo(bs[q])}

(* Branches and labels are at blocks of the function.                      *)
Targets(bs, labs) ==
  /\ \A b \in 1 .. Len(bs) : \A k \in 1 .. Len(bs[b]) :
       /\ bs[b][k].to \subseteq 1 .. Len(bs)
       /\ bs[b][k].op = "goto" => bs[b][k].to = {}
  /\ \A lab \in labs : lab.block \in 1 .. Len(bs)

(* PHI nodes match the blocks that go to theirs, and no goto will be one   *)
(* more.                                                                   *)
Phis(bs, labs) ==
  /\ \A b \in 1 .. Len(bs) : \A k \in 1 .. Len(bs[b]) :
       bs[b][k].op = "phi" => bs[b][k].to = From(bs, b)
  /\ \A lab \in labs : \A k \in 1 .. Len(bs[lab.block]) : bs[lab.block][k].op # "phi"

Branches(fr) == fr.kind \in {"then", "else"}

(* No code goes to a block that waits, until the branch that follows ends. *)
Apart(cur, fs, n) ==
  \A i \in 1 .. n : \A b \in Waiting(fs[i]) :
    b # cur /\ \A j \in i + 1 .. n : b \notin Writes(fs[j])

(* The block with the condition has ended; that of a first branch which    *)
(* has a value has not.                                                    *)
Framed(bs, fr) ==
  /\ Branches(fr) => EndsPath(bs[fr.cond])
  /\ NoDetour /\ fr.kind = "else" /\ fr.then.type = "int" /\ ~fr.then.term =>
       ~EndsPath(bs[fr.then.block])

(* Outside of ifs, a path that goes on is in the last block.               *)
InOrder(bs, cur, fs, n) ==
  (\A i \in 1 .. n : ~Branches(fs[i])) => EndsPath(bs[cur]) \/ cur = Len(bs)

Flows(bs, labs, cur, fs, n) ==
  /\ Targets(bs, labs) /\ (NoDetour => Phis(bs, labs))
  /\ Apart(cur, fs, n) /\ \A i \in 1 .. n : Framed(bs, fs[i])

FlowsFound(fs, i) ==
  \A s \in fs[i].saved :
    /\ Flows(s.blocks, s.labels, fs[i].entry, fs, i - 1)
    /\ InOrder(s.blocks, fs[i].entry, fs, i - 1)

(* A form that has a value does not end its block.                         *)
Open(bs, r) == NoDetour /\ r.type = "int" /\ ~r.term => ~EndsPath(bs[r.block])

Flowing(bs, labs, r, fs) ==
  /\ Flows(bs, labs, r.block, fs, Len(fs)) /\ Open(bs, r)
  /\ r.type # "error" => InOrder(bs, r.block, fs, Len(fs))
  /\ \A i \in 1 .. Len(fs) : FlowsFound(fs, i)

(* What Finish makes of it.                                                *)
Whole(b) == /\ IsList(b) /\ b # <<>> /\ IsTerminator(Back(b))
            /\ \A k \in 1 .. Len(b) - 1 : ~Lands(b[k])

WholeCode ==
  \A b \in Blocks : Whole(blocks[b]) /\ Back(blocks[b]).to \subseteq Blocks

PhiNodes ==
  \A b \in Blocks : \A k \in 1 .. Len(blocks[b]) :
    blocks[b][k].op = "phi" => blocks[b][k].to = Predecessors(b)

FlowInv ==
  /\ Parsing => Flowing(blocks, labels, pr, forms)
  /\ run.phase \in {"run", "returned"} => WholeCode /\ (NoDetour => PhiNodes)
-----------------------------------------------------------------------------
(***************************************************************************)
(* Where a block ends.                                                     *)
(***************************************************************************)
(* There is one end, if there is any.                                      *)
LEMMA FirstEnd ==
  ASSUME NEW b, IsList(b)
  PROVE  /\ EndsPath(b) => \E k \in 1 .. Len(b) : IsEnd(b, k) /\ GoesTo(b) = b[k].to
         /\ ~EndsPath(b) => GoesTo(b) = {} /\ \A k \in 1 .. Len(b) : ~Lands(b[k])
<1>1. Len(b) \in Nat
  BY ListLen
<1>2. EndsPath(b) <=> \E k \in 1 .. Len(b) : Lands(b[k])
  BY DEF EndsPath, Lands
<1>3. ASSUME EndsPath(b) PROVE \E k \in 1 .. Len(b) : IsEnd(b, k)
  <2> DEFINE T == {k \in 1 .. Len(b) : Lands(b[k])}
  <2>1. T \in SUBSET Nat /\ T # {}
    BY <1>1, <1>2, <1>3
  <2>2. PICK k \in T : \A j \in T : k <= j
    <3> HIDE DEF T
    <3> QED  BY <2>1, Smallest
  <2>3. k \in 1 .. Len(b) /\ Lands(b[k])
    BY <2>2
  <2>4. ASSUME NEW j \in 1 .. k - 1 PROVE ~Lands(b[j])
    <3>1. j \in 1 .. Len(b) /\ ~(k <= j)
      BY <1>1, <2>3
    <3> QED  BY <2>2, <3>1
  <2> QED  BY <2>3, <2>4 DEF IsEnd
<1>4. ASSUME NEW k \in 1 .. Len(b), IsEnd(b, k) PROVE GoesTo(b) = b[k].to
  <2>1. ASSUME NEW j \in 1 .. Len(b), IsEnd(b, j) PROVE j = k
    <3>1. ~(j < k)
      <4>1. j < k => j \in 1 .. k - 1
        BY <1>1
      <4> QED  BY <1>4, <2>1, <4>1 DEF IsEnd
    <3>2. ~(k < j)
      <4>1. k < j => k \in 1 .. j - 1
        BY <1>1
      <4> QED  BY <1>4, <2>1, <4>1 DEF IsEnd
    <3> QED  BY <1>1, <3>1, <3>2
  <2>2. {j \in 1 .. Len(b) : IsEnd(b, j)} = {k}
    BY <1>4, <2>1
  <2> QED  BY <2>2 DEF GoesTo
<1>5. ASSUME ~EndsPath(b) PROVE GoesTo(b) = {} /\ \A k \in 1 .. Len(b) : ~Lands(b[k])
  BY <1>2, <1>5 DEF GoesTo, IsEnd
<1> QED  BY <1>3, <1>4, <1>5

(* Adding to a block that has ended does not change where it goes, and     *)
(* adding to one that has not leaves it to what is added.                  *)
LEMMA GoesStill ==
  ASSUME NEW s, NEW old, IsList(s), IsList(old), StartsWith(s, old)
  PROVE  /\ EndsPath(old) => GoesTo(s) = GoesTo(old)
         /\ ~EndsPath(old) => \A t \in GoesTo(s) :
              \E k \in 1 .. Len(s) : k > Len(old) /\ t \in s[k].to /\ Lands(s[k])
<1>1. Len(s) \in Nat /\ Len(old) \in Nat /\ Len(old) <= Len(s)
      /\ \A k \in 1 .. Len(old) : s[k] = old[k] /\ k \in 1 .. Len(s)
  BY ListLen DEF StartsWith
<1>2. ASSUME EndsPath(old) PROVE GoesTo(s) = GoesTo(old)
  <2>1. PICK k \in 1 .. Len(old) : IsEnd(old, k) /\ GoesTo(old) = old[k].to
    BY <1>2, FirstEnd
  <2>2. \A j \in 1 .. k : s[j] = old[j] /\ j \in 1 .. Len(s)
    BY <1>1, <2>1
  <2>3. IsEnd(s, k)
    <3>1. \A j \in 1 .. k - 1 : j \in 1 .. k
      OBVIOUS
    <3>2. k \in 1 .. k
      BY <2>1
    <3> QED  BY <2>1, <2>2, <3>1, <3>2 DEF IsEnd
  <2>4. EndsPath(s)
    BY <1>1, <1>2, EndsStill
  <2>5. PICK m \in 1 .. Len(s) : IsEnd(s, m) /\ GoesTo(s) = s[m].to
    BY <2>4, FirstEnd
  <2>6. m = k
    <3>1. ~(m < k)
      <4>1. m < k => m \in 1 .. k - 1
        BY <2>5
      <4> QED  BY <2>3, <2>5, <4>1 DEF IsEnd
    <3>2. ~(k < m)
      <4>1. k < m => k \in 1 .. m - 1
        BY <2>1, <2>5
      <4> QED  BY <2>3, <2>5, <4>1 DEF IsEnd
    <3> QED  BY <2>1, <2>5, <3>1, <3>2
  <2> QED  BY <1>1, <2>1, <2>5, <2>6
<1>3. ASSUME ~EndsPath(old), NEW t \in GoesTo(s)
      PROVE  \E k \in 1 .. Len(s) : k > Len(old) /\ t \in s[k].to /\ Lands(s[k])
  <2>1. PICK k \in 1 .. Len(s) : IsEnd(s, k) /\ t \in s[k].to
    BY <1>3, FirstEnd
  <2>2. k \notin 1 .. Len(old)
    BY <1>1, <1>3, <2>1, FirstEnd DEF IsEnd
  <2>3. k > Len(old)
    BY <1>1, <2>2
  <2> QED  BY <2>1, <2>3 DEF IsEnd
<1> QED  BY <1>2, <1>3
-----------------------------------------------------------------------------
(***************************************************************************)
(* Adding code.                                                            *)
(***************************************************************************)
(* Instruction k of block b is not in bs; those are all in I.              *)
NewAt(bs, b, k) == b > Len(bs) \/ k > Len(bs[b])

Within(new, bs, I) ==
  \A b \in 1 .. Len(new) : \A k \in 1 .. Len(new[b]) : NewAt(bs, b, k) => new[b][k] \in I

(* Instructions that are not new are where they were.                      *)
LEMMA OldInstr ==
  ASSUME NEW new, NEW bs, NEW W, IsCode(new), IsCode(bs), Longer(new, bs, W),
         NEW b \in 1 .. Len(new), NEW k \in 1 .. Len(new[b]), ~NewAt(bs, b, k)
  PROVE  b \in 1 .. Len(bs) /\ k \in 1 .. Len(bs[b]) /\ new[b][k] = bs[b][k]
<1>1. Len(bs) \in Nat /\ Len(new) \in Nat
  BY ListLen DEF IsCode
<1>2. b \in 1 .. Len(bs)
  BY <1>1 DEF NewAt
<1>3. Len(bs[b]) \in Nat /\ Len(new[b]) \in Nat /\ StartsWith(new[b], bs[b])
  BY <1>2, ListLen DEF IsCode, Longer
<1>4. k \in 1 .. Len(bs[b])
  BY <1>2, <1>3 DEF NewAt
<1> QED  BY <1>2, <1>3, <1>4 DEF StartsWith

(* Branches stay within the function.                                      *)
LEMMA TargetsGrow ==
  ASSUME NEW new, NEW bs, NEW W, NEW I, NEW labs, IsCode(new), IsCode(bs),
         Longer(new, bs, W), Within(new, bs, I), Targets(bs, labs),
         \A i \in I : i.to \subseteq 1 .. Len(new) /\ (i.op = "goto" => i.to = {})
  PROVE  Targets(new, labs)
<1>1. Len(bs) \in Nat /\ Len(new) \in Nat /\ Len(bs) <= Len(new)
  BY ListLen DEF IsCode, Longer
<1>2. ASSUME NEW b \in 1 .. Len(new), NEW k \in 1 .. Len(new[b])
      PROVE  /\ new[b][k].to \subseteq 1 .. Len(new)
             /\ new[b][k].op = "goto" => new[b][k].to = {}
  <2>1. CASE NewAt(bs, b, k)
    BY <2>1 DEF Within
  <2>2. CASE ~NewAt(bs, b, k)
    <3>1. b \in 1 .. Len(bs) /\ k \in 1 .. Len(bs[b]) /\ new[b][k] = bs[b][k]
      BY <2>2, OldInstr
    <3>2. /\ bs[b][k].to \subseteq 1 .. Len(bs)
          /\ bs[b][k].op = "goto" => bs[b][k].to = {}
      BY <3>1 DEF Targets
    <3> QED  BY <1>1, <3>1, <3>2
  <2> QED  BY <2>1, <2>2
<1>3. \A lab \in labs : lab.block \in 1 .. Len(new)
  BY <1>1 DEF Targets
<1> QED  BY <1>2, <1>3 DEF Targets

(* Who goes to a block is settled when it is made.                         *)
LEMMA FromStill ==
  ASSUME NEW new, NEW bs, NEW W, NEW I, IsCode(new), IsCode(bs),
         Longer(new, bs, W), Within(new, bs, I),
         \A i \in I : Lands(i) => \A t \in i.to : t > Len(bs),
         NEW p \in 1 .. Len(bs)
  PROVE  From(new, p) = From(bs, p)
<1>1. Len(bs) \in Nat /\ Len(new) \in Nat /\ Len(bs) <= Len(new) /\ ~(p > Len(bs))
  BY ListLen DEF IsCode, Longer
<1>2. ASSUME NEW q \in 1 .. Len(bs) PROVE p \in GoesTo(new[q]) <=> p \in GoesTo(bs[q])
  <2>1. q \in 1 .. Len(new) /\ IsList(new[q]) /\ IsList(bs[q]) /\ StartsWith(new[q], bs[q])
    BY <1>1 DEF IsCode, Longer
  <2>2. CASE EndsPath(bs[q])
    BY <2>1, <2>2, GoesStill
  <2>3. CASE ~EndsPath(bs[q])
    <3>1. p \notin GoesTo(bs[q])
      BY <2>1, <2>3, FirstEnd
    <3>2. ASSUME p \in GoesTo(new[q]) PROVE FALSE
      <4>1. PICK k \in 1 .. Len(new[q]) : /\ k > Len(bs[q]) /\ p \in new[q][k].to
                                         /\ Lands(new[q][k])
        BY <2>1, <2>3, <3>2, GoesStill
      <4>2. new[q][k] \in I
        BY <2>1, <4>1 DEF Within, NewAt
      <4> QED  BY <1>1, <4>1, <4>2
    <3> QED  BY <3>1, <3>2
  <2> QED  BY <2>2, <2>3
<1>3. ASSUME NEW q \in 1 .. Len(new), q \notin 1 .. Len(bs) PROVE p \notin GoesTo(new[q])
  <2>1. q > Len(bs)
    BY <1>1, <1>3
  <2>2. \A k \in 1 .. Len(new[q]) : new[q][k] \in I
    BY <2>1 DEF Within, NewAt
  <2>3. \A k \in 1 .. Len(new[q]) : Lands(new[q][k]) => p \notin new[q][k].to
    BY <1>1, <2>2
  <2> QED  BY <2>3 DEF GoesTo, IsEnd
<1>4. \A q \in 1 .. Len(bs) : q \in 1 .. Len(new)
  BY <1>1
<1> QED  BY <1>2, <1>3, <1>4 DEF From

(* PHI nodes keep matching, if new ones are in new blocks only and match.  *)
LEMMA PhisGrow ==
  ASSUME NEW new, NEW bs, NEW W, NEW I, NEW labs, IsCode(new), IsCode(bs),
         Longer(new, bs, W), Within(new, bs, I), Targets(bs, labs), Phis(bs, labs),
         \A i \in I : Lands(i) => \A t \in i.to : t > Len(bs),
         \A b \in 1 .. Len(new) : \A k \in 1 .. Len(new[b]) :
           NewAt(bs, b, k) /\ new[b][k].op = "phi" =>
             b > Len(bs) /\ new[b][k].to = From(new, b)
  PROVE  Phis(new, labs)
<1>1. Len(bs) \in Nat /\ Len(new) \in Nat /\ Len(bs) <= Len(new)
  BY ListLen DEF IsCode, Longer
<1>2. ASSUME NEW b \in 1 .. Len(new), NEW k \in 1 .. Len(new[b]), new[b][k].op = "phi"
      PROVE  new[b][k].to = From(new, b)
  <2>1. CASE NewAt(bs, b, k)
    BY <1>2, <2>1
  <2>2. CASE ~NewAt(bs, b, k)
    <3>1. b \in 1 .. Len(bs) /\ k \in 1 .. Len(bs[b]) /\ new[b][k] = bs[b][k]
      BY <2>2, OldInstr
    <3>2. bs[b][k].to = From(bs, b)
      BY <1>2, <3>1 DEF Phis
    <3>3. From(new, b) = From(bs, b)
      BY <3>1, FromStill
    <3> QED  BY <3>1, <3>2, <3>3
  <2> QED  BY <2>1, <2>2
<1>3. ASSUME NEW lab \in labs, NEW k \in 1 .. Len(new[lab.block])
      PROVE  new[lab.block][k].op # "phi"
  <2> DEFINE b == lab.block
  <2>1. b \in 1 .. Len(bs) /\ b \in 1 .. Len(new) /\ ~(b > Len(bs))
    BY <1>1 DEF Targets
  <2>2. CASE NewAt(bs, b, k)
    <3>1. NewAt(bs, b, k) /\ k \in 1 .. Len(new[b])
      BY <2>2
    <3> HIDE DEF b
    <3> QED  BY <2>1, <3>1 DEF b
  <2>3. CASE ~NewAt(bs, b, k)
    <3>1. k \in 1 .. Len(bs[b]) /\ new[b][k] = bs[b][k]
      BY <2>1, <2>3, OldInstr
    <3> QED  BY <3>1 DEF Phis
  <2> QED  BY <2>2, <2>3
<1> QED  BY <1>2, <1>3 DEF Phis

(* What two additions add.                                                 *)
LEMMA WithinAgain ==
  ASSUME NEW new, NEW mid, NEW bs, NEW W, NEW I, NEW J, IsCode(new), IsCode(mid),
         Longer(new, mid, W), Within(new, mid, J), Within(mid, bs, I)
  PROVE  Within(new, bs, I \cup J)
<1> SUFFICES ASSUME NEW b \in 1 .. Len(new), NEW k \in 1 .. Len(new[b]), NewAt(bs, b, k)
             PROVE  new[b][k] \in I \cup J
  BY DEF Within
<1>1. CASE NewAt(mid, b, k)
  BY <1>1 DEF Within
<1>2. CASE ~NewAt(mid, b, k)
  BY <1>2, OldInstr DEF Within
<1> QED  BY <1>1, <1>2

(* Appending to a block.                                                   *)
LEMMA EmitWithin ==
  ASSUME NEW bs, NEW b, NEW code, IsCode(bs), b \in 1 .. Len(bs), IsList(code),
         NEW I, \A j \in 1 .. Len(code) : code[j] \in I
  PROVE  Within(Emit(bs, b, code), bs, I)
<1> DEFINE x   == bs[b] \o code
           new == [bs EXCEPT ![b] = x]
<1>1. IsList(bs) /\ IsList(bs[b]) /\ Len(bs) \in Nat /\ Len(bs[b]) \in Nat /\ Len(code) \in Nat
      /\ \A a \in 1 .. Len(bs) : Len(bs[a]) \in Nat
  BY ListLen DEF IsCode
<1>2. Len(x) = Len(bs[b]) + Len(code) /\ \A k \in 1 .. Len(code) : x[Len(bs[b]) + k] = code[k]
  BY <1>1, ListConcat
<1>3. Emit(bs, b, code) = new
  BY DEF Emit
<1> HIDE DEF x
<1>4. /\ Len(new) = Len(bs) /\ new[b] = x
      /\ \A k \in 1 .. Len(bs) : k # b => new[k] = bs[k]
  BY <1>1, ListReplace
<1> HIDE DEF new
<1>5. ASSUME NEW a \in 1 .. Len(new), NEW k \in 1 .. Len(new[a]), NewAt(bs, a, k)
      PROVE  new[a][k] \in I
  <2>0. a \in 1 .. Len(bs) /\ k > Len(bs[a])
    BY <1>1, <1>4, <1>5 DEF NewAt
  <2>1. a = b /\ k > Len(bs[b])
    <3>1. CASE a # b
      <4>1. new[a] = bs[a]
        BY <1>4, <2>0, <3>1
      <4> QED  BY <1>1, <2>0, <4>1
    <3> QED  BY <2>0, <3>1
  <2>2. k - Len(bs[b]) \in 1 .. Len(code) /\ Len(bs[b]) + (k - Len(bs[b])) = k
    BY <1>1, <1>2, <1>4, <2>1
  <2>3. x[k] = code[k - Len(bs[b])]
    BY <1>2, <2>2
  <2> QED  BY <1>4, <2>1, <2>2, <2>3
<1> QED  BY <1>3, <1>5 DEF Within

(* A block is added.                                                       *)
LEMMA NewBlockWithin ==
  ASSUME NEW bs, NEW code, IsCode(bs), IsList(code),
         NEW I, \A j \in 1 .. Len(code) : code[j] \in I
  PROVE  Within(Append(bs, code), bs, I)
<1> DEFINE new == Append(bs, code)
<1>1. IsList(bs) /\ Len(bs) \in Nat
  BY ListLen DEF IsCode
<1>2. /\ Len(new) = Len(bs) + 1 /\ new[Len(bs) + 1] = code
      /\ \A k \in 1 .. Len(bs) : new[k] = bs[k] /\ Len(bs[k]) \in Nat
  BY <1>1, ListAppend, ListLen DEF IsCode
<1> HIDE DEF new
<1>3. ASSUME NEW a \in 1 .. Len(new), NEW k \in 1 .. Len(new[a]), NewAt(bs, a, k)
      PROVE  new[a][k] \in I
  <2>1. CASE a \in 1 .. Len(bs)
    BY <1>1, <1>2, <1>3, <2>1 DEF NewAt
  <2>2. CASE a = Len(bs) + 1
    BY <1>2, <1>3, <2>2
  <2> QED  BY <1>1, <1>2, <2>1, <2>2
<1> QED  BY <1>3 DEF Within, new

(* Two blocks are added, as if does.                                       *)
LEMMA TwoBlocksWithin ==
  ASSUME NEW bs, IsCode(bs)
  PROVE  Within(bs \o <<<<>>, <<>>>>, bs, {})
<1> DEFINE two == <<<<>>, <<>>>>
           new == bs \o two
<1>1. IsList(bs) /\ Len(bs) \in Nat /\ \A b \in 1 .. Len(bs) : Len(bs[b]) \in Nat
  BY ListLen DEF IsCode
<1>2. IsList(two) /\ Len(two) = 2 /\ two[1] = <<>> /\ two[2] = <<>> /\ Len(<<>>) = 0
  BY ShortLists
<1> HIDE DEF two
<1>3. /\ Len(new) = Len(bs) + 2
      /\ \A k \in 1 .. Len(bs) : new[k] = bs[k]
      /\ \A k \in 1 .. 2 : new[Len(bs) + k] = two[k]
  <2>1. /\ Len(new) = Len(bs) + Len(two)
        /\ \A k \in 1 .. Len(bs) : new[k] = bs[k]
        /\ \A k \in 1 .. Len(two) : new[Len(bs) + k] = two[k]
    <3>1. IsList(bs) /\ IsList(two)
      BY <1>1, <1>2
    <3> QED  BY ONLY <3>1, ListConcat
  <2> HIDE DEF new
  <2> QED  BY <1>2, <2>1
<1> HIDE DEF new
<1>4. ASSUME NEW a \in 1 .. Len(new), NEW k \in 1 .. Len(new[a]), NewAt(bs, a, k) PROVE FALSE
  <2>1. CASE a \in 1 .. Len(bs)
    BY <1>1, <1>3, <1>4, <2>1 DEF NewAt
  <2>2. CASE a = Len(bs) + 1
    BY <1>2, <1>3, <1>4, <2>2
  <2>3. CASE a = Len(bs) + 2
    BY <1>2, <1>3, <1>4, <2>3
  <2> QED  BY <1>1, <1>3, <2>1, <2>2, <2>3
<1> QED  BY <1>4 DEF Within, new, two

(* Code that does not end a path ends no block.                            *)
LEMMA QuietEnds ==
  ASSUME NEW new, NEW bs, NEW W, NEW I, IsCode(new), IsCode(bs), Longer(new, bs, W),
         Within(new, bs, I), NEW b \in 1 .. Len(bs), b \in W => \A i \in I : ~Lands(i)
  PROVE  EndsPath(new[b]) => EndsPath(bs[b])
<1>1. Len(bs) \in Nat /\ Len(new) \in Nat /\ Len(bs) <= Len(new)
  BY ListLen DEF IsCode, Longer
<1>2. CASE b \notin W
  BY <1>2 DEF Longer
<1>3. CASE b \in W
  <2> SUFFICES ASSUME EndsPath(new[b]) PROVE EndsPath(bs[b])
    OBVIOUS
  <2>1. b \in 1 .. Len(new)
    BY <1>1
  <2>2. PICK k \in 1 .. Len(new[b]) : Lands(new[b][k])
    BY DEF EndsPath, Lands
  <2>3. ~NewAt(bs, b, k)
    BY <1>3, <2>1, <2>2 DEF Within
  <2>4. k \in 1 .. Len(bs[b]) /\ new[b][k] = bs[b][k]
    BY <2>1, <2>3, OldInstr
  <2> QED  BY <2>2, <2>4 DEF EndsPath, Lands
<1> QED  BY <1>2, <1>3
-----------------------------------------------------------------------------
(***************************************************************************)
(* Forms.                                                                  *)
(***************************************************************************)
LEMMA WaitingIsWritten ==
  ASSUME NEW bs, NEW fr, FrameOK(bs, fr)
  PROVE  /\ Waiting(fr) \subseteq Writes(fr) /\ Waiting(fr) \subseteq 1 .. Len(bs)
         /\ fr.kind = "then" => Waiting(fr) = {fr.entry + 1}
         /\ fr.kind = "else" => Waiting(fr) = {fr.then.block}
         /\ ~Branches(fr) => Waiting(fr) = {}
<1>1. CASE fr.kind = "then"
  BY <1>1 DEF Waiting, Writes, FrameOK, Branches
<1>2. CASE fr.kind = "else"
  BY <1>2 DEF Waiting, Writes, FrameOK, Branches
<1>3. CASE fr.kind \in {"scope", "call"}
  BY <1>3 DEF Waiting, Branches
<1> QED  BY <1>1, <1>2, <1>3 DEF FrameOK

(* What is known of the blocks of a form stays true.                       *)
LEMMA FramedStill ==
  ASSUME NEW bs, NEW new, NEW W, NEW fr, IsCode(bs), IsCode(new), Longer(new, bs, W),
         FrameOK(bs, fr), Framed(bs, fr),
         NoDetour => \A b \in Waiting(fr) : EndsPath(new[b]) => EndsPath(bs[b])
  PROVE  Framed(new, fr)
<1>1. Len(bs) \in Nat /\ Len(new) \in Nat /\ Len(bs) <= Len(new)
  BY ListLen DEF IsCode, Longer
<1>2. ASSUME Branches(fr) PROVE EndsPath(new[fr.cond])
  <2> DEFINE b == fr.cond
  <2>1. b \in 1 .. Len(bs) /\ b \in 1 .. Len(new) /\ EndsPath(bs[b])
    BY <1>1, <1>2 DEF FrameOK, Writes, Framed
  <2> HIDE DEF b
  <2>2. Len(bs[b]) \in Nat /\ Len(new[b]) \in Nat /\ StartsWith(new[b], bs[b])
    BY <2>1, ListLen DEF IsCode, Longer
  <2>3. EndsPath(new[b])
    BY <2>1, <2>2, EndsStill
  <2> QED  BY <2>3 DEF b
<1>3. ASSUME NoDetour, fr.kind = "else", fr.then.type = "int", ~fr.then.term
      PROVE  ~EndsPath(new[fr.then.block])
  BY <1>3, WaitingIsWritten DEF Framed
<1> QED  BY <1>2, <1>3 DEF Framed

(* What is said of the code depends on the forms below n only.             *)
LEMMA SameFlows ==
  ASSUME NEW fs, NEW gs, NEW n \in Nat, \A i \in 1 .. n : gs[i] = fs[i]
  PROVE  /\ \A cur : Apart(cur, fs, n) => Apart(cur, gs, n)
         /\ \A bs, cur : InOrder(bs, cur, fs, n) => InOrder(bs, cur, gs, n)
         /\ \A bs, labs, cur : Flows(bs, labs, cur, fs, n) => Flows(bs, labs, cur, gs, n)
<1>1. ASSUME NEW cur, Apart(cur, fs, n) PROVE Apart(cur, gs, n)
  <2>1. \A i \in 1 .. n : \A j \in i + 1 .. n : j \in 1 .. n
    OBVIOUS
  <2> QED  BY <1>1, <2>1 DEF Apart
<1>2. ASSUME NEW bs, NEW cur, InOrder(bs, cur, fs, n) PROVE InOrder(bs, cur, gs, n)
  BY <1>2 DEF InOrder
<1> QED  BY <1>1, <1>2 DEF Flows

(* What open calls found does not change when forms above them do.         *)
LEMMA SameFound ==
  ASSUME NEW fs, NEW gs, NEW n \in Nat, \A i \in 1 .. n : gs[i] = fs[i],
         \A i \in 1 .. n : FlowsFound(fs, i)
  PROVE  \A i \in 1 .. n : FlowsFound(gs, i)
<1> SUFFICES ASSUME NEW i \in 1 .. n, NEW s \in gs[i].saved
             PROVE  /\ Flows(s.blocks, s.labels, gs[i].entry, gs, i - 1)
                    /\ InOrder(s.blocks, gs[i].entry, gs, i - 1)
  BY DEF FlowsFound
<1>1. i - 1 \in Nat /\ (\A j \in 1 .. i - 1 : gs[j] = fs[j]) /\ gs[i] = fs[i]
  OBVIOUS
<1>2. /\ Flows(s.blocks, s.labels, gs[i].entry, fs, i - 1)
      /\ InOrder(s.blocks, gs[i].entry, fs, i - 1)
  BY <1>1 DEF FlowsFound
<1> QED  BY <1>1, <1>2, SameFlows

(* Code goes on in the current block, or in a new one.                     *)
LEMMA ApartOn ==
  ASSUME NEW bs, NEW cur, NEW fs, NEW n \in Nat, Apart(cur, fs, n),
         \A i \in 1 .. n : FrameOK(bs, fs[i]), Len(bs) \in Nat,
         NEW to, to = cur \/ to > Len(bs)
  PROVE  Apart(to, fs, n)
<1> SUFFICES ASSUME NEW i \in 1 .. n, NEW b \in Waiting(fs[i]) PROVE b # to
  BY DEF Apart
<1>1. b \in 1 .. Len(bs) /\ b # cur
  BY WaitingIsWritten DEF Apart
<1> QED  BY <1>1

(* Adding code.  Where a block waits, nothing is added that ends it.       *)
LEMMA FlowsGrow ==
  ASSUME NEW bs, NEW labs, NEW cur, NEW fs, NEW n \in Nat,
         Flows(bs, labs, cur, fs, n), Placed(bs, cur, fs, n),
         NEW new, NEW W, NEW I, IsCode(new), Longer(new, bs, W), Within(new, bs, I),
         \A i \in I : i.to \subseteq 1 .. Len(new) /\ (i.op = "goto" => i.to = {}),
         NoDetour => /\ \A i \in I : Lands(i) => \A t \in i.to : t > Len(bs)
                     /\ \A b \in 1 .. Len(new) : \A k \in 1 .. Len(new[b]) :
                          NewAt(bs, b, k) /\ new[b][k].op = "phi" =>
                            b > Len(bs) /\ new[b][k].to = From(new, b)
                     /\ \A i \in 1 .. n : \A b \in Waiting(fs[i]) :
                          EndsPath(new[b]) => EndsPath(bs[b]),
         NEW to, to = cur \/ to > Len(bs)
  PROVE  Flows(new, labs, to, fs, n)
<1>1. IsCode(bs) /\ Len(bs) \in Nat /\ \A i \in 1 .. n : FrameOK(bs, fs[i])
  BY ListLen DEF Placed, IsCode
<1>2. Targets(bs, labs) /\ Apart(cur, fs, n) /\ (NoDetour => Phis(bs, labs))
      /\ \A i \in 1 .. n : Framed(bs, fs[i])
  BY DEF Flows
<1>3. Targets(new, labs)
  BY <1>1, <1>2, TargetsGrow
<1>4. ASSUME NoDetour PROVE Phis(new, labs)
  BY <1>1, <1>2, <1>4, PhisGrow
<1>5. Apart(to, fs, n)
  BY <1>1, <1>2, ApartOn
<1>6. \A i \in 1 .. n : Framed(new, fs[i])
  BY <1>1, <1>2, FramedStill
<1> QED  BY <1>3, <1>4, <1>5, <1>6 DEF Flows

(* The first m of the forms.                                               *)
LEMMA FlowsOuter ==
  ASSUME NEW bs, NEW labs, NEW cur, NEW fs, NEW n \in Nat, NEW m \in 0 .. n,
         Flows(bs, labs, cur, fs, n),
         NEW to, to = cur \/ \E j \in m + 1 .. n : to \in Writes(fs[j])
  PROVE  Flows(bs, labs, to, fs, m)
<1>1. \A i \in 1 .. m : /\ i \in 1 .. n
                        /\ \A j \in i + 1 .. m : j \in i + 1 .. n
                        /\ \A j \in m + 1 .. n : j \in i + 1 .. n
  OBVIOUS
<1>2. Apart(cur, fs, n) /\ \A i \in 1 .. n : Framed(bs, fs[i])
  BY DEF Flows
<1>3. ASSUME NEW i \in 1 .. m, NEW b \in Waiting(fs[i])
      PROVE  b # to /\ \A j \in i + 1 .. m : b \notin Writes(fs[j])
  BY <1>1, <1>2 DEF Apart
<1>4. Apart(to, fs, m)
  BY <1>3 DEF Apart
<1> QED  BY <1>1, <1>2, <1>4 DEF Flows

(* Opening a form.                                                         *)
LEMMA FlowingPush ==
  ASSUME NEW bs, NEW labs, NEW fs, NEW fr, NEW r, IsList(fs),
         Flows(bs, labs, r.block, fs, Len(fs)), Open(bs, r),
         \A i \in 1 .. Len(fs) : FlowsFound(fs, i), Framed(bs, fr),
         \A i \in 1 .. Len(fs) : \A b \in Waiting(fs[i]) : b \notin Writes(fr),
         \A b \in Waiting(fr) : b # r.block,
         \A s \in fr.saved : /\ s.blocks = bs /\ s.labels = labs /\ fr.entry = r.block
                             /\ InOrder(bs, r.block, fs, Len(fs)),
         Branches(fr) \/ InOrder(bs, r.block, fs, Len(fs))
  PROVE  Flowing(bs, labs, r, Append(fs, fr))
<1> DEFINE n  == Len(fs)
           gs == Append(fs, fr)
<1>1. /\ n \in Nat /\ Len(gs) = n + 1 /\ gs[n + 1] = fr
      /\ \A i \in 1 .. n : gs[i] = fs[i]
  BY ListLen, ListAppend
<1>2. /\ Flows(bs, labs, r.block, fs, n) /\ \A i \in 1 .. n : FlowsFound(fs, i)
      /\ \A i \in 1 .. n : \A b \in Waiting(fs[i]) : b \notin Writes(fr)
      /\ \A s \in fr.saved : InOrder(bs, r.block, fs, n)
      /\ Branches(fr) \/ InOrder(bs, r.block, fs, n)
  OBVIOUS
<1> HIDE DEF n, gs
<1>3. (n + 1) - 1 = n /\ \A i \in 1 .. n + 1 : i \in 1 .. n \/ i = n + 1
  BY <1>1
<1>4. /\ \A cur : Apart(cur, fs, n) => Apart(cur, gs, n)
      /\ \A cs, cur : InOrder(cs, cur, fs, n) => InOrder(cs, cur, gs, n)
      /\ \A cs, ls, cur : Flows(cs, ls, cur, fs, n) => Flows(cs, ls, cur, gs, n)
  BY <1>1, SameFlows
<1>5. Flows(bs, labs, r.block, gs, n)
  BY <1>2, <1>4
<1>6. Apart(r.block, gs, n + 1)
  <2>1. ASSUME NEW i \in 1 .. n, NEW b \in Waiting(gs[i])
        PROVE  b # r.block /\ \A j \in i + 1 .. n + 1 : b \notin Writes(gs[j])
    <3>1. b # r.block /\ \A j \in i + 1 .. n : b \notin Writes(gs[j])
      BY <1>5 DEF Flows, Apart
    <3>2. b \notin Writes(gs[n + 1])
      BY <1>1, <1>2
    <3>3. \A j \in i + 1 .. n + 1 : j \in i + 1 .. n \/ j = n + 1
      BY <1>1
    <3> QED  BY <3>1, <3>2, <3>3
  <2>2. \A j \in (n + 1) + 1 .. n + 1 : FALSE
    BY <1>1
  <2> QED  BY <1>1, <1>3, <2>1, <2>2 DEF Apart
<1>7. Flows(bs, labs, r.block, gs, n + 1)
  <2>1. \A i \in 1 .. n + 1 : Framed(bs, gs[i])
    BY <1>1, <1>3, <1>5 DEF Flows
  <2> QED  BY <1>5, <1>6, <2>1 DEF Flows
<1>8. \A i \in 1 .. n + 1 : FlowsFound(gs, i)
  <2>1. \A i \in 1 .. n : FlowsFound(gs, i)
    BY <1>1, <1>2, SameFound
  <2>2. FlowsFound(gs, n + 1)
    <3> SUFFICES ASSUME NEW s \in gs[n + 1].saved
                 PROVE  /\ Flows(s.blocks, s.labels, gs[n + 1].entry, gs, (n + 1) - 1)
                        /\ InOrder(s.blocks, gs[n + 1].entry, gs, (n + 1) - 1)
      BY DEF FlowsFound
    <3>1. s.blocks = bs /\ s.labels = labs /\ fr.entry = r.block /\ InOrder(bs, r.block, gs, n)
      BY <1>1, <1>2, <1>4
    <3> QED  BY <1>1, <1>3, <1>5, <3>1
  <2> QED  BY <1>3, <2>1, <2>2
<1>9. InOrder(bs, r.block, gs, n + 1)
  <2>1. CASE Branches(fr)
    <3>1. n + 1 \in 1 .. n + 1
      BY <1>1
    <3> QED  BY <1>1, <2>1, <3>1 DEF InOrder
  <2>2. CASE InOrder(bs, r.block, fs, n)
    <3>1. \A i \in 1 .. n : i \in 1 .. n + 1
      BY <1>1
    <3> QED  BY <1>1, <2>2, <3>1 DEF InOrder
  <2> QED  BY <1>2, <2>1, <2>2
<1>10. Flowing(bs, labs, r, gs)
  BY <1>1, <1>7, <1>8, <1>9 DEF Flowing
<1> QED  BY <1>10 DEF gs

(* The innermost form, and what is known without it.                       *)
LEMMA FlowingPop ==
  ASSUME NEW bs, NEW labs, NEW r, NEW fs, IsList(fs), fs # <<>>, Flowing(bs, labs, r, fs)
  PROVE  /\ Flows(bs, labs, r.block, Pop(fs), Len(fs) - 1)
         /\ \A i \in 1 .. Len(fs) - 1 : FlowsFound(Pop(fs), i)
         /\ Framed(bs, Back(fs))
         /\ \A i \in 1 .. Len(fs) - 1 : \A b \in Waiting(Pop(fs)[i]) :
              b # r.block /\ b \notin Writes(Back(fs))
         /\ \A b \in Waiting(Back(fs)) : b # r.block
         /\ \A s \in Back(fs).saved :
              /\ Flows(s.blocks, s.labels, Back(fs).entry, Pop(fs), Len(fs) - 1)
              /\ InOrder(s.blocks, Back(fs).entry, Pop(fs), Len(fs) - 1)
         /\ r.type # "error" /\ ~Branches(Back(fs)) =>
              InOrder(bs, r.block, Pop(fs), Len(fs) - 1)
<1> DEFINE n  == Len(fs) - 1
           gs == Pop(fs)
           fr == Back(fs)
<1>1. /\ n \in Nat /\ n + 1 = Len(fs) /\ fr = fs[n + 1]
      /\ \A i \in 1 .. n : gs[i] = fs[i]
  <2>1. /\ Len(fs) \in Nat \ {0} /\ Back(fs) = fs[Len(fs)]
        /\ \A k \in 1 .. Len(fs) - 1 : Pop(fs)[k] = fs[k]
    BY ListPop
  <2> QED  BY <2>1
<1>2. /\ Flows(bs, labs, r.block, fs, n + 1) /\ \A i \in 1 .. n + 1 : FlowsFound(fs, i)
      /\ r.type # "error" => InOrder(bs, r.block, fs, n + 1)
  BY <1>1 DEF Flowing
<1> HIDE DEF n, gs, fr
<1>3. /\ n + 1 \in 1 .. n + 1 /\ (n + 1) - 1 = n /\ n \in 0 .. n + 1 /\ n + 1 \in Nat
      /\ \A i \in 1 .. n : i \in 1 .. n + 1 /\ n + 1 \in i + 1 .. n + 1
      /\ \A i \in 1 .. n + 1 : i \in 1 .. n \/ i = n + 1
  BY <1>1
<1>4. /\ \A cs, cur : InOrder(cs, cur, fs, n) => InOrder(cs, cur, gs, n)
      /\ \A cs, ls, cur : Flows(cs, ls, cur, fs, n) => Flows(cs, ls, cur, gs, n)
  BY <1>1, SameFlows
<1>5. Flows(bs, labs, r.block, gs, n)
  BY <1>2, <1>3, <1>4, FlowsOuter
<1>6. \A i \in 1 .. n : FlowsFound(gs, i)
  BY <1>1, <1>2, <1>3, SameFound
<1>7. Framed(bs, fr) /\ \A b \in Waiting(fr) : b # r.block
  BY <1>1, <1>2, <1>3 DEF Flows, Apart
<1>8. ASSUME NEW i \in 1 .. n, NEW b \in Waiting(gs[i])
      PROVE  b # r.block /\ b \notin Writes(fr)
  BY <1>1, <1>2, <1>3 DEF Flows, Apart
<1>9. ASSUME NEW s \in fr.saved
      PROVE  /\ Flows(s.blocks, s.labels, fr.entry, gs, n)
             /\ InOrder(s.blocks, fr.entry, gs, n)
  <2>1. s \in fs[n + 1].saved /\ FlowsFound(fs, n + 1)
    BY <1>1, <1>2, <1>3
  <2>2. /\ Flows(s.blocks, s.labels, fs[n + 1].entry, fs, (n + 1) - 1)
        /\ InOrder(s.blocks, fs[n + 1].entry, fs, (n + 1) - 1)
    BY <2>1 DEF FlowsFound
  <2> QED  BY <1>1, <1>3, <1>4, <2>2
<1>10. ASSUME r.type # "error", ~Branches(fr) PROVE InOrder(bs, r.block, gs, n)
  <2>1. InOrder(bs, r.block, fs, n)
    BY <1>1, <1>2, <1>3, <1>10 DEF InOrder
  <2> QED  BY <1>4, <2>1
<1> QED  BY <1>5, <1>6, <1>7, <1>8, <1>9, <1>10 DEF n, gs, fr

(* Another block becomes the current one, if no open form waits with it.   *)
LEMMA FlowsAt ==
  ASSUME NEW bs, NEW labs, NEW cur, NEW to, NEW fs, NEW n, Flows(bs, labs, cur, fs, n),
         \A i \in 1 .. n : \A b \in Waiting(fs[i]) : b # to
  PROVE  Flows(bs, labs, to, fs, n)
BY DEF Flows, Apart

(* Paths that go on are still in the last block.                           *)
LEMMA InOrderStill ==
  ASSUME NEW bs, NEW new, NEW W, NEW cur, NEW fs, NEW n, IsCode(bs), IsCode(new),
         Longer(new, bs, W), Len(new) = Len(bs), cur \in 1 .. Len(bs),
         InOrder(bs, cur, fs, n)
  PROVE  InOrder(new, cur, fs, n)
<1>1. Len(bs[cur]) \in Nat /\ Len(new[cur]) \in Nat /\ StartsWith(new[cur], bs[cur])
  BY ListLen DEF IsCode, Longer
<1>2. EndsPath(bs[cur]) => EndsPath(new[cur])
  BY <1>1, EndsStill
<1> QED  BY <1>2 DEF InOrder
-----------------------------------------------------------------------------
(***************************************************************************)
(* The actions.                                                            *)
(***************************************************************************)
(* A form that is allowed follows one that goes on.                        *)
LEMMA NotEnded ==
  ASSUME FormAllowed, NoDetour
  PROVE  ~EndsPath(blocks[pr.block]) /\ ~pr.term
BY DEF FormAllowed, NoDetour, Ended

(* Code without branches and gotos is added.                               *)
LEMMA StraightFlows ==
  ASSUME Sound(blocks, pr, forms), Flowing(blocks, labels, pr, forms), pr.type # "error",
         NEW code, IsList(code), blocks' = Emit(blocks, pr.block, code),
         labels' = labels, forms' = forms, pr'.block = pr.block,
         \A j \in 1 .. Len(code) :
           /\ code[j].op # "phi" /\ code[j].to \subseteq 1 .. Len(blocks)
           /\ code[j].op = "goto" => code[j].to = {}
           /\ NoDetour => code[j].to = {},
         NoDetour /\ pr'.type = "int" /\ ~pr'.term =>
           ~EndsPath(blocks[pr.block]) /\ \A j \in 1 .. Len(code) : ~Lands(code[j])
  PROVE  Flowing(blocks', labels', pr', forms')
<1> DEFINE n == Len(forms)
           b == pr.block
           I == {code[j] : j \in 1 .. Len(code)}
<1>1. /\ IsCode(blocks) /\ Len(blocks) \in Nat /\ b \in 1 .. Len(blocks)
      /\ n \in Nat /\ Placed(blocks, b, forms, n)
  BY SoundTypes
<1>2. /\ IsCode(blocks') /\ Len(blocks') = Len(blocks) /\ Longer(blocks', blocks, {b})
  BY <1>1, EmitLonger
<1>3. Within(blocks', blocks, I)
  <2>1. \A j \in 1 .. Len(code) : code[j] \in I
    OBVIOUS
  <2> HIDE DEF I
  <2> QED  BY <1>1, <2>1, EmitWithin
<1>4. Flows(blocks, labels, b, forms, n) /\ InOrder(blocks, b, forms, n)
      /\ \A i \in 1 .. n : FlowsFound(forms, i)
  BY DEF Flowing
<1>5. /\ \A i \in I : i.to \subseteq 1 .. Len(blocks') /\ (i.op = "goto" => i.to = {})
      /\ \A i \in I : i.op # "phi" /\ (NoDetour => i.to = {})
      /\ NoDetour /\ pr'.type = "int" /\ ~pr'.term =>
           ~EndsPath(blocks[b]) /\ \A i \in I : ~Lands(i)
  BY <1>2
<1> HIDE DEF n, b, I
<1>6. ASSUME NEW i \in 1 .. n, NEW w \in Waiting(forms[i])
      PROVE  EndsPath(blocks'[w]) => EndsPath(blocks[w])
  <2>1. w \in 1 .. Len(blocks) /\ w # b
    BY <1>1, <1>4, WaitingIsWritten DEF Placed, Flows, Apart
  <2>2. blocks'[w] = blocks[w]
    BY <1>2, <2>1 DEF Longer
  <2> QED  BY <2>2
<1>7. \A a \in 1 .. Len(blocks') : \A k \in 1 .. Len(blocks'[a]) :
        NewAt(blocks, a, k) => blocks'[a][k].op # "phi"
  BY <1>3, <1>5 DEF Within
<1>8. Flows(blocks', labels, b, forms, n)
  <2>1. NoDetour =>
          /\ \A i \in I : Lands(i) => \A t \in i.to : t > Len(blocks)
          /\ \A a \in 1 .. Len(blocks') : \A k \in 1 .. Len(blocks'[a]) :
               NewAt(blocks, a, k) /\ blocks'[a][k].op = "phi" =>
                 a > Len(blocks) /\ blocks'[a][k].to = From(blocks', a)
          /\ \A i \in 1 .. n : \A w \in Waiting(forms[i]) :
               EndsPath(blocks'[w]) => EndsPath(blocks[w])
    BY <1>5, <1>6, <1>7
  <2> QED  BY SMTT(20), <1>1, <1>2, <1>3, <1>4, <1>5, <2>1, FlowsGrow
<1>9. InOrder(blocks', b, forms, n)
  BY <1>1, <1>2, <1>4, InOrderStill
<1>10. Open(blocks', pr')
  <2> SUFFICES ASSUME NoDetour, pr'.type = "int", ~pr'.term PROVE ~EndsPath(blocks'[b])
    BY DEF Open, b
  <2>1. ~EndsPath(blocks[b]) /\ \A i \in I : ~Lands(i)
    BY <1>5
  <2>2. EndsPath(blocks'[b]) => EndsPath(blocks[b])
    BY <1>1, <1>2, <1>3, <2>1, QuietEnds
  <2> QED  BY <2>1, <2>2
<1> QED  BY <1>4, <1>8, <1>9, <1>10 DEF Flowing, n, b

(* What is needed to know of an instruction.                               *)
LEMMA PlainInstr ==
  /\ \A op, objs : /\ Instr(op, objs, {}).op = op /\ Instr(op, objs, {}).to = {}
  /\ \A b : Br(b).op = "br" /\ Br(b).to = {b}
  /\ Ret.op = "ret" /\ Ret.to = {}
  /\ \A l : Deferred(l).op = "goto" /\ Deferred(l).to = {}
BY DEF Instr, Br, Ret, Deferred

(* Calls have no successors.                                               *)
LEMMA CallsPlain ==
  ASSUME NEW op, NEW objs
  PROVE  \A j \in 1 .. Len(Calls(op, objs)) :
           Calls(op, objs)[j].op = op /\ Calls(op, objs)[j].to = {}
<1>1. CASE objs = {}
  BY <1>1, ShortLists DEF Calls
<1>2. CASE objs # {}
  <2> DEFINE i == Instr(op, objs, {})
  <2>1. Calls(op, objs) = <<i>> /\ i.op = op /\ i.to = {}
    BY <1>2, PlainInstr DEF Calls
  <2> HIDE DEF i
  <2>2. Len(<<i>>) = 1 /\ <<i>>[1] = i
    BY ShortLists
  <2>3. \A j \in 1 .. Len(<<i>>) : j = 1
    BY <2>2
  <2> QED  BY <2>1, <2>2, <2>3
<1> QED  BY <1>1, <1>2

(* The calls a form makes, and then an instruction.                        *)
LEMMA CallsThen ==
  ASSUME NEW op, NEW objs, NEW i
  PROVE  LET code == Calls(op, objs) \o <<i>>
         IN  IsList(code) /\ \A j \in 1 .. Len(code) :
               code[j] = i \/ (code[j].op = op /\ code[j].to = {})
<1> DEFINE c == Calls(op, objs)
<1>1. IsList(c) /\ IsList(<<i>>) /\ Len(<<i>>) = 1 /\ <<i>>[1] = i /\ Len(c) \in Nat
      /\ \A j \in 1 .. Len(c) : c[j].op = op /\ c[j].to = {}
  BY CallsList, ShortLists, CallsPlain, ListLen
<1> HIDE DEF c
<1>2. /\ IsList(c \o <<i>>) /\ Len(c \o <<i>>) = Len(c) + 1
      /\ \A j \in 1 .. Len(c) : (c \o <<i>>)[j] = c[j]
      /\ (c \o <<i>>)[Len(c) + 1] = i
  <2>1. /\ IsList(c \o <<i>>) /\ Len(c \o <<i>>) = Len(c) + Len(<<i>>)
        /\ \A j \in 1 .. Len(c) : (c \o <<i>>)[j] = c[j]
        /\ \A k \in 1 .. Len(<<i>>) : (c \o <<i>>)[Len(c) + k] = <<i>>[k]
    BY <1>1, ListConcat
  <2>2. 1 \in 1 .. Len(<<i>>)
    BY <1>1
  <2> QED  BY <1>1, <2>1, <2>2
<1>3. \A j \in 1 .. Len(c \o <<i>>) : j \in 1 .. Len(c) \/ j = Len(c) + 1
  BY <1>1, <1>2
<1>4. ASSUME NEW j \in 1 .. Len(c \o <<i>>)
      PROVE  (c \o <<i>>)[j] = i \/ ((c \o <<i>>)[j].op = op /\ (c \o <<i>>)[j].to = {})
  BY <1>1, <1>2, <1>3
<1> QED  BY <1>2, <1>4 DEF c

(* A list of one instruction.                                              *)
LEMMA OneList ==
  ASSUME NEW i PROVE IsList(<<i>>) /\ \A j \in 1 .. Len(<<i>>) : <<i>>[j] = i
<1>1. IsList(<<i>>) /\ Len(<<i>>) = 1 /\ <<i>>[1] = i
  BY ShortLists
<1>2. \A j \in 1 .. Len(<<i>>) : j = 1
  BY <1>1
<1> QED  BY <1>1, <1>2

(* Forms whose code goes into the current block.                           *)
LEMMA SimpleFlows ==
  ASSUME Sound(blocks, pr, forms), Flowing(blocks, labels, pr, forms),
         Define \/ Value \/ Return \/ Fail
  PROVE  Flowing(blocks', labels', pr', forms')
<1>1. labels' = labels /\ forms' = forms /\ pr.type # "error"
  BY DEF Define, Value, Return, Fail, Parse
<1>2. CASE Value \/ Fail
  <2>1. /\ blocks' = blocks /\ pr'.block = pr.block
        /\ pr'.type # "error" => FormAllowed
    BY <1>2 DEF Value, Fail, Parse, Result
  <2>2. Open(blocks, pr')
    BY <2>1, NotEnded DEF Open
  <2> QED  BY <1>1, <2>1, <2>2 DEF Flowing
<1>3. CASE Define
  <2> DEFINE i    == InitOf({<<NS(ctx), Len(ctx.vars[NS(ctx)]) + 1>>})
             code == <<i>>
  <2>1. blocks' = Emit(blocks, pr.block, code) /\ pr' = Result(pr.block, "int", FALSE)
        /\ FormAllowed
    BY <1>3 DEF Define, Parse
  <2>2. i.op = "init" /\ i.to = {} /\ ~Lands(i)
    BY PlainInstr DEF InitOf, Lands, IsTerminator
  <2> HIDE DEF i
  <2>3. IsList(code) /\ \A j \in 1 .. Len(code) : code[j] = i
    BY OneList
  <2> HIDE DEF code
  <2>4. pr'.block = pr.block
    BY <2>1 DEF Result
  <2> QED  BY <1>1, <2>1, <2>2, <2>3, <2>4, NotEnded, StraightFlows
<1>4. CASE Return
  <2> DEFINE b    == blocks[pr.block]
             objs == ClosedByReturn(ctx)
             code == Calls("destroy", objs) \o <<Ret>>
  <2>1. /\ blocks' = [blocks EXCEPT ![pr.block] = Append(b \o Calls("destroy", objs), Ret)]
        /\ pr' = Result(pr.block, "void", TRUE)
    BY <1>4 DEF Return, Parse, CloseFunction
  <2>2. IsList(b)
    BY SoundTypes
  <2> HIDE DEF b, objs
  <2>3. \A op, os, i : Append(b \o Calls(op, os), i) = b \o (Calls(op, os) \o <<i>>)
    BY <2>2, AppendCalls
  <2>4. blocks' = [blocks EXCEPT ![pr.block] = b \o code]
    BY <2>1, <2>3
  <2>5. IsList(code) /\ \A j \in 1 .. Len(code) :
          code[j] = Ret \/ (code[j].op = "destroy" /\ code[j].to = {})
    BY CallsThen
  <2> HIDE DEF code
  <2>6. blocks' = Emit(blocks, pr.block, code)
    BY <2>4 DEF Emit, b
  <2>7. pr'.block = pr.block /\ pr'.type = "void"
    BY <2>1 DEF Result
  <2>8. \A j \in 1 .. Len(code) :
          code[j].op # "phi" /\ code[j].op # "goto" /\ code[j].to = {}
    BY <2>5, PlainInstr
  <2> QED  BY <1>1, <2>5, <2>6, <2>7, <2>8, StraightFlows
<1> QED  BY <1>2, <1>3, <1>4

(* goto, to a label that is known or not.                                  *)
LEMMA GotoFlows ==
  ASSUME Sound(blocks, pr, forms), Flowing(blocks, labels, pr, forms),
         NEW l, GotoKnown(l) \/ GotoDeferred(l)
  PROVE  Flowing(blocks', labels', pr', forms')
<1>1. labels' = labels /\ forms' = forms /\ pr.type # "error"
  BY DEF GotoKnown, GotoDeferred, Parse
<1>2. CASE GotoKnown(l)
  <2>1. PICK lab \in LabelNamed(l) :
          /\ blocks' = Emit(blocks, pr.block,
                            Calls("destroy", VarsAfterIndex(ctx, lab.index))
                              \o <<Br(lab.block)>>)
          /\ pr' = Result(pr.block, "int", FALSE)
          /\ "goto_back" \in Uses \/ "goto_in" \in Uses
    BY <1>2 DEF GotoKnown, Parse
  <2> DEFINE objs == VarsAfterIndex(ctx, lab.index)
             code == Calls("destroy", objs) \o <<Br(lab.block)>>
  <2>2. blocks' = Emit(blocks, pr.block, code)
    BY <2>1
  <2> HIDE DEF objs
  <2>3. IsList(code) /\ \A j \in 1 .. Len(code) :
          code[j] = Br(lab.block) \/ (code[j].op = "destroy" /\ code[j].to = {})
    BY CallsThen
  <2> HIDE DEF code
  <2>4. pr'.block = pr.block
    BY <2>1 DEF Result
  <2>5. lab.block \in 1 .. Len(blocks)
    BY DEF Flowing, Flows, Targets, LabelNamed
  <2>6. \A j \in 1 .. Len(code) : /\ code[j].op # "phi" /\ code[j].op # "goto"
                                 /\ code[j].to \subseteq 1 .. Len(blocks)
    BY <2>3, <2>5, PlainInstr
  <2>7. ~NoDetour
    BY <2>1 DEF NoDetour
  <2> QED  BY <1>1, <2>2, <2>3, <2>4, <2>6, <2>7, StraightFlows
<1>3. CASE GotoDeferred(l)
  <2> DEFINE i    == Deferred(l)
             code == <<i>>
  <2>1. blocks' = Emit(blocks, pr.block, code) /\ pr' = Result(pr.block, "int", TRUE)
    BY <1>3 DEF GotoDeferred, Parse
  <2>2. i.op = "goto" /\ i.to = {}
    BY PlainInstr
  <2> HIDE DEF i
  <2>3. IsList(code) /\ \A j \in 1 .. Len(code) : code[j] = i
    BY OneList
  <2> HIDE DEF code
  <2>4. pr'.block = pr.block /\ pr'.term
    BY <2>1 DEF Result
  <2> QED  BY <1>1, <2>1, <2>2, <2>3, <2>4, StraightFlows
<1> QED  BY <1>2, <1>3

(* A label is at a new block.                                              *)
LEMMA LabelFlows ==
  ASSUME Sound(blocks, pr, forms), Flowing(blocks, labels, pr, forms), NEW l, Label(l)
  PROVE  Flowing(blocks', labels', pr', forms')
<1> DEFINE new  == Len(blocks) + 1
           code == IF Terminated(blocks[pr.block]) THEN <<>> ELSE <<Br(new)>>
           mid  == Emit(blocks, pr.block, code)
           n    == Len(forms)
           I    == {Br(new)}
<1>1. /\ blocks' = Append(mid, <<>>) /\ pr' = Result(new, "int", FALSE)
      /\ forms' = forms /\ pr.type # "error"
      /\ \E lab : lab.block = new /\ labels' = labels \cup {lab}
  <2>1. /\ blocks' = Append(mid, <<>>) /\ pr' = Result(new, "int", FALSE)
        /\ forms' = forms /\ pr.type # "error"
    BY DEF Label, Parse
  <2>2. PICK ind : labels' = labels \cup
           {[name |-> l, block |-> new, ns |-> NS(ctx), index |-> ind]}
    BY DEF Label
  <2> QED  BY <2>1, <2>2
<1>2. /\ IsCode(blocks) /\ Len(blocks) \in Nat /\ pr.block \in 1 .. Len(blocks)
      /\ n \in Nat /\ Placed(blocks, pr.block, forms, n)
      /\ \A i \in 1 .. n : FrameOK(blocks, forms[i])
  BY SoundTypes DEF Placed
<1>3. IsList(code) /\ \A j \in 1 .. Len(code) : code[j] \in I
  <2>1. IsList(<<>>) /\ Len(<<>>) = 0
    BY ShortLists
  <2>2. IsList(<<Br(new)>>) /\ \A j \in 1 .. Len(<<Br(new)>>) : <<Br(new)>>[j] = Br(new)
    BY OneList
  <2> QED  BY <2>1, <2>2
<1>4. \A i \in I : i.op = "br" /\ i.to = {new}
  BY PlainInstr
<1> HIDE DEF code, I
<1>5. /\ IsCode(mid) /\ Len(mid) = Len(blocks) /\ Longer(mid, blocks, {pr.block})
      /\ Within(mid, blocks, I)
  BY <1>2, <1>3, EmitLonger, EmitWithin
<1> HIDE DEF mid, n
<1>6. /\ IsCode(blocks') /\ Len(blocks') = new /\ Longer(blocks', mid, {})
      /\ Within(blocks', mid, {}) /\ blocks'[new] = <<>>
  <2>1. IsList(<<>>) /\ Len(<<>>) = 0 /\ \A j \in 1 .. Len(<<>>) : <<>>[j] \in {}
    BY ShortLists
  <2>2. blocks'[Len(mid) + 1] = <<>>
    BY <1>1, <1>5, ListAppend DEF IsCode
  <2> HIDE DEF new
  <2>3. IsCode(Append(mid, <<>>)) /\ Len(Append(mid, <<>>)) = Len(mid) + 1
        /\ Longer(Append(mid, <<>>), mid, {})
    BY <1>5, <2>1, NewBlockLonger
  <2>4. Within(Append(mid, <<>>), mid, {})
    BY <1>5, <2>1, NewBlockWithin
  <2> QED  BY <1>1, <1>5, <2>2, <2>3, <2>4 DEF new
<1>7. Longer(blocks', blocks, {pr.block})
  BY <1>2, <1>5, <1>6, LongerAgain
<1>8. Within(blocks', blocks, I)
  <2>1. Within(blocks', blocks, I \cup {})
    BY <1>5, <1>6, WithinAgain
  <2> QED  BY <2>1
<1>9. Flows(blocks, labels, pr.block, forms, n) /\ \A i \in 1 .. n : FlowsFound(forms, i)
  BY DEF Flowing, n
<1>10. \A a \in 1 .. Len(blocks') : \A k \in 1 .. Len(blocks'[a]) :
         NewAt(blocks, a, k) => blocks'[a][k].op # "phi"
  BY <1>4, <1>8 DEF Within
<1>11. new \in 1 .. Len(blocks') /\ new > Len(blocks)
  BY <1>2, <1>6
<1>12. ASSUME NEW i \in 1 .. n, NEW w \in Waiting(forms[i])
       PROVE  EndsPath(blocks'[w]) => EndsPath(blocks[w])
  <2>1. w \in 1 .. Len(blocks) /\ w # pr.block
    BY <1>2, <1>9, WaitingIsWritten DEF Flows, Apart
  <2>2. blocks'[w] = blocks[w]
    BY <1>7, <2>1 DEF Longer
  <2> QED  BY <2>2
<1>13. \A i \in I : i.to \subseteq 1 .. Len(blocks') /\ i.op # "goto"
                    /\ \A t \in i.to : t > Len(blocks)
  BY <1>4, <1>11
<1> HIDE DEF new
<1>14. Flows(blocks', labels, new, forms, n)
  BY <1>2, <1>6, <1>7, <1>8, <1>9, <1>10, <1>11, <1>12, <1>13, FlowsGrow
<1>15. Len(blocks'[new]) = 0 /\ ~EndsPath(blocks'[new])
  <2>1. Len(blocks'[new]) = 0
    BY <1>6, ShortLists
  <2> QED  BY <2>1 DEF EndsPath
<1>16. Flows(blocks', labels', new, forms, n)
  <2>1. PICK lab : lab.block = new /\ labels' = labels \cup {lab}
    BY <1>1
  <2>2. Targets(blocks', labels')
    BY <1>11, <1>14, <2>1 DEF Flows, Targets
  <2>3. \A k \in 1 .. Len(blocks'[new]) : FALSE
    BY <1>15
  <2>4. NoDetour => Phis(blocks', labels')
    BY <1>14, <2>1, <2>3 DEF Flows, Phis
  <2> QED  BY <1>14, <2>2, <2>4 DEF Flows
<1>17. pr'.block = new
  BY <1>1 DEF Result
<1>18. Open(blocks', pr') /\ InOrder(blocks', new, forms, n)
  BY <1>6, <1>15, <1>17 DEF Open, InOrder
<1> QED  BY <1>1, <1>9, <1>16, <1>17, <1>18 DEF Flowing, n

(* new-scope, if and calls.                                                *)
LEMMA FrameFields ==
  \A kind, entry, cond, then :
    /\ Frame(kind, entry, cond, then).kind = kind
    /\ Frame(kind, entry, cond, then).entry = entry
    /\ Frame(kind, entry, cond, then).cond = cond
    /\ Frame(kind, entry, cond, then).then = then
    /\ \A s \in Frame(kind, entry, cond, then).saved :
         kind = "call" /\ s.blocks = blocks /\ s.labels = labels
BY DEF Frame

(* new-scope, or a call, begins.                                           *)
LEMMA OpenFlows ==
  ASSUME Sound(blocks, pr, forms), Flowing(blocks, labels, pr, forms),
         OpenNewScope \/ BeginCall
  PROVE  Flowing(blocks', labels', pr', forms')
<1>1. /\ blocks' = blocks /\ labels' = labels /\ pr' = Result(pr.block, "void", FALSE)
      /\ pr.type # "error"
      /\ \E kind \in {"scope", "call"} :
           forms' = Append(forms, Frame(kind, pr.block, pr.block, pr))
  BY DEF OpenNewScope, BeginCall, Parse
<1>2. PICK kind \in {"scope", "call"} :
        forms' = Append(forms, Frame(kind, pr.block, pr.block, pr))
  BY <1>1
<1> DEFINE fr == Frame(kind, pr.block, pr.block, pr)
<1>3. /\ fr.kind = kind /\ fr.entry = pr.block /\ fr.cond = pr.block /\ fr.then = pr
      /\ \A s \in fr.saved : s.blocks = blocks /\ s.labels = labels
  BY FrameFields
<1> HIDE DEF fr
<1>4. Writes(fr) = {pr.block} /\ Waiting(fr) = {} /\ ~Branches(fr)
  BY <1>2, <1>3 DEF Writes, Waiting, Branches
<1>5. pr'.block = pr.block /\ pr'.type = "void"
  BY <1>1 DEF Result
<1>6. /\ IsList(forms) /\ Flows(blocks, labels, pr.block, forms, Len(forms))
      /\ InOrder(blocks, pr.block, forms, Len(forms))
      /\ \A i \in 1 .. Len(forms) : FlowsFound(forms, i)
  BY <1>1, SoundTypes DEF Flowing
<1>7. \A i \in 1 .. Len(forms) : \A b \in Waiting(forms[i]) : b \notin Writes(fr)
  BY <1>4, <1>6 DEF Flows, Apart
<1>8. Open(blocks, pr') /\ Framed(blocks, fr)
  BY <1>4, <1>5 DEF Open, Framed, Branches
<1>9. Flowing(blocks, labels, pr', Append(forms, fr))
  BY <1>3, <1>4, <1>5, <1>6, <1>7, <1>8, FlowingPush
<1> QED  BY <1>1, <1>2, <1>9 DEF fr

(* The block of the condition branches to those of the branches.           *)
LEMMA OpenIfFlows ==
  ASSUME Sound(blocks, pr, forms), Flowing(blocks, labels, pr, forms), OpenIf
  PROVE  Flowing(blocks', labels', pr', forms')
<1> DEFINE n    == Len(forms)
           then == Len(blocks) + 1
           cbr  == Instr("cbr", {}, {then, then + 1})
           code == <<cbr>>
           mid  == Emit(blocks, pr.block, code)
           fr   == Frame("then", then, pr.block, pr)
           I    == {cbr}
<1>1. /\ blocks' = mid \o <<<<>>, <<>>>> /\ pr' = Result(then, "void", FALSE)
      /\ pr.type # "error" /\ forms' = Append(forms, fr) /\ labels' = labels
  BY DEF OpenIf, Parse
<1>2. /\ IsCode(blocks) /\ Len(blocks) \in Nat /\ pr.block \in 1 .. Len(blocks)
      /\ n \in Nat /\ Placed(blocks, pr.block, forms, n) /\ IsList(forms)
      /\ \A i \in 1 .. n : FrameOK(blocks, forms[i])
  BY SoundTypes DEF Placed
<1>3. cbr.op = "cbr" /\ cbr.to = {then, then + 1}
  BY DEF Instr
<1> HIDE DEF cbr
<1>4. IsList(code) /\ EndsPath(code) /\ \A j \in 1 .. Len(code) : code[j] \in I
  BY <1>3, OneList, OneInstruction
<1>5. \A i \in I : i.op = "cbr" /\ i.to = {then, then + 1}
  BY <1>3
<1> HIDE DEF code, I
<1>6. /\ IsCode(mid) /\ Len(mid) = Len(blocks) /\ Longer(mid, blocks, {pr.block})
      /\ Within(mid, blocks, I) /\ EndsPath(mid[pr.block])
  BY <1>2, <1>4, EmitLonger, EmitWithin
<1> HIDE DEF mid, n, fr
<1>7. /\ IsCode(blocks') /\ Len(blocks') = then + 1 /\ Longer(blocks', mid, {})
      /\ Within(blocks', mid, {})
  <2>1. /\ Len(blocks') = Len(mid) + 2 /\ IsCode(blocks') /\ Longer(blocks', mid, {})
        /\ Within(blocks', mid, {})
    BY <1>1, <1>6, TwoBlocksLonger, TwoBlocksWithin
  <2> QED  BY <1>2, <1>6, <2>1
<1>8. Longer(blocks', blocks, {pr.block})
  BY <1>2, <1>6, <1>7, LongerAgain
<1>9. Within(blocks', blocks, I)
  <2>1. Within(blocks', blocks, I \cup {})
    BY <1>6, <1>7, WithinAgain
  <2> QED  BY <2>1
<1>10. EndsPath(blocks'[pr.block])
  <2>1. blocks'[pr.block] = mid[pr.block]
    BY <1>2, <1>6, <1>7 DEF Longer
  <2> QED  BY <1>6, <2>1
<1>11. /\ Flows(blocks, labels, pr.block, forms, n)
       /\ \A i \in 1 .. n : FlowsFound(forms, i)
  BY DEF Flowing, n
<1>12. then \in 1 .. Len(blocks') /\ then + 1 \in 1 .. Len(blocks')
       /\ then > Len(blocks) /\ then + 1 > Len(blocks) /\ then # then + 1
  BY <1>2, <1>7
<1>13. ASSUME NEW i \in 1 .. n, NEW w \in Waiting(forms[i])
       PROVE  w \in 1 .. Len(blocks) /\ w # pr.block
  BY <1>2, <1>11, WaitingIsWritten DEF Flows, Apart
<1>14. ASSUME NEW i \in 1 .. n, NEW w \in Waiting(forms[i])
       PROVE  EndsPath(blocks'[w]) => EndsPath(blocks[w])
  BY <1>8, <1>13 DEF Longer
<1>15. \A i \in I : i.to \subseteq 1 .. Len(blocks') /\ i.op # "goto" /\ i.op # "phi"
                    /\ \A t \in i.to : t > Len(blocks)
  BY <1>5, <1>12
<1>16. \A a \in 1 .. Len(blocks') : \A k \in 1 .. Len(blocks'[a]) :
         NewAt(blocks, a, k) => blocks'[a][k].op # "phi"
  BY <1>9, <1>15 DEF Within
<1>17. /\ fr.kind = "then" /\ fr.saved = {} /\ fr.entry = then /\ fr.cond = pr.block
       /\ fr.then = pr
  BY DEF fr, Frame
<1>18. Waiting(fr) = {then + 1} /\ Branches(fr) /\ Writes(fr) = {then, pr.block, then + 1}
  BY <1>17 DEF Waiting, Writes, Branches
<1> HIDE DEF then
<1>19. Flows(blocks', labels, then, forms, n)
  BY <1>2, <1>7, <1>8, <1>9, <1>11, <1>12, <1>14, <1>15, <1>16, FlowsGrow
<1>20. Framed(blocks', fr)
  BY <1>10, <1>17 DEF Framed
<1>21. \A i \in 1 .. n : \A b \in Waiting(forms[i]) : b \notin Writes(fr)
  <2>1. then \notin 1 .. Len(blocks) /\ then + 1 \notin 1 .. Len(blocks)
    BY <1>2 DEF then
  <2> QED  BY <1>13, <1>18, <2>1
<1>22. pr'.block = then /\ pr'.type = "void"
  BY <1>1 DEF Result
<1>23. Open(blocks', pr')
  BY <1>22 DEF Open
<1>24. Flowing(blocks', labels, pr', Append(forms, fr))
  BY <1>2, <1>11, <1>12, <1>17, <1>18, <1>19, <1>20, <1>21, <1>22, <1>23, FlowingPush DEF n
<1> QED  BY <1>1, <1>24

(* The destructors of a form, put where it began, end no path.             *)
LEMMA CloseFlows ==
  ASSUME Sound(blocks, pr, forms), Flowing(blocks, labels, pr, forms), forms # <<>>,
         NEW new, new = CloseScope(blocks, Back(forms).entry)
  PROVE  /\ IsCode(new) /\ Len(new) = Len(blocks)
         /\ Longer(new, blocks, {Back(forms).entry})
         /\ Flows(new, labels, pr.block, Pop(forms), Len(forms) - 1)
         /\ \A b \in 1 .. Len(blocks) : EndsPath(new[b]) <=> EndsPath(blocks[b])
         /\ Framed(new, Back(forms))
<1> DEFINE fr   == Back(forms)
           gs   == Pop(forms)
           n    == Len(forms) - 1
           objs == VarsOf(ctx, {NS(ctx)})
           code == Calls("destroy", objs)
           I    == {code[j] : j \in 1 .. Len(code)}
<1>1. /\ IsCode(blocks) /\ Len(blocks) \in Nat /\ IsList(forms)
      /\ n \in Nat /\ Placed(blocks, pr.block, gs, n) /\ FrameOK(blocks, fr)
      /\ \A i \in 1 .. n : FrameOK(blocks, gs[i])
  BY SoundTypes, Popped DEF Placed
<1>2. Flows(blocks, labels, pr.block, gs, n) /\ Framed(blocks, fr)
  BY <1>1, FlowingPop
<1>3. fr.entry \in 1 .. Len(blocks)
  BY <1>1 DEF FrameOK, Writes
<1>4. new = Emit(blocks, fr.entry, code)
  BY DEF CloseScope
<1> HIDE DEF fr, gs, n, objs
<1>5. IsList(code) /\ \A j \in 1 .. Len(code) : code[j].op = "destroy" /\ code[j].to = {}
  BY CallsList, CallsPlain
<1> HIDE DEF code
<1>6. (\A j \in 1 .. Len(code) : code[j] \in I)
      /\ \A i \in I : i.op = "destroy" /\ i.to = {}
  BY <1>5
<1> HIDE DEF I
<1>7. /\ IsCode(new) /\ Len(new) = Len(blocks) /\ Longer(new, blocks, {fr.entry})
      /\ Within(new, blocks, I)
  <2> DEFINE e == fr.entry
  <2>1. e \in 1 .. Len(blocks) /\ new = Emit(blocks, e, code)
    BY <1>3, <1>4
  <2> HIDE DEF e
  <2>2. /\ IsCode(Emit(blocks, e, code)) /\ Len(Emit(blocks, e, code)) = Len(blocks)
        /\ Longer(Emit(blocks, e, code), blocks, {e})
    BY <1>1, <1>5, <2>1, EmitLonger
  <2>3. Within(Emit(blocks, e, code), blocks, I)
    BY <1>1, <1>5, <1>6, <2>1, EmitWithin
  <2> QED  BY <2>1, <2>2, <2>3 DEF e
<1>8. \A i \in I : ~Lands(i)
  BY <1>6 DEF Lands, IsTerminator
<1>9. ASSUME NEW b \in 1 .. Len(blocks) PROVE EndsPath(new[b]) <=> EndsPath(blocks[b])
  <2>1. EndsPath(new[b]) => EndsPath(blocks[b])
    BY <1>1, <1>7, <1>8, QuietEnds
  <2>2. Len(blocks[b]) \in Nat /\ Len(new[b]) \in Nat /\ StartsWith(new[b], blocks[b])
    BY <1>1, <1>7, ListLen DEF IsCode, Longer
  <2> QED  BY <2>1, <2>2, EndsStill
<1>10. \A a \in 1 .. Len(new) : \A k \in 1 .. Len(new[a]) :
         NewAt(blocks, a, k) => new[a][k].op # "phi"
  BY <1>6, <1>7 DEF Within
<1>11. \A i \in 1 .. n : \A w \in Waiting(gs[i]) : EndsPath(new[w]) => EndsPath(blocks[w])
  BY <1>1, <1>9, WaitingIsWritten
<1>12. Flows(new, labels, pr.block, gs, n)
  <2>1. NoDetour => /\ \A i \in I : Lands(i) => \A t \in i.to : t > Len(blocks)
                    /\ \A b \in 1 .. Len(new) : \A k \in 1 .. Len(new[b]) :
                         NewAt(blocks, b, k) /\ new[b][k].op = "phi" =>
                           b > Len(blocks) /\ new[b][k].to = From(new, b)
                    /\ \A i \in 1 .. n : \A b \in Waiting(gs[i]) :
                         EndsPath(new[b]) => EndsPath(blocks[b])
    BY <1>8, <1>10, <1>11
  <2>2. \A i \in I : i.to \subseteq 1 .. Len(new) /\ (i.op = "goto" => i.to = {})
    BY <1>6
  <2> QED  BY SMTT(20), <1>1, <1>2, <1>7, <2>1, <2>2, FlowsGrow
<1>13. Framed(new, fr)
  <2>1. \A b \in Waiting(fr) : EndsPath(new[b]) => EndsPath(blocks[b])
    BY <1>1, <1>9, WaitingIsWritten
  <2> QED  BY <1>1, <1>2, <1>7, <2>1, FramedStill
<1> QED  BY <1>7, <1>9, <1>12, <1>13 DEF fr, gs, n

(* A form in which a call has failed, or a scope, ends; so does a call.    *)
LEMMA LeaveFlows ==
  ASSUME Sound(blocks, pr, forms), Flowing(blocks, labels, pr, forms),
         CloseNewScope \/ Abandon \/ EndCall
  PROVE  Flowing(blocks', labels', pr', forms')
<1> DEFINE fr == Back(forms)
           gs == Pop(forms)
           n  == Len(forms) - 1
<1>1. forms # <<>>
  <2>1. CASE Abandon
    <3>1. \E i \in 1 .. Len(forms) : forms[i].kind = "call"
      BY <2>1 DEF Abandon, Sound
    <3> QED  BY <3>1, ShortLists
  <2> QED  BY <2>1 DEF CloseNewScope, EndCall, Inner
<1>2. /\ IsCode(blocks) /\ Len(blocks) \in Nat /\ pr.block \in 1 .. Len(blocks)
      /\ n \in Nat /\ Len(gs) = n
  BY <1>1, SoundTypes, Popped
<1>3. /\ Flows(blocks, labels, pr.block, gs, n) /\ \A i \in 1 .. n : FlowsFound(gs, i)
      /\ pr.type # "error" /\ ~Branches(fr) => InOrder(blocks, pr.block, gs, n)
  BY <1>1, SoundTypes, FlowingPop
<1>4. forms' = gs /\ labels' = labels
  BY DEF CloseNewScope, Abandon, EndCall
<1>5. CASE CloseNewScope \/ Abandon
  <2>1. /\ blocks' = CloseScope(blocks, fr.entry) /\ pr' = pr
        /\ pr.type = "error" \/ fr.kind = "scope"
    BY <1>5 DEF CloseNewScope, MayClose, Abandon, Inner
  <2>2. /\ IsCode(blocks') /\ Len(blocks') = Len(blocks)
        /\ Longer(blocks', blocks, {fr.entry}) /\ Flows(blocks', labels, pr.block, gs, n)
        /\ \A b \in 1 .. Len(blocks) : EndsPath(blocks'[b]) <=> EndsPath(blocks[b])
    BY <1>1, <2>1, CloseFlows
  <2>3. pr.type # "error" => ~Branches(fr)
    BY <2>1 DEF Branches
  <2> HIDE DEF fr, gs, n
  <2>4. pr.type # "error" => InOrder(blocks', pr.block, gs, n)
    BY <1>2, <1>3, <2>2, <2>3, InOrderStill
  <2>5. Open(blocks', pr)
    BY <1>2, <2>2 DEF Flowing, Open
  <2> QED  BY <1>2, <1>3, <1>4, <2>1, <2>2, <2>4, <2>5 DEF Flowing
<1>6. CASE EndCall
  <2>1. /\ blocks' = blocks /\ pr' = Result(pr.block, "int", FALSE) /\ fr.kind = "call"
        /\ pr.type # "error" /\ FormAllowed
    BY <1>6 DEF EndCall, Inner
  <2>2. ~Branches(fr)
    BY <2>1 DEF Branches
  <2> HIDE DEF fr, gs, n
  <2>3. pr'.block = pr.block
    BY <2>1 DEF Result
  <2>4. Open(blocks, pr')
    BY <2>1, <2>3, NotEnded DEF Open
  <2> QED  BY <1>2, <1>3, <1>4, <2>1, <2>2, <2>3, <2>4 DEF Flowing
<1> QED  BY <1>5, <1>6

(* The arguments of a macro are undone: what the call found comes back.    *)
LEMMA RestoreFlows ==
  ASSUME Sound(blocks, pr, forms), Flowing(blocks, labels, pr, forms), RestoreCall
  PROVE  Flowing(blocks', labels', pr', forms')
<1> DEFINE fr == Back(forms)
           gs == Pop(forms)
           n  == Len(forms) - 1
<1>1. forms # <<>> /\ forms' = gs /\ pr' = Result(fr.entry, "void", FALSE)
      /\ \E s \in fr.saved : TRUE
  BY DEF RestoreCall, Inner
<1>2. n \in Nat /\ Len(gs) = n
  BY <1>1, Popped
<1>3. /\ \A i \in 1 .. n : FlowsFound(gs, i)
      /\ \A s \in fr.saved :
              /\ Flows(s.blocks, s.labels, fr.entry, gs, n)
              /\ InOrder(s.blocks, fr.entry, gs, n)
  BY <1>1, SoundTypes, FlowingPop
<1>4. \A s \in fr.saved : blocks' = s.blocks /\ labels' = s.labels
  BY RestoreSound
<1> HIDE DEF fr, gs, n
<1>5. Flows(blocks', labels', fr.entry, gs, n) /\ InOrder(blocks', fr.entry, gs, n)
  BY <1>1, <1>3, <1>4
<1>6. pr'.block = fr.entry /\ pr'.type = "void"
  BY <1>1 DEF Result
<1> QED  BY <1>1, <1>2, <1>3, <1>5, <1>6 DEF Flowing, Open

(* The second branch of an if begins; the first one's last block waits.    *)
LEMMA ElseFlows ==
  ASSUME Sound(blocks, pr, forms), Flowing(blocks, labels, pr, forms), ElseBranch
  PROVE  Flowing(blocks', labels', pr', forms')
<1> DEFINE fr  == Back(forms)
           gs  == Pop(forms)
           n   == Len(forms) - 1
           alt == Frame("else", fr.entry + 1, fr.cond, pr)
<1>1. /\ forms # <<>> /\ fr.kind = "then" /\ pr.type # "error" /\ labels' = labels
      /\ blocks' = CloseScope(blocks, fr.entry) /\ forms' = Append(gs, alt)
      /\ pr' = Result(fr.entry + 1, "void", FALSE)
  BY DEF ElseBranch, Inner, MayClose
<1>2. /\ IsCode(blocks) /\ Len(blocks) \in Nat /\ pr.block \in 1 .. Len(blocks)
      /\ n \in Nat /\ Len(gs) = n /\ IsList(gs) /\ FrameOK(blocks, fr)
  BY <1>1, SoundTypes, Popped
<1>3. /\ \A i \in 1 .. n : FlowsFound(gs, i)
      /\ \A i \in 1 .. n : \A b \in Waiting(gs[i]) : b # pr.block /\ b \notin Writes(fr)
      /\ \A b \in Waiting(fr) : b # pr.block
  BY <1>1, SoundTypes, FlowingPop
<1>4. /\ IsCode(blocks') /\ Len(blocks') = Len(blocks)
      /\ Flows(blocks', labels, pr.block, gs, n) /\ Framed(blocks', fr)
      /\ \A b \in 1 .. Len(blocks) : EndsPath(blocks'[b]) <=> EndsPath(blocks[b])
  BY <1>1, CloseFlows
<1>5. /\ alt.kind = "else" /\ alt.saved = {} /\ alt.then = pr /\ alt.entry = fr.entry + 1
      /\ alt.cond = fr.cond
  BY DEF Frame
<1> HIDE DEF fr, gs, n, alt
<1>6. /\ Writes(alt) = {fr.entry + 1, fr.cond, pr.block} /\ Waiting(alt) = {pr.block}
      /\ Branches(alt) /\ Branches(fr)
      /\ Waiting(fr) = {fr.entry + 1} /\ {fr.entry + 1, fr.cond} \subseteq Writes(fr)
  BY <1>1, <1>5 DEF Writes, Waiting, Branches
<1>7. pr'.block = fr.entry + 1 /\ pr'.type = "void"
  BY <1>1 DEF Result
<1>8. Flows(blocks', labels, fr.entry + 1, gs, n)
  BY <1>3, <1>4, <1>6, FlowsAt
<1>9. Framed(blocks', alt)
  <2>1. EndsPath(blocks'[alt.cond])
    BY <1>4, <1>5, <1>6 DEF Framed
  <2>2. NoDetour /\ pr.type = "int" /\ ~pr.term => ~EndsPath(blocks'[pr.block])
    BY <1>2, <1>4 DEF Flowing, Open
  <2> QED  BY <1>5, <2>1, <2>2 DEF Framed
<1>10. \A i \in 1 .. n : \A b \in Waiting(gs[i]) : b \notin Writes(alt)
  BY <1>3, <1>6
<1>11. \A b \in Waiting(alt) : b # fr.entry + 1
  BY <1>3, <1>6
<1>12. Open(blocks', pr')
  BY <1>7 DEF Open
<1>13. Flowing(blocks', labels, pr', Append(gs, alt))
  BY <1>2, <1>3, <1>5, <1>6, <1>7, <1>8, <1>9, <1>10, <1>11, <1>12, FlowingPush
<1> QED  BY <1>1, <1>13

(* The end of an if.                                                       *)
LEMMA JoinBlocks ==
  ASSUME NEW bs, NEW ends, NEW code, IsCode(bs), IsList(code)
  PROVE  /\ Join(bs, ends, code)[Len(bs) + 1] = code
         /\ \A b \in 1 .. Len(bs) :
              /\ b \in ends => Join(bs, ends, code)[b] = Append(bs[b], Br(Len(bs) + 1))
              /\ b \notin ends => Join(bs, ends, code)[b] = bs[b]
<1> DEFINE br  == Br(Len(bs) + 1)
           old == [b \in 1 .. Len(bs) |->
                     IF b \in ends THEN Append(bs[b], br) ELSE bs[b]]
<1>1. Len(bs) \in Nat
  BY ListLen DEF IsCode
<1>2. IsList(old) /\ Len(old) = Len(bs)
  <2>1. old = [b \in 1 .. Len(bs) |-> old[b]]
    OBVIOUS
  <2> HIDE DEF old
  <2> QED  BY <1>1, <2>1, FunctionIsList
<1>3. \A b \in 1 .. Len(bs) : old[b] = IF b \in ends THEN Append(bs[b], br) ELSE bs[b]
  OBVIOUS
<1>4. Join(bs, ends, code) = Append(old, code)
  BY DEF Join
<1> HIDE DEF old
<1>5. /\ Append(old, code)[Len(old) + 1] = code
      /\ \A k \in 1 .. Len(old) : Append(old, code)[k] = old[k]
  BY <1>2, ListAppend
<1> QED  BY <1>2, <1>3, <1>4, <1>5

(* What joinBranches changes.                                              *)
LEMMA JoinWithin ==
  ASSUME NEW bs, NEW ends, NEW code, IsCode(bs), IsList(code),
         NEW I, Br(Len(bs) + 1) \in I, \A j \in 1 .. Len(code) : code[j] \in I
  PROVE  Within(Join(bs, ends, code), bs, I)
<1> DEFINE new == Join(bs, ends, code)
           br  == Br(Len(bs) + 1)
<1>1. Len(bs) \in Nat /\ \A b \in 1 .. Len(bs) : IsList(bs[b]) /\ Len(bs[b]) \in Nat
  BY ListLen DEF IsCode
<1>2. /\ Len(new) = Len(bs) + 1 /\ new[Len(bs) + 1] = code
      /\ \A b \in 1 .. Len(bs) : /\ b \in ends => new[b] = Append(bs[b], br)
                                 /\ b \notin ends => new[b] = bs[b]
  BY JoinLonger, JoinBlocks
<1>3. br \in I
  OBVIOUS
<1> HIDE DEF new, br
<1>4. ASSUME NEW a \in 1 .. Len(new), NEW k \in 1 .. Len(new[a]), NewAt(bs, a, k)
      PROVE  new[a][k] \in I
  <2>1. CASE a = Len(bs) + 1
    BY <1>2, <2>1
  <2>2. CASE a \in 1 .. Len(bs) /\ a \notin ends
    BY <1>1, <1>2, <1>4, <2>2 DEF NewAt
  <2>3. CASE a \in 1 .. Len(bs) /\ a \in ends
    <3> DEFINE x == Append(bs[a], br)
    <3>1. Len(x) = Len(bs[a]) + 1 /\ x[Len(bs[a]) + 1] = br /\ new[a] = x
      BY <1>1, <1>2, <2>3, ListAppend
    <3> HIDE DEF x
    <3>2. k > Len(bs[a])
      BY <1>1, <1>4, <2>3 DEF NewAt
    <3>3. k = Len(bs[a]) + 1
      BY <1>1, <2>3, <3>1, <3>2
    <3> QED  BY <1>3, <3>1, <3>3
  <2> QED  BY <1>1, <1>2, <2>1, <2>2, <2>3
<1> QED  BY <1>4 DEF Within, new

(* Those blocks go to the new one that did not end before, and no others.  *)
LEMMA JoinFrom ==
  ASSUME NEW bs, NEW ends, NEW code, NEW labs, IsCode(bs), IsList(code),
         Targets(bs, labs), ends \subseteq 1 .. Len(bs),
         \A b \in ends : ~EndsPath(bs[b]), \A j \in 1 .. Len(code) : ~Lands(code[j])
  PROVE  From(Join(bs, ends, code), Len(bs) + 1) = ends
<1> DEFINE new == Join(bs, ends, code)
           p   == Len(bs) + 1
           br  == Br(p)
<1>1. Len(bs) \in Nat /\ \A b \in 1 .. Len(bs) : IsList(bs[b]) /\ Len(bs[b]) \in Nat
  BY ListLen DEF IsCode
<1>2. /\ Len(new) = p /\ new[p] = code
      /\ \A b \in 1 .. Len(bs) : /\ b \in ends => new[b] = Append(bs[b], br)
                                 /\ b \notin ends => new[b] = bs[b]
  BY JoinLonger, JoinBlocks
<1>3. br.op = "br" /\ br.to = {p} /\ Lands(br)
  BY PlainInstr DEF Lands, IsTerminator
<1> HIDE DEF new, br
<1>4. ASSUME NEW q \in ends PROVE p \in GoesTo(new[q])
  <2> DEFINE x == Append(bs[q], br)
             m == Len(bs[q]) + 1
  <2>1. q \in 1 .. Len(bs) /\ ~EndsPath(bs[q])
    BY <1>4
  <2>2. /\ Len(x) = m /\ x[m] = br /\ new[q] = x /\ \A k \in 1 .. m - 1 : x[k] = bs[q][k]
    <3>1. /\ Len(x) = Len(bs[q]) + 1 /\ x[Len(bs[q]) + 1] = br
          /\ \A k \in 1 .. Len(bs[q]) : x[k] = bs[q][k]
      BY <1>1, <2>1, ListAppend
    <3>2. m - 1 = Len(bs[q])
      BY <1>1, <2>1
    <3> QED  BY <1>2, <2>1, <3>1, <3>2
  <2>3. m \in Nat /\ m \in 1 .. m /\ m - 1 = Len(bs[q])
    BY <1>1, <2>1
  <2> HIDE DEF x
  <2>4. \A k \in 1 .. Len(bs[q]) : ~Lands(bs[q][k])
    BY <1>1, <2>1, FirstEnd
  <2> HIDE DEF m
  <2>5. IsEnd(x, m) /\ x[m].to = {p}
    BY <1>3, <2>2, <2>3, <2>4 DEF IsEnd
  <2> QED  BY <2>2, <2>3, <2>5 DEF GoesTo
<1>5. ASSUME NEW q \in 1 .. p, q \notin ends PROVE p \notin GoesTo(new[q])
  <2>1. CASE q = p
    BY <1>2, <2>1 DEF GoesTo, IsEnd
  <2>2. CASE q \in 1 .. Len(bs)
    <3>1. new[q] = bs[q] /\ \A k \in 1 .. Len(bs[q]) : bs[q][k].to \subseteq 1 .. Len(bs)
      BY <1>2, <1>5, <2>2 DEF Targets
    <3>2. p \notin 1 .. Len(bs)
      BY <1>1
    <3> QED  BY <3>1, <3>2 DEF GoesTo
  <2> QED  BY <1>1, <2>1, <2>2
<1>6. \A q \in ends : q \in 1 .. p
  BY <1>1
<1> HIDE DEF p
<1>7. From(new, p) = ends
  BY <1>2, <1>4, <1>5, <1>6 DEF From
<1> QED  BY <1>7 DEF new, p

(* The end of an if.                                                       *)
LEMMA EndIfFlows ==
  ASSUME Sound(blocks, pr, forms), Flowing(blocks, labels, pr, forms), EndIf
  PROVE  Flowing(blocks', labels', pr', forms')
<1> DEFINE fr   == Back(forms)
           gs   == Pop(forms)
           n    == Len(forms) - 1
           bs   == CloseScope(blocks, fr.entry)
           both == {fr.then, pr}
           goOn == {r \in both : GoesOn(bs, r)}
           type == IF \A r \in goOn : r.type = "int" THEN "int" ELSE "void"
           ends == {r.block : r \in goOn}
           phi  == IF goOn = both /\ type = "int" THEN <<Instr("phi", {}, ends)>> ELSE <<>>
<1>1. /\ forms # <<>> /\ fr.kind = "else" /\ pr.type # "error" /\ forms' = gs
      /\ labels' = labels
      /\ \/ goOn = {} /\ blocks' = bs /\ pr' = Result(fr.cond, "void", FALSE)
         \/ /\ goOn # {} /\ blocks' = Join(bs, ends, phi)
            /\ pr' = Result(Len(bs) + 1, type, FALSE)
  BY DEF EndIf, Inner, MayClose
<1>2. /\ IsCode(blocks) /\ Len(blocks) \in Nat /\ pr.block \in 1 .. Len(blocks)
      /\ n \in Nat /\ Len(gs) = n /\ IsList(gs) /\ FrameOK(blocks, fr)
      /\ Placed(blocks, pr.block, gs, n)
      /\ \A b \in Writes(fr) : MayWrite(b, gs, n)
  BY <1>1, SoundTypes, Popped
<1>3. /\ \A i \in 1 .. n : FlowsFound(gs, i)
      /\ \A i \in 1 .. n : \A b \in Waiting(gs[i]) : b # pr.block /\ b \notin Writes(fr)
  BY <1>1, SoundTypes, FlowingPop
<1>4. /\ IsCode(bs) /\ Len(bs) = Len(blocks) /\ Longer(bs, blocks, {fr.entry})
      /\ Flows(bs, labels, pr.block, gs, n) /\ Framed(bs, fr)
      /\ \A b \in 1 .. Len(blocks) : EndsPath(bs[b]) <=> EndsPath(blocks[b])
  BY <1>1, CloseFlows
<1>5. /\ goOn \subseteq both /\ ends = {r.block : r \in goOn}
      /\ \A r \in goOn : ~r.term
      /\ type = "int" => \A r \in goOn : r.type = "int"
  BY DEF GoesOn
<1>6. /\ goOn = both /\ type = "int" => phi = <<Instr("phi", {}, ends)>>
      /\ ~(goOn = both /\ type = "int") => phi = <<>>
  OBVIOUS
<1>7. bs = CloseScope(blocks, fr.entry)
  OBVIOUS
<1> HIDE DEF fr, gs, n, bs, goOn, type, ends, phi
<1>8. {fr.entry, fr.cond, fr.then.block} \subseteq Writes(fr) /\ Branches(fr)
  BY <1>1 DEF Writes, Branches
<1>9. fr.cond \in 1 .. Len(blocks) /\ fr.then.block \in 1 .. Len(blocks)
  BY <1>2, <1>8 DEF FrameOK
<1>10. CASE goOn = {} /\ blocks' = bs /\ pr' = Result(fr.cond, "void", FALSE)
  <2>1. pr'.block = fr.cond /\ pr'.type = "void"
    BY <1>10 DEF Result
  <2>2. Flows(bs, labels, fr.cond, gs, n)
    BY <1>3, <1>4, <1>8, FlowsAt
  <2>3. InOrder(bs, fr.cond, gs, n)
    BY <1>4, <1>8 DEF Framed, InOrder
  <2> QED  BY <1>1, <1>2, <1>3, <1>10, <2>1, <2>2, <2>3 DEF Flowing, Open
<1>11. CASE /\ goOn # {} /\ blocks' = Join(bs, ends, phi)
            /\ pr' = Result(Len(bs) + 1, type, FALSE)
  <2> DEFINE new == Len(bs) + 1
             I   == {Br(new)} \cup {phi[j] : j \in 1 .. Len(phi)}
  <2>1. pr'.block = new /\ pr'.type = type
    BY <1>11 DEF Result
  <2>2. \A r \in both : r.block \in 1 .. Len(bs)
    BY <1>2, <1>4, <1>9
  <2>3. ends \subseteq 1 .. Len(bs) /\ ends \subseteq {fr.then.block, pr.block}
    BY <1>5, <2>2
  <2>4. /\ IsList(phi)
        /\ \A j \in 1 .. Len(phi) : /\ phi[j].op = "phi" /\ phi[j].to = ends
                                   /\ ~Lands(phi[j]) /\ goOn = both /\ type = "int"
    <3> DEFINE i == Instr("phi", {}, ends)
    <3>1. i.op = "phi" /\ i.to = ends /\ ~Lands(i)
      BY DEF Instr, Lands, IsTerminator
    <3> HIDE DEF i
    <3>2. CASE goOn = both /\ type = "int"
      <4>1. phi = <<i>>
        BY <1>6, <3>2 DEF i
      <4> QED  BY <3>1, <3>2, <4>1, OneList
    <3>3. CASE ~(goOn = both /\ type = "int")
      BY <1>6, <3>3, ShortLists
    <3> QED  BY <3>2, <3>3
  <2>5. /\ IsCode(blocks') /\ Len(blocks') = new /\ Longer(blocks', bs, ends)
        /\ blocks'[new] = phi
    BY <1>4, <1>11, <2>4, JoinLonger, JoinBlocks
  <2>6. Within(blocks', bs, I)
    <3>1. Br(Len(bs) + 1) \in I /\ \A j \in 1 .. Len(phi) : phi[j] \in I
      OBVIOUS
    <3> HIDE DEF I, new
    <3> QED  BY <1>4, <1>11, <2>4, <3>1, JoinWithin
  \* A block with a PHI node: both branches have a value, and so go on.
  <2>7. ASSUME NoDetour, NEW j \in 1 .. Len(phi) PROVE phi[j].to = From(blocks', new)
    <3>1. goOn = both /\ type = "int" /\ phi[j].to = ends
      BY <2>4, <2>7
    <3>2. pr \in goOn /\ fr.then \in goOn
      BY <3>1
    <3>3. ~EndsPath(bs[pr.block])
      BY <1>2, <1>4, <1>5, <2>7, <3>1, <3>2 DEF Flowing, Open
    <3>4. ~EndsPath(bs[fr.then.block])
      BY <1>1, <1>4, <1>5, <2>7, <3>1, <3>2 DEF Framed
    <3>5. \A b \in ends : ~EndsPath(bs[b])
      BY <2>3, <3>3, <3>4
    <3>6. From(Join(bs, ends, phi), Len(bs) + 1) = ends
      BY <1>4, <2>3, <2>4, <3>5, JoinFrom DEF Flows
    <3> QED  BY <1>11, <3>1, <3>6
  <2>8. \A i \in I : \/ i.op = "br" /\ i.to = {new}
                     \/ i.op = "phi" /\ i.to = ends /\ ~Lands(i)
    BY <2>4, PlainInstr
  <2>9. new \in 1 .. Len(blocks') /\ new > Len(bs) /\ Len(bs) \in Nat
        /\ \A b \in ends : b \in 1 .. Len(blocks')
    BY <1>2, <1>4, <2>3, <2>5
  <2> HIDE DEF I, new
  <2>10. /\ \A i \in I : i.to \subseteq 1 .. Len(blocks') /\ i.op # "goto"
         /\ \A i \in I : Lands(i) => \A t \in i.to : t > Len(bs)
    BY <2>8, <2>9
  <2>11. ASSUME NoDetour, NEW a \in 1 .. Len(blocks'), NEW k \in 1 .. Len(blocks'[a]),
                NewAt(bs, a, k), blocks'[a][k].op = "phi"
         PROVE  a > Len(bs) /\ blocks'[a][k].to = From(blocks', a)
    <3>1. CASE a = new
      <4>1. k \in 1 .. Len(phi) /\ blocks'[a][k] = phi[k]
        BY <2>5, <3>1
      <4> QED  BY <2>7, <2>9, <2>11, <3>1, <4>1
    <3>2. CASE a # new
      <4>1. a \in 1 .. Len(bs)
        BY <2>5, <2>9, <3>2 DEF new
      <4>2. IsList(bs[a]) /\ Len(bs[a]) \in Nat
        BY <1>4, <4>1, ListLen DEF IsCode
      <4>3. k > Len(bs[a])
        BY <2>9, <2>11, <4>1 DEF NewAt
      <4>4. CASE a \in ends
        <5> DEFINE x == Append(bs[a], Br(new))
        <5>1. Len(x) = Len(bs[a]) + 1 /\ x[Len(bs[a]) + 1] = Br(new)
          BY <4>2, ListAppend
        <5>2. blocks'[a] = x
          <6>1. IsCode(bs) /\ IsList(phi)
            BY <1>4, <2>4
          <6>2. \A b \in 1 .. Len(bs) :
                  b \in ends => Join(bs, ends, phi)[b] = Append(bs[b], Br(Len(bs) + 1))
            BY ONLY <6>1, JoinBlocks
          <6> QED  BY <1>11, <4>1, <4>4, <6>2 DEF new
        <5> HIDE DEF x
        <5>3. k = Len(bs[a]) + 1
          BY <4>2, <4>3, <5>1, <5>2
        <5>4. blocks'[a][k].op = "br"
          BY <5>1, <5>2, <5>3, PlainInstr
        <5> QED  BY <2>11, <5>4
      <4>5. CASE a \notin ends
        <5>1. blocks'[a] = bs[a]
          BY <2>5, <4>1, <4>5 DEF Longer
        <5> QED  BY <4>2, <4>3, <5>1
      <4> QED  BY <4>4, <4>5
    <3> QED  BY <3>1, <3>2
  <2>12. Placed(bs, pr.block, gs, n)
    <3>1. MayWrite(fr.entry, gs, n) /\ MayWrite(pr.block, gs, n)
      BY <1>2, <1>8 DEF Placed
    <3>2. pr.block \in 1 .. Len(bs)
      BY <2>2
    <3> QED  BY <1>2, <1>4, <3>1, <3>2, PlacedWrite
  <2>13. ASSUME NEW i \in 1 .. n, NEW w \in Waiting(gs[i])
         PROVE  EndsPath(blocks'[w]) => EndsPath(bs[w])
    <3>1. w \in 1 .. Len(bs)
      BY <2>12, WaitingIsWritten DEF Placed
    <3>2. w \notin ends
      BY <1>3, <1>8, <2>3
    <3> QED  BY <2>5, <3>1, <3>2 DEF Longer
  <2>14. Flows(blocks', labels, new, gs, n)
    BY <1>2, <1>4, <2>5, <2>6, <2>9, <2>10, <2>11, <2>12, <2>13, FlowsGrow
  <2>15. Open(blocks', pr') /\ InOrder(blocks', new, gs, n)
    <3>1. ~EndsPath(blocks'[new])
      BY <2>4, <2>5 DEF EndsPath, Lands
    <3> QED  BY <2>1, <2>5, <3>1 DEF Open, InOrder
  <2> QED  BY <1>1, <1>2, <1>3, <2>1, <2>14, <2>15 DEF Flowing
<1> QED  BY <1>1, <1>10, <1>11
-----------------------------------------------------------------------------
(***************************************************************************)
(* Resolving the deferred gotos.                                           *)
(***************************************************************************)
(* Instruction e is the one the block ends with.                           *)
Ending(b, e) == \E k \in 1 .. Len(b) : IsEnd(b, k) /\ b[k] = e

(* A list with an end in it ends with the first of them.                   *)
LEMMA EndsWith ==
  ASSUME NEW b, IsList(b), EndsPath(b)
  PROVE  \E k \in 1 .. Len(b) : IsEnd(b, k) /\ Ending(b, b[k]) /\ GoesTo(b) = b[k].to
BY FirstEnd DEF Ending

(* What is added to a block comes after its end.                           *)
LEMMA EndingConcat ==
  ASSUME NEW s, NEW t, IsList(s), IsList(t)
  PROVE  /\ \A e : Ending(s, e) => Ending(s \o t, e)
         /\ ~EndsPath(s) => \A e : Ending(t, e) => Ending(s \o t, e)
         /\ ~EndsPath(s) /\ ~EndsPath(t) => ~EndsPath(s \o t)
         /\ \A k \in 1 .. Len(s \o t) :
              \/ \E i \in 1 .. Len(s) : (s \o t)[k] = s[i]
              \/ \E i \in 1 .. Len(t) : (s \o t)[k] = t[i]
<1> DEFINE x == s \o t
<1>1. /\ IsList(x) /\ Len(x) = Len(s) + Len(t) /\ Len(s) \in Nat /\ Len(t) \in Nat
      /\ \A k \in 1 .. Len(s) : x[k] = s[k]
      /\ \A k \in 1 .. Len(t) : x[Len(s) + k] = t[k]
  BY ListConcat, ListLen
<1> HIDE DEF x
<1>2. ASSUME NEW e, Ending(s, e) PROVE Ending(x, e)
  <2>1. PICK k \in 1 .. Len(s) : IsEnd(s, k) /\ s[k] = e
    BY <1>2 DEF Ending
  <2>2. \A j \in 1 .. k : j \in 1 .. Len(x) /\ x[j] = s[j]
    BY <1>1, <2>1
  <2>3. \A j \in 1 .. k - 1 : j \in 1 .. k
    BY <2>1
  <2>4. k \in 1 .. k
    BY <2>1
  <2>5. IsEnd(x, k)
    BY <2>1, <2>2, <2>3, <2>4 DEF IsEnd
  <2> QED  BY <2>1, <2>2, <2>4, <2>5 DEF Ending
<1>3. ASSUME NEW k \in 1 .. Len(x)
      PROVE  (k \in 1 .. Len(s) /\ x[k] = s[k])
             \/ (k - Len(s) \in 1 .. Len(t) /\ x[k] = t[k - Len(s)])
  <2>1. CASE k \in 1 .. Len(s)
    BY <1>1, <2>1
  <2>2. CASE k \notin 1 .. Len(s)
    <3>1. k - Len(s) \in 1 .. Len(t) /\ Len(s) + (k - Len(s)) = k
      BY <1>1, <2>2
    <3> QED  BY <1>1, <3>1
  <2> QED  BY <2>1, <2>2
<1>4. ASSUME ~EndsPath(s), NEW e, Ending(t, e) PROVE Ending(x, e)
  <2>1. PICK k \in 1 .. Len(t) : IsEnd(t, k) /\ t[k] = e
    BY <1>4 DEF Ending
  <2>2. Len(s) + k \in 1 .. Len(x) /\ x[Len(s) + k] = t[k]
    BY <1>1, <2>1
  <2>3. \A i \in 1 .. Len(s) : ~Lands(s[i])
    BY <1>4, FirstEnd
  <2>4. ASSUME NEW j \in 1 .. Len(s) + k - 1 PROVE ~Lands(x[j])
    <3>1. j \in 1 .. Len(x) /\ (j - Len(s) \in 1 .. Len(t) => j - Len(s) \in 1 .. k - 1)
      BY <1>1, <2>1, <2>4
    <3> QED  BY <1>3, <2>1, <2>3, <3>1 DEF IsEnd
  <2>5. IsEnd(x, Len(s) + k)
    BY <2>1, <2>2, <2>4 DEF IsEnd
  <2> QED  BY <2>1, <2>2, <2>5 DEF Ending
<1>5. ASSUME ~EndsPath(s), ~EndsPath(t) PROVE ~EndsPath(x)
  BY <1>3, <1>5 DEF EndsPath
<1>6. \A k \in 1 .. Len(x) : \/ \E i \in 1 .. Len(s) : x[k] = s[i]
                             \/ \E i \in 1 .. Len(t) : x[k] = t[i]
  BY <1>3
<1> QED  BY <1>2, <1>4, <1>5, <1>6 DEF x

(* The function whose last value FlattenSeq gives.                         *)
Joins(ss, k, f) ==
  \A i \in 1 .. k : f[i] = IF i = 1 THEN ss[i] ELSE f[i - 1] \o ss[i]

Flat(ss) ==
  CHOOSE f : f = [i \in 1 .. Len(ss) |-> IF i = 1 THEN ss[i] ELSE f[i - 1] \o ss[i]]

(* The function that FlattenSeq chooses exists.                            *)
LEMMA FlatExists ==
  ASSUME NEW ss, Len(ss) \in Nat
  PROVE  \E f : f = [i \in 1 .. Len(ss) |-> IF i = 1 THEN ss[i] ELSE f[i - 1] \o ss[i]]
<1> DEFINE n == Len(ss)
           T == {k \in 0 .. n : ~\E f : f = [i \in 1 .. k |-> f[i]] /\ Joins(ss, k, f)}
<1>0. n \in Nat
  OBVIOUS
<1>1. T = {}
  <2> SUFFICES ASSUME T # {} PROVE FALSE
    OBVIOUS
  <2> HIDE DEF n
  <2>1. PICK k \in T : \A j \in T : k <= j
    <3>1. T \in SUBSET Nat
      BY <1>0
    <3> HIDE DEF T
    <3> QED  BY <3>1, Smallest
  <2>2. k \in 0 .. n /\ ~\E f : f = [i \in 1 .. k |-> f[i]] /\ Joins(ss, k, f)
    BY <2>1
  <2>3. k # 0
    <3> SUFFICES ASSUME k = 0 PROVE FALSE
      OBVIOUS
    <3> DEFINE g == [i \in 1 .. 0 |-> 0]
    <3>1. g = [i \in 1 .. k |-> g[i]] /\ Joins(ss, k, g)
      BY DEF Joins
    <3> QED  BY <2>2, <3>1
  <2>4. k - 1 \in 0 .. n /\ k - 1 \notin T
    <3>1. k - 1 \in 0 .. n /\ ~(k <= k - 1)
      BY <1>0, <2>2, <2>3
    <3> HIDE DEF T
    <3> QED  BY <2>1, <3>1
  <2>5. PICK g : g = [i \in 1 .. k - 1 |-> g[i]] /\ Joins(ss, k - 1, g)
    BY <2>4
  <2> DEFINE h == [i \in 1 .. k |-> IF i < k THEN g[i]
                                    ELSE IF i = 1 THEN ss[i] ELSE g[i - 1] \o ss[i]]
  <2>6. h = [i \in 1 .. k |-> h[i]]
    OBVIOUS
  <2>7. ASSUME NEW i \in 1 .. k PROVE h[i] = IF i = 1 THEN ss[i] ELSE h[i - 1] \o ss[i]
    <3>1. CASE i < k
      <4>1. i \in 1 .. k - 1 /\ (i # 1 => i - 1 \in 1 .. k /\ i - 1 < k)
        BY <2>2, <3>1
      <4>2. g[i] = IF i = 1 THEN ss[i] ELSE g[i - 1] \o ss[i]
        BY <2>5, <4>1 DEF Joins
      <4>3. h[i] = g[i] /\ (i # 1 => h[i - 1] = g[i - 1])
        BY <3>1, <4>1
      <4> HIDE DEF h
      <4> QED  BY <4>2, <4>3
    <3>2. CASE i = k
      <4>1. i # 1 => i - 1 \in 1 .. k /\ i - 1 < k
        BY <2>2, <3>2
      <4>2. ~(i < k)
        BY <2>2, <3>2
      <4>3. h[i] = (IF i = 1 THEN ss[i] ELSE g[i - 1] \o ss[i])
            /\ (i # 1 => h[i - 1] = g[i - 1])
        BY <4>1, <4>2
      <4> HIDE DEF h
      <4> QED  BY <4>3
    <3> QED  BY <2>2, <3>1, <3>2
  <2> HIDE DEF h
  <2>8. Joins(ss, k, h)
    BY <2>7 DEF Joins
  <2> QED  BY <2>2, <2>6, <2>8
<1>2. PICK f : f = [i \in 1 .. n |-> f[i]] /\ Joins(ss, n, f)
  <2>1. n \in 0 .. n /\ n \notin T
    BY <1>0, <1>1
  <2> QED  BY <2>1
<1>3. [i \in 1 .. n |-> f[i]]
        = [i \in 1 .. n |-> IF i = 1 THEN ss[i] ELSE f[i - 1] \o ss[i]]
  <2> HIDE DEF n
  <2>1. \A i \in 1 .. n : f[i] = IF i = 1 THEN ss[i] ELSE f[i - 1] \o ss[i]
    BY <1>2 DEF Joins
  <2> QED  BY <2>1
<1> QED  BY <1>2, <1>3

(* The recursion of FlattenSeq.                                            *)
LEMMA FlattenEquation ==
  ASSUME NEW ss, IsCode(ss), Len(ss) # 0
  PROVE  /\ FlattenSeq(ss) = Flat(ss)[Len(ss)] /\ Flat(ss)[1] = ss[1]
         /\ \A i \in 1 .. Len(ss) : i # 1 => Flat(ss)[i] = Flat(ss)[i - 1] \o ss[i]
<1> DEFINE f == Flat(ss)
<1>1. Len(ss) \in Nat
  BY ListLen DEF IsCode
<1>2. f = [i \in 1 .. Len(ss) |-> IF i = 1 THEN ss[i] ELSE f[i - 1] \o ss[i]]
  BY <1>1, FlatExists DEF Flat
<1>3. FlattenSeq(ss) = f[Len(ss)]
  BY DEF FlattenSeq, Flat
<1> HIDE DEF f
<1>4. \A i \in 1 .. Len(ss) : f[i] = IF i = 1 THEN ss[i] ELSE f[i - 1] \o ss[i]
  BY <1>2, Zenon
<1>5. 1 \in 1 .. Len(ss)
  BY <1>1
<1> QED  BY <1>3, <1>4, <1>5 DEF f

(* The result ends where the first of the lists that ends does, and holds  *)
(* nothing else than they do.                                              *)
LEMMA FlattenEnds ==
  ASSUME NEW ss, IsCode(ss), NEW m \in 1 .. Len(ss) + 1, NEW e, NEW U,
         \A j \in 1 .. m - 1 : ~EndsPath(ss[j]), m <= Len(ss) => Ending(ss[m], e),
         \A i \in 1 .. Len(ss) : \A j \in 1 .. Len(ss[i]) : ss[i][j] \in U
  PROVE  LET s == FlattenSeq(ss)
         IN  /\ IsList(s) /\ \A k \in 1 .. Len(s) : s[k] \in U
             /\ m <= Len(ss) => Ending(s, e)
             /\ m > Len(ss) => ~EndsPath(s)
<1> DEFINE n == Len(ss)
           f == Flat(ss)
           Good(i) == /\ IsList(f[i]) /\ \A k \in 1 .. Len(f[i]) : f[i][k] \in U
                      /\ m <= i => Ending(f[i], e)
                      /\ m > i => ~EndsPath(f[i])
           T == {i \in 1 .. n : ~Good(i)}
<1>1. n \in Nat /\ m \in 1 .. n + 1
  BY ListLen DEF IsCode
<1>2. CASE n = 0
  <2>1. FlattenSeq(ss) = ss /\ IsList(ss) /\ m > Len(ss)
    BY <1>1, <1>2 DEF FlattenSeq, IsCode
  <2>2. ~EndsPath(ss)
    BY <1>2 DEF EndsPath
  <2> QED  BY <1>1, <1>2, <2>1, <2>2
<1>3. CASE n # 0
  <2>1. FlattenSeq(ss) = f[n] /\ f[1] = ss[1]
        /\ \A i \in 1 .. n : i # 1 => f[i] = f[i - 1] \o ss[i]
    BY <1>3, FlattenEquation
  <2>2. \A i \in 1 .. n : /\ IsList(ss[i]) /\ \A j \in 1 .. Len(ss[i]) : ss[i][j] \in U
                          /\ i < m => ~EndsPath(ss[i])
                          /\ i = m => Ending(ss[i], e)
    <3>1. \A i \in 1 .. n : i < m => i \in 1 .. m - 1
      BY <1>1
    <3> QED  BY <3>1 DEF IsCode
  <2> HIDE DEF f, n
  <2>3. Good(1)
    <3>1. 1 \in 1 .. n /\ (m <= 1 => m = 1) /\ (m > 1 => 1 < m)
      BY <1>1, <1>3
    <3>2. IsList(f[1]) /\ \A k \in 1 .. Len(f[1]) : f[1][k] \in U
      BY <2>1, <2>2, <3>1
    <3> QED  BY <2>1, <2>2, <3>1, <3>2
  <2>4. ASSUME NEW i \in 1 .. n, i # 1, Good(i - 1) PROVE Good(i)
    <3> DEFINE a == f[i - 1]
               c == ss[i]
               x == a \o c
    <3>1. /\ IsList(a) /\ \A k \in 1 .. Len(a) : a[k] \in U
          /\ m <= i - 1 => Ending(a, e)
          /\ m > i - 1 => ~EndsPath(a)
      BY <2>4
    <3>2. /\ IsList(c) /\ \A k \in 1 .. Len(c) : c[k] \in U
          /\ i < m => ~EndsPath(c)
          /\ i = m => Ending(c, e)
      BY <2>2
    <3>3. f[i] = x
      BY <2>1, <2>4
    <3> HIDE DEF a, c
    <3>4. IsList(x)
      BY <3>1, <3>2, ListConcat
    <3>5. \A k \in 1 .. Len(x) : x[k] \in U
      <4>1. \A k \in 1 .. Len(x) : \/ \E j \in 1 .. Len(a) : x[k] = a[j]
                                   \/ \E j \in 1 .. Len(c) : x[k] = c[j]
        BY SMTT(20), <3>1, <3>2, EndingConcat
      <4> QED  BY <3>1, <3>2, <4>1
    <3>6. (m <= i => m <= i - 1 \/ (m > i - 1 /\ i = m)) /\ (m > i => m > i - 1 /\ i < m)
      BY <1>1
    <3>7. ASSUME m <= i PROVE Ending(x, e)
      <4>1. CASE m <= i - 1
        BY <3>1, <3>2, <4>1, EndingConcat
      <4>2. CASE m > i - 1 /\ i = m
        BY <3>1, <3>2, <4>2, EndingConcat
      <4> QED  BY <3>6, <3>7, <4>1, <4>2
    <3>8. ASSUME m > i PROVE ~EndsPath(x)
      BY <3>1, <3>2, <3>6, <3>8, EndingConcat
    <3> HIDE DEF x
    <3> QED  BY <3>3, <3>4, <3>5, <3>7, <3>8
  <2> HIDE DEF Good
  <2>5. T = {}
    <3> SUFFICES ASSUME T # {} PROVE FALSE
      OBVIOUS
    <3>1. PICK i \in T : \A j \in T : i <= j
      <4>1. T \in SUBSET Nat
        BY <1>1
      <4> HIDE DEF T
      <4> QED  BY <4>1, Smallest
    <3>2. i \in 1 .. n /\ ~Good(i)
      BY <3>1
    <3>3. i # 1
      BY <2>3, <3>2
    <3>4. i - 1 \in 1 .. n /\ ~(i <= i - 1)
      BY <1>1, <3>2, <3>3
    <3>5. i - 1 \notin T
      <4> HIDE DEF T
      <4> QED  BY <3>1, <3>4
    <3>6. Good(i - 1)
      BY <3>4, <3>5
    <3> QED  BY <2>4, <3>2, <3>3, <3>6
  <2>6. n \in 1 .. n
    BY <1>1, <1>3
  <2>7. Good(n)
    BY <2>5, <2>6
  <2> QED  BY <2>1, <2>7 DEF Good, n
<1> QED  BY <1>2, <1>3

(* A goto becomes a branch to its label, which there is.                   *)
LEMMA ResolvedEnds ==
  ASSUME NEW i, i.op = "goto" => LabelNamed(i.label) # {}
  PROVE  /\ IsList(Resolved(i))
         /\ ~Lands(i) => ~EndsPath(Resolved(i))
         /\ IsTerminator(i) => Ending(Resolved(i), i)
         /\ i.op = "goto" => \E lab \in labels : Ending(Resolved(i), Br(lab.block))
         /\ \A k \in 1 .. Len(Resolved(i)) :
              \/ Resolved(i)[k] = i /\ i.op # "goto"
              \/ Resolved(i)[k].op \in {"br", "destroy"}
<1>1. CASE i.op # "goto"
  <2>1. Resolved(i) = <<i>>
    BY <1>1 DEF Resolved
  <2>2. IsList(<<i>>) /\ Len(<<i>>) = 1 /\ <<i>>[1] = i
    BY ShortLists
  <2>3. \A k \in 1 .. Len(<<i>>) : k = 1
    BY <2>2
  <2>4. Lands(i) => IsEnd(<<i>>, 1)
    BY <2>2 DEF IsEnd
  <2>5. ~Lands(i) => ~EndsPath(<<i>>)
    BY <2>2, <2>3 DEF EndsPath, Lands
  <2> QED  BY <1>1, <2>1, <2>2, <2>3, <2>4, <2>5 DEF Ending, Lands
<1>2. CASE i.op = "goto"
  <2> DEFINE lab  == CHOOSE r \in labels : r.name = i.label
             objs == VarsOf(ctx, Walked(i, lab))
             br   == Br(lab.block)
             code == Calls("destroy", objs) \o <<br>>
  <2>1. lab \in labels
    BY <1>2 DEF LabelNamed
  <2>2. Resolved(i) = code
    BY <1>2 DEF Resolved
  <2>3. br.op = "br" /\ Lands(br)
    BY PlainInstr DEF Lands, IsTerminator
  <2> HIDE DEF lab, objs, br
  <2>4. IsList(Calls("destroy", objs)) /\ IsList(<<br>>) /\ EndsPath(<<br>>)
    BY <2>3, CallsList, OneInstruction
  <2>5. IsList(code) /\ \A j \in 1 .. Len(code) :
          code[j] = br \/ (code[j].op = "destroy" /\ code[j].to = {})
    BY CallsThen
  <2>6. EndsPath(code)
    BY <2>4, EndsConcat
  <2> HIDE DEF code
  <2>7. PICK k \in 1 .. Len(code) : IsEnd(code, k) /\ Ending(code, code[k])
    BY <2>5, <2>6, EndsWith
  <2>8. code[k] = br
    BY <2>5, <2>7 DEF IsEnd, Lands, IsTerminator
  <2>9. \E la \in labels : Ending(code, Br(la.block))
    BY <2>1, <2>7, <2>8 DEF br
  <2> QED  BY <1>2, <2>2, <2>3, <2>5, <2>9 DEF Lands, IsTerminator
<1> QED  BY <1>1, <1>2

(* A block after its gotos have been resolved, and the one it is made of.  *)
MadeOf(s, b) ==
  /\ \A k \in 1 .. Len(s) : \/ s[k].op \in {"br", "destroy"}
                            \/ /\ s[k].op # "goto"
                               /\ \E j \in 1 .. Len(b) : s[k] = b[j]
  /\ \A k \in 1 .. Len(s) : \E j \in 1 .. Len(b) : \E m \in 1 .. Len(Resolved(b[j])) :
       s[k] = Resolved(b[j])[m]

ResolvedTo(s, b) ==
  /\ IsList(s)
  /\ ~EndsPath(b) => ~EndsPath(s)
  /\ EndsPath(b) => \E e : /\ Ending(s, e)
                           /\ \/ IsTerminator(e) /\ e.to = GoesTo(b)
                              \/ /\ \E k \in 1 .. Len(b) : b[k].op = "goto"
                                                           /\ GoesTo(b) = b[k].to
                                 /\ \E lab \in labels : e = Br(lab.block)
  /\ MadeOf(s, b)

LEMMA ResolvedBlock ==
  ASSUME NEW b, IsList(b),
         \A k \in 1 .. Len(b) : b[k].op = "goto" => LabelNamed(b[k].label) # {}
  PROVE  ResolvedTo(ResolveDeferredGotos(b), b)
<1> DEFINE s  == ResolveDeferredGotos(b)
           ss == [k \in 1 .. Len(b) |-> Resolved(b[k])]
           U  == UNION {{ss[k][j] : j \in 1 .. Len(ss[k])} : k \in 1 .. Len(b)}
<1>1. Len(b) \in Nat
  BY ListLen
<1>2. ASSUME NEW k \in 1 .. Len(b)
      PROVE  /\ IsList(ss[k])
             /\ ~Lands(b[k]) => ~EndsPath(ss[k])
             /\ IsTerminator(b[k]) => Ending(ss[k], b[k])
             /\ b[k].op = "goto" => \E lab \in labels : Ending(ss[k], Br(lab.block))
             /\ \A j \in 1 .. Len(ss[k]) :
                  \/ ss[k][j] = b[k] /\ b[k].op # "goto"
                  \/ ss[k][j].op \in {"br", "destroy"}
  <2> DEFINE i == b[k]
  <2>1. ss[k] = Resolved(i) /\ (i.op = "goto" => LabelNamed(i.label) # {})
    OBVIOUS
  <2> HIDE DEF ss, i
  <2>2. /\ IsList(Resolved(i))
        /\ ~Lands(i) => ~EndsPath(Resolved(i))
        /\ IsTerminator(i) => Ending(Resolved(i), i)
        /\ i.op = "goto" => \E lab \in labels : Ending(Resolved(i), Br(lab.block))
        /\ \A j \in 1 .. Len(Resolved(i)) :
             \/ Resolved(i)[j] = i /\ i.op # "goto"
             \/ Resolved(i)[j].op \in {"br", "destroy"}
    BY <2>1, ResolvedEnds
  <2> QED  BY <2>1, <2>2 DEF i
<1>3. IsList(ss) /\ Len(ss) = Len(b)
  <2>1. ss = [k \in 1 .. Len(b) |-> ss[k]]
    OBVIOUS
  <2> HIDE DEF ss
  <2> QED  BY <1>1, <2>1, FunctionIsList
<1>4. s = FlattenSeq(ss)
  BY DEF ResolveDeferredGotos
<1> HIDE DEF s
<1>5. \A k \in 1 .. Len(ss) : \A j \in 1 .. Len(ss[k]) : ss[k][j] \in U
  <2> HIDE DEF ss
  <2> QED  BY <1>3
<1>6. \A i \in U : \/ i.op \in {"br", "destroy"}
                   \/ i.op # "goto" /\ (\E j \in 1 .. Len(b) : i = b[j])
  <2> HIDE DEF ss
  <2> QED  BY <1>2
<1>7. \A i \in U : \E j \in 1 .. Len(b) : \E m \in 1 .. Len(Resolved(b[j])) :
         i = Resolved(b[j])[m]
  <2>1. \A k \in 1 .. Len(b) : ss[k] = Resolved(b[k])
    OBVIOUS
  <2> HIDE DEF ss
  <2> QED  BY <2>1
<1> HIDE DEF ss, U
<1>8. ASSUME \A k \in 1 .. Len(s) : s[k] \in U PROVE MadeOf(s, b)
  BY <1>6, <1>7, <1>8 DEF MadeOf
<1>9. IsCode(ss)
  BY <1>2, <1>3 DEF IsCode
<1>10. ASSUME EndsPath(b) PROVE ResolvedTo(s, b)
  <2>1. PICK k \in 1 .. Len(b) : IsEnd(b, k) /\ GoesTo(b) = b[k].to
    BY <1>10, FirstEnd
  <2>2. \A j \in 1 .. k - 1 : ~EndsPath(ss[j])
    <3>1. \A j \in 1 .. k - 1 : j \in 1 .. Len(b)
      BY <1>1
    <3> QED  BY <1>2, <2>1, <3>1 DEF IsEnd
  <2>3. PICK e : /\ Ending(ss[k], e)
                 /\ \/ IsTerminator(b[k]) /\ e = b[k]
                    \/ b[k].op = "goto" /\ \E lab \in labels : e = Br(lab.block)
    BY <1>2, <2>1 DEF IsEnd, Lands
  <2>4. k \in 1 .. Len(ss) + 1 /\ k <= Len(ss)
    BY <1>1, <1>3
  <2>5. /\ IsList(FlattenSeq(ss))
        /\ \A j \in 1 .. Len(FlattenSeq(ss)) : FlattenSeq(ss)[j] \in U
        /\ Ending(FlattenSeq(ss), e)
    BY <1>5, <1>9, <2>2, <2>3, <2>4, FlattenEnds
  <2> HIDE DEF U
  <2>6. \E x : /\ Ending(s, x)
                /\ \/ IsTerminator(x) /\ x.to = GoesTo(b)
                   \/ /\ \E j \in 1 .. Len(b) : b[j].op = "goto" /\ GoesTo(b) = b[j].to
                      /\ \E lab \in labels : x = Br(lab.block)
    BY <1>4, <2>1, <2>3, <2>5
  <2>7. MadeOf(s, b)
    BY <1>4, <1>8, <2>5
  <2> QED  BY <1>4, <1>10, <2>5, <2>6, <2>7 DEF ResolvedTo
<1>11. ASSUME ~EndsPath(b) PROVE ResolvedTo(s, b)
  <2> DEFINE m == Len(ss) + 1
  <2>1. m \in 1 .. Len(ss) + 1 /\ ~(m <= Len(ss)) /\ m > Len(ss) /\ m - 1 = Len(b)
    BY <1>1, <1>3
  <2>2. \A j \in 1 .. m - 1 : ~EndsPath(ss[j])
    BY <1>2, <1>11, <2>1, FirstEnd
  <2> HIDE DEF m
  <2>3. /\ IsList(FlattenSeq(ss))
        /\ \A j \in 1 .. Len(FlattenSeq(ss)) : FlattenSeq(ss)[j] \in U
        /\ ~EndsPath(FlattenSeq(ss))
    BY <1>5, <1>9, <2>1, <2>2, FlattenEnds
  <2>4. MadeOf(s, b)
    BY <1>4, <1>8, <2>3
  <2> QED  BY <1>4, <1>11, <2>3, <2>4 DEF ResolvedTo
<1> QED  BY <1>10, <1>11 DEF s
-----------------------------------------------------------------------------
(***************************************************************************)
(* The end of the body.                                                    *)
(***************************************************************************)
(* removePostTerminators leaves what comes before the end, and that.       *)
Cuts(p, s) ==
  \E m \in 1 .. Len(s) : /\ IsEnd(s, m) /\ Len(p) = m
                         /\ \A k \in 1 .. m : p[k] = s[k]
CutTo(p, s, e) ==
  /\ Whole(p) /\ Back(p) = e /\ Cuts(p, s)
  /\ \A k \in 1 .. Len(p) : \E j \in 1 .. Len(s) : p[k] = s[j]

LEMMA CutOff ==
  ASSUME NEW s, IsList(s), NEW e, Ending(s, e), \A k \in 1 .. Len(s) : s[k].op # "goto"
  PROVE  CutTo(CHOOSE q \in RemovePostTerminators(s) : TRUE, s, e)
<1> DEFINE p == CHOOSE q \in RemovePostTerminators(s) : TRUE
<1>1. PICK m \in 1 .. Len(s) : IsEnd(s, m) /\ s[m] = e
  BY DEF Ending
<1>2. \A k \in 1 .. Len(s) : Lands(s[k]) <=> IsTerminator(s[k])
  BY DEF Lands
<1>3. Len(s) \in Nat
  BY ListLen
<1> DEFINE J == {j \in 1 .. Len(s) :
                   IsTerminator(s[j]) /\ \A i \in 1 .. j - 1 : ~IsTerminator(s[i])}
<1>4. RemovePostTerminators(s) = {SubSeq(s, 1, k) : k \in J}
  BY DEF RemovePostTerminators
<1>5. \A j \in J : j = m
  <2> SUFFICES ASSUME NEW j \in J PROVE j = m
    OBVIOUS
  <2>1. IsEnd(s, j)
    <3>1. \A i \in 1 .. j - 1 : i \in 1 .. Len(s)
      BY <1>3
    <3> QED  BY <1>2, <3>1 DEF IsEnd
  <2>2. ~(j < m)
    <3>1. j < m => j \in 1 .. m - 1
      BY <1>3
    <3> QED  BY <1>1, <2>1, <3>1 DEF IsEnd
  <2>3. ~(m < j)
    <3>1. m < j => m \in 1 .. j - 1
      BY <1>1
    <3> QED  BY <1>1, <2>1, <3>1 DEF IsEnd
  <2> QED  BY <1>1, <2>2, <2>3
<1>6. m \in J
  <2>1. \A i \in 1 .. m - 1 : i \in 1 .. Len(s)
    BY <1>1, <1>3
  <2> QED  BY <1>1, <1>2, <2>1 DEF IsEnd
<1> HIDE DEF J
<1>7. p = SubSeq(s, 1, m)
  <2>1. RemovePostTerminators(s) = {SubSeq(s, 1, m)}
    BY <1>4, <1>5, <1>6
  <2> QED  BY <2>1
<1> HIDE DEF p
<1>8. IsList(p) /\ Len(p) = m /\ \A k \in 1 .. m : p[k] = s[k] /\ k \in 1 .. Len(s)
  <2>1. m \in Nat /\ m <= Len(s)
    BY <1>1, <1>3
  <2>2. IsList(SubSeq(s, 1, m)) /\ Len(SubSeq(s, 1, m)) = m
        /\ \A k \in 1 .. m : SubSeq(s, 1, m)[k] = s[k]
    BY <2>1, ListPrefix
  <2>3. \A k \in 1 .. m : k \in 1 .. Len(s)
    BY <1>1, <1>3
  <2> QED  BY <1>7, <2>2, <2>3
<1>9. p # <<>> /\ Back(p) = p[m] /\ m \in 1 .. m
  <2>1. Len(<<>>) = 0
    BY ShortLists
  <2>2. Len(p) # 0 /\ m \in 1 .. m
    <3>1. m # 0 /\ m \in 1 .. m
      BY ONLY <1>3, m \in 1 .. Len(s)
    <3> QED  BY <1>8, <3>1
  <2>3. Back(p) = p[m]
    BY <1>8 DEF Back
  <2> QED  BY <2>1, <2>2, <2>3
<1>10. Back(p) = e /\ IsTerminator(Back(p))
  BY <1>1, <1>2, <1>8, <1>9 DEF IsEnd
<1>11. \A k \in 1 .. Len(p) - 1 : ~Lands(p[k])
  <2>1. \A k \in 1 .. m - 1 : k \in 1 .. m
    BY <1>1
  <2> QED  BY <1>1, <1>8, <2>1 DEF IsEnd
<1>12. Cuts(p, s)
  BY <1>1, <1>8 DEF Cuts
<1>13. \A k \in 1 .. Len(p) : \E j \in 1 .. Len(s) : p[k] = s[j]
  BY <1>8
<1>14. CutTo(p, s, e)
  BY <1>8, <1>9, <1>10, <1>11, <1>12, <1>13 DEF Whole, CutTo
<1> QED  BY <1>14 DEF p

(* What terminateBlocks adds to a block that has not ended.                *)
Tailed(t, s, i) ==
  /\ IsList(t)
  /\ \A e : Ending(s, e) => Ending(t, e)
  /\ ~EndsPath(s) => Ending(t, i)
  /\ \A k \in 1 .. Len(t) : \/ \E j \in 1 .. Len(s) : t[k] = s[j]
                            \/ t[k].op \in {"br", "ret", "destroy"}

LEMMA TailOf ==
  ASSUME NEW s, IsList(s), NEW i, i.op \in {"br", "ret"}
  PROVE  \A objs : Tailed(Append(s \o Calls("destroy", objs), i), s, i)
<1> TAKE objs
<1> DEFINE c == Calls("destroy", objs)
           t == c \o <<i>>
           y == Append(s \o c, i)
<1>2. y = s \o t
  <2>1. \A op, ob, j : Append(s \o Calls(op, ob), j) = s \o (Calls(op, ob) \o <<j>>)
    BY ONLY IsList(s), AppendCalls
  <2> QED  BY <2>1
<1>3. IsList(t) /\ \A j \in 1 .. Len(t) : t[j] = i \/ (t[j].op = "destroy" /\ t[j].to = {})
  BY CallsThen
<1>4. EndsPath(t)
  <2>1. IsList(c) /\ IsList(<<i>>) /\ EndsPath(<<i>>)
    BY CallsList, OneInstruction
  <2> HIDE DEF c
  <2> QED  BY <2>1, EndsConcat
<1> HIDE DEF t, y
<1>5. PICK k \in 1 .. Len(t) : IsEnd(t, k) /\ Ending(t, t[k])
  BY <1>3, <1>4, EndsWith
<1>6. t[k] = i
  BY <1>3, <1>5 DEF IsEnd, Lands, IsTerminator
<1>7. /\ IsList(s \o t) /\ \A e : Ending(s, e) => Ending(s \o t, e)
      /\ ~EndsPath(s) => \A e : Ending(t, e) => Ending(s \o t, e)
      /\ \A j \in 1 .. Len(s \o t) :
           \/ \E m \in 1 .. Len(s) : (s \o t)[j] = s[m]
           \/ \E m \in 1 .. Len(t) : (s \o t)[j] = t[m]
  BY <1>3, ListConcat, EndingConcat
<1>8. ~EndsPath(s) => Ending(y, i)
  BY <1>2, <1>5, <1>6, <1>7
<1>9. \A j \in 1 .. Len(y) : \/ \E m \in 1 .. Len(s) : y[j] = s[m]
                             \/ y[j].op \in {"br", "ret", "destroy"}
  BY SMTT(20), <1>2, <1>3, <1>7
<1> QED  BY <1>2, <1>7, <1>8, <1>9 DEF y, Tailed

(* Without any destructor calls.                                           *)
LEMMA TailOfBranch ==
  ASSUME NEW s, IsList(s), NEW i, i.op \in {"br", "ret"}
  PROVE  Tailed(Append(s, i), s, i)
<1>1. Calls("destroy", {}) = <<>>
  BY DEF Calls
<1>2. s \o <<>> = s
  <2>1. PICK S : s \in Seq(S)
    BY ListsInOneSet
  <2> QED  BY <2>1, ConcatEmptySeq
<1>3. Tailed(Append(s \o Calls("destroy", {}), i), s, i)
  BY TailOf
<1> QED  BY <1>1, <1>2, <1>3

(* When the body has been parsed, every block but the last has ended, and  *)
(* every goto has its label.                                               *)
LEMMA ParsedBody ==
  ASSUME Sound(blocks, pr, forms), Flowing(blocks, labels, pr, forms), forms = <<>>,
         \A g \in Gotos : ~Rejected(g)
  PROVE  /\ IsCode(blocks) /\ Len(blocks) \in Nat
         /\ Targets(blocks, labels) /\ (NoDetour => Phis(blocks, labels))
         /\ \A b \in 1 .. Len(blocks) : EndsPath(blocks[b]) \/ b = Len(blocks)
         /\ \A b \in 1 .. Len(blocks) : \A k \in 1 .. Len(blocks[b]) :
              blocks[b][k].op = "goto" => LabelNamed(blocks[b][k].label) # {}
<1>1. IsCode(blocks) /\ Len(blocks) \in Nat
  BY SoundTypes
<1>2. Len(forms) = 0 /\ \A i : i \notin 1 .. Len(forms)
  <2>1. Len(forms) = 0
    BY ShortLists
  <2> QED  BY <2>1
<1>3. pr.type # "error"
  BY <1>2 DEF Sound
<1>4. Flows(blocks, labels, pr.block, forms, 0) /\ InOrder(blocks, pr.block, forms, 0)
  BY <1>2, <1>3 DEF Flowing
<1>5. EndsPath(blocks[pr.block]) \/ pr.block = Len(blocks)
  BY <1>4 DEF InOrder
<1>6. ASSUME NEW b \in 1 .. Len(blocks) PROVE EndsPath(blocks[b]) \/ b = Len(blocks)
  <2>1. EndsPath(blocks[b]) \/ b = pr.block
    BY <1>2, <1>3 DEF Sound, NoneLost
  <2> QED  BY <1>5, <2>1
<1>7. ASSUME NEW b \in 1 .. Len(blocks), NEW k \in 1 .. Len(blocks[b]),
             blocks[b][k].op = "goto"
      PROVE  LabelNamed(blocks[b][k].label) # {}
  <2>1. blocks[b][k] \in Gotos
    BY <1>7 DEF Gotos
  <2> QED  BY <2>1 DEF Rejected
<1> QED  BY <1>1, <1>4, <1>6, <1>7 DEF Flows

(* A finished block, and the one it was made of.                           *)
Becomes(p, b) ==
  /\ Whole(p)
  /\ \/ Back(p).to = GoesTo(b)
     \/ GoesTo(b) = {} /\ \E lab \in labels : Back(p).to = {lab.block}
  /\ \A k \in 1 .. Len(p) : p[k].op = "phi" => \E j \in 1 .. Len(b) : p[k] = b[j]

(* A goto without a marker and the branch behind it may change places, and *)
(* nothing else does.                                                      *)
Laid(l, b) == l = b \/ (Overtakes(b) /\ l = Overtaken(b))

LEMMA LaidBlock ==
  ASSUME NEW b, IsList(b), NEW l, Laid(l, b)
  PROVE  /\ IsList(l) /\ Len(l) = Len(b)
         /\ \A k \in 1 .. Len(l) : \E j \in 1 .. Len(b) : l[k] = b[j]
         /\ EndsPath(b) <=> EndsPath(l)
         /\ \/ GoesTo(l) = GoesTo(b)
            \/ /\ 1 \in 1 .. Len(b) /\ b[1].op = "goto" /\ GoesTo(b) = b[1].to
               /\ \E lab \in labels : GoesTo(l) = {lab.block}
<1>1. CASE l = b
  BY <1>1
<1>2. CASE Overtakes(b) /\ l = Overtaken(b)
  <2> DEFINE m == [b EXCEPT ![1] = b[2]]
             s == [m EXCEPT ![2] = b[1]]
  <2>1. l = s
    BY <1>2 DEF Overtaken
  <2>2. /\ Len(b) \in Nat /\ 1 \in 1 .. Len(b) /\ 2 \in 1 .. Len(b)
        /\ b[1].op = "goto" /\ \E lab \in labels : b[2] = Br(lab.block)
    BY <1>2, ListLen DEF Overtakes
  <2>3. /\ IsList(m) /\ Len(m) = Len(b) /\ m[1] = b[2]
        /\ \A k \in 1 .. Len(b) : k # 1 => m[k] = b[k]
    BY <2>2, ListReplace
  <2> HIDE DEF m
  <2>4. /\ IsList(s) /\ Len(s) = Len(m) /\ s[2] = b[1]
        /\ \A k \in 1 .. Len(m) : k # 2 => s[k] = m[k]
    BY <2>2, <2>3, ListReplace
  <2> HIDE DEF s
  <2>5. \A k \in 1 .. Len(s) : \E j \in 1 .. Len(b) : s[k] = b[j]
    <3> TAKE k \in 1 .. Len(s)
    <3>1. k = 1 \/ k = 2 \/ s[k] = b[k]
      BY <2>3, <2>4
    <3> QED  BY <2>2, <2>3, <2>4, <3>1
  <2>6. PICK lab \in labels : b[2] = Br(lab.block)
    BY <2>2
  <2>7. s[1] = Br(lab.block) /\ 1 \in 1 .. Len(s)
    BY <2>2, <2>3, <2>4, <2>6
  <2>8. Lands(s[1]) /\ s[1].to = {lab.block} /\ Lands(b[1])
    BY <2>2, <2>7, PlainInstr DEF Lands, IsTerminator
  <2>9. EndsPath(b) /\ EndsPath(s)
    BY <2>2, <2>7, <2>8 DEF EndsPath, Lands
  <2>10. GoesTo(s) = {lab.block} /\ GoesTo(b) = b[1].to
    <3>1. ASSUME NEW c, IsList(c), 1 \in 1 .. Len(c), Lands(c[1]) PROVE GoesTo(c) = c[1].to
      <4>1. Len(c) \in Nat
        BY <3>1, ListLen
      <4>2. \A k \in 1 .. Len(c) : IsEnd(c, k) <=> k = 1
        <5> TAKE k \in 1 .. Len(c)
        <5>1. k # 1 => 1 \in 1 .. k - 1
          BY <4>1
        <5>2. 1 .. 1 - 1 = {}
          OBVIOUS
        <5> QED  BY <3>1, <5>1, <5>2 DEF IsEnd
      <4>3. {j \in 1 .. Len(c) : IsEnd(c, j)} = {1}
        BY <3>1, <4>2
      <4> QED  BY <4>3 DEF GoesTo
    <3> QED  BY <2>2, <2>4, <2>7, <2>8, <3>1
  <2> QED  BY <2>1, <2>2, <2>3, <2>4, <2>5, <2>9, <2>10
<1> QED  BY <1>1, <1>2 DEF Laid

(* Each block after the three passes, if it is l before them.              *)
Closing(b, l) ==
  LET s == ResolveDeferredGotos(l)
  IN  IF Terminated(s) THEN s
      ELSE IF b < Len(blocks) THEN Append(s, Br(b + 1))
      ELSE Append(CloseFunction(s), Ret)

LEMMA FinishedBlocks ==
  ASSUME Sound(blocks, pr, forms), Flowing(blocks, labels, pr, forms), Finish
  PROVE  /\ Len(blocks') = Len(blocks)
         /\ \A b \in 1 .. Len(blocks) : Becomes(blocks'[b], blocks[b])
         /\ \A b \in 1 .. Len(blocks) : \E l :
              /\ Laid(l, blocks[b])
              /\ IsList(Closing(b, l)) /\ Cuts(blocks'[b], Closing(b, l))
<1>0. PICK late \in SUBSET {b \in 1 .. Len(blocks) : Overtakes(blocks[b])} :
        LET laid == [b \in 1 .. Len(blocks) |->
                       IF b \in late THEN Overtaken(blocks[b]) ELSE blocks[b]]
            bs == TerminateBlocks([b \in 1 .. Len(blocks) |-> ResolveDeferredGotos(laid[b])])
        IN  blocks' = [b \in 1 .. Len(bs) |->
                         CHOOSE p \in RemovePostTerminators(bs[b]) : TRUE]
  BY DEF Finish
<1> DEFINE n   == Len(blocks)
           lay == [b \in 1 .. n |-> IF b \in late THEN Overtaken(blocks[b]) ELSE blocks[b]]
           res == [b \in 1 .. n |-> ResolveDeferredGotos(lay[b])]
           bs  == TerminateBlocks(res)
<1>1. /\ forms = <<>> /\ \A g \in Gotos : ~Rejected(g)
      /\ blocks' = [b \in 1 .. Len(bs) |-> CHOOSE p \in RemovePostTerminators(bs[b]) : TRUE]
  BY <1>0 DEF Finish
<1>2. /\ IsCode(blocks) /\ n \in Nat /\ Targets(blocks, labels)
      /\ \A b \in 1 .. n : EndsPath(blocks[b]) \/ b = n
      /\ \A b \in 1 .. n : \A k \in 1 .. Len(blocks[b]) :
           blocks[b][k].op = "goto" => LabelNamed(blocks[b][k].label) # {}
  BY <1>1, ParsedBody
<1>3. \A b \in 1 .. n : /\ IsList(blocks[b]) /\ res[b] = ResolveDeferredGotos(lay[b])
                         /\ Laid(lay[b], blocks[b])
  BY <1>2 DEF IsCode, Laid
<1>4. Len(res) = n
  <2>1. res = [b \in 1 .. n |-> res[b]]
    OBVIOUS
  <2> HIDE DEF res, n
  <2> QED  BY <1>2, <2>1, FunctionIsList
<1> HIDE DEF n, res, lay
<1>5. \A b \in 1 .. n :
        bs[b] = IF Terminated(res[b]) THEN res[b]
                ELSE IF b < n THEN Append(res[b], Br(b + 1))
                ELSE Append(CloseFunction(res[b]), Ret)
  BY <1>4 DEF TerminateBlocks
<1>6. Len(bs) = n
  <2>1. bs = [b \in 1 .. n |-> bs[b]]
    BY <1>4 DEF TerminateBlocks
  <2> HIDE DEF bs
  <2> QED  BY <1>2, <2>1, FunctionIsList
<1> HIDE DEF bs
<1>7. /\ Len(blocks') = n
      /\ \A b \in 1 .. n : blocks'[b] = CHOOSE p \in RemovePostTerminators(bs[b]) : TRUE
  <2>1. blocks' = [b \in 1 .. n |-> CHOOSE p \in RemovePostTerminators(bs[b]) : TRUE]
    BY <1>1, <1>6
  <2>2. \A b \in 1 .. n : blocks'[b] = CHOOSE p \in RemovePostTerminators(bs[b]) : TRUE
    BY <2>1
  <2>3. blocks' = [b \in 1 .. n |-> blocks'[b]]
    BY <2>1
  <2>4. Len(blocks') = n
    BY <1>2, <2>3, FunctionIsList
  <2> QED  BY <2>2, <2>4
<1>8. ASSUME NEW b \in 1 .. n
      PROVE  /\ Becomes(blocks'[b], blocks[b])
             /\ \E l : /\ Laid(l, blocks[b])
                      /\ IsList(Closing(b, l)) /\ Cuts(blocks'[b], Closing(b, l))
  <2> DEFINE old == blocks[b]
             l   == lay[b]
             s   == res[b]
             t   == bs[b]
  <2>0. /\ IsList(l)
        /\ \A k \in 1 .. Len(l) : \E j \in 1 .. Len(old) : l[k] = old[j]
        /\ EndsPath(old) <=> EndsPath(l)
        /\ \/ GoesTo(l) = GoesTo(old)
           \/ /\ 1 \in 1 .. Len(old) /\ old[1].op = "goto" /\ GoesTo(old) = old[1].to
              /\ \E lab \in labels : GoesTo(l) = {lab.block}
    <3>1. IsList(old) /\ Laid(l, old)
      BY <1>3
    <3> HIDE DEF old, l
    <3> QED  BY <3>1, LaidBlock
  <2>1. /\ IsList(s)
        /\ ~EndsPath(l) => ~EndsPath(s)
        /\ EndsPath(l) => \E e : /\ Ending(s, e)
                                 /\ \/ IsTerminator(e) /\ e.to = GoesTo(l)
                                    \/ /\ \E k \in 1 .. Len(l) : l[k].op = "goto"
                                                                 /\ GoesTo(l) = l[k].to
                                       /\ \E lab \in labels : e = Br(lab.block)
        /\ \A k \in 1 .. Len(s) : \/ s[k].op \in {"br", "destroy"}
                                  \/ /\ s[k].op # "goto"
                                     /\ \E j \in 1 .. Len(old) : s[k] = old[j]
    <3>1. s = ResolveDeferredGotos(l)
          /\ \A k \in 1 .. Len(old) : old[k].op = "goto" => LabelNamed(old[k].label) # {}
      BY <1>2, <1>3
    <3> HIDE DEF old, s, l
    <3>2. \A k \in 1 .. Len(l) : l[k].op = "goto" => LabelNamed(l[k].label) # {}
      BY <2>0, <3>1
    <3>3. ResolvedTo(s, l)
      BY ONLY <2>0, <3>1, <3>2, ResolvedBlock
    <3> QED  BY <2>0, <3>3 DEF ResolvedTo, MadeOf
  <2>2. \A k \in 1 .. Len(old) : old[k].op = "goto" => old[k].to = {}
    BY <1>2 DEF Targets, n
  <2>3. GoesTo(old) = {} \/ EndsPath(old)
    BY <1>3, FirstEnd
  <2>4. EndsPath(old) \/ b = n
    BY <1>2
  <2> HIDE DEF old, s, t, l
  \* Only where the last block has not ended does what is added end it.
  <2>6. /\ IsList(t) /\ \A e : Ending(s, e) => Ending(t, e)
        /\ ~EndsPath(s) /\ b = n => Ending(t, Ret)
        /\ \A k \in 1 .. Len(t) : \/ \E j \in 1 .. Len(s) : t[k] = s[j]
                                  \/ t[k].op \in {"br", "ret", "destroy"}
    <3>1. CASE Terminated(s)
      <4>1. t = s /\ EndsPath(s)
        BY <1>5, <2>1, <3>1, TerminatedEnds DEF s, t
      <4> QED  BY <2>1, <4>1
    <3>2. CASE ~Terminated(s) /\ b < n
      <4> DEFINE i == Br(b + 1)
      <4>1. t = Append(s, i)
        BY <1>5, <3>2 DEF s, t
      <4>2. i.op \in {"br", "ret"}
        BY PlainInstr
      <4>3. b # n
        BY <1>2, <3>2
      <4> HIDE DEF i
      <4>4. Tailed(Append(s, i), s, i)
        BY ONLY <2>1, <4>2, TailOfBranch
      <4> QED  BY <4>1, <4>3, <4>4 DEF Tailed
    <3>3. CASE ~Terminated(s) /\ ~(b < n)
      <4> DEFINE i == Ret
      <4>1. t = Append(s \o Calls("destroy", ClosedByReturn(ctx)), i)
        BY <1>5, <3>3 DEF s, t, CloseFunction
      <4>2. IsList(s) /\ i.op \in {"br", "ret"}
        BY <2>1, PlainInstr
      <4> HIDE DEF i
      <4>3. \A objs : Tailed(Append(s \o Calls("destroy", objs), i), s, i)
        BY ONLY <4>2, TailOf
      <4> QED  BY <4>1, <4>3 DEF Tailed, i
    <3> QED  BY <3>1, <3>2, <3>3
  <2>7. PICK e : /\ Ending(t, e) /\ IsTerminator(e)
                 /\ \/ e.to = GoesTo(old)
                    \/ GoesTo(old) = {} /\ \E lab \in labels : e.to = {lab.block}
    <3>1. CASE EndsPath(old)
      <4>1. PICK e : /\ Ending(s, e)
                     /\ \/ IsTerminator(e) /\ e.to = GoesTo(l)
                        \/ /\ \E k \in 1 .. Len(l) : l[k].op = "goto"
                                                     /\ GoesTo(l) = l[k].to
                           /\ \E lab \in labels : e = Br(lab.block)
        BY <2>0, <2>1, <3>1
      <4>2. CASE IsTerminator(e) /\ e.to = GoesTo(l)
        <5>1. CASE GoesTo(l) = GoesTo(old)
          BY <2>6, <4>1, <4>2, <5>1
        <5>2. CASE GoesTo(l) # GoesTo(old)
          <6>1. GoesTo(old) = {} /\ \E lab \in labels : e.to = {lab.block}
            BY <2>0, <2>2, <4>2, <5>2
          <6> QED  BY <2>6, <4>1, <4>2, <6>1
        <5> QED  BY <5>1, <5>2
      <4>3. CASE /\ \E k \in 1 .. Len(l) : l[k].op = "goto" /\ GoesTo(l) = l[k].to
                 /\ \E lab \in labels : e = Br(lab.block)
        <5>1. GoesTo(old) = {}
          <6>1. GoesTo(l) = {}
            BY <2>0, <2>2, <4>3
          <6> QED  BY <2>0, <2>2, <6>1
        <5>2. PICK lab \in labels : e = Br(lab.block)
          BY <4>3
        <5>3. IsTerminator(e) /\ e.to = {lab.block}
          BY <5>2, PlainInstr DEF IsTerminator
        <5> QED  BY <2>6, <4>1, <5>1, <5>3
      <4> QED  BY <4>1, <4>2, <4>3
    <3>2. CASE ~EndsPath(old)
      <4>1. Ending(t, Ret) /\ IsTerminator(Ret) /\ Ret.to = GoesTo(old)
        BY <2>0, <2>1, <2>3, <2>4, <2>6, <3>2, PlainInstr DEF IsTerminator
      <4> QED  BY <4>1
    <3> QED  BY <3>1, <3>2
  <2>8. \A k \in 1 .. Len(t) :
          t[k].op # "goto" /\ (t[k].op = "phi" => \E j \in 1 .. Len(old) : t[k] = old[j])
    BY <2>1, <2>6
  <2> DEFINE p == blocks'[b]
  <2>9. p = CHOOSE q \in RemovePostTerminators(t) : TRUE
    BY <1>7 DEF t
  <2> HIDE DEF p
  <2>10. /\ Whole(p) /\ Back(p) = e /\ Cuts(p, t)
         /\ \A k \in 1 .. Len(p) : \E j \in 1 .. Len(t) : p[k] = t[j]
    <3>1. IsList(t) /\ Ending(t, e) /\ \A k \in 1 .. Len(t) : t[k].op # "goto"
      BY <2>6, <2>7, <2>8
    <3>2. CutTo(CHOOSE q \in RemovePostTerminators(t) : TRUE, t, e)
      BY ONLY <3>1, CutOff
    <3> QED  BY <2>9, <3>2 DEF CutTo
  <2>11. \A k \in 1 .. Len(p) : p[k].op = "phi" => \E j \in 1 .. Len(old) : p[k] = old[j]
    BY SMTT(20), <2>8, <2>10
  <2>12. Becomes(p, old)
    BY <2>7, <2>10, <2>11 DEF Becomes
  <2>13. t = Closing(b, l)
    BY <1>3, <1>5 DEF t, n, l, Closing
  <2>14. Laid(l, old)
    BY <1>3 DEF old, l
  <2>15. IsList(Closing(b, l)) /\ Cuts(p, Closing(b, l))
    BY <2>6, <2>10, <2>13
  <2> QED  BY <2>12, <2>14, <2>15 DEF p, old
<1> QED  BY <1>7, <1>8 DEF n

(* The function is finished.                                               *)
LEMMA FinishFlows ==
  ASSUME Sound(blocks, pr, forms), Flowing(blocks, labels, pr, forms), Finish
  PROVE  WholeCode' /\ (NoDetour => PhiNodes')
<1> DEFINE n == Len(blocks)
<1>1. /\ Targets(blocks, labels) /\ (NoDetour => Phis(blocks, labels))
      /\ \A b \in 1 .. n : IsList(blocks[b])
  BY ParsedBody DEF Finish, IsCode
<1>2. Len(blocks') = n /\ \A b \in 1 .. n : Becomes(blocks'[b], blocks[b])
  BY FinishedBlocks
<1>3. ASSUME NEW b \in 1 .. n PROVE GoesTo(blocks[b]) \subseteq 1 .. n
  BY <1>1 DEF GoesTo, Targets
<1>4. \A b \in 1 .. n : Back(blocks'[b]).to \subseteq 1 .. n
  <2> TAKE b \in 1 .. n
  <2>1. CASE Back(blocks'[b]).to = GoesTo(blocks[b])
    BY <1>3, <2>1
  <2>2. CASE \E lab \in labels : Back(blocks'[b]).to = {lab.block}
    BY <1>1, <2>2 DEF Targets
  <2> QED  BY <1>2, <2>1, <2>2 DEF Becomes
<1>5. WholeCode'
  BY <1>2, <1>4 DEF WholeCode, Blocks, Becomes
<1>6. ASSUME NoDetour, NEW b \in 1 .. n, NEW k \in 1 .. Len(blocks'[b]),
             blocks'[b][k].op = "phi"
      PROVE  blocks'[b][k].to = {q \in 1 .. n : b \in Back(blocks'[q]).to}
  <2>1. PICK j \in 1 .. Len(blocks[b]) : blocks'[b][k] = blocks[b][j]
    BY <1>2, <1>6 DEF Becomes
  <2>2. blocks'[b][k].to = From(blocks, b)
    BY <1>1, <1>6, <2>1 DEF Phis
  <2>3. \A lab \in labels : lab.block # b
    BY <1>1, <1>6, <2>1 DEF Phis
  <2>4. ASSUME NEW q \in 1 .. n PROVE b \in Back(blocks'[q]).to <=> b \in GoesTo(blocks[q])
    BY <1>2, <2>3 DEF Becomes
  <2> QED  BY <2>2, <2>4 DEF From
<1>7. NoDetour => PhiNodes'
  BY <1>2, <1>6 DEF PhiNodes, Predecessors, Blocks
<1> QED  BY <1>5, <1>7
-----------------------------------------------------------------------------
(***************************************************************************)
(* The machine.                                                            *)
(***************************************************************************)
LEMMA InitFlows == ASSUME Init PROVE FlowInv
<1>1. /\ forms = <<>> /\ labels = {} /\ pr = Result(1, "void", FALSE)
      /\ run = [phase |-> "parse", block |-> 1, at |-> 1, values |-> NoValues]
      /\ \E objs : blocks = <<Calls("init", objs)>>
  BY SMTT(20), ZenonT(30) DEF Init
<1>2. PICK objs : blocks = <<Calls("init", objs)>>
  BY <1>1
<1> DEFINE code == Calls("init", objs)
<1>3. /\ IsList(code) /\ Len(<<code>>) = 1 /\ <<code>>[1] = code
      /\ \A k \in 1 .. Len(code) : code[k].op = "init" /\ code[k].to = {}
  BY CallsList, CallsPlain, ShortLists
<1>4. blocks = <<code>>
  BY <1>2
<1> HIDE DEF code
<1>5. Len(blocks) = 1 /\ blocks[1] = code /\ \A b \in 1 .. Len(blocks) : b = 1
  BY <1>3, <1>4
<1>6. pr.block = 1 /\ pr.type = "void"
  BY <1>1 DEF Result
<1>7. Len(forms) = 0 /\ \A i : i \notin 1 .. Len(forms)
  <2>1. Len(forms) = 0
    BY <1>1, ShortLists
  <2> QED  BY <2>1
<1>8. Targets(blocks, labels) /\ Phis(blocks, labels)
  BY <1>1, <1>3, <1>5 DEF Targets, Phis
<1>9. Apart(pr.block, forms, Len(forms)) /\ InOrder(blocks, pr.block, forms, Len(forms))
  BY <1>5, <1>6, <1>7 DEF Apart, InOrder
<1>10. Flowing(blocks, labels, pr, forms)
  BY <1>6, <1>7, <1>8, <1>9 DEF Flowing, Flows, Open
<1>11. run.phase = "parse"
  BY <1>1
<1> QED  BY <1>10, <1>11 DEF FlowInv

(* What each step of the machine does with the paths through the code.     *)
LEMMA NextFlows == ASSUME IInv, FlowInv, [Next]_vars PROVE FlowInv'
<1> DEFINE Goal == Flowing(blocks', labels', pr', forms')
           Done == WholeCode' /\ (NoDetour => PhiNodes')
<1> SUFFICES (Parsing' => Goal) /\ (run'.phase \in {"run", "returned"} => Done)
  BY DEF FlowInv
<1>1. CASE UNCHANGED vars
  <2>1. UNCHANGED <<blocks, labels, pr, forms, run>>
    BY <1>1 DEF vars
  <2>2. Parsing' => Goal
    BY <2>1 DEF FlowInv, Parsing
  <2>3. run'.phase \in {"run", "returned"} => Done
    BY <2>1 DEF FlowInv, WholeCode, PhiNodes, Blocks, Predecessors
  <2> QED  BY <2>2, <2>3
<1>2. CASE Step
  <2>1. run.phase = "run" /\ run'.phase \in {"run", "returned"} /\ UNCHANGED blocks
    BY <1>2 DEF Step, StepCall, StepBranch, StepReturn, Running, IInv
  <2>2. Done
    BY <2>1 DEF FlowInv, WholeCode, PhiNodes, Blocks, Predecessors
  <2> QED  BY <2>1, <2>2 DEF Parsing
<1>3. CASE Reject
  <2>1. run'.phase = "rejected"
    BY <1>3 DEF Reject, IInv
  <2> QED  BY <2>1 DEF Parsing
<1>4. CASE Finish
  <2>1. Sound(blocks, pr, forms) /\ Flowing(blocks, labels, pr, forms)
    BY <1>4 DEF Finish, IInv, FlowInv
  <2>2. Done
    BY <1>4, <2>1, FinishFlows
  <2>3. run'.phase = "run"
    BY <1>4 DEF Finish, IInv
  <2> QED  BY <2>2, <2>3 DEF Parsing
<1>5. CASE Next /\ ~Step /\ ~Finish /\ ~Reject
  <2>1. Parsing /\ UNCHANGED run
    BY <1>5 DEF Next, Define, Value, Return, Label, GotoKnown, GotoDeferred, OpenNewScope,
                CloseNewScope, OpenIf, ElseBranch, EndIf, BeginCall, Fail, Abandon,
                EndCall, RestoreCall, Parse
  <2>2. Sound(blocks, pr, forms) /\ Flowing(blocks, labels, pr, forms)
    BY <2>1 DEF IInv, FlowInv
  <2>3. Goal
    <3> HIDE DEF Goal
    <3>1. ASSUME Define \/ Value \/ Return \/ Fail PROVE Goal
      BY <2>2, <3>1, SimpleFlows DEF Goal
    <3>2. ASSUME NEW l, Label(l) \/ GotoKnown(l) \/ GotoDeferred(l) PROVE Goal
      BY <2>2, <3>2, LabelFlows, GotoFlows DEF Goal
    <3>3. ASSUME OpenNewScope \/ BeginCall \/ OpenIf PROVE Goal
      BY <2>2, <3>3, OpenFlows, OpenIfFlows DEF Goal
    <3>4. ASSUME CloseNewScope \/ Abandon \/ EndCall PROVE Goal
      BY <2>2, <3>4, LeaveFlows DEF Goal
    <3>5. ASSUME ElseBranch \/ EndIf \/ RestoreCall PROVE Goal
      BY <2>2, <3>5, ElseFlows, EndIfFlows, RestoreFlows DEF Goal
    <3> QED  BY <1>5, <3>1, <3>2, <3>3, <3>4, <3>5 DEF Next
  <2> QED  BY <2>1, <2>3 DEF Parsing
<1> QED  BY <1>1, <1>2, <1>3, <1>4, <1>5

(* The invariant of the finished code.                                     *)
LEMMA FlowInvariant == Spec => []FlowInv
<1>1. Init => FlowInv
  BY InitFlows
<1>2. IInv /\ FlowInv /\ [Next]_vars => FlowInv'
  BY NextFlows
<1> QED  BY <1>1, <1>2, CodeInvariant, PTL DEF Spec

(* Finished code is whole: every block ends with its only terminator (no   *)
(* deferred goto is left), which goes to blocks of the function, whatever  *)
(* forms the body has.                                                     *)
THEOREM CodeIsWhole == Spec => [](run.phase \in {"run", "returned"} => WholeCode)
<1>1. FlowInv => (run.phase \in {"run", "returned"} => WholeCode)
  BY DEF FlowInv
<1> QED  BY <1>1, FlowInvariant, PTL

(* The PHI nodes of the finished function have a value for each block that *)
(* goes to theirs, and for no other; where no form is unreachable and no   *)
(* goto goes back.                                                         *)
THEOREM PhisMatch == ASSUME NoDetour PROVE Spec => []PhiMatches
<1>1. FlowInv => PhiMatches
  BY DEF FlowInv, PhiMatches, WholeCode, PhiNodes
<1> QED  BY <1>1, FlowInvariant, PTL
-----------------------------------------------------------------------------
(***************************************************************************)
(* Types.  A name is declared once in a namespace, so that a namespace has *)
(* no more variables than there are names.                                 *)
(***************************************************************************)
NamesDiffer(vs) ==
  \A j, k \in 1 .. Len(vs) : vs[j].name = vs[k].name => j = k

(* What the types of the function rest on in the context.                  *)
Orderly(c) ==
  /\ WF(c) /\ Tree(c) /\ c.used = c.active
  /\ \A n \in Nodes : NamesDiffer(c.vars[n])

LEMMA NoMoreThanNames ==
  ASSUME NEW vs \in Seq(Variable), NamesDiffer(vs)
  PROVE  Len(vs) \in Nat /\ Len(vs) <= Cardinality(VarNames)
<1> DEFINE S == 1 .. Len(vs)
           f == [k \in S |-> vs[k].name]
<1>1. Len(vs) \in Nat /\ \A k \in S : vs[k] \in Variable
  BY LenProperties, ElementOfSeq
<1>2. f \in [S -> VarNames]
  BY <1>1 DEF Variable
<1>3. f \in Injection(S, VarNames)
  BY <1>2 DEF Injection, IsInjective, NamesDiffer
<1>4. Cardinality(S) <= Cardinality(VarNames)
  <2> HIDE DEF f, S
  <2> QED  BY <1>3, VarNamesAssumption, FS_Injection
<1>5. Cardinality(S) = Len(vs)
  <2>1. Cardinality(1 .. Len(vs)) = IF 1 > Len(vs) THEN 0 ELSE Len(vs) - 1 + 1
    BY <1>1, FS_Interval
  <2> QED  BY <1>1, <2>1
<1> QED  BY <1>1, <1>4, <1>5

(* Everything a context can be asked to destruct is one of the objects.    *)
LEMMA ObjectsOf ==
  ASSUME NEW c, Orderly(c)
  PROVE  /\ \A N \in SUBSET Nodes : VarsOf(c, N) \subseteq Objects
         /\ \A n \in Nodes : Chain(c, n) \subseteq Nodes
         /\ \A i : VarsAfterIndex(c, i) \subseteq Objects
         /\ ClosedByReturn(c) \subseteq Objects
<1>1. c.vars \in [Nodes -> Seq(Variable)] /\ NS(c) \in Nodes
  BY Parts DEF Orderly
<1>2. ASSUME NEW n \in Nodes PROVE {n} \X (1 .. Len(c.vars[n])) \subseteq Objects
  <2>1. Len(c.vars[n]) \in Nat /\ Len(c.vars[n]) <= Cardinality(VarNames)
    BY <1>1, NoMoreThanNames DEF Orderly
  <2>2. Cardinality(VarNames) \in Nat
    BY VarNamesAssumption, FS_CardinalityType
  <2>3. 1 .. Len(c.vars[n]) \subseteq 1 .. Cardinality(VarNames)
    BY <2>1, <2>2
  <2> QED  BY <2>3 DEF Objects
<1>3. \A N \in SUBSET Nodes : VarsOf(c, N) \subseteq Objects
  BY <1>2 DEF VarsOf
<1>4. \A n \in Nodes : Chain(c, n) \subseteq Nodes
  BY ChainEquation DEF Orderly, Tree
<1>5. \A i : VarsAfterIndex(c, i) \subseteq Objects
  BY <1>1, <1>3, <1>4 DEF VarsAfterIndex
<1> QED  BY <1>3, <1>4, <1>5 DEF ClosedByReturn

(* Namespace::addVariable declares a name once.                            *)
LEMMA AddVariableOrderly ==
  ASSUME NEW c, Orderly(c), NEW nm \in VarNames
  PROVE  Orderly(AddVariable(c, nm)) /\ VarsReach(c, AddVariable(c, nm))
<1> DEFINE n == NS(c)
           d == AddVariable(c, nm)
           v == [name |-> nm, fn |-> CurrentFn(c), index |-> c.lv[n] + 1]
<1>1. WF(c) /\ Tree(c) /\ c.used = c.active /\ \A m \in Nodes : NamesDiffer(c.vars[m])
  BY DEF Orderly
<1>2. SameStacks(c, d) /\ Adds(c, d)
  BY <1>1, AddVariableKeeps, AddVariableAdds
<1>3. c \in ContextType /\ n \in Nodes /\ c.vars \in [Nodes -> Seq(Variable)]
  BY <1>1, Parts
<1>4. CASE nm \in NamesOf(c.vars[n])
  BY <1>1, <1>2, <1>4 DEF AddVariable, Orderly, SameStacks, Grows
<1>5. CASE nm \notin NamesOf(c.vars[n])
  <2> DEFINE s == c.vars[n]
  <2>1. d.vars = [c.vars EXCEPT ![n] = Append(s, v)]
    BY <1>3, <1>5 DEF AddVariable, ContextType
  <2>2. v.name = nm
    OBVIOUS
  <2> HIDE DEF v
  <2>3. /\ Len(s) \in Nat /\ Len(Append(s, v)) = Len(s) + 1
        /\ \A k \in 1 .. Len(s) : Append(s, v)[k] = s[k] /\ s[k].name # nm
        /\ Append(s, v)[Len(s) + 1] = v
    BY <1>3, <1>5 DEF NamesOf
  <2>4. NamesDiffer(Append(s, v))
    <3> DEFINE t == Append(s, v)
    <3>1. \A k \in 1 .. Len(t) : \/ k \in 1 .. Len(s) /\ t[k] = s[k] /\ s[k].name # nm
                                 \/ k = Len(s) + 1 /\ t[k].name = nm
      BY <2>2, <2>3
    <3>2. NamesDiffer(s)
      BY <1>1, <1>3
    <3> HIDE DEF t, s
    <3> QED  BY <3>1, <3>2 DEF NamesDiffer, t
  <2>5. \A m \in Nodes : NamesDiffer(d.vars[m])
    BY <1>1, <1>3, <2>1, <2>4
  <2> QED  BY <1>1, <1>2, <2>5 DEF Orderly, SameStacks, Grows, Adds
<1> QED  BY <1>4, <1>5

(* Entering a namespace declares nothing.                                  *)
LEMMA VarsStay ==
  ASSUME NEW c \in ContextType
  PROVE  /\ \A nm : ActivateNamespace(c, nm).vars = c.vars
         /\ ActivateAnonymousNamespace(c).vars = c.vars
         /\ \A nm : DeactivateNamespace(c, nm).vars = c.vars
         /\ DeactivateAnonymousNamespace(c).vars = c.vars
         /\ \A nm, f : AddFunction(c, nm, f).vars = c.vars
<1>1. \A nm : ActivateNamespace(c, nm).vars = c.vars
  BY DEF ActivateNamespace, NewNamespace, ContextType
<1>2. ActivateAnonymousNamespace(c).vars = c.vars
  <2> DEFINE b == [c EXCEPT !.anon = @ + 1]
  <2>1. b.vars = c.vars /\ b \in ContextType
    <3>1. c.anon + 1 \in Nat
      BY FieldTypes
    <3> QED  BY <3>1 DEF ContextType
  <2> HIDE DEF b
  <2>2. \A nm : ActivateNamespace(b, nm).vars = b.vars
    BY <2>1 DEF ActivateNamespace, NewNamespace, ContextType
  <2> QED  BY <2>1, <2>2 DEF ActivateAnonymousNamespace, b
<1>3. \A nm : DeactivateNamespace(c, nm).vars = c.vars
  BY DEF DeactivateNamespace, ContextType
<1>4. DeactivateAnonymousNamespace(c).vars = c.vars
  BY DEF DeactivateAnonymousNamespace, ContextType
<1>5. \A nm, f : AddFunction(c, nm, f).vars = c.vars
  BY DEF AddFunction, ContextType
<1> QED  BY <1>1, <1>2, <1>3, <1>4, <1>5

(* Nor does it spoil the order of the context.                             *)
LEMMA AnonymousOrderly ==
  ASSUME NEW c, Orderly(c), c.fresh <= MaxNodes
  PROVE  /\ Orderly(ActivateAnonymousNamespace(c))
         /\ VarsReach(c, ActivateAnonymousNamespace(c))
         /\ ActivateAnonymousNamespace(c).fresh <= c.fresh + 1
<1> DEFINE d == ActivateAnonymousNamespace(c)
<1>1. PICK n \in Nodes : Pushed(c, d, n)
  BY AnonymousPushes DEF Orderly
<1>2. Adds(c, d) /\ d.vars = c.vars /\ d.fresh <= c.fresh + 1
  BY AnonymousAdds, AnonymousPushes, VarsStay DEF Orderly, WF
<1> HIDE DEF d
<1> QED  BY <1>1, <1>2 DEF Orderly, Pushed, Entered, Grows, Adds, d

LEMMA NamedOrderly ==
  ASSUME NEW c, Orderly(c), c.fresh <= MaxNodes, NEW nm \in NsNames
  PROVE  /\ Orderly(ActivateNamespace(c, nm))
         /\ ActivateNamespace(c, nm).fresh <= c.fresh + 1
         /\ ActivateNamespace(c, nm).nextfn = c.nextfn
<1> DEFINE d == ActivateNamespace(c, nm)
<1>0. nm \in NodeNames
  BY DEF NodeNames
<1>1. PICK n \in Nodes : Pushed(c, d, n)
  BY <1>0, ActivatePushes DEF Orderly
<1>2. Adds(c, d) /\ d.vars = c.vars /\ d.fresh <= c.fresh + 1
  BY <1>0, ActivateAdds, ActivatePushes, VarsStay DEF Orderly, WF
<1> HIDE DEF d
<1> QED  BY <1>1, <1>2 DEF Orderly, Pushed, Entered, Grows, Adds, d

(* Leaving one, by its name or not.                                        *)
LEMMA LeaveOrderly ==
  ASSUME NEW c, Orderly(c), Len(c.active) > 1
  PROVE  LET d == DeactivateAnonymousNamespace(c)
         IN  /\ Orderly(d) /\ VarsReach(c, d) /\ d.fresh = c.fresh
             /\ d.active = Pop(c.active)
             /\ DeactivateNamespace(c, c.name[NS(c)]) = d
<1> DEFINE d == DeactivateAnonymousNamespace(c)
           nm == c.name[NS(c)]
<1>1. WF(c) /\ Tree(c) /\ c.used = c.active /\ c \in ContextType
  BY DEF Orderly, WF
<1>2. Left(c, d)
  BY <1>1, PopBothLeaves DEF DeactivateAnonymousNamespace
<1>3. DeactivateNamespace(c, nm) = d
  BY <1>1 DEF DeactivateNamespace, DeactivateAnonymousNamespace, NS
<1>4. Adds(c, d)
  <2>1. WF(DeactivateNamespace(c, nm))
    BY <1>2, <1>3 DEF Left, Grows
  <2> HIDE DEF d
  <2>2. Adds(c, DeactivateNamespace(c, nm))
    BY <1>1, <2>1, DeactivateAdds
  <2> QED  BY <1>3, <2>2
<1>5. d.vars = c.vars /\ d.fresh = c.fresh
  BY <1>1, VarsStay DEF DeactivateAnonymousNamespace, ContextType
<1> HIDE DEF d
<1> QED  BY <1>1, <1>2, <1>3, <1>4, <1>5 DEF Orderly, Left, Grows, Adds, d

(* A label only counts.                                                    *)
LEMMA CountOrderly ==
  ASSUME NEW c, Orderly(c), NEW d, d = [c EXCEPT !.lv[NS(c)] = @ + 1]
  PROVE  /\ Orderly(d) /\ VarsReach(c, d) /\ d.live = c.live
         /\ d.lv[NS(d)] \in Nat
<1>1. WF(c) /\ Tree(c) /\ c.used = c.active /\ \A m \in Nodes : NamesDiffer(c.vars[m])
  BY DEF Orderly
<1>2. c \in ContextType /\ NS(c) \in Nodes /\ c.lv \in [Nodes -> Nat]
  BY <1>1, Parts
<1>3. /\ d.live = c.live /\ d.fresh = c.fresh /\ d.parent = c.parent /\ d.name = c.name
      /\ d.vars = c.vars /\ d.active = c.active /\ d.used = c.used
      /\ d.lv = [c.lv EXCEPT ![NS(c)] = @ + 1]
      /\ d.nextfn = c.nextfn /\ d.errors = c.errors
  BY <1>2 DEF ContextType
<1>4. d.lv \in [Nodes -> Nat]
  BY <1>2, <1>3
<1>5. WF(d)
  <2>1. d \in ContextType
    BY <1>2, <1>3, <1>4 DEF ContextType
  <2> QED  BY <1>1, <1>3, <2>1 DEF WF, StackNodes
<1>6. Tree(d)
  BY <1>1, <1>3 DEF Tree, Sloped, StackIsPath
<1>7. VarsReach(c, d)
  BY <1>1, <1>3, Counts DEF VarsReach
<1>8. d.lv[NS(d)] \in Nat
  BY <1>2, <1>3, <1>4 DEF NS
<1> QED  BY <1>1, <1>3, <1>5, <1>6, <1>7, <1>8 DEF Orderly

(* Restoring a save point puts back shorter lists of variables and, on     *)
(* each stack, what was at its bottom.                                     *)
LEMMA RestoreOrderly ==
  ASSUME NEW c, Orderly(c), NEW saved, Orderly(saved), VarsReach(saved, c),
         Len(saved.active) <= Len(c.active), InUse(RestoreContext(c, saved))
  PROVE  LET d == RestoreContext(c, saved)
         IN  Orderly(d) /\ VarsReach(saved, d)
<1> DEFINE from == NS(saved)
           below == {n \in saved.live : from \in Chain(saved, n)}
           created == {n \in c.live \ saved.live : from \in Chain(c, n)}
           cut(n) == SubSeq(c.vars[n], 1, Len(saved.vars[n]))
           vs == [n \in Nodes |-> IF n \in below THEN cut(n) ELSE c.vars[n]]
           fs == [n \in Nodes |-> IF n \in below
                                    THEN RestoreFuns(c.funs[n], saved.funs[n])
                                    ELSE c.funs[n]]
           top == SubSeq(c.active, 1, Len(saved.active))
           d == RestoreContext(c, saved)
<1>0. /\ WF(c) /\ Tree(c) /\ c.used = c.active /\ \A m \in Nodes : NamesDiffer(c.vars[m])
      /\ WF(saved) /\ saved.used = saved.active
  BY DEF Orderly
<1>1. /\ c \in ContextType /\ c.vars \in [Nodes -> Seq(Variable)]
      /\ c.funs \in [Nodes -> SUBSET Function] /\ c.live \subseteq Nodes
  BY <1>0, FieldTypes DEF WF
<1>2. /\ c.active \in Seq(Nodes) /\ Len(c.active) \in Nat \ {0}
      /\ Len(saved.active) \in Nat \ {0}
  BY <1>0, StackLengths
<1>3. /\ top \in Seq(Nodes) /\ Len(top) = Len(saved.active) /\ top # <<>>
      /\ \A i \in 1 .. Len(top) : top[i] = c.active[i] /\ i \in 1 .. Len(c.active)
  <2>1. Len(saved.active) \in Nat /\ Len(saved.active) <= Len(c.active)
    BY <1>2
  <2>2. /\ top \in Seq(Nodes) /\ Len(top) = Len(saved.active)
        /\ \A i \in 1 .. Len(saved.active) : top[i] = c.active[i]
    BY <1>2, <2>1, PrefixType
  <2> HIDE DEF top
  <2>3. top # <<>>
    BY <1>2, <2>2
  <2> QED  BY <1>2, <2>1, <2>2, <2>3
<1>4. \A n \in Nodes : Len(saved.vars[n]) \in Nat /\ Len(saved.vars[n]) <= Len(c.vars[n])
  BY <1>0, Counts DEF VarsReach
<1>5. \A n \in Nodes : /\ cut(n) \in Seq(Variable) /\ Len(cut(n)) = Len(saved.vars[n])
                       /\ NamesDiffer(cut(n))
  <2> SUFFICES ASSUME NEW n \in Nodes
               PROVE  /\ cut(n) \in Seq(Variable) /\ Len(cut(n)) = Len(saved.vars[n])
                      /\ NamesDiffer(cut(n))
    OBVIOUS
  <2> DEFINE k == Len(saved.vars[n])
             s == c.vars[n]
  <2>1. s \in Seq(Variable) /\ k \in Nat /\ k <= Len(s) /\ Len(s) \in Nat /\ NamesDiffer(s)
    BY <1>0, <1>1, <1>4
  <2>2. cut(n) = SubSeq(s, 1, k)
    OBVIOUS
  <2> HIDE DEF cut, k, s
  <2>3. /\ cut(n) \in Seq(Variable) /\ Len(cut(n)) = k
        /\ \A i \in 1 .. k : cut(n)[i] = s[i] /\ i \in 1 .. Len(s)
    BY <2>1, <2>2, PrefixType
  <2>4. NamesDiffer(cut(n))
    BY <2>1, <2>3 DEF NamesDiffer
  <2> QED  BY <2>3, <2>4 DEF k
<1>6. /\ vs \in [Nodes -> Seq(Variable)]
      /\ \A n \in Nodes : Len(saved.vars[n]) <= Len(vs[n]) /\ NamesDiffer(vs[n])
  <2> HIDE DEF cut, below
  <2> QED  BY <1>0, <1>1, <1>4, <1>5
<1>7. fs \in [Nodes -> SUBSET Function]
  BY <1>1 DEF RestoreFuns
<1>8. d = [c EXCEPT !.live = @ \ created, !.active = top, !.used = top,
                    !.vars = vs, !.funs = fs]
  BY <1>0, <1>1 DEF RestoreContext, ContextType
<1> HIDE DEF created, vs, fs, top, d
<1>9. d \in ContextType
  BY <1>1, <1>3, <1>6, <1>7, <1>8 DEF ContextType
<1>10. /\ d.live = c.live \ created /\ d.fresh = c.fresh /\ d.parent = c.parent
       /\ d.active = top /\ d.used = top /\ d.vars = vs
  BY <1>1, <1>8 DEF ContextType
<1>11. WF(d)
  <2>1. \A k \in 1 .. Len(top) : top[k] \in d.live
    BY <1>10 DEF InUse, d
  <2>2. StackNodes(d) \subseteq d.live
    BY <1>10, <2>1 DEF StackNodes
  <2> QED  BY <1>0, <1>3, <1>9, <1>10, <2>2 DEF WF
<1>12. Tree(d)
  <2>1. Sloped(d)
    BY <1>0, <1>10 DEF Tree, Sloped
  <2>2. 1 \in 1 .. Len(top) /\ \A k \in 2 .. Len(top) : k - 1 \in 1 .. Len(top)
    BY <1>2, <1>3
  <2>3. StackIsPath(d)
    <3>1. StackIsPath(c)
      BY <1>0 DEF Tree
    <3>2. \A k \in 2 .. Len(top) : d.parent[top[k]] = top[k - 1]
      <4>1. \A k \in 2 .. Len(top) : k \in 2 .. Len(c.active) /\ k \in 1 .. Len(top)
        BY <1>2, <1>3
      <4> QED  BY <1>3, <1>10, <2>2, <3>1, <4>1 DEF StackIsPath
    <3>3. \A j, k \in 1 .. Len(top) : j < k => top[j] < top[k]
      BY <1>3, <3>1 DEF StackIsPath
    <3>4. top[1] = Root
      BY <1>3, <2>2, <3>1 DEF StackIsPath
    <3>5. d.parent[Root] = NoNode
      BY <1>10, <3>1 DEF StackIsPath
    <3> QED  BY <1>3, <1>10, <3>2, <3>3, <3>4, <3>5 DEF StackIsPath
  <2> QED  BY <2>1, <2>3 DEF Tree
<1> QED  BY <1>6, <1>10, <1>11, <1>12 DEF Orderly, VarsReach, d

LEMMA ParametersOrderly ==
  ASSUME NEW c, Orderly(c), NEW ps \in Parameters
  PROVE  Orderly(AddParameters(c, ps))
<1>1. CASE ps = <<>>
  BY <1>1 DEF AddParameters
<1>2. CASE ps # <<>>
  <2>1. PICK v \in VarNames : ps = <<v>>
    BY <1>2 DEF Parameters
  <2>2. AddParameters(c, ps) = AddVariable(c, v)
    BY <2>1 DEF AddParameters
  <2> QED  BY <2>2, AddVariableOrderly
<1> QED  BY <1>1, <1>2

(* A function's parameters, and then its body.                             *)
LEMMA BeginFnOrderly ==
  ASSUME NEW c, Orderly(c), c.fresh + 2 <= MaxNodes + 1, c.nextfn \in Fns,
         NEW nm \in FunNames \cup Nat, NEW ps \in Parameters
  PROVE  Orderly(BeginFn(c, nm, ps))
<1> DEFINE f == c.nextfn
           x == ActivateAnonymousNamespace(c)
           y == AddParameters(x, ps)
           p == ParseReturnType(c, ps)
           d == AddFunction(p, nm, f)
           e == [d EXCEPT !.nextfn = @ + 1]
           a == ActivateAnonymousNamespace(e)
           b == [a EXCEPT !.scopes = Append(@, f)]
           g == AddParameters(b, ps)
<1>0. c.fresh \in Nat /\ c.fresh <= MaxNodes /\ WF(c) /\ Tree(c) /\ c.used = c.active
  BY Parts, SizeAssumption DEF Orderly
<1>1. Orderly(y)
  <2>1. Orderly(x)
    BY <1>0, AnonymousOrderly
  <2> HIDE DEF x
  <2> QED  BY <2>1, ParametersOrderly
<1>2. /\ SameStacks(c, p) /\ p.fresh <= c.fresh + 1 /\ Adds(c, p) /\ p.vars = y.vars
  <2>1. /\ SameStacks(c, p) /\ p.fresh <= c.fresh + 1 /\ Adds(c, p)
    BY <1>0, ParseReturnTypeKeeps, ReturnTypeAdds
  <2>2. p = DeactivateNamespace(y, x.name[NS(x)])
    BY DEF ParseReturnType
  <2> HIDE DEF x, y, p
  <2> QED  BY <1>1, <2>1, <2>2, VarsStay DEF Orderly, WF
<1> HIDE DEF x, y, p
<1>3. Orderly(p) /\ p.fresh \in Nat /\ p.nextfn = f /\ p.active = c.active
  <2>1. WF(p) /\ Tree(p) /\ p.active = c.active /\ p.used = c.used /\ p.nextfn = f
    BY <1>2 DEF SameStacks, Grows, Adds
  <2>2. Orderly(p)
    BY <1>0, <1>1, <1>2, <2>1 DEF Orderly
  <2> QED  BY <2>1, <2>2, Parts
<1>4. /\ SameStacks(p, d) /\ Adds(p, d) /\ d.vars = p.vars /\ d.fresh = p.fresh
  <2>1. WF(p) /\ Tree(p) /\ p \in ContextType
    BY <1>3 DEF Orderly, WF
  <2>2. SameStacks(p, d) /\ Adds(p, d)
    BY <2>1, AddFunctionKeeps, AddFunctionAdds
  <2>3. d.vars = p.vars
    BY <2>1, VarsStay
  <2>4. d.fresh = p.fresh
    BY <2>1 DEF AddFunction, ContextType
  <2> QED  BY <2>2, <2>3, <2>4
<1> HIDE DEF d
<1>5. /\ WF(d) /\ Tree(d) /\ d.active = c.active /\ d.used = d.active
      /\ d \in ContextType /\ d.nextfn = f /\ \A m \in Nodes : NamesDiffer(d.vars[m])
  BY <1>3, <1>4 DEF SameStacks, Grows, Adds, WF, Orderly
<1>6. /\ e.live = d.live /\ e.fresh = d.fresh /\ e.parent = d.parent /\ e.vars = d.vars
      /\ e.active = d.active /\ e.used = d.used /\ e \in ContextType
  <2>1. f + 1 \in 1 .. MaxFns + 1
    BY SizeAssumption DEF Fns
  <2> QED  BY <1>5, <2>1 DEF ContextType
<1> HIDE DEF e
<1>7. Orderly(e)
  <2>1. WF(e)
    BY <1>5, <1>6 DEF WF, StackNodes
  <2>2. Tree(e)
    BY <1>5, <1>6 DEF Tree, Sloped, StackIsPath
  <2> QED  BY <1>5, <1>6, <2>1, <2>2 DEF Orderly
<1>8. e.fresh <= MaxNodes
  BY <1>0, <1>2, <1>3, <1>4, <1>6, SizeAssumption
<1>9. Orderly(a)
  BY <1>7, <1>8, AnonymousOrderly
<1> HIDE DEF a
<1>10. WF(a) /\ Tree(a) /\ a \in ContextType /\ a.scopes \in Seq(Fns)
  BY <1>9, FieldTypes DEF Orderly, WF
<1>11. /\ b.live = a.live /\ b.fresh = a.fresh /\ b.parent = a.parent /\ b.vars = a.vars
       /\ b.active = a.active /\ b.used = a.used /\ b \in ContextType
  <2>1. Append(a.scopes, f) \in Seq(Fns)
    BY <1>10, AppendProperties
  <2> QED  BY <1>10, <2>1 DEF ContextType
<1> HIDE DEF b
<1>12. Orderly(b)
  <2>1. WF(b)
    BY <1>10, <1>11 DEF WF, StackNodes
  <2>2. Tree(b)
    BY <1>10, <1>11 DEF Tree, Sloped, StackIsPath
  <2> QED  BY <1>9, <1>11, <2>1, <2>2 DEF Orderly
<1>13. BeginFn(c, nm, ps) = g
  BY DEF BeginFn, EnterBody, g, b, a, e, d, p
<1> QED  BY <1>12, <1>13, ParametersOrderly

LEMMA EmptyOrderly ==
  LET c == EmptyContext(1000) IN Orderly(c) /\ c.fresh = 2 /\ c.nextfn = 1
<1> DEFINE c == EmptyContext(1000)
<1>1. /\ c.live = {1} /\ c.fresh = 2 /\ c.active = <<1>> /\ c.used = <<1>>
      /\ c.parent = [n \in Nodes |-> 0] /\ c.nextfn = 1
      /\ c.vars = [n \in Nodes |-> <<>>]
  BY DEF EmptyContext, Root, NoNode
<1>2. 1 \in Nodes /\ 2 \in 1 .. MaxNodes + 1 /\ 1 \in 1 .. MaxFns + 1
  BY SizeAssumption, RoomAssumption DEF Nodes
<1>3. <<1>> \in Seq(Nodes) /\ Len(<<1>>) = 1 /\ <<1>>[1] = 1 /\ <<1>> # <<>>
  BY <1>2
<1>4. c \in ContextType
  <2>1. /\ c.name = [n \in Nodes |-> 0] /\ c.lv = [n \in Nodes |-> 0]
        /\ c.funs = [n \in Nodes |-> {}] /\ c.scopes = <<>>
        /\ c.fnindex = [f \in Fns |-> 0] /\ c.anon = 0 /\ c.lv_index = 1000 /\ c.errors = {}
    BY DEF EmptyContext
  <2>2. /\ c.name \in [Nodes -> NodeNames] /\ c.parent \in [Nodes -> Nodes \cup {NoNode}]
        /\ c.lv \in [Nodes -> Nat] /\ c.vars \in [Nodes -> Seq(Variable)]
        /\ c.funs \in [Nodes -> SUBSET Function] /\ c.fnindex \in [Fns -> Nat]
    <3>1. 0 \in NodeNames /\ 0 \in Nodes \cup {NoNode} /\ <<>> \in Seq(Variable)
      BY DEF NodeNames, NoNode
    <3>2. /\ c.name \in [Nodes -> NodeNames] /\ c.parent \in [Nodes -> Nodes \cup {NoNode}]
          /\ c.vars \in [Nodes -> Seq(Variable)]
      <4>1. \A e, T : e \in T => [n \in Nodes |-> e] \in [Nodes -> T]
        OBVIOUS
      <4> HIDE DEF c
      <4>2. c.name \in [Nodes -> NodeNames]
        BY <2>1, <3>1
      <4>3. c.parent \in [Nodes -> Nodes \cup {NoNode}]
        BY <1>1, <3>1
      <4>4. c.vars \in [Nodes -> Seq(Variable)]
        BY <1>1, <3>1, <4>1
      <4> QED  BY <4>2, <4>3, <4>4
    <3>3. /\ c.lv \in [Nodes -> Nat] /\ c.funs \in [Nodes -> SUBSET Function]
          /\ c.fnindex \in [Fns -> Nat]
      BY <2>1
    <3> QED  BY <3>2, <3>3
  <2>3. <<>> \in Seq(Fns)
    OBVIOUS
  <2> QED  BY <1>1, <1>2, <1>3, <2>1, <2>2, <2>3 DEF ContextType, EmptyContext, Root
<1> HIDE DEF c
<1>5. WF(c)
  <2>1. StackNodes(c) \subseteq {1}
    BY <1>1, <1>3 DEF StackNodes
  <2>2. 1 .. c.fresh - 1 = {1}
    BY <1>1
  <2> QED  BY <1>1, <1>3, <1>4, <2>1, <2>2 DEF WF
<1>6. Tree(c)
  <2>1. Sloped(c)
    BY <1>1 DEF Sloped, NoNode, Nodes
  <2>2. StackIsPath(c)
    BY <1>1, <1>2, <1>3 DEF StackIsPath, Root, NoNode
  <2> QED  BY <2>1, <2>2 DEF Tree
<1>7. \A m \in Nodes : NamesDiffer(c.vars[m])
  <2>1. Len(<<>>) = 0
    BY ShortLists
  <2> QED  BY <1>1, <2>1 DEF NamesDiffer
<1> QED  BY <1>1, <1>5, <1>6, <1>7 DEF Orderly, c

-----------------------------------------------------------------------------
(***************************************************************************)
(* Instructions.                                                           *)
(***************************************************************************)
InstrTyped(i)    == i.op \in Ops /\ i.objs \subseteq Objects
ListTyped(code)  == IsList(code) /\ \A k \in 1 .. Len(code) : InstrTyped(code[k])
CodeTyped(bs)    == \A b \in 1 .. Len(bs) : \A k \in 1 .. Len(bs[b]) : InstrTyped(bs[b][k])
LabelsTyped(labs) == \A lab \in labs : lab.name \in LabelNames /\ lab.index \in Nat
ResultTyped(r)   == r \in [block : Nat, type : {"void", "int", "error"}, term : BOOLEAN]

(* Single instructions.                                                    *)
LEMMA OneTyped ==
  /\ \A op \in Ops : \A objs \in SUBSET Objects : \A to : ListTyped(<<Instr(op, objs, to)>>)
  /\ \A b : ListTyped(<<Br(b)>>) /\ InstrTyped(Br(b))
  /\ ListTyped(<<Ret>>) /\ InstrTyped(Ret)
  /\ \A l : ListTyped(<<Deferred(l)>>)
  /\ ListTyped(<<>>)
<1>1. ASSUME NEW i, InstrTyped(i) PROVE ListTyped(<<i>>)
  <2>1. \A k \in 1 .. Len(<<i>>) : <<i>>[k] = i
    BY OneList
  <2> QED  BY <1>1, <2>1, OneList DEF ListTyped
<1>2. \A op \in Ops : \A objs \in SUBSET Objects : \A to : InstrTyped(Instr(op, objs, to))
  BY DEF InstrTyped, Instr
<1>3. \A b : InstrTyped(Br(b))
  BY DEF InstrTyped, Br, Instr, Ops
<1>4. InstrTyped(Ret)
  BY DEF InstrTyped, Ret, Instr, Ops
<1>5. \A l : InstrTyped(Deferred(l))
  BY DEF InstrTyped, Deferred, Ops
<1>6. ListTyped(<<>>)
  BY ShortLists DEF ListTyped
<1> QED  BY <1>1, <1>2, <1>3, <1>4, <1>5, <1>6

(* Lists of them.                                                          *)
LEMMA TypedConcat ==
  ASSUME NEW s, NEW t, ListTyped(s), ListTyped(t)
  PROVE  ListTyped(s \o t)
<1>1. /\ IsList(s \o t)
      /\ \A k \in 1 .. Len(s \o t) : \/ \E i \in 1 .. Len(s) : (s \o t)[k] = s[i]
                                     \/ \E i \in 1 .. Len(t) : (s \o t)[k] = t[i]
  BY ListConcat, EndingConcat DEF ListTyped
<1> QED  BY <1>1 DEF ListTyped

LEMMA CallsTyped ==
  ASSUME NEW op \in Ops, NEW objs \in SUBSET Objects
  PROVE  ListTyped(Calls(op, objs))
BY OneTyped DEF Calls

LEMMA AppendTyped ==
  ASSUME NEW s, NEW i, ListTyped(s), InstrTyped(i)
  PROVE  ListTyped(Append(s, i))
<1>1. /\ IsList(Append(s, i)) /\ Len(Append(s, i)) = Len(s) + 1 /\ Len(s) \in Nat
      /\ \A k \in 1 .. Len(s) : Append(s, i)[k] = s[k]
      /\ Append(s, i)[Len(s) + 1] = i
  BY ListAppend, ListLen DEF ListTyped
<1>2. \A k \in 1 .. Len(Append(s, i)) : k \in 1 .. Len(s) \/ k = Len(s) + 1
  BY <1>1
<1> QED  BY <1>1, <1>2 DEF ListTyped

(* Code that grows by typed instructions stays typed.                      *)
LEMMA TypedGrows ==
  ASSUME NEW new, NEW bs, NEW W, NEW I, IsCode(new), IsCode(bs), Longer(new, bs, W),
         Within(new, bs, I), CodeTyped(bs), \A i \in I : InstrTyped(i)
  PROVE  CodeTyped(new)
<1> SUFFICES ASSUME NEW b \in 1 .. Len(new), NEW k \in 1 .. Len(new[b])
             PROVE  InstrTyped(new[b][k])
  BY DEF CodeTyped
<1>1. CASE NewAt(bs, b, k)
  BY <1>1 DEF Within
<1>2. CASE ~NewAt(bs, b, k)
  <2>1. b \in 1 .. Len(bs) /\ k \in 1 .. Len(bs[b]) /\ new[b][k] = bs[b][k]
    BY <1>2, OldInstr
  <2> QED  BY <2>1 DEF CodeTyped
<1> QED  BY <1>1, <1>2

LEMMA EmitTyped ==
  ASSUME NEW bs, NEW b, NEW code, IsCode(bs), b \in 1 .. Len(bs), CodeTyped(bs),
         ListTyped(code)
  PROVE  CodeTyped(Emit(bs, b, code))
<1> DEFINE I == {code[j] : j \in 1 .. Len(code)}
<1>1. IsList(code) /\ \A i \in I : InstrTyped(i)
  BY DEF ListTyped
<1>2. \A j \in 1 .. Len(code) : code[j] \in I
  OBVIOUS
<1> HIDE DEF I
<1>3. Within(Emit(bs, b, code), bs, I)
  BY <1>1, <1>2, EmitWithin
<1>4. IsCode(Emit(bs, b, code)) /\ Longer(Emit(bs, b, code), bs, {b})
  BY <1>1, EmitLonger
<1> QED  BY <1>1, <1>3, <1>4, TypedGrows

LEMMA NewBlocksTyped ==
  ASSUME NEW bs, IsCode(bs), CodeTyped(bs)
  PROVE  CodeTyped(Append(bs, <<>>)) /\ CodeTyped(bs \o <<<<>>, <<>>>>)
<1>1. IsList(<<>>) /\ Len(<<>>) = 0
  BY ShortLists
<1>2. Within(Append(bs, <<>>), bs, {}) /\ Within(bs \o <<<<>>, <<>>>>, bs, {})
  BY <1>1, NewBlockWithin, TwoBlocksWithin
<1>3. /\ IsCode(Append(bs, <<>>)) /\ Longer(Append(bs, <<>>), bs, {})
      /\ IsCode(bs \o <<<<>>, <<>>>>) /\ Longer(bs \o <<<<>>, <<>>>>, bs, {})
  BY <1>1, NewBlockLonger, TwoBlocksLonger
<1> HIDE DEF CodeTyped
<1> QED  BY <1>2, <1>3, TypedGrows

LEMMA JoinTyped ==
  ASSUME NEW bs, NEW ends, NEW code, IsCode(bs), CodeTyped(bs), ListTyped(code)
  PROVE  CodeTyped(Join(bs, ends, code))
<1> DEFINE I == {code[j] : j \in 1 .. Len(code)} \cup {Br(Len(bs) + 1)}
<1>1. IsList(code) /\ \A i \in I : InstrTyped(i)
  BY OneTyped DEF ListTyped
<1>2. Br(Len(bs) + 1) \in I /\ \A j \in 1 .. Len(code) : code[j] \in I
  OBVIOUS
<1> HIDE DEF I
<1>3. Within(Join(bs, ends, code), bs, I)
  BY <1>1, <1>2, JoinWithin
<1>4. IsCode(Join(bs, ends, code)) /\ Longer(Join(bs, ends, code), bs, ends)
  BY <1>1, JoinLonger
<1> QED  BY <1>1, <1>3, <1>4, TypedGrows

LEMMA CloseTyped ==
  ASSUME Orderly(ctx), IsCode(blocks), CodeTyped(blocks), NEW e \in 1 .. Len(blocks)
  PROVE  CodeTyped(CloseScope(blocks, e))
<1>1. VarsOf(ctx, {NS(ctx)}) \subseteq Objects
  <2>1. {NS(ctx)} \subseteq Nodes
    BY Parts DEF Orderly
  <2> QED  BY <2>1, ObjectsOf
<1>2. ListTyped(Calls("destroy", VarsOf(ctx, {NS(ctx)})))
  BY <1>1, CallsTyped DEF Ops
<1> QED  BY <1>2, EmitTyped DEF CloseScope

(***************************************************************************)
(* Forms.  What a call's save point holds is typed too, and no list of     *)
(* variables has become shorter since, nor between it and one within it.   *)
(***************************************************************************)
ReachesAll(c, fs, n) ==
  \A i \in 1 .. n : \A s \in fs[i].saved : VarsReach(s.ctx, c)

FormTyped(fs, i) ==
  /\ ResultTyped(fs[i].then)
  /\ \A s \in fs[i].saved :
       /\ Orderly(s.ctx) /\ CodeTyped(s.blocks) /\ LabelsTyped(s.labels)
       /\ ReachesAll(s.ctx, fs, i - 1)

FormsTyped(c, fs) ==
  ReachesAll(c, fs, Len(fs)) /\ \A i \in 1 .. Len(fs) : FormTyped(fs, i)

AllTyped(c, bs, labs, r, fs) ==
  /\ Orderly(c) /\ CodeTyped(bs) /\ LabelsTyped(labs) /\ ResultTyped(r)
  /\ FormsTyped(c, fs)

(* The context goes on.                                                    *)
LEMMA FormsOn ==
  ASSUME NEW c, NEW d, NEW fs, FormsTyped(c, fs), Orderly(c), Orderly(d), VarsReach(c, d)
  PROVE  FormsTyped(d, fs)
<1>1. ReachesAll(d, fs, Len(fs))
  <2> SUFFICES ASSUME NEW i \in 1 .. Len(fs), NEW s \in fs[i].saved
               PROVE  VarsReach(s.ctx, d)
    BY DEF ReachesAll
  <2>1. WF(s.ctx) /\ VarsReach(s.ctx, c) /\ WF(c) /\ WF(d)
    BY DEF FormsTyped, ReachesAll, FormTyped, Orderly
  <2> QED  BY <2>1, ReachTransitive
<1> QED  BY <1>1 DEF FormsTyped

LEMMA SameForms ==
  ASSUME NEW fs, NEW gs, NEW n \in Nat, \A i \in 1 .. n : gs[i] = fs[i]
  PROVE  /\ \A c : ReachesAll(c, fs, n) => ReachesAll(c, gs, n)
         /\ \A i \in 1 .. n : FormTyped(fs, i) => FormTyped(gs, i)
<1>1. \A i \in 1 .. n : \A j \in 1 .. i - 1 : gs[j] = fs[j]
  OBVIOUS
<1>2. \A c : \A i \in 1 .. n : ReachesAll(c, fs, i - 1) => ReachesAll(c, gs, i - 1)
  BY <1>1 DEF ReachesAll
<1>3. \A i \in 1 .. n : FormTyped(fs, i) => FormTyped(gs, i)
  BY <1>2 DEF FormTyped
<1> QED  BY <1>3 DEF ReachesAll

(* A form is opened, and closed.                                           *)
LEMMA FormsPush ==
  ASSUME NEW c, NEW fs, NEW fr, IsList(fs), Orderly(c), FormsTyped(c, fs),
         ResultTyped(fr.then),
         \A s \in fr.saved : s.ctx = c /\ CodeTyped(s.blocks) /\ LabelsTyped(s.labels)
  PROVE  FormsTyped(c, Append(fs, fr))
<1> DEFINE n  == Len(fs)
           gs == Append(fs, fr)
<1>1. /\ n \in Nat /\ Len(gs) = n + 1 /\ \A i \in 1 .. n : gs[i] = fs[i]
      /\ gs[n + 1] = fr /\ (n + 1) - 1 = n
  BY ListAppend, ListLen
<1> HIDE DEF gs
<1>2. /\ ReachesAll(c, fs, n) /\ \A i \in 1 .. n : FormTyped(fs, i)
  BY DEF FormsTyped
<1> HIDE DEF n
<1>3. /\ ReachesAll(c, gs, n) /\ \A i \in 1 .. n : FormTyped(gs, i)
  BY <1>1, <1>2, SameForms
<1>4. VarsReach(c, c)
  BY Counts DEF Orderly, VarsReach
<1>5. FormTyped(gs, n + 1)
  BY <1>1, <1>3 DEF FormTyped
<1>6. ReachesAll(c, gs, n + 1)
  <2>1. \A i \in 1 .. n + 1 : i \in 1 .. n \/ i = n + 1
    BY <1>1
  <2> QED  BY <1>1, <1>3, <1>4, <2>1 DEF ReachesAll
<1>7. \A i \in 1 .. n + 1 : FormTyped(gs, i)
  <2>1. \A i \in 1 .. n + 1 : i \in 1 .. n \/ i = n + 1
    BY <1>1
  <2> QED  BY <1>3, <1>5, <2>1
<1> QED  BY <1>1, <1>6, <1>7 DEF FormsTyped, gs

LEMMA FormsPop ==
  ASSUME NEW c, NEW fs, IsList(fs), fs # <<>>, FormsTyped(c, fs)
  PROVE  /\ FormsTyped(c, Pop(fs)) /\ ResultTyped(Back(fs).then)
         /\ \A s \in Back(fs).saved :
              /\ Orderly(s.ctx) /\ CodeTyped(s.blocks) /\ LabelsTyped(s.labels)
              /\ VarsReach(s.ctx, c) /\ FormsTyped(s.ctx, Pop(fs))
<1> DEFINE n  == Len(fs) - 1
           gs == Pop(fs)
<1>1. /\ n \in Nat /\ n + 1 = Len(fs) /\ Back(fs) = fs[n + 1] /\ Len(gs) = n
      /\ \A i \in 1 .. n : gs[i] = fs[i] /\ i \in 1 .. n + 1
      /\ n + 1 \in 1 .. n + 1 /\ (n + 1) - 1 = n
  BY ListPop
<1> HIDE DEF gs, n
<1>2. /\ ReachesAll(c, fs, n + 1) /\ \A i \in 1 .. n + 1 : FormTyped(fs, i)
  BY <1>1 DEF FormsTyped
<1>3. ReachesAll(c, fs, n)
  BY <1>1, <1>2 DEF ReachesAll
<1>4. /\ \A d : ReachesAll(d, fs, n) => ReachesAll(d, gs, n)
      /\ \A i \in 1 .. n : FormTyped(gs, i)
  BY <1>1, <1>2, SameForms
<1>5. \A d : ReachesAll(d, fs, n) => FormsTyped(d, gs)
  BY <1>1, <1>4 DEF FormsTyped
<1>6. /\ ResultTyped(Back(fs).then)
      /\ \A s \in Back(fs).saved :
           /\ Orderly(s.ctx) /\ CodeTyped(s.blocks) /\ LabelsTyped(s.labels)
           /\ ReachesAll(s.ctx, fs, n)
  BY <1>1, <1>2 DEF FormTyped
<1>7. \A s \in Back(fs).saved : VarsReach(s.ctx, c)
  BY <1>1, <1>2 DEF ReachesAll
<1> QED  BY <1>3, <1>5, <1>6, <1>7 DEF gs

(* A form other than a call has entered a namespace.                       *)
LEMMA HeightOfStack ==
  ASSUME NEW c, NEW fs, IsList(fs), fs # <<>>, Kept(c, fs)
  PROVE  /\ Back(fs).kind # "call" => Len(c.active) > 1
         /\ \A s \in Back(fs).saved : Len(s.ctx.active) <= Len(c.active)
<1> DEFINE n == Len(fs)
<1>1. n \in Nat /\ 0 < n /\ n \in 1 .. n /\ 0 \in 0 .. n /\ n \in 0 .. n /\ Back(fs) = fs[n]
  BY ListPop
<1>2. PICK h : Heights(h, c, fs, n)
  BY DEF Kept
<1>3. Len(c.active) \in Nat
  BY ListLen DEF Kept, InUse
<1> HIDE DEF n
<1>4. h[0] \in Nat /\ h[n] \in Nat /\ h[0] >= 1 /\ h[n] <= Len(c.active)
  BY <1>1, <1>2 DEF Heights
<1>5. Back(fs).kind # "call" => h[0] + 1 <= h[n]
  BY <1>1, <1>2 DEF Heights
<1>6. \A s \in Back(fs).saved : Len(s.ctx.active) = h[n]
  BY <1>1, <1>2 DEF Heights
<1> QED  BY <1>3, <1>4, <1>5, <1>6

LEMMA ResultsTyped ==
  /\ \A b \in Nat, ty \in {"void", "int", "error"}, t \in BOOLEAN :
       ResultTyped(Result(b, ty, t))
  /\ \A r : ResultTyped(r) => r.block \in Nat /\ r.type \in {"void", "int", "error"}
                              /\ r.term \in BOOLEAN
BY DEF ResultTyped, Result

-----------------------------------------------------------------------------
(***************************************************************************)
(* What each form does with the types.                                     *)
(***************************************************************************)
WellTyped ==
  /\ Sound(blocks, pr, forms) /\ Kept(ctx, forms)
  /\ AllTyped(ctx, blocks, labels, pr, forms)
StaysTyped == AllTyped(ctx', blocks', labels', pr', forms')

LEMMA TypedParts ==
  ASSUME WellTyped
  PROVE  /\ IsCode(blocks) /\ Len(blocks) \in Nat /\ pr.block \in 1 .. Len(blocks)
         /\ IsList(forms) /\ Orderly(ctx) /\ CodeTyped(blocks) /\ LabelsTyped(labels)
         /\ ResultTyped(pr) /\ FormsTyped(ctx, forms) /\ NS(ctx) \in Nodes
         /\ ctx \in ContextType /\ VarsReach(ctx, ctx)
<1>1. Orderly(ctx)
  BY DEF WellTyped, AllTyped
<1>2. NS(ctx) \in Nodes /\ ctx \in ContextType
  BY <1>1, Parts DEF Orderly, WF
<1>3. VarsReach(ctx, ctx)
  BY <1>1, Counts DEF Orderly, VarsReach
<1> QED  BY <1>1, <1>2, <1>3, SoundTypes DEF WellTyped, AllTyped

(* The variable that Define declares is one more of those that there can   *)
(* be.                                                                     *)
LEMMA DefinedObject ==
  ASSUME NEW c, Orderly(c), NEW nm \in VarNames, nm \notin NamesOf(c.vars[NS(c)])
  PROVE  {<<NS(c), Len(c.vars[NS(c)]) + 1>>} \subseteq Objects
<1> DEFINE n == NS(c)
           d == AddVariable(c, nm)
           v == [name |-> nm, fn |-> CurrentFn(c), index |-> c.lv[n] + 1]
<1>1. c \in ContextType /\ n \in Nodes /\ c.vars \in [Nodes -> Seq(Variable)]
  BY Parts DEF Orderly, WF
<1>2. Orderly(d) /\ WF(d)
  BY AddVariableOrderly DEF Orderly
<1>3. d.vars \in [Nodes -> Seq(Variable)] /\ NamesDiffer(d.vars[n])
  BY <1>1, <1>2, Parts DEF Orderly
<1>4. d.vars[n] = Append(c.vars[n], v)
  BY <1>1 DEF AddVariable, ContextType
<1> HIDE DEF v, d, n
<1>5. Len(c.vars[n]) \in Nat /\ Len(d.vars[n]) = Len(c.vars[n]) + 1
  <2>1. IsList(c.vars[n])
    BY <1>1, SeqIsList
  <2> QED  BY <1>4, <2>1, ListAppend, ListLen
<1>6. Len(d.vars[n]) <= Cardinality(VarNames)
  BY <1>1, <1>3, NoMoreThanNames
<1>7. Cardinality(VarNames) \in Nat
  BY VarNamesAssumption, FS_CardinalityType
<1>8. Len(c.vars[n]) + 1 \in 1 .. Cardinality(VarNames)
  BY <1>5, <1>6, <1>7
<1> QED  BY <1>1, <1>8 DEF Objects, n

(* Forms whose code goes into the current block.                           *)
LEMMA StraightTyped ==
  ASSUME WellTyped, Define \/ Value \/ Return \/ Fail PROVE StaysTyped
<1>0. /\ IsCode(blocks) /\ pr.block \in 1 .. Len(blocks)
      /\ Orderly(ctx) /\ CodeTyped(blocks) /\ LabelsTyped(labels)
      /\ ResultTyped(pr) /\ FormsTyped(ctx, forms) /\ VarsReach(ctx, ctx)
  BY TypedParts
<1>1. labels' = labels /\ forms' = forms
  BY DEF Define, Value, Return, Fail
<1>2. ResultTyped(pr')
  BY <1>0, ResultsTyped DEF Define, Value, Return, Fail, Parse
<1>3. CASE Value \/ Fail
  <2>1. ctx' = ctx /\ blocks' = blocks
    BY <1>3 DEF Value, Fail, Parse
  <2> QED  BY <1>0, <1>1, <1>2, <2>1 DEF StaysTyped, AllTyped
<1>4. CASE Return
  <2> DEFINE b    == blocks[pr.block]
             objs == ClosedByReturn(ctx)
             code == Calls("destroy", objs) \o <<Ret>>
  <2>1. ctx' = ctx
        /\ blocks' = [blocks EXCEPT ![pr.block] = Append(b \o Calls("destroy", objs), Ret)]
    BY <1>4 DEF Return, Parse, CloseFunction
  <2>2. objs \subseteq Objects /\ IsList(b)
    BY <1>0, ObjectsOf DEF IsCode
  <2> HIDE DEF b, objs
  <2>3. ListTyped(code)
    <3>1. ListTyped(Calls("destroy", objs))
      BY <2>2, CallsTyped DEF Ops
    <3> QED  BY <3>1, OneTyped, TypedConcat
  <2>4. \A op, os, i : Append(b \o Calls(op, os), i) = b \o (Calls(op, os) \o <<i>>)
    BY <2>2, AppendCalls
  <2>5. blocks' = [blocks EXCEPT ![pr.block] = b \o code]
    BY <2>1, <2>4
  <2> HIDE DEF code
  <2>6. blocks' = Emit(blocks, pr.block, code)
    BY <2>5 DEF Emit, b
  <2>7. CodeTyped(blocks')
    BY <1>0, <2>3, <2>6, EmitTyped
  <2> QED  BY <1>0, <1>1, <1>2, <2>1, <2>7 DEF StaysTyped, AllTyped
<1>5. CASE Define
  <2> DEFINE n    == NS(ctx)
             left == VarNames \ NamesOf(ctx.vars[n])
             nm   == CHOOSE v \in left : TRUE
             objs == {<<n, Len(ctx.vars[n]) + 1>>}
  <2>1. /\ left # {} /\ ctx' = AddVariable(ctx, nm)
        /\ blocks' = Emit(blocks, pr.block, <<InitOf(objs)>>)
    BY <1>5 DEF Define, Parse
  <2>2. nm \in VarNames /\ nm \notin NamesOf(ctx.vars[n])
    BY <2>1
  <2> HIDE DEF nm
  <2>3. objs \subseteq Objects
    BY <1>0, <2>2, DefinedObject
  <2> HIDE DEF objs
  <2>4. ListTyped(<<InitOf(objs)>>)
    BY <2>3, OneTyped DEF InitOf, Ops
  <2>5. CodeTyped(blocks')
    BY <1>0, <2>1, <2>4, EmitTyped
  <2>6. Orderly(ctx') /\ VarsReach(ctx, ctx')
    BY <1>0, <2>1, <2>2, AddVariableOrderly
  <2>7. FormsTyped(ctx', forms)
    BY <1>0, <2>6, FormsOn
  <2> QED  BY <1>0, <1>1, <1>2, <2>5, <2>6, <2>7 DEF StaysTyped, AllTyped
<1> QED  BY <1>3, <1>4, <1>5

LEMMA LabelTyped ==
  ASSUME WellTyped, NEW l \in LabelNames, Label(l) PROVE StaysTyped
<1> DEFINE new  == Len(blocks) + 1
           code == IF Terminated(blocks[pr.block]) THEN <<>> ELSE <<Br(new)>>
           mid  == Emit(blocks, pr.block, code)
           c    == [ctx EXCEPT !.lv[NS(ctx)] = @ + 1]
           lab  == [name |-> l, block |-> new, ns |-> NS(ctx), index |-> c.lv[NS(ctx)]]
<1>0. /\ IsCode(blocks) /\ Len(blocks) \in Nat /\ pr.block \in 1 .. Len(blocks)
      /\ Orderly(ctx) /\ CodeTyped(blocks) /\ LabelsTyped(labels)
      /\ ResultTyped(pr) /\ FormsTyped(ctx, forms) /\ ctx \in ContextType
  BY TypedParts
<1>1. /\ blocks' = Append(mid, <<>>) /\ forms' = forms /\ ctx' = c
      /\ labels' = labels \cup {lab} /\ pr' = Result(new, "int", FALSE)
  BY DEF Label, Parse
<1>2. Orderly(c) /\ VarsReach(ctx, c) /\ c.lv[NS(c)] \in Nat
  BY <1>0, CountOrderly
<1>3. NS(c) = NS(ctx)
  BY <1>0 DEF NS, ContextType
<1> HIDE DEF c
<1>4. LabelsTyped(labels')
  BY <1>0, <1>1, <1>2, <1>3 DEF LabelsTyped
<1> HIDE DEF lab
<1>5. ListTyped(code)
  BY OneTyped
<1> HIDE DEF code
<1>6. IsCode(mid) /\ CodeTyped(mid)
  BY <1>0, <1>5, EmitTyped, EmitLonger DEF ListTyped
<1> HIDE DEF mid
<1>7. CodeTyped(blocks')
  BY <1>1, <1>6, NewBlocksTyped
<1>8. ResultTyped(pr')
  <2>1. new \in Nat
    BY <1>0
  <2> HIDE DEF new
  <2> QED  BY <1>1, <2>1, ResultsTyped
<1>9. FormsTyped(ctx', forms')
  BY <1>0, <1>1, <1>2, FormsOn
<1> QED  BY <1>1, <1>2, <1>4, <1>7, <1>8, <1>9 DEF StaysTyped, AllTyped

LEMMA GotoTyped ==
  ASSUME WellTyped, NEW l, GotoKnown(l) \/ GotoDeferred(l) PROVE StaysTyped
<1>0. /\ IsCode(blocks) /\ pr.block \in 1 .. Len(blocks)
      /\ Orderly(ctx) /\ CodeTyped(blocks) /\ LabelsTyped(labels)
      /\ ResultTyped(pr) /\ FormsTyped(ctx, forms)
  BY TypedParts
<1>1. labels' = labels /\ forms' = forms /\ ctx' = ctx
  BY DEF GotoKnown, GotoDeferred, Parse
<1>2. ResultTyped(pr')
  <2>1. pr' = Result(pr.block, "int", FALSE) \/ pr' = Result(pr.block, "int", TRUE)
    BY DEF GotoKnown, GotoDeferred, Parse
  <2>2. pr.block \in Nat
    BY <1>0, ResultsTyped
  <2> QED  BY <2>1, <2>2, ResultsTyped
<1>3. CodeTyped(blocks')
  <2>1. CASE GotoKnown(l)
    <3>1. PICK lab \in LabelNamed(l) :
            blocks' = Emit(blocks, pr.block,
                           Calls("destroy", VarsAfterIndex(ctx, lab.index))
                             \o <<Br(lab.block)>>)
      BY <2>1 DEF GotoKnown, Parse
    <3> DEFINE objs == VarsAfterIndex(ctx, lab.index)
               i    == Br(lab.block)
    <3>2. objs \subseteq Objects /\ ListTyped(<<i>>)
      BY <1>0, ObjectsOf, OneTyped
    <3> HIDE DEF objs, i
    <3>3. ListTyped(Calls("destroy", objs))
      BY <3>2, CallsTyped DEF Ops
    <3>4. ListTyped(Calls("destroy", objs) \o <<i>>)
      BY <3>2, <3>3, TypedConcat
    <3>5. blocks' = Emit(blocks, pr.block, Calls("destroy", objs) \o <<i>>)
      BY <3>1 DEF objs, i
    <3> QED  BY <1>0, <3>4, <3>5, EmitTyped
  <2>2. CASE GotoDeferred(l)
    <3>1. blocks' = Emit(blocks, pr.block, <<Deferred(l)>>)
      BY <2>2 DEF GotoDeferred, Parse
    <3>2. ListTyped(<<Deferred(l)>>)
      BY OneTyped
    <3> QED  BY <1>0, <3>1, <3>2, EmitTyped
  <2> QED  BY <2>1, <2>2
<1> QED  BY <1>0, <1>1, <1>2, <1>3 DEF StaysTyped, AllTyped

(* A form begins.                                                          *)
LEMMA OpenTyped ==
  ASSUME WellTyped, OpenNewScope \/ BeginCall \/ OpenIf PROVE StaysTyped
<1>0. /\ IsCode(blocks) /\ Len(blocks) \in Nat /\ pr.block \in 1 .. Len(blocks)
      /\ Orderly(ctx) /\ CodeTyped(blocks) /\ LabelsTyped(labels) /\ IsList(forms)
      /\ ResultTyped(pr) /\ FormsTyped(ctx, forms) /\ VarsReach(ctx, ctx)
  BY TypedParts
<1>1. /\ labels' = labels
      /\ \E kind, entry, cond : forms' = Append(forms, Frame(kind, entry, cond, pr))
  BY DEF OpenNewScope, BeginCall, OpenIf
<1>2. PICK kind, entry, cond : forms' = Append(forms, Frame(kind, entry, cond, pr))
  BY <1>1
<1> DEFINE fr == Frame(kind, entry, cond, pr)
<1>3. /\ fr.then = pr
      /\ \A s \in fr.saved : kind = "call" /\ s.ctx = ctx /\ s.blocks = blocks
                             /\ s.labels = labels
  BY FrameFields, FrameKind
<1> HIDE DEF fr
<1>4. FormsTyped(ctx, Append(forms, fr))
  <2>1. \A s \in fr.saved : s.ctx = ctx /\ CodeTyped(s.blocks) /\ LabelsTyped(s.labels)
    BY <1>0, <1>3
  <2> QED  BY <1>0, <1>3, <2>1, FormsPush
<1>5. Orderly(ctx') /\ VarsReach(ctx, ctx')
  <2>1. CASE BeginCall
    BY <1>0, <2>1 DEF BeginCall, Parse
  <2>2. CASE OpenNewScope \/ OpenIf
    <3>1. ctx' = ActivateAnonymousNamespace(ctx)
          /\ (ctx.fresh \in Nodes \/ ctx.fresh + 1 \in Nodes)
      BY <2>2 DEF OpenNewScope, OpenIf, Parse
    <3>2. ctx.fresh <= MaxNodes
      <4>1. ctx.fresh \in Nat
        BY <1>0, Parts DEF Orderly
      <4> QED  BY <3>1, <4>1, SizeAssumption DEF Nodes
    <3> QED  BY <1>0, <3>1, <3>2, AnonymousOrderly
  <2> QED  BY <2>1, <2>2
<1>6. FormsTyped(ctx', forms')
  BY <1>0, <1>2, <1>4, <1>5, FormsOn DEF fr
<1>7. CodeTyped(blocks') /\ ResultTyped(pr')
  <2>1. CASE BeginCall \/ OpenNewScope
    <3>1. blocks' = blocks /\ pr' = Result(pr.block, "void", FALSE)
      BY <2>1 DEF BeginCall, OpenNewScope, Parse
    <3> QED  BY <1>0, <3>1, ResultsTyped
  <2>2. CASE OpenIf
    <3> DEFINE then == Len(blocks) + 1
               code == <<Instr("cbr", {}, {then, then + 1})>>
               mid  == Emit(blocks, pr.block, code)
    <3>1. blocks' = mid \o <<<<>>, <<>>>> /\ pr' = Result(then, "void", FALSE)
      BY <2>2 DEF OpenIf, Parse
    <3>2. ListTyped(code)
      BY OneTyped DEF Ops
    <3> HIDE DEF code
    <3>3. IsCode(mid) /\ CodeTyped(mid)
      BY <1>0, <3>2, EmitTyped, EmitLonger DEF ListTyped
    <3> HIDE DEF mid
    <3>4. CodeTyped(blocks')
      BY <3>1, <3>3, NewBlocksTyped
    <3>5. then \in Nat
      BY <1>0
    <3> HIDE DEF then
    <3>6. ResultTyped(pr')
      BY <3>1, <3>5, ResultsTyped
    <3> QED  BY <3>4, <3>6
  <2> QED  BY <2>1, <2>2
<1> QED  BY <1>0, <1>1, <1>5, <1>6, <1>7 DEF StaysTyped, AllTyped

(* A form ends.                                                            *)
LEMMA EndTyped ==
  ASSUME WellTyped, CloseNewScope \/ Abandon \/ EndCall PROVE StaysTyped
<1>0. /\ IsCode(blocks) /\ Len(blocks) \in Nat /\ pr.block \in 1 .. Len(blocks)
      /\ Orderly(ctx) /\ CodeTyped(blocks) /\ LabelsTyped(labels) /\ IsList(forms)
      /\ ResultTyped(pr) /\ FormsTyped(ctx, forms) /\ VarsReach(ctx, ctx)
      /\ Sound(blocks, pr, forms) /\ Kept(ctx, forms)
  BY TypedParts DEF WellTyped
<1>1. forms # <<>>
  <2>1. CASE Abandon
    <3>1. \E i \in 1 .. Len(forms) : forms[i].kind = "call"
      BY <1>0, <2>1 DEF Abandon, Sound
    <3> QED  BY <3>1, ShortLists
  <2> QED  BY <2>1 DEF CloseNewScope, EndCall, Inner
<1>2. forms' = Pop(forms) /\ labels' = labels
  BY DEF CloseNewScope, Abandon, EndCall
<1>3. FormsTyped(ctx, Pop(forms))
  BY <1>0, <1>1, FormsPop
<1>4. CASE EndCall
  <2>1. ctx' = ctx /\ blocks' = blocks /\ pr' = Result(pr.block, "int", FALSE)
    BY <1>4 DEF EndCall
  <2> QED  BY <1>0, <1>2, <1>3, <2>1, ResultsTyped DEF StaysTyped, AllTyped
<1>5. CASE CloseNewScope \/ Abandon
  <2>1. /\ blocks' = CloseScope(blocks, Back(forms).entry) /\ pr' = pr
        /\ Back(forms).kind # "call"
        /\ \/ ctx' = DeactivateNamespace(ctx, ctx.name[NS(ctx)])
           \/ ctx' = DeactivateAnonymousNamespace(ctx)
    BY <1>5 DEF CloseNewScope, Abandon, Inner
  <2>2. Len(ctx.active) > 1
    BY <1>0, <1>1, <2>1, HeightOfStack
  <2>3. Orderly(ctx') /\ VarsReach(ctx, ctx')
    BY <1>0, <2>1, <2>2, LeaveOrderly
  <2>4. Back(forms).entry \in 1 .. Len(blocks)
    BY <1>0, <1>1, Popped DEF FrameOK, Writes
  <2>5. CodeTyped(blocks')
    BY <1>0, <2>1, <2>4, CloseTyped
  <2>6. FormsTyped(ctx', forms')
    BY <1>0, <1>2, <1>3, <2>3, FormsOn
  <2> QED  BY <1>0, <1>2, <2>1, <2>3, <2>5, <2>6 DEF StaysTyped, AllTyped
<1> QED  BY <1>4, <1>5

(* A branch of an if does.                                                 *)
LEMMA BranchTyped ==
  ASSUME WellTyped, ElseBranch \/ EndIf PROVE StaysTyped
<1> DEFINE fr == Back(forms)
           gs == Pop(forms)
           bs == CloseScope(blocks, fr.entry)
           c  == DeactivateAnonymousNamespace(ctx)
<1>0. /\ IsCode(blocks) /\ Len(blocks) \in Nat /\ pr.block \in 1 .. Len(blocks)
      /\ Orderly(ctx) /\ CodeTyped(blocks) /\ LabelsTyped(labels) /\ IsList(forms)
      /\ ResultTyped(pr) /\ FormsTyped(ctx, forms) /\ VarsReach(ctx, ctx)
      /\ Sound(blocks, pr, forms) /\ Kept(ctx, forms)
  BY TypedParts DEF WellTyped
<1>1. forms # <<>> /\ fr.kind # "call" /\ labels' = labels
  BY DEF ElseBranch, EndIf, Inner
<1>2. FormsTyped(ctx, gs) /\ ResultTyped(fr.then) /\ IsList(gs)
  BY <1>0, <1>1, FormsPop, ListPop
<1>3. Len(ctx.active) > 1
  BY <1>0, <1>1, HeightOfStack
<1>4. Orderly(c) /\ VarsReach(ctx, c) /\ c.fresh = ctx.fresh
  BY <1>0, <1>3, LeaveOrderly
<1>5. fr.entry \in 1 .. Len(blocks) /\ fr.cond \in 1 .. Len(blocks)
  BY <1>0, <1>1, Popped DEF FrameOK, Writes
<1>6. IsCode(bs) /\ Len(bs) = Len(blocks) /\ CodeTyped(bs)
  BY <1>0, <1>5, CloseTyped, CloseLonger
<1>7. FormsTyped(c, gs)
  BY <1>0, <1>2, <1>4, FormsOn
<1>8. CASE ElseBranch
  <2> DEFINE alt == Frame("else", fr.entry + 1, fr.cond, pr)
  <2>1. /\ ctx.fresh \in Nodes /\ ctx' = ActivateAnonymousNamespace(c)
        /\ blocks' = bs /\ forms' = Append(gs, alt)
        /\ pr' = Result(fr.entry + 1, "void", FALSE)
    BY <1>8 DEF ElseBranch
  <2>2. alt.then = pr /\ alt.saved = {}
    BY FrameFields, FrameKind
  <2> HIDE DEF alt, c, gs, bs, fr
  <2>3. c.fresh <= MaxNodes
    BY <1>4, <2>1, SizeAssumption DEF Nodes
  <2>4. Orderly(ctx') /\ VarsReach(c, ctx')
    BY <1>4, <2>1, <2>3, AnonymousOrderly
  <2>5. FormsTyped(c, Append(gs, alt))
    BY <1>0, <1>2, <1>4, <1>7, <2>2, FormsPush
  <2>6. FormsTyped(ctx', forms')
    BY <1>4, <2>1, <2>4, <2>5, FormsOn
  <2>7. ResultTyped(pr')
    <3>1. fr.entry + 1 \in Nat
      BY <1>0, <1>5
    <3> QED  BY <2>1, <3>1, ResultsTyped
  <2> QED  BY <1>0, <1>1, <1>6, <2>1, <2>4, <2>6, <2>7 DEF StaysTyped, AllTyped
<1>9. CASE EndIf
  <2> DEFINE both == {fr.then, pr}
             goOn == {r \in both : GoesOn(bs, r)}
             type == IF \A r \in goOn : r.type = "int" THEN "int" ELSE "void"
             ends == {r.block : r \in goOn}
             phi  == IF goOn = both /\ type = "int" THEN <<Instr("phi", {}, ends)>> ELSE <<>>
  <2>1. /\ ctx' = c /\ forms' = gs
        /\ \/ blocks' = bs /\ pr' = Result(fr.cond, "void", FALSE)
           \/ blocks' = Join(bs, ends, phi) /\ pr' = Result(Len(bs) + 1, type, FALSE)
    BY <1>9 DEF EndIf
  <2>2. ListTyped(phi)
    BY OneTyped DEF Ops
  <2>3. type \in {"void", "int", "error"}
    OBVIOUS
  <2> HIDE DEF phi, ends, type, both, goOn, c, gs, bs, fr
  <2>4. CodeTyped(Join(bs, ends, phi))
    BY <1>6, <2>2, JoinTyped
  <2>5. CodeTyped(blocks')
    BY <1>6, <2>1, <2>4
  <2>6. ResultTyped(pr')
    <3>1. fr.cond \in Nat /\ Len(bs) + 1 \in Nat
      BY <1>0, <1>5, <1>6
    <3> QED  BY <2>1, <2>3, <3>1, ResultsTyped
  <2> QED  BY <1>0, <1>1, <1>4, <1>7, <2>1, <2>5, <2>6 DEF StaysTyped, AllTyped
<1> QED  BY <1>8, <1>9

(* A call turns out to be a macro's.                                       *)
LEMMA RestoreTyped ==
  ASSUME WellTyped, RestoreCall PROVE StaysTyped
<1>0. /\ IsCode(blocks) /\ Len(blocks) \in Nat /\ IsList(forms)
      /\ Orderly(ctx) /\ FormsTyped(ctx, forms)
      /\ Sound(blocks, pr, forms) /\ Kept(ctx, forms)
  BY TypedParts DEF WellTyped
<1>1. forms # <<>> /\ forms' = Pop(forms) /\ pr' = Result(Back(forms).entry, "void", FALSE)
  BY DEF RestoreCall, Inner
<1>2. PICK s \in Back(forms).saved : ctx' = RestoreContext(ctx, s.ctx)
  BY DEF RestoreCall
<1>3. blocks' = s.blocks /\ labels' = s.labels
  BY <1>0, RestoreSound
<1>4. /\ Orderly(s.ctx) /\ CodeTyped(s.blocks) /\ LabelsTyped(s.labels)
      /\ VarsReach(s.ctx, ctx) /\ FormsTyped(s.ctx, Pop(forms))
  BY <1>0, <1>1, FormsPop
<1>5. Len(s.ctx.active) <= Len(ctx.active)
  BY <1>0, <1>1, HeightOfStack
<1>6. InUse(RestoreContext(ctx, s.ctx))
  BY <1>0, <1>1, KeptRestore DEF Kept
<1>7. Orderly(ctx') /\ VarsReach(s.ctx, ctx')
  BY <1>0, <1>2, <1>4, <1>5, <1>6, RestoreOrderly
<1>8. FormsTyped(ctx', forms')
  BY <1>1, <1>4, <1>7, FormsOn
<1>9. ResultTyped(pr')
  <2>1. Back(forms).entry \in Nat
    <3>1. Back(forms).entry \in 1 .. Len(blocks)
      BY <1>0, <1>1, Popped DEF FrameOK, Writes
    <3> QED  BY <1>0, <3>1
  <2> QED  BY <1>1, <2>1, ResultsTyped
<1> QED  BY <1>3, <1>4, <1>7, <1>8, <1>9 DEF StaysTyped, AllTyped

-----------------------------------------------------------------------------
(***************************************************************************)
(* The finished code.                                                      *)
(***************************************************************************)
InstrFits(i, n)      == InstrTyped(i) /\ i.to \subseteq 1 .. n
CodeFits(bs, n) == \A b \in 1 .. Len(bs) : \A k \in 1 .. Len(bs[b]) : InstrFits(bs[b][k], n)
ListFits(s, n)  == IsList(s) /\ \A k \in 1 .. Len(s) : InstrFits(s[k], n)

(* Code that only branches to the first n blocks.                          *)
LEMMA FitsAppend ==
  ASSUME NEW s, NEW i, NEW n, ListFits(s, n), InstrFits(i, n) PROVE ListFits(Append(s, i), n)
<1>1. /\ IsList(Append(s, i)) /\ Len(Append(s, i)) = Len(s) + 1 /\ Len(s) \in Nat
      /\ \A k \in 1 .. Len(s) : Append(s, i)[k] = s[k]
      /\ Append(s, i)[Len(s) + 1] = i
  BY ListAppend, ListLen DEF ListFits
<1>2. \A k \in 1 .. Len(Append(s, i)) : k \in 1 .. Len(s) \/ k = Len(s) + 1
  BY <1>1
<1> QED  BY <1>1, <1>2 DEF ListFits

LEMMA FitsConcat ==
  ASSUME NEW s, NEW t, NEW n, ListFits(s, n), ListFits(t, n) PROVE ListFits(s \o t, n)
<1>1. /\ IsList(s \o t)
      /\ \A k \in 1 .. Len(s \o t) : \/ \E i \in 1 .. Len(s) : (s \o t)[k] = s[i]
                                     \/ \E i \in 1 .. Len(t) : (s \o t)[k] = t[i]
  BY ListConcat, EndingConcat DEF ListFits
<1> QED  BY <1>1 DEF ListFits

LEMMA FitsCalls ==
  ASSUME NEW n, NEW objs \in SUBSET Objects PROVE ListFits(Calls("destroy", objs), n)
<1>1. ListTyped(Calls("destroy", objs))
  BY CallsTyped DEF Ops
<1>2. \A k \in 1 .. Len(Calls("destroy", objs)) : Calls("destroy", objs)[k].to = {}
  BY CallsPlain
<1> QED  BY <1>1, <1>2 DEF ListFits, ListTyped, InstrFits

(* A goto becomes destructor calls and a branch to its label.              *)
LEMMA ResolvedFits ==
  ASSUME Orderly(ctx), Targets(blocks, labels), NEW i, InstrFits(i, Len(blocks)),
         i.op = "goto" => LabelNamed(i.label) # {} /\ i.ns \in Nodes
  PROVE  ListFits(Resolved(i), Len(blocks))
<1>1. CASE i.op # "goto"
  <2>1. Resolved(i) = <<i>>
    BY <1>1 DEF Resolved
  <2> QED  BY <2>1, OneList DEF ListFits
<1>2. CASE i.op = "goto"
  <2> DEFINE lab  == CHOOSE r \in labels : r.name = i.label
             objs == VarsOf(ctx, Walked(i, lab))
             br   == Br(lab.block)
  <2>1. lab \in labels
    BY <1>2 DEF LabelNamed
  <2>2. Resolved(i) = Calls("destroy", objs) \o <<br>>
    BY <1>2 DEF Resolved
  <2> HIDE DEF lab
  <2>3. br.to \subseteq 1 .. Len(blocks)
    <3>1. lab.block \in 1 .. Len(blocks)
      BY <2>1 DEF Targets
    <3>2. br.to = {lab.block}
      BY PlainInstr
    <3> QED  BY <3>1, <3>2
  <2>4. objs \subseteq Objects
    <3>1. Walked(i, lab) \subseteq Nodes
      BY <1>2, ObjectsOf DEF Walked
    <3> QED  BY <3>1, ObjectsOf
  <2>5. InstrTyped(br)
    BY OneTyped
  <2> HIDE DEF objs, br
  <2>6. ListFits(<<br>>, Len(blocks))
    BY <2>3, <2>5, OneList DEF ListFits, InstrFits
  <2> QED  BY <2>2, <2>4, <2>6, FitsCalls, FitsConcat
<1> QED  BY <1>1, <1>2

(* And so for the whole code, whose blocks are terminated and then cut off *)
(* after their first terminators.                                          *)
LEMMA FinishFits ==
  ASSUME WellTyped, Refs, Flowing(blocks, labels, pr, forms), Finish
  PROVE  Len(blocks') = Len(blocks) /\ CodeFits(blocks', Len(blocks))
<1> DEFINE n == Len(blocks)
<1>0. Sound(blocks, pr, forms) /\ Orderly(ctx) /\ CodeTyped(blocks) /\ WF(ctx)
  BY TypedParts DEF WellTyped, Orderly
<1>1. /\ forms = <<>> /\ \A g \in Gotos : ~Rejected(g)
  BY DEF Finish
<1>2. /\ IsCode(blocks) /\ n \in Nat /\ Targets(blocks, labels)
      /\ \A b \in 1 .. n : \A k \in 1 .. Len(blocks[b]) :
           blocks[b][k].op = "goto" => LabelNamed(blocks[b][k].label) # {}
  BY <1>0, <1>1, ParsedBody
<1>3. /\ Len(blocks') = n
      /\ \A b \in 1 .. n : \E l :
           /\ Laid(l, blocks[b])
           /\ IsList(Closing(b, l)) /\ Cuts(blocks'[b], Closing(b, l))
  BY <1>0, FinishedBlocks
<1>4. ctx.live \subseteq Nodes
  BY <1>0, FieldTypes DEF WF
<1>5. \A b \in 1 .. n : \A k \in 1 .. Len(blocks[b]) : ListFits(Resolved(blocks[b][k]), n)
  <2> TAKE b \in 1 .. n
  <2> TAKE k \in 1 .. Len(blocks[b])
  <2>1. InstrFits(blocks[b][k], n)
    BY <1>0, <1>2 DEF InstrFits, CodeTyped, Targets
  <2>2. blocks[b][k].op = "goto" => blocks[b][k].ns \in Nodes
    BY <1>4 DEF Refs, RefersTo, GotosIn
  <2> QED  BY <1>0, <1>2, <2>1, <2>2, ResolvedFits
<1>6. ASSUME NEW b \in 1 .. n, NEW l, Laid(l, blocks[b])
      PROVE  ListFits(Closing(b, l), n)
  <2> DEFINE old == blocks[b]
             s   == ResolveDeferredGotos(l)
             objs == ClosedByReturn(ctx)
  <2>1. ListFits(s, n)
    <3>0. IsList(old) /\ \A k \in 1 .. Len(old) :
                           old[k].op = "goto" => LabelNamed(old[k].label) # {}
      BY <1>2 DEF IsCode
    <3>1. \A j \in 1 .. Len(old) : ListFits(Resolved(old[j]), n)
      BY <1>5
    <3>2. IsList(l) /\ \A k \in 1 .. Len(l) : \E j \in 1 .. Len(old) : l[k] = old[j]
      BY <1>6, <3>0, LaidBlock
    <3> HIDE DEF old, n
    <3>3. ResolvedTo(s, l)
      BY <3>0, <3>2, ResolvedBlock
    <3>4. \A j \in 1 .. Len(l) : ListFits(Resolved(l[j]), n)
      BY <3>1, <3>2
    <3> HIDE DEF s
    <3> QED  BY <3>3, <3>4 DEF ResolvedTo, MadeOf, ListFits
  <2>2. objs \subseteq Objects
    BY <1>0, ObjectsOf
  <2>3. InstrFits(Ret, n)
    BY OneTyped, PlainInstr DEF InstrFits
  <2>4. b < n => InstrFits(Br(b + 1), n)
    <3>1. b < n => {b + 1} \subseteq 1 .. n
      BY <1>2
    <3>2. Br(b + 1).to = {b + 1} /\ InstrTyped(Br(b + 1))
      BY OneTyped, PlainInstr
    <3> HIDE DEF n
    <3> QED  BY <3>1, <3>2 DEF InstrFits
  <2>5. Closing(b, l) = IF Terminated(s) THEN s
                        ELSE IF b < n THEN Append(s, Br(b + 1))
                        ELSE Append(s \o Calls("destroy", objs), Ret)
    BY DEF Closing, CloseFunction
  <2> HIDE DEF s, old, objs, n
  <2>6. ListFits(s \o Calls("destroy", objs), n)
    BY <2>1, <2>2, FitsCalls, FitsConcat
  <2>7. ListFits(Append(s \o Calls("destroy", objs), Ret), n)
    BY <2>3, <2>6, FitsAppend
  <2>8. b < n => ListFits(Append(s, Br(b + 1)), n)
    BY <2>1, <2>4, FitsAppend
  <2> QED  BY <2>1, <2>5, <2>7, <2>8
<1>7. ASSUME NEW b \in 1 .. n, NEW k \in 1 .. Len(blocks'[b]) PROVE InstrFits(blocks'[b][k], n)
  <2>0. PICK l : /\ Laid(l, blocks[b])
                 /\ IsList(Closing(b, l)) /\ Cuts(blocks'[b], Closing(b, l))
    BY <1>3
  <2> DEFINE p == blocks'[b]
             c == Closing(b, l)
  <2>1. IsList(c) /\ Cuts(p, c) /\ ListFits(c, n)
    BY <1>6, <2>0
  <2> HIDE DEF p, c, n
  <2>2. k \in 1 .. Len(c) /\ p[k] = c[k]
    <3>1. PICK m \in 1 .. Len(c) : Len(p) = m /\ \A j \in 1 .. m : p[j] = c[j]
      BY <2>1 DEF Cuts
    <3>2. Len(c) \in Nat
      BY <2>1, ListLen
    <3>3. k \in 1 .. m
      BY <3>1 DEF p
    <3> QED  BY <3>1, <3>2, <3>3
  <2> QED  BY <2>1, <2>2 DEF ListFits, p
<1> QED  BY <1>3, <1>7 DEF CodeFits
-----------------------------------------------------------------------------
(***************************************************************************)
(* The machine.                                                            *)
(***************************************************************************)
AtStart == [phase |-> "parse", block |-> 1, at |-> 1, values |-> NoValues]

(* While forms are parsed, nothing has been executed; and then the machine *)
(* is at an instruction of the finished code.                              *)
TypeInv ==
  /\ Parsing => /\ AllTyped(ctx, blocks, labels, pr, forms) /\ count \in 0 .. MaxForms
                /\ run = AtStart
  /\ ~Parsing => TypeOK
  /\ run.phase = "run" =>
       CodeFits(blocks, Len(blocks)) /\ run.at \in 1 .. Len(blocks[run.block])

LEMMA ResultFits ==
  ASSUME NEW r, ResultTyped(r), r.block \in Blocks PROVE r \in Results
BY DEF ResultTyped, Results

(* What is known of the parsed body is what its type says.                 *)
LEMMA ParsedTypes ==
  ASSUME WellTyped, Refs, Flowing(blocks, labels, pr, forms), count \in 0 .. MaxForms,
         run = AtStart
  PROVE  TypeOK
<1>0. /\ Len(blocks) \in Nat /\ pr.block \in 1 .. Len(blocks) /\ IsList(forms)
      /\ Orderly(ctx) /\ CodeTyped(blocks) /\ LabelsTyped(labels) /\ ResultTyped(pr)
      /\ FormsTyped(ctx, forms) /\ ctx \in ContextType
      /\ Placed(blocks, pr.block, forms, Len(forms))
  BY TypedParts, SoundTypes DEF WellTyped
<1>1. Targets(blocks, labels)
  BY DEF Flowing, Flows
<1>2. \A b \in Blocks : \A k \in 1 .. Len(blocks[b]) :
        LET i == blocks[b][k]
        IN  i.op \in Ops /\ i.objs \subseteq Objects /\ i.to \subseteq 1 .. Len(blocks) + 1
  <2>1. 1 .. Len(blocks) \subseteq 1 .. Len(blocks) + 1
    BY <1>0
  <2> QED  BY <1>0, <1>1, <2>1 DEF Blocks, CodeTyped, InstrTyped, Targets
<1>3. \A lab \in labels : lab.name \in LabelNames /\ lab.block \in Blocks
                          /\ lab.ns \in ctx.live /\ lab.index \in Nat
  BY <1>0, <1>1 DEF LabelsTyped, Targets, Refs, RefersTo, Blocks
<1>4. pr \in Results
  BY <1>0, ResultFits DEF Blocks
<1>5. \A i \in 1 .. Len(forms) :
        forms[i].entry \in Blocks /\ forms[i].cond \in Blocks /\ forms[i].then \in Results
  <2> TAKE i \in 1 .. Len(forms)
  <2>1. /\ forms[i].entry \in Blocks /\ forms[i].cond \in Blocks
        /\ forms[i].then.block \in Blocks
    BY <1>0 DEF Placed, FrameOK, Writes, Blocks
  <2>2. ResultTyped(forms[i].then)
    BY <1>0 DEF FormsTyped, FormTyped
  <2> QED  BY <2>1, <2>2, ResultFits
<1>6. run \in [phase : {"parse", "rejected", "run", "returned"}, block : Blocks,
               at : Nat, values : [Objects -> Int]]
  <2>1. 1 \in Blocks
    BY <1>0 DEF Blocks
  <2>2. NoValues \in [Objects -> Int]
    BY DEF NoValues
  <2> HIDE DEF NoValues
  <2> QED  BY <2>1, <2>2 DEF AtStart
<1> QED  BY <1>0, <1>2, <1>3, <1>4, <1>5, <1>6 DEF TypeOK

LEMMA InitTyped == ASSUME Init PROVE TypeInv
<1>1. PICK ps \in Parameters, inner \in {{}} \cup {{nm} : nm \in NsNames} :
        /\ "namespace" \in Uses \/ inner = {}
        /\ ctx = LET c == EmptyContext(1000)
                     d == IF inner = {} THEN c
                          ELSE ActivateNamespace(c, CHOOSE nm \in inner : TRUE)
                 IN  BeginFn(d, CHOOSE nm \in FunNames : TRUE, ps)
        /\ blocks = <<Calls("init", VarsOf(ctx, {NS(ctx)}))>>
        /\ labels = {} /\ forms = <<>> /\ count = 0
        /\ pr = Result(1, "void", FALSE)
        /\ run = [phase |-> "parse", block |-> 1, at |-> 1, values |-> NoValues]
  BY Zenon DEF Init
<1>2. Orderly(ctx)
  <2> DEFINE c == EmptyContext(1000)
             d == IF inner = {} THEN c ELSE ActivateNamespace(c, CHOOSE nm \in inner : TRUE)
             f == CHOOSE nm \in FunNames : TRUE
  <2>1. ctx = BeginFn(d, f, ps)
    BY <1>1
  <2>2. Orderly(c) /\ c.fresh = 2 /\ c.nextfn = 1
    BY EmptyOrderly
  <2>3. f \in FunNames
    BY RoomAssumption
  <2> HIDE DEF c, f
  <2>4. Orderly(d) /\ d.fresh <= 3 /\ d.nextfn = 1
    <3>1. CASE inner = {}
      BY <2>2, <3>1
    <3>2. CASE inner # {}
      <4>1. PICK nm \in NsNames : inner = {nm}
        BY <3>2
      <4>2. d = ActivateNamespace(c, nm)
        BY <4>1
      <4>3. c.fresh <= MaxNodes
        BY <2>2, RoomAssumption, SizeAssumption
      <4> QED  BY <2>2, <4>2, <4>3, NamedOrderly
    <3> QED  BY <3>1, <3>2
  <2> HIDE DEF d
  <2>5. d.fresh \in Nat /\ d.fresh + 2 <= MaxNodes + 1 /\ d.nextfn \in Fns
    <3>1. d.fresh \in Nat
      BY <2>4, Parts DEF Orderly
    <3> QED  BY <2>4, <3>1, RoomAssumption, SizeAssumption DEF Fns
  <2> QED  BY <2>1, <2>3, <2>4, <2>5, BeginFnOrderly
<1>3. CodeTyped(blocks)
  <2> DEFINE code == Calls("init", VarsOf(ctx, {NS(ctx)}))
  <2>1. {NS(ctx)} \subseteq Nodes
    BY <1>2, Parts DEF Orderly
  <2>2. ListTyped(code)
    BY <1>2, <2>1, ObjectsOf, CallsTyped DEF Ops
  <2>3. blocks = <<code>>
    BY <1>1
  <2> HIDE DEF code
  <2>4. Len(<<code>>) = 1 /\ <<code>>[1] = code
    BY ShortLists
  <2>5. \A b \in 1 .. Len(blocks) : b = 1
    BY <2>3, <2>4
  <2> QED  BY <2>2, <2>3, <2>4, <2>5 DEF CodeTyped, ListTyped
<1>4. FormsTyped(ctx, forms)
  <2>1. Len(forms) = 0
    BY <1>1, ShortLists
  <2> QED  BY <2>1 DEF FormsTyped, ReachesAll
<1>5. LabelsTyped(labels) /\ ResultTyped(pr)
  BY <1>1, ResultsTyped DEF LabelsTyped
<1>6. run = AtStart /\ Parsing /\ run.phase # "run"
  BY <1>1 DEF AtStart, Parsing
<1>7. count \in 0 .. MaxForms
  BY <1>1, FormsAssumption
<1> QED  BY <1>2, <1>3, <1>4, <1>5, <1>6, <1>7 DEF TypeInv, AllTyped

(* The body has been parsed, and the function is done or rejected.         *)
LEMMA EndOfBodyTyped ==
  ASSUME IInv, LiveInv, FlowInv, FlowInv', TypeInv, Finish \/ Reject
  PROVE  TypeInv'
<1>1. Parsing
  BY DEF Finish, Reject
<1>2. /\ WellTyped /\ Refs /\ Flowing(blocks, labels, pr, forms) /\ run = AtStart
      /\ Sound(blocks, pr, forms)
  BY <1>1 DEF IInv, LiveInv, FlowInv, TypeInv, WellTyped, Refs
<1>3. TypeOK
  BY <1>1, <1>2, ParsedTypes DEF TypeInv
<1>4. UNCHANGED <<labels, pr, forms, count>>
  BY DEF Finish, Reject
<1>5. /\ ctx' \in ContextType /\ ctx'.live = ctx.live /\ Len(blocks') = Len(blocks)
      /\ run' \in [phase : {"rejected", "run"}, block : Blocks, at : Nat,
                   values : [Objects -> Int]]
      /\ \A b \in Blocks : \A k \in 1 .. Len(blocks'[b]) :
           LET i == blocks'[b][k]
           IN  i.op \in Ops /\ i.objs \subseteq Objects /\ i.to \subseteq 1 .. Len(blocks) + 1
      /\ run'.phase = "run" => /\ CodeFits(blocks', Len(blocks'))
                               /\ run'.at \in 1 .. Len(blocks'[run'.block])
  <2>0. NoValues \in [Objects -> Int] /\ 1 \in Blocks /\ Len(blocks) \in Nat
    <3>1. 1 \in Blocks /\ Len(blocks) \in Nat
      BY <1>2, SoundTypes DEF Blocks
    <3> QED  BY <3>1 DEF NoValues
  <2> HIDE DEF NoValues
  <2>1. CASE Reject
    <3>1. ctx' = ctx /\ blocks' = blocks /\ run' = [AtStart EXCEPT !.phase = "rejected"]
      BY <1>2, <2>1 DEF Reject
    <3> QED  BY <1>3, <2>0, <3>1 DEF TypeOK, AtStart
  <2>2. CASE Finish
    <3>1. run' = [AtStart EXCEPT !.phase = "run"]
      BY <1>2, <2>2 DEF Finish
    <3>2. run'.phase = "run" /\ run'.at = 1 /\ run'.block = 1
      BY <3>1 DEF AtStart
    <3>3. Len(blocks') = Len(blocks) /\ CodeFits(blocks', Len(blocks))
      BY <1>2, <2>2, FinishFits
    <3>4. 1 \in 1 .. Len(blocks'[1])
      <4>1. Whole(blocks'[1])
        BY <2>0, <3>2, <3>3 DEF FlowInv, WholeCode, Blocks
      <4> QED  BY <4>1, ListPop DEF Whole
    <3>5. ctx' \in ContextType /\ ctx'.live = ctx.live
      <4> DEFINE e == [ctx EXCEPT !.scopes = Pop(@)]
      <4>1. ctx' = DeactivateNamespace(e, ctx.name[NS(ctx)])
        BY <2>2 DEF Finish, LeaveBody
      <4>2. /\ ctx \in ContextType /\ ctx.active \in Seq(Nodes) /\ ctx.active # <<>>
            /\ ctx.used = ctx.active /\ ctx.scopes \in Seq(Fns)
        BY <1>2, TypedParts, StackLengths, FieldTypes DEF Orderly, WF
      <4>3. Pop(ctx.active) \in Seq(Nodes)
        BY <4>2, PopType
      <4>4. Pop(ctx.scopes) \in Seq(Fns)
        <5>1. CASE ctx.scopes = <<>>
          BY <5>1, SubSeqProperties DEF Pop
        <5> QED  BY <4>2, <5>1, PopType
      <4>5. /\ e \in ContextType /\ e.live = ctx.live /\ e.active = ctx.active
            /\ e.used = ctx.used /\ e.name = ctx.name
        BY <4>2, <4>4 DEF ContextType
      <4> HIDE DEF e
      <4>6. ctx' = [e EXCEPT !.active = Pop(@), !.used = Pop(@)]
        BY <4>1, <4>2, <4>5 DEF DeactivateNamespace, NS
      <4> QED  BY <4>2, <4>3, <4>5, <4>6 DEF ContextType
    <3>6. 1 .. Len(blocks) \subseteq 1 .. Len(blocks) + 1
      BY <2>0
    <3> QED  BY <2>0, <3>1, <3>2, <3>3, <3>4, <3>5, <3>6
             DEF AtStart, CodeFits, InstrFits, InstrTyped, Blocks
  <2> QED  BY <2>1, <2>2
<1>6. TypeOK'
  BY <1>3, <1>4, <1>5 DEF TypeOK, Blocks, Results
<1>7. ~Parsing'
  BY <1>5 DEF Parsing
<1> QED  BY <1>5, <1>6, <1>7 DEF TypeInv

(* The machine stays within the code: the last instruction of a block is   *)
(* its terminator.                                                         *)
LEMMA StepTyped ==
  ASSUME FlowInv, TypeInv, Step PROVE TypeInv'
<1>1. run.phase = "run" /\ UNCHANGED <<ctx, blocks, labels, pr, forms, count>>
  BY DEF Step, StepCall, StepBranch, StepReturn, Running
<1>2. /\ TypeOK /\ CodeFits(blocks, Len(blocks)) /\ run.at \in 1 .. Len(blocks[run.block])
      /\ WholeCode
  BY <1>1 DEF TypeInv, FlowInv, Parsing
<1>3. run \in [phase : {"parse", "rejected", "run", "returned"}, block : Blocks,
               at : Nat, values : [Objects -> Int]]
  BY <1>2 DEF TypeOK
<1>4. Whole(blocks[run.block]) /\ Len(blocks[run.block]) \in Nat
  BY <1>2, <1>3, ListLen DEF WholeCode, Whole
<1>5. /\ run' \in [phase : {"run", "returned"}, block : Blocks, at : Nat,
                   values : [Objects -> Int]]
      /\ run'.phase = "run" => run'.at \in 1 .. Len(blocks[run'.block])
  <2>1. CASE StepCall
    <3> DEFINE vs == Add(Here.objs, IF Here.op = "init" THEN 1 ELSE -1)
    <3>1. run' = [run EXCEPT !.at = @ + 1, !.values = vs]
      BY <2>1 DEF StepCall
    <3>2. vs \in [Objects -> Int]
      <4>1. \A o \in Objects : run.values[o] \in Int
        BY <1>3
      <4> QED  BY <4>1 DEF Add
    <3> HIDE DEF vs
    <3>3. run.at # Len(blocks[run.block])
      <4>1. Back(blocks[run.block]) = blocks[run.block][Len(blocks[run.block])]
        BY <1>4, ListPop DEF Whole
      <4> QED  BY <1>4, <2>1, <4>1 DEF StepCall, Running, Here, Whole, IsTerminator
    <3>4. run.at + 1 \in 1 .. Len(blocks[run.block]) /\ run.at + 1 \in Nat
      BY <1>2, <1>4, <3>3
    <3> QED  BY <1>1, <1>3, <3>1, <3>2, <3>4
  <2>2. CASE StepBranch
    <3>1. PICK b \in Here.to : run' = [run EXCEPT !.block = b, !.at = 1]
      BY <2>2 DEF StepBranch
    <3>2. b \in Blocks
      BY <1>2, <1>3, <3>1 DEF CodeFits, InstrFits, Here, Blocks
    <3>3. 1 \in 1 .. Len(blocks[b])
      BY <1>2, <3>2, ListPop DEF WholeCode, Whole
    <3> QED  BY <1>1, <1>3, <3>1, <3>2, <3>3
  <2>3. CASE StepReturn
    <3>1. run' = [run EXCEPT !.phase = "returned"]
      BY <2>3 DEF StepReturn
    <3> QED  BY <1>3, <3>1
  <2> QED  BY <2>1, <2>2, <2>3 DEF Step
<1>6. TypeOK'
  BY <1>1, <1>2, <1>5 DEF TypeOK, Blocks, Results
<1>7. ~Parsing'
  BY <1>5 DEF Parsing
<1> QED  BY <1>1, <1>2, <1>5, <1>6, <1>7 DEF TypeInv

LEMMA NextTyped ==
  ASSUME IInv, LiveInv, FlowInv, FlowInv', TypeInv, [Next]_vars PROVE TypeInv'
<1>1. CASE UNCHANGED vars
  BY <1>1 DEF vars, TypeInv, TypeOK, Parsing, Blocks, Results, CodeFits
<1>2. CASE Finish \/ Reject
  BY <1>2, EndOfBodyTyped
<1>3. CASE Step
  BY <1>3, StepTyped
<1>4. CASE Next /\ ~Step /\ ~Finish /\ ~Reject
  <2>1. /\ Parsing /\ UNCHANGED run
        /\ count' = count \/ (count < MaxForms /\ count' = count + 1)
    BY <1>4 DEF Next, Define, Value, Return, Label, GotoKnown, GotoDeferred, OpenNewScope,
                CloseNewScope, OpenIf, ElseBranch, EndIf, BeginCall, Fail, Abandon,
                EndCall, RestoreCall, Parse
  <2>2. WellTyped /\ run = AtStart /\ count \in 0 .. MaxForms
    BY <2>1 DEF IInv, LiveInv, TypeInv, WellTyped
  <2>3. StaysTyped
    <3>1. ASSUME Define \/ Value \/ Return \/ Fail PROVE StaysTyped
      BY <2>2, <3>1, StraightTyped
    <3>2. ASSUME NEW l \in LabelNames, Label(l) \/ GotoKnown(l) \/ GotoDeferred(l)
          PROVE  StaysTyped
      BY <2>2, <3>2, LabelTyped, GotoTyped
    <3>3. ASSUME OpenNewScope \/ BeginCall \/ OpenIf PROVE StaysTyped
      BY <2>2, <3>3, OpenTyped
    <3>4. ASSUME CloseNewScope \/ Abandon \/ EndCall PROVE StaysTyped
      BY <2>2, <3>4, EndTyped
    <3>5. ASSUME ElseBranch \/ EndIf \/ RestoreCall PROVE StaysTyped
      BY <2>2, <3>5, BranchTyped, RestoreTyped
    <3> QED  BY <1>4, <3>1, <3>2, <3>3, <3>4, <3>5 DEF Next
  <2>4. count' \in 0 .. MaxForms
    BY <2>1, <2>2, FormsAssumption
  <2>5. Parsing' /\ run'.phase # "run"
    BY <2>1 DEF Parsing
  <2> QED  BY <2>1, <2>2, <2>3, <2>4, <2>5 DEF TypeInv, StaysTyped, AtStart
<1> QED  BY <1>1, <1>2, <1>3, <1>4

(* The parts of a function's state are always of their types: what is      *)
(* emitted refers to variables that can be declared, and, like labels,     *)
(* forms and results, to blocks of the function.                           *)
THEOREM BodyTyped == Spec => []TypeOK
<1>1. Init => TypeInv
  BY InitTyped
<1>2. IInv /\ LiveInv /\ FlowInv /\ FlowInv' /\ TypeInv /\ [Next]_vars => TypeInv'
  BY NextTyped
<1>3. IInv /\ LiveInv /\ FlowInv /\ TypeInv => TypeOK
  BY ParsedTypes DEF IInv, LiveInv, FlowInv, TypeInv, WellTyped, Refs
<1> QED  BY <1>1, <1>2, <1>3, CodeInvariant, NamespacesOutlive, FlowInvariant, PTL DEF Spec
=============================================================================
