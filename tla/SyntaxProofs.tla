---------------------------- MODULE SyntaxProofs ----------------------------
(***************************************************************************)
(* That the lexer and the parser lose nothing, whatever the files are, and *)
(* that the atoms they read go through macros unchanged.                   *)
(***************************************************************************)
EXTENDS Syntax, SequenceTheorems, FiniteSetTheorems, TLAPS

-----------------------------------------------------------------------------
(***************************************************************************)
(* The invariant of the lexer.                                             *)
(***************************************************************************)
(* Characters, and what is written as one (literals are strings, but the   *)
(* provers do not know that).                                              *)
Letters == STRING \cup {Eof, Quote, Slash}
Kinds  == Atoms \cup {"(", ")", Eof, Null}
Words  == [type : Kinds, str : Seq(Letters)]
Read   == [type : Kinds, str : Seq(Letters), error : BOOLEAN]
Modes  == [in : {"token"}, type : {Null, "Int", "String"}, str : Seq(Letters)]
          \cup [in : {"line", "after"}]
          \cup [in : {"block"}, depth : Int, last : Letters]
          \cup [in : {"string", "escape"}, str : Seq(Letters)]

LexTypes == /\ file \in Files /\ pos \in 0 .. Len(file) /\ lex \in Modes
            /\ tokens \in Seq(Words)

(* What begins with a digit, or with a minus and a digit.                  *)
Numeral(s) == s[1] \in Digits \/ (Len(s) > 1 /\ s[1] = "-" /\ s[2] \in Digits)

(* What has been read of a token.                                          *)
Sofar(l) ==
  l.in = "token" =>
    /\ l.type = Null <=> l.str = <<>>
    /\ l.type = "Int" => Numeral(l.str) \/ l.str = <<"-">>
    /\ l.type = "String" => ~Numeral(l.str) /\ l.str[1] # Quote /\ l.str # <<"-">>
LexInv ==
  /\ Sofar(lex)
  /\ lex.in = "token" /\ lex.type # Null => pos > 0

(* An atom goes through a macro unchanged.                                 *)
Converts(t) == t.type \in Atoms => AtomToNode(DNodeString(t)) = t

-----------------------------------------------------------------------------
(***************************************************************************)
(* The invariant of the parser: h are the nodes, ts the tokens, op the     *)
(* open lists and fs the forms.                                            *)
(***************************************************************************)
Node == [token : Words, list : Seq(Nat), begin : Nat, end : Nat]

ParserTypes == /\ nodes \in Seq(Node) /\ open \in Seq(Nat) /\ forms \in Seq(Nat)
               /\ skip \in Nat

IsTokenIn(h, i) == h[i].token.type # Null
AfterIn(h, l, from, k) == IF k = 0 THEN from ELSE h[l[k]].end + 1

(* The kth node of l has its place, and only the last one may be open.     *)
Item(h, l, from, k) ==
  /\ l[k] \in 1 .. Len(h)
  /\ h[l[k]].begin = AfterIn(h, l, from, k - 1)
  /\ k < Len(l) => h[l[k]].end # 0
Row(h, l, from) == \A k \in 1 .. Len(l) : Item(h, l, from, k)
(* The last one has been closed as well, and is followed by the token to.  *)
Reaches(h, l, from, to) == /\ l # <<>> => h[l[Len(l)]].end # 0
                           /\ AfterIn(h, l, from, Len(l)) = to

Tree(h, ts, op, i) ==
  /\ h[i].begin \in 1 .. Len(ts)
  /\ Row(h, h[i].list, h[i].begin + 1)
  /\ IsTokenIn(h, i) => h[i].begin = h[i].end /\ h[i].token = ts[h[i].begin]
  /\ ~IsTokenIn(h, i) => ts[h[i].begin].type = "("
  /\ ~IsTokenIn(h, i) /\ h[i].end # 0 =>
       /\ h[i].begin < h[i].end /\ h[i].end <= Len(ts) /\ ts[h[i].end].type = ")"
       /\ Reaches(h, h[i].list, h[i].begin + 1, h[i].end)
  /\ h[i].end = 0 => \E d \in 1 .. Len(op) : op[d] = i
(* An open list: the next one is the last in it.                           *)
Opened(h, ts, op, d) ==
  /\ op[d] \in 1 .. Len(h) /\ ~IsTokenIn(h, op[d]) /\ h[op[d]].end = 0
  /\ \A e \in 1 .. d - 1 : op[e] < op[d]
  /\ d < Len(op) => /\ h[op[d]].list # <<>>
                    /\ h[op[d]].list[Len(h[op[d]].list)] = op[d + 1]
  /\ d = Len(op) => Reaches(h, h[op[d]].list, h[op[d]].begin + 1, Len(ts) + 1)
Formed(h, ts, op, fs) ==
  /\ Row(h, fs, 1)
  /\ Reaches(h, fs, 1, IF op = <<>> THEN Len(ts) + 1 ELSE h[op[1]].begin)

Good(h, ts, op, fs) ==
  /\ \A i \in 1 .. Len(h) : Tree(h, ts, op, i)
  /\ \A d \in 1 .. Len(op) : Opened(h, ts, op, d)
  /\ Formed(h, ts, op, fs)
ParserInv == /\ at = "skip" => errors # {}
             /\ errors = {} => Good(nodes, tokens, open, forms)

-----------------------------------------------------------------------------
(***************************************************************************)
(* Rows of nodes.                                                          *)
(***************************************************************************)
LEMMA NotEmpty == ASSUME NEW s, Len(s) # 0 PROVE s # <<>>
BY EmptySeq

LEMMA NodeParts ==
  ASSUME NEW h \in Seq(Node), NEW i \in 1 .. Len(h)
  PROVE  /\ h[i].list \in Seq(Nat) /\ h[i].begin \in Nat /\ h[i].begin + 1 \in Nat
         /\ h[i].end \in Nat /\ h[i].token \in Words
<1>1. h[i] \in Node
  BY ElementOfSeq
<1> QED  BY <1>1 DEF Node

LEMMA LastAppended ==
  ASSUME NEW l \in Seq(Nat), NEW e \in Nat
  PROVE  Append(l, e) # <<>> /\ Append(l, e)[Len(Append(l, e))] = e
<1>1. /\ Append(l, e) # <<>> /\ Len(Append(l, e)) = Len(l) + 1
      /\ Append(l, e)[Len(l) + 1] = e
  BY AppendProperties
<1> QED  BY <1>1

LEMMA FrontParts ==
  ASSUME NEW S, NEW s \in Seq(S), Len(s) \in Nat \ {0}
  PROVE  /\ Front(s) \in Seq(S) /\ Len(Front(s)) = Len(s) - 1
         /\ \A k \in 1 .. Len(s) - 1 : Front(s)[k] = s[k]
<1> DEFINE n == Len(s) - 1
<1>1. n \in Nat /\ \A k \in 1 .. n : s[k] \in S
  BY ElementOfSeq
<1>2. Front(s) = SubSeq(s, 1, n)
  BY DEF Front
<1> HIDE DEF n
<1>3. /\ SubSeq(s, 1, n) \in Seq(S)
      /\ Len(SubSeq(s, 1, n)) = IF 1 <= n THEN n - 1 + 1 ELSE 0
      /\ \A k \in 1 .. n - 1 + 1 : SubSeq(s, 1, n)[k] = s[1 + k - 1]
  BY <1>1, SubSeqProperties
<1>4. Len(SubSeq(s, 1, n)) = n /\ \A k \in 1 .. n : SubSeq(s, 1, n)[k] = s[k]
  BY <1>1, <1>3
<1> QED  BY <1>2, <1>3, <1>4 DEF n

(* The nodes h2 are the nodes h and more; lists may have been closed.      *)
Kept(h, h2) ==
  /\ Len(h) <= Len(h2)
  /\ \A i \in 1 .. Len(h) : /\ h2[i].begin = h[i].begin /\ h2[i].token = h[i].token
                            /\ h[i].end # 0 => h2[i].end = h[i].end

LEMMA RowKept ==
  ASSUME NEW h \in Seq(Node), NEW h2 \in Seq(Node), Kept(h, h2),
         NEW l \in Seq(Nat), NEW from \in Nat, Row(h, l, from)
  PROVE  Row(h2, l, from)
<1>1. Len(l) \in Nat /\ Len(h) \in Nat /\ Len(h2) \in Nat
  BY LenProperties
<1>2. ASSUME NEW k \in 1 .. Len(l) PROVE Item(h2, l, from, k)
  <2>1. l[k] \in 1 .. Len(h) /\ l[k] \in 1 .. Len(h2)
    BY <1>1, <1>2 DEF Row, Item, Kept
  <2>2. h2[l[k]].begin = AfterIn(h, l, from, k - 1)
    BY <1>2, <2>1 DEF Row, Item, Kept
  <2>3. k < Len(l) => h2[l[k]].end # 0
    BY <1>2, <2>1 DEF Row, Item, Kept
  <2>4. AfterIn(h, l, from, k - 1) = AfterIn(h2, l, from, k - 1)
    <3>1. CASE k = 1
      BY <3>1 DEF AfterIn
    <3>2. CASE k # 1
      <4>1. k - 1 \in 1 .. Len(l) /\ k - 1 < Len(l)
        BY <1>1, <3>2
      <4>2. l[k - 1] \in 1 .. Len(h) /\ h[l[k - 1]].end # 0
        BY <4>1 DEF Row, Item
      <4>3. h2[l[k - 1]].end = h[l[k - 1]].end
        BY <4>2 DEF Kept
      <4> QED  BY <4>1, <4>3 DEF AfterIn
    <3> QED  BY <3>1, <3>2
  <2> QED  BY <2>1, <2>2, <2>3, <2>4 DEF Item
<1> QED  BY <1>2 DEF Row

LEMMA ReachesKept ==
  ASSUME NEW h \in Seq(Node), NEW h2 \in Seq(Node), Kept(h, h2),
         NEW l \in Seq(Nat), NEW from \in Nat, NEW to, Row(h, l, from),
         Reaches(h, l, from, to)
  PROVE  Reaches(h2, l, from, to)
<1>1. CASE l = <<>>
  <2>1. Len(l) = 0
    BY <1>1, EmptySeq
  <2> QED  BY <1>1, <2>1 DEF Reaches, AfterIn
<1>2. CASE l # <<>>
  <2>1. Len(l) \in Nat /\ Len(l) # 0
    BY <1>2, LenProperties, EmptySeq
  <2>2. Len(l) \in 1 .. Len(l)
    BY <2>1
  <2>3. l[Len(l)] \in 1 .. Len(h) /\ h[l[Len(l)]].end # 0
    BY <1>2, <2>2 DEF Row, Item, Reaches
  <2>4. h2[l[Len(l)]].end = h[l[Len(l)]].end
    BY <2>3 DEF Kept
  <2> QED  BY <2>1, <2>3, <2>4 DEF Reaches, AfterIn
<1> QED  BY <1>1, <1>2

(* A row that has been reached by a node goes on with it.                  *)
LEMMA RowGrows ==
  ASSUME NEW h \in Seq(Node), NEW l \in Seq(Nat), NEW from \in Nat,
         NEW e \in 1 .. Len(h), Row(h, l, from), Reaches(h, l, from, h[e].begin)
  PROVE  /\ Row(h, Append(l, e), from)
         /\ h[e].end # 0 => Reaches(h, Append(l, e), from, h[e].end + 1)
<1> DEFINE m == Append(l, e)
<1>1. Len(l) \in Nat /\ Len(h) \in Nat /\ e \in Nat
  BY LenProperties
<1>2. /\ m \in Seq(Nat) /\ Len(m) = Len(l) + 1 /\ m[Len(l) + 1] = e
      /\ \A k \in 1 .. Len(l) : m[k] = l[k]
  BY <1>1, AppendProperties
<1>3. m # <<>>
  BY <1>1, <1>2, EmptySeq
<1> HIDE DEF m
<1>4. \A k \in 0 .. Len(l) : AfterIn(h, m, from, k) = AfterIn(h, l, from, k)
  BY <1>1, <1>2, SMTT(30) DEF AfterIn
<1>5. ASSUME NEW k \in 1 .. Len(m) PROVE Item(h, m, from, k)
  <2>1. CASE k = Len(m)
    <3>1. k - 1 = Len(l) /\ k - 1 \in 0 .. Len(l) /\ ~(k < Len(m)) /\ m[k] = e
      BY <1>1, <1>2, <2>1
    <3>2. h[e].begin = AfterIn(h, m, from, k - 1)
      BY <1>4, <3>1 DEF Reaches
    <3> QED  BY <3>1, <3>2 DEF Item
  <2>2. CASE k # Len(m)
    <3>1. k \in 1 .. Len(l) /\ k - 1 \in 0 .. Len(l)
      BY <1>1, <1>2, <2>2
    <3>2. m[k] = l[k] /\ AfterIn(h, m, from, k - 1) = AfterIn(h, l, from, k - 1)
      BY <1>2, <1>4, <3>1
    <3>3. Item(h, l, from, k)
      BY <3>1 DEF Row
    <3>4. h[l[k]].end # 0
      <4>1. CASE k < Len(l)
        BY <3>3, <4>1 DEF Item
      <4>2. CASE k = Len(l)
        <5>1. l # <<>>
          BY <1>1, <3>1, <4>2, EmptySeq
        <5> QED  BY <4>2, <5>1 DEF Reaches
      <4> QED  BY <1>1, <3>1, <4>1, <4>2
    <3> QED  BY <3>2, <3>3, <3>4 DEF Item
  <2> QED  BY <2>1, <2>2
<1>6. h[e].end # 0 => Reaches(h, m, from, h[e].end + 1)
  BY <1>1, <1>2, <1>3 DEF Reaches, AfterIn
<1>7. Row(h, m, from)
  BY <1>5 DEF Row
<1> QED  BY <1>6, <1>7 DEF m

LEMMA EmptyRow ==
  ASSUME NEW h, NEW from \in Nat
  PROVE  Row(h, <<>>, from) /\ Reaches(h, <<>>, from, from)
<1>1. Len(<<>>) = 0
  BY EmptySeq
<1> QED  BY <1>1 DEF Row, Reaches, AfterIn

-----------------------------------------------------------------------------
(***************************************************************************)
(* What the parser does with nodes.                                        *)
(***************************************************************************)
(* The nodes after node is added to h (Add).                               *)
Added(h, op, node) ==
  Append(IF op = <<>> THEN h
         ELSE [h EXCEPT ![Last(op)].list = Append(@, Len(h) + 1)],
         node)

LEMMA AddedNodes ==
  ASSUME NEW h \in Seq(Node), NEW op \in Seq(Nat), NEW node \in Node,
         op # <<>> => Last(op) \in 1 .. Len(h)
  PROVE  /\ Added(h, op, node) \in Seq(Node)
         /\ Len(Added(h, op, node)) = Len(h) + 1
         /\ Added(h, op, node)[Len(h) + 1] = node
         /\ Kept(h, Added(h, op, node))
         /\ \A i \in 1 .. Len(h) :
              /\ Added(h, op, node)[i].end = h[i].end
              /\ Added(h, op, node)[i].list =
                   IF op # <<>> /\ i = Last(op) THEN Append(h[i].list, Len(h) + 1)
                   ELSE h[i].list
<1>1. Len(h) \in Nat
  BY LenProperties
<1> DEFINE g == IF op = <<>> THEN h
                ELSE [h EXCEPT ![Last(op)].list = Append(@, Len(h) + 1)]
<1>2. /\ g \in Seq(Node) /\ Len(g) = Len(h)
      /\ \A i \in 1 .. Len(h) :
           /\ g[i].end = h[i].end /\ g[i].begin = h[i].begin /\ g[i].token = h[i].token
           /\ g[i].list = IF op # <<>> /\ i = Last(op) THEN Append(h[i].list, Len(h) + 1)
                          ELSE h[i].list
  <2>1. CASE op = <<>>
    BY <2>1
  <2>2. CASE op # <<>>
    <3> DEFINE p == Last(op)
               n == [h[p] EXCEPT !.list = Append(@, Len(h) + 1)]
    <3>1. p \in 1 .. Len(h)
      BY <2>2
    <3>2. h[p] \in Node
      BY <3>1, ElementOfSeq
    <3>3. h[p].list \in Seq(Nat)
      BY <3>1, NodeParts
    <3>4. Append(h[p].list, Len(h) + 1) \in Seq(Nat)
      BY <1>1, <3>3, AppendProperties
    <3>5. n \in Node
      BY <3>2, <3>4 DEF Node
    <3>6. g = [h EXCEPT ![p] = n]
      BY <2>2
    <3>7. n.end = h[p].end /\ n.begin = h[p].begin /\ n.token = h[p].token
          /\ n.list = Append(h[p].list, Len(h) + 1)
      BY <3>2 DEF Node
    <3> HIDE DEF p, n, g
    <3>8. g \in Seq(Node) /\ Len(g) = Len(h)
          /\ \A i \in 1 .. Len(h) : g[i] = IF i = p THEN n ELSE h[i]
      BY <3>1, <3>5, <3>6, ExceptSeq
    <3>9. ASSUME NEW i \in 1 .. Len(h)
          PROVE  /\ g[i].end = h[i].end /\ g[i].begin = h[i].begin
                 /\ g[i].token = h[i].token
                 /\ g[i].list = IF op # <<>> /\ i = p THEN Append(h[i].list, Len(h) + 1)
                                ELSE h[i].list
      BY <2>2, <3>7, <3>8
    <3> QED  BY <3>8, <3>9 DEF p
  <2> QED  BY <2>1, <2>2
<1> DEFINE a == Append(g, node)
<1>3. a = Added(h, op, node)
  BY DEF Added
<1> HIDE DEF g, a
<1>4. /\ Append(g, node) \in Seq(Node) /\ Len(Append(g, node)) = Len(h) + 1
      /\ Append(g, node)[Len(h) + 1] = node
      /\ \A i \in 1 .. Len(h) : Append(g, node)[i] = g[i]
  BY <1>2, AppendProperties
<1>5. /\ a \in Seq(Node) /\ Len(a) = Len(h) + 1 /\ a[Len(h) + 1] = node
      /\ \A i \in 1 .. Len(h) : a[i] = g[i]
  BY <1>4 DEF a
<1>6. Kept(h, a)
  BY <1>1, <1>2, <1>5 DEF Kept
<1>7. \A i \in 1 .. Len(h) :
        /\ a[i].end = h[i].end
        /\ a[i].list = IF op # <<>> /\ i = Last(op) THEN Append(h[i].list, Len(h) + 1)
                       ELSE h[i].list
  BY <1>2, <1>5
<1> QED  BY <1>3, <1>5, <1>6, <1>7

(* The tokens before a new one stay.                                       *)
LEMMA TokensKept ==
  ASSUME NEW ts \in Seq(Words), NEW w \in Words
  PROVE  /\ Append(ts, w) \in Seq(Words) /\ Len(Append(ts, w)) = Len(ts) + 1
         /\ Append(ts, w)[Len(ts) + 1] = w
         /\ \A k \in 1 .. Len(ts) : Append(ts, w)[k] = ts[k]
         /\ Len(ts) \in Nat
BY AppendProperties, LenProperties

(* An innermost open list, which may get another item.                     *)
LEMMA Innermost ==
  ASSUME NEW h \in Seq(Node), NEW ts \in Seq(Words), NEW op \in Seq(Nat), NEW fs,
         Good(h, ts, op, fs), op # <<>>
  PROVE  /\ Len(op) \in Nat \ {0} /\ Last(op) = op[Len(op)] /\ Last(op) \in 1 .. Len(h)
         /\ Opened(h, ts, op, Len(op))
<1>1. Len(op) \in Nat /\ Len(op) # 0
  BY LenProperties, EmptySeq
<1>2. Len(op) \in 1 .. Len(op)
  BY <1>1
<1>3. Last(op) = op[Len(op)]
  BY DEF Last
<1>4. Opened(h, ts, op, Len(op))
  BY <1>2 DEF Good
<1> QED  BY <1>1, <1>3, <1>4 DEF Opened

(* A token is put into the innermost list, or a list is opened.            *)
LEMMA NodeAdded ==
  ASSUME NEW h \in Seq(Node), NEW ts \in Seq(Words), NEW op \in Seq(Nat),
         NEW fs \in Seq(Nat), Good(h, ts, op, fs),
         NEW node \in Node, NEW w \in Words, NEW op2 \in Seq(Nat),
         node.list = <<>>, node.begin = Len(ts) + 1,
         \/ /\ op # <<>> /\ op2 = op
            /\ node.token = w /\ w.type # Null /\ node.end = Len(ts) + 1
         \/ /\ op2 = Append(op, Len(h) + 1)
            /\ node.token.type = Null /\ node.end = 0 /\ w.type = "("
  PROVE  Good(Added(h, op, node), Append(ts, w), op2, fs)
<1> DEFINE a  == Added(h, op, node)
           us == Append(ts, w)
           N  == Len(h)
           innermost(i) == op # <<>> /\ i = Last(op)
<1>1. N \in Nat /\ Len(ts) \in Nat /\ Len(op) \in Nat
  BY LenProperties
<1>2. /\ us \in Seq(Words) /\ Len(us) = Len(ts) + 1 /\ us[Len(ts) + 1] = w
      /\ \A k \in 1 .. Len(ts) : us[k] = ts[k]
  BY TokensKept
<1>3. op # <<>> => /\ Len(op) \in Nat \ {0} /\ Last(op) = op[Len(op)]
                   /\ Last(op) \in 1 .. N /\ Opened(h, ts, op, Len(op))
  BY Innermost
<1>4. /\ a \in Seq(Node) /\ Len(a) = N + 1 /\ a[N + 1] = node /\ Kept(h, a)
      /\ \A i \in 1 .. N :
           /\ a[i].end = h[i].end
           /\ a[i].list = IF innermost(i) THEN Append(h[i].list, N + 1) ELSE h[i].list
  BY <1>3, AddedNodes
<1>5. N + 1 \in 1 .. Len(a) /\ N + 1 \in Nat
  BY <1>1, <1>4
<1>6. \A i \in 1 .. N : h[i].list \in Seq(Nat) /\ h[i].begin + 1 \in Nat /\ h[i].end \in Nat
  BY NodeParts
<1>7. \/ /\ op # <<>> /\ op2 = op /\ node.end # 0
      \/ /\ op2 = Append(op, N + 1) /\ Len(op2) = Len(op) + 1 /\ op2[Len(op) + 1] = N + 1
         /\ node.end = 0
  BY <1>1, <1>5, AppendProperties
<1>8. Len(op2) \in Nat /\ Len(op) <= Len(op2) /\ \A d \in 1 .. Len(op) : op2[d] = op[d]
  <2>1. CASE op2 = op
    BY <1>1, <2>1
  <2>2. CASE op2 = Append(op, N + 1)
    <3>1. \A d \in 1 .. Len(op) : Append(op, N + 1)[d] = op[d]
      BY <1>5, AppendProperties
    <3>2. Len(op2) = Len(op) + 1
      BY <1>5, <2>2, AppendProperties
    <3> QED  BY <1>1, <2>2, <3>1, <3>2
  <2> QED  BY <1>7, <2>1, <2>2
<1> HIDE DEF a, us, N
(* The list that gets the node. *)
<1>9. ASSUME NEW i \in 1 .. N, innermost(i)
      PROVE  /\ Row(a, Append(h[i].list, N + 1), h[i].begin + 1)
             /\ node.end # 0 => Reaches(a, Append(h[i].list, N + 1), h[i].begin + 1, Len(us) + 1)
             /\ h[i].end = 0
  <2>1. Row(h, h[i].list, h[i].begin + 1)
    BY DEF Good, Tree, N
  <2>2. Reaches(h, h[i].list, h[i].begin + 1, Len(ts) + 1) /\ h[i].end = 0
    BY <1>3, <1>9 DEF Opened
  <2>3. Row(a, h[i].list, h[i].begin + 1)
    BY <1>4, <1>6, <2>1, RowKept
  <2>4. Reaches(a, h[i].list, h[i].begin + 1, a[N + 1].begin)
    BY <1>4, <1>6, <2>1, <2>2, ReachesKept
  <2>5. /\ Row(a, Append(h[i].list, N + 1), h[i].begin + 1)
        /\ a[N + 1].end # 0 =>
             Reaches(a, Append(h[i].list, N + 1), h[i].begin + 1, a[N + 1].end + 1)
    BY <1>4, <1>5, <1>6, <2>3, <2>4, RowGrows
  <2>6. node.end # 0 => node.end + 1 = Len(us) + 1
    BY <1>2, <1>7
  <2> QED  BY <1>4, <2>2, <2>5, <2>6
<1>10. ASSUME NEW i \in 1 .. N PROVE Tree(a, us, op2, i)
  <2>0. Tree(h, ts, op, i)
    BY DEF Good, N
  <2>1. a[i].begin = h[i].begin /\ a[i].token = h[i].token /\ a[i].end = h[i].end
    BY <1>4, <1>10 DEF Kept, N
  <2>2. h[i].begin \in 1 .. Len(ts) /\ h[i].begin \in 1 .. Len(us)
    <3>1. h[i].begin \in 1 .. Len(ts)
      BY <2>0 DEF Tree
    <3>2. Len(us) = Len(ts) + 1
      BY <1>2
    <3> QED  BY <1>1, <3>1, <3>2, SMTT(30)
  <2>3. us[h[i].begin] = ts[h[i].begin]
    BY <1>2, <2>2
  <2>4. Row(a, a[i].list, h[i].begin + 1)
    <3>1. CASE innermost(i)
      BY <1>4, <1>9, <3>1
    <3>2. CASE ~innermost(i)
      <4>1. a[i].list = h[i].list
        BY <1>4, <3>2
      <4>2. Row(h, h[i].list, h[i].begin + 1)
        BY <2>0 DEF Tree
      <4> QED  BY <1>4, <1>6, <4>1, <4>2, RowKept
    <3> QED  BY <3>1, <3>2
  <2>5. IsTokenIn(a, i) <=> IsTokenIn(h, i)
    BY <2>1 DEF IsTokenIn
  <2>6. IsTokenIn(h, i) => h[i].begin = h[i].end /\ h[i].token = us[h[i].begin]
    BY <2>0, <2>3 DEF Tree
  <2>7. ~IsTokenIn(h, i) => us[h[i].begin].type = "("
    BY <2>0, <2>3 DEF Tree
  <2>8. ASSUME ~IsTokenIn(h, i), h[i].end # 0
        PROVE  /\ h[i].begin < h[i].end /\ h[i].end <= Len(us) /\ us[h[i].end].type = ")"
               /\ Reaches(a, a[i].list, h[i].begin + 1, h[i].end)
    <3>1. /\ h[i].begin < h[i].end /\ h[i].end <= Len(ts) /\ ts[h[i].end].type = ")"
          /\ Reaches(h, h[i].list, h[i].begin + 1, h[i].end)
          /\ Row(h, h[i].list, h[i].begin + 1)
      BY <2>0, <2>8 DEF Tree
    <3>2. a[i].list = h[i].list
      BY <1>4, <1>9, <2>8
    <3>3. Reaches(a, h[i].list, h[i].begin + 1, h[i].end)
      BY <1>4, <1>6, <3>1, ReachesKept
    <3>4. h[i].end \in 1 .. Len(ts) /\ h[i].end <= Len(us)
      BY <1>1, <1>2, <1>6, <2>8, <3>1
    <3> QED  BY <1>2, <3>1, <3>2, <3>3, <3>4
  <2>9. h[i].end = 0 => \E d \in 1 .. Len(op2) : op2[d] = i
    <3> SUFFICES ASSUME h[i].end = 0 PROVE \E d \in 1 .. Len(op2) : op2[d] = i
      OBVIOUS
    <3>1. PICK d \in 1 .. Len(op) : op[d] = i
      BY <2>0 DEF Tree
    <3>2. op2[d] = i
      BY <1>8, <3>1
    <3>3. d \in 1 .. Len(op2)
      BY <1>1, <1>8, SMTT(30)
    <3> QED  BY <3>2, <3>3
  <2> QED  BY <2>1, <2>2, <2>4, <2>5, <2>6, <2>7, <2>8, <2>9 DEF Tree
<1>11. Tree(a, us, op2, N + 1)
  <2>1. a[N + 1].begin = Len(us) /\ Len(us) \in 1 .. Len(us) /\ a[N + 1].begin + 1 \in Nat
    BY <1>1, <1>2, <1>4
  <2>2. Row(a, a[N + 1].list, a[N + 1].begin + 1)
    BY <1>4, <2>1, EmptyRow
  <2>3. us[a[N + 1].begin] = w
    BY <1>2, <1>4
  <2>4. CASE op # <<>> /\ op2 = op /\ node.token = w /\ w.type # Null /\ node.end = Len(ts) + 1
    <3>1. IsTokenIn(a, N + 1) /\ a[N + 1].end # 0 /\ a[N + 1].begin = a[N + 1].end
      BY <1>1, <1>4, <2>4 DEF IsTokenIn
    <3> QED  BY <1>4, <2>1, <2>2, <2>3, <2>4, <3>1 DEF Tree
  <2>5. CASE op2 = Append(op, N + 1) /\ node.token.type = Null /\ node.end = 0 /\ w.type = "("
    <3>1. ~IsTokenIn(a, N + 1) /\ a[N + 1].end = 0
      BY <1>4, <2>5 DEF IsTokenIn
    <3>2. \E d \in 1 .. Len(op2) : op2[d] = N + 1
      <4>1. Len(op2) = Len(op) + 1 /\ op2[Len(op) + 1] = N + 1
        BY <1>5, <2>5, AppendProperties
      <4>2. Len(op) + 1 \in 1 .. Len(op2)
        BY <1>1, <4>1
      <4> QED  BY <4>1, <4>2
    <3> QED  BY <1>4, <2>1, <2>2, <2>3, <2>5, <3>1, <3>2 DEF Tree
  <2> QED  BY <2>4, <2>5 DEF N
<1>12. ASSUME NEW d \in 1 .. Len(op) PROVE Opened(a, us, op2, d)
  <2>0. Opened(h, ts, op, d) /\ op2[d] = op[d]
    BY <1>8 DEF Good
  <2>1. op[d] \in 1 .. N /\ op[d] \in 1 .. Len(a)
    BY <1>1, <1>4, <2>0 DEF Opened, N
  <2>2. a[op[d]].begin = h[op[d]].begin /\ a[op[d]].token = h[op[d]].token
        /\ a[op[d]].end = h[op[d]].end
    BY <1>4, <2>1 DEF Kept, N
  <2>3. ~IsTokenIn(a, op[d]) /\ a[op[d]].end = 0
    BY <2>0, <2>2 DEF Opened, IsTokenIn
  <2>4. \A e \in 1 .. d - 1 : op2[e] < op2[d]
    <3> TAKE e \in 1 .. d - 1
    <3>1. e \in 1 .. Len(op)
      BY <1>1
    <3> QED  BY <1>8, <2>0, <3>1 DEF Opened
  <2>5. CASE d < Len(op)
    <3>1. op # <<>>
      BY <1>1, <2>5, EmptySeq
    <3>2. op[d] < op[Len(op)]
      BY <1>1, <1>3, <2>5, <3>1 DEF Opened
    <3>3. ~innermost(op[d])
      BY <1>3, <2>1, <3>1, <3>2
    <3>4. a[op[d]].list = h[op[d]].list
      BY <1>4, <2>1, <3>3
    <3>5. d + 1 \in 1 .. Len(op)
      BY <1>1, <2>5
    <3>6. op2[d + 1] = op[d + 1]
      BY <1>8, <3>5
    <3>7. a[op[d]].list # <<>> /\ a[op[d]].list[Len(a[op[d]].list)] = op2[d + 1]
      BY <2>0, <2>5, <3>4, <3>6 DEF Opened
    <3>8. d # Len(op2)
      BY <1>1, <1>8, <2>5
    <3> QED  BY <2>0, <2>1, <2>3, <2>4, <3>7, <3>8 DEF Opened
  <2>6. CASE d = Len(op)
    <3>1. innermost(op[d])
      BY <1>1, <1>3, <2>6, EmptySeq
    <3>2. a[op[d]].list = Append(h[op[d]].list, N + 1)
      BY <1>4, <2>1, <3>1
    <3>3. CASE op2 = op /\ node.end # 0
      <4>1. Reaches(a, a[op[d]].list, a[op[d]].begin + 1, Len(us) + 1)
        BY <1>9, <2>1, <2>2, <3>1, <3>2, <3>3
      <4> QED  BY <1>1, <2>0, <2>1, <2>3, <2>4, <2>6, <3>3, <4>1 DEF Opened
    <3>4. CASE op2 = Append(op, N + 1) /\ Len(op2) = Len(op) + 1 /\ op2[Len(op) + 1] = N + 1
      <4>1. a[op[d]].list # <<>> /\ a[op[d]].list[Len(a[op[d]].list)] = N + 1
        <5>1. h[op[d]].list \in Seq(Nat)
          BY <1>6, <2>1
        <5>2. /\ Append(h[op[d]].list, N + 1) # <<>>
              /\ Append(h[op[d]].list, N + 1)[Len(Append(h[op[d]].list, N + 1))] = N + 1
          BY <1>5, <5>1, LastAppended
        <5> QED  BY <3>2, <5>2
      <4>2. d # Len(op2) /\ op2[d + 1] = N + 1
        BY <1>1, <2>6, <3>4
      <4> QED  BY <2>0, <2>1, <2>3, <2>4, <4>1, <4>2 DEF Opened
    <3> QED  BY <1>7, <3>3, <3>4
  <2> QED  BY <1>1, <2>5, <2>6
<1>13. ASSUME NEW d \in 1 .. Len(op2), d \notin 1 .. Len(op) PROVE Opened(a, us, op2, d)
  <2>1. /\ d = Len(op) + 1 /\ d = Len(op2) /\ op2[d] = N + 1 /\ node.end = 0
        /\ node.token.type = Null
    BY <1>1, <1>7, <1>13 DEF N
  <2>2. ~IsTokenIn(a, op2[d]) /\ a[op2[d]].end = 0 /\ op2[d] \in 1 .. Len(a)
    BY <1>4, <1>5, <2>1 DEF IsTokenIn
  <2>3. \A e \in 1 .. d - 1 : op2[e] < op2[d]
    <3> TAKE e \in 1 .. d - 1
    <3>1. e \in 1 .. Len(op)
      BY <1>1, <2>1
    <3>2. op[e] \in 1 .. N
      BY <3>1 DEF Good, Opened, N
    <3>3. op2[e] = op[e] /\ op2[d] = N + 1
      BY <1>8, <2>1, <3>1
    <3>4. op[e] < N + 1
      BY <1>1, <3>2
    <3> QED  BY <3>3, <3>4
  <2>4. a[op2[d]].begin + 1 = Len(us) + 1 /\ Len(us) + 1 \in Nat
    BY <1>1, <1>2, <1>4, <2>1
  <2>5. Reaches(a, a[op2[d]].list, a[op2[d]].begin + 1, Len(us) + 1)
    BY <1>4, <2>1, <2>4, EmptyRow
  <2> QED  BY <1>1, <2>1, <2>2, <2>3, <2>5 DEF Opened
<1>14. Formed(a, us, op2, fs)
  <2>1. Row(h, fs, 1) /\ Reaches(h, fs, 1, IF op = <<>> THEN Len(ts) + 1 ELSE h[op[1]].begin)
    BY DEF Good, Formed
  <2>2. Row(a, fs, 1) /\ Reaches(a, fs, 1, IF op = <<>> THEN Len(ts) + 1 ELSE h[op[1]].begin)
    BY <1>4, <2>1, RowKept, ReachesKept
  <2>3. op2 # <<>> /\ a[op2[1]].begin = IF op = <<>> THEN Len(ts) + 1 ELSE h[op[1]].begin
    <3>1. CASE op = <<>>
      <4>1. Len(op) = 0
        BY <3>1, EmptySeq
      <4>2. op2[1] = N + 1 /\ op2 # <<>>
        <5>1. Len(op2) = Len(op) + 1 /\ op2[Len(op) + 1] = N + 1
          BY <1>7, <3>1
        <5>2. Len(op2) = 1
          BY <4>1, <5>1
        <5>3. Len(op) + 1 = 1
          BY <4>1
        <5>4. op2 # <<>>
          <6>1. Len(op2) # 0
            BY <5>2
          <6> QED  BY ONLY <6>1, NotEmpty, Zenon
        <5> QED  BY <5>1, <5>3, <5>4
      <4> QED  BY <1>4, <3>1, <4>2
    <3>2. CASE op # <<>>
      <4>1. 1 \in 1 .. Len(op)
        BY <1>3, <3>2
      <4>2. op2[1] = op[1] /\ op2 # <<>>
        BY <1>1, <1>8, <4>1, EmptySeq
      <4>3. op[1] \in 1 .. N
        BY <4>1 DEF Good, Opened, N
      <4> QED  BY <1>4, <3>2, <4>2, <4>3 DEF Kept, N
    <3> QED  BY <3>1, <3>2
  <2> QED  BY <2>2, <2>3 DEF Formed
<1>15. \A i \in 1 .. Len(a) : Tree(a, us, op2, i)
  BY <1>1, <1>4, <1>10, <1>11
<1>16. \A d \in 1 .. Len(op2) : Opened(a, us, op2, d)
  BY <1>12, <1>13
<1>17. Good(a, us, op2, fs)
  BY <1>14, <1>15, <1>16 DEF Good
<1> QED  BY <1>17 DEF a, us

(* A right parenthesis closes the innermost list.                          *)
LEMMA ListClosed ==
  ASSUME NEW h \in Seq(Node), NEW ts \in Seq(Words), NEW op \in Seq(Nat),
         NEW fs \in Seq(Nat), Good(h, ts, op, fs), op # <<>>,
         NEW w \in Words, w.type = ")"
  PROVE  Good([h EXCEPT ![Last(op)].end = Len(ts) + 1], Append(ts, w), Front(op),
              IF Len(op) = 1 THEN Append(fs, op[1]) ELSE fs)
<1> DEFINE c   == Last(op)
           g   == [h EXCEPT ![c].end = Len(ts) + 1]
           us  == Append(ts, w)
           op2 == Front(op)
           fs2 == IF Len(op) = 1 THEN Append(fs, op[1]) ELSE fs
           N   == Len(h)
<1>1. N \in Nat /\ Len(ts) \in Nat /\ Len(ts) + 1 \in Nat
  BY LenProperties
<1>2. /\ us \in Seq(Words) /\ Len(us) = Len(ts) + 1 /\ us[Len(ts) + 1] = w
      /\ \A k \in 1 .. Len(ts) : us[k] = ts[k]
  BY TokensKept
<1>3. /\ Len(op) \in Nat \ {0} /\ c = op[Len(op)] /\ c \in 1 .. N
      /\ Opened(h, ts, op, Len(op))
  BY Innermost
<1>4. h[c].end = 0
  BY <1>3 DEF Opened
<1> HIDE DEF c
<1>5. /\ g \in Seq(Node) /\ Len(g) = N /\ Kept(h, g)
      /\ \A i \in 1 .. N : /\ g[i].list = h[i].list
                          /\ g[i].end = IF i = c THEN Len(ts) + 1 ELSE h[i].end
  <2>1. g = [h EXCEPT ![c].end = Len(ts) + 1]
    OBVIOUS
  <2> HIDE DEF g
  <2>2. /\ g \in Seq(Node) /\ Len(g) = Len(h)
        /\ \A i \in 1 .. Len(h) : /\ g[i].begin = h[i].begin /\ g[i].token = h[i].token
                                 /\ g[i].list = h[i].list
                                 /\ g[i].end = IF i = c THEN Len(ts) + 1 ELSE h[i].end
    <3> DEFINE n == [h[c] EXCEPT !.end = Len(ts) + 1]
    <3>1. c \in 1 .. Len(h) /\ h[c] \in Node
      BY <1>3, ElementOfSeq
    <3>2. n \in Node /\ n.end = Len(ts) + 1
          /\ n.begin = h[c].begin /\ n.token = h[c].token /\ n.list = h[c].list
      BY <1>1, <3>1 DEF Node
    <3>3. g = [h EXCEPT ![c] = n]
      BY <2>1
    <3> HIDE DEF n
    <3>4. g \in Seq(Node) /\ Len(g) = Len(h)
          /\ \A i \in 1 .. Len(h) : g[i] = IF i = c THEN n ELSE h[i]
      BY <3>1, <3>2, <3>3, ExceptSeq
    <3> QED  BY <3>2, <3>4
  <2>3. Kept(h, g)
    BY <1>1, <1>4, <2>2 DEF Kept
  <2> QED  BY <2>2, <2>3
<1>6. \A i \in 1 .. N : h[i].list \in Seq(Nat) /\ h[i].begin + 1 \in Nat /\ h[i].end \in Nat
  BY NodeParts
<1>7. op2 \in Seq(Nat) /\ Len(op2) = Len(op) - 1 /\ \A d \in 1 .. Len(op) - 1 : op2[d] = op[d]
  BY <1>3, FrontParts
<1>8. \A d \in 1 .. Len(op) - 1 : op[d] # c
  BY <1>3 DEF Opened
<1>9. \A i \in 1 .. N : g[i].begin = h[i].begin /\ g[i].token = h[i].token
  BY <1>5 DEF Kept, N
<1>10. \A d \in 1 .. Len(op) : Opened(h, ts, op, d) /\ op[d] \in 1 .. N
  BY DEF Good, Opened
<1> HIDE DEF g, us, op2, N
<1>11. ASSUME NEW i \in 1 .. N PROVE Tree(g, us, op2, i)
  <2>0. Tree(h, ts, op, i)
    BY DEF Good, N
  <2>1. g[i].begin = h[i].begin /\ g[i].token = h[i].token /\ g[i].list = h[i].list
    BY <1>5, <1>9
  <2>2. h[i].begin \in 1 .. Len(ts) /\ h[i].begin \in 1 .. Len(us)
    <3>1. h[i].begin \in 1 .. Len(ts)
      BY <2>0 DEF Tree
    <3>2. Len(us) = Len(ts) + 1
      BY <1>2
    <3> QED  BY <1>1, <3>1, <3>2
  <2>3. us[h[i].begin] = ts[h[i].begin]
    BY <1>2, <2>2
  <2>4. Row(h, h[i].list, h[i].begin + 1) /\ Row(g, h[i].list, h[i].begin + 1)
    BY <1>5, <1>6, <2>0, RowKept DEF Tree
  <2>5. IsTokenIn(g, i) <=> IsTokenIn(h, i)
    BY <2>1 DEF IsTokenIn
  <2>6. CASE i = c
    <3>1. ~IsTokenIn(h, i) /\ Reaches(h, h[i].list, h[i].begin + 1, Len(ts) + 1)
      BY <1>3, <2>6 DEF Opened
    <3>2. Reaches(g, h[i].list, h[i].begin + 1, Len(ts) + 1)
      BY <1>5, <1>6, <2>4, <3>1, ReachesKept
    <3>3. g[i].end = Len(ts) + 1 /\ us[Len(ts) + 1].type = ")"
      BY <1>2, <1>5, <2>6
    <3>4. h[i].begin < Len(ts) + 1 /\ Len(ts) + 1 <= Len(us) /\ Len(ts) + 1 # 0
      BY <1>1, <1>2, <2>2
    <3>5. us[h[i].begin].type = "("
      BY <2>0, <2>3, <3>1 DEF Tree
    <3> QED  BY <2>1, <2>2, <2>4, <2>5, <3>1, <3>2, <3>3, <3>4, <3>5 DEF Tree
  <2>7. CASE i # c
    <3>1. g[i].end = h[i].end
      BY <1>5, <2>7
    <3>2. IsTokenIn(h, i) => h[i].begin = h[i].end /\ h[i].token = us[h[i].begin]
      BY <2>0, <2>3 DEF Tree
    <3>3. ~IsTokenIn(h, i) => us[h[i].begin].type = "("
      BY <2>0, <2>3 DEF Tree
    <3>4. ASSUME ~IsTokenIn(h, i), h[i].end # 0
          PROVE  /\ h[i].begin < h[i].end /\ h[i].end <= Len(us) /\ us[h[i].end].type = ")"
                 /\ Reaches(g, h[i].list, h[i].begin + 1, h[i].end)
      <4>1. /\ h[i].begin < h[i].end /\ h[i].end <= Len(ts) /\ ts[h[i].end].type = ")"
            /\ Reaches(h, h[i].list, h[i].begin + 1, h[i].end)
        BY <2>0, <3>4 DEF Tree
      <4>2. Reaches(g, h[i].list, h[i].begin + 1, h[i].end)
        BY <1>5, <1>6, <2>4, <4>1, ReachesKept
      <4>3. h[i].end \in 1 .. Len(ts) /\ h[i].end <= Len(us)
        BY <1>1, <1>2, <1>6, <3>4, <4>1
      <4> QED  BY <1>2, <4>1, <4>2, <4>3
    <3>5. h[i].end = 0 => \E d \in 1 .. Len(op2) : op2[d] = i
      <4> SUFFICES ASSUME h[i].end = 0 PROVE \E d \in 1 .. Len(op2) : op2[d] = i
        OBVIOUS
      <4>1. PICK d \in 1 .. Len(op) : op[d] = i
        BY <2>0 DEF Tree
      <4>2. d \in 1 .. Len(op) - 1
        BY <1>3, <2>7, <4>1
      <4> QED  BY <1>7, <4>1, <4>2
    <3> QED  BY <2>1, <2>2, <2>4, <2>5, <3>1, <3>2, <3>3, <3>4, <3>5 DEF Tree
  <2> QED  BY <2>6, <2>7
<1>12. ASSUME NEW d \in 1 .. Len(op2) PROVE Opened(g, us, op2, d)
  <2>0. d \in 1 .. Len(op) - 1 /\ d \in 1 .. Len(op) /\ d + 1 \in 1 .. Len(op)
    BY <1>3, <1>7
  <2>1. Opened(h, ts, op, d) /\ op2[d] = op[d] /\ op[d] \in 1 .. N /\ op[d] # c
    BY <1>7, <1>8, <1>10, <2>0
  <2>2. /\ g[op[d]].begin = h[op[d]].begin /\ g[op[d]].token = h[op[d]].token
        /\ g[op[d]].list = h[op[d]].list /\ g[op[d]].end = h[op[d]].end
    BY <1>5, <1>9, <2>1
  <2>3. ~IsTokenIn(g, op[d]) /\ g[op[d]].end = 0 /\ op[d] \in 1 .. Len(g)
    BY <1>5, <2>1, <2>2 DEF Opened, IsTokenIn
  <2>4. \A e \in 1 .. d - 1 : op2[e] < op2[d]
    <3> TAKE e \in 1 .. d - 1
    <3>1. e \in 1 .. Len(op) - 1
      BY <1>3, <2>0
    <3> QED  BY <1>7, <2>1, <3>1 DEF Opened
  <2>5. h[op[d]].list # <<>> /\ h[op[d]].list[Len(h[op[d]].list)] = op[d + 1]
    <3>1. d < Len(op)
      BY <1>3, <2>0
    <3> QED  BY <2>1, <3>1 DEF Opened
  <2>6. CASE d < Len(op2)
    <3>0. Len(op2) = Len(op) - 1 /\ Len(op) \in Nat
      BY <1>3, <1>7
    <3>1. d + 1 \in 1 .. Len(op) - 1 /\ d # Len(op2)
      BY <2>0, <2>6, <3>0
    <3>2. op2[d + 1] = op[d + 1]
      BY <1>7, <3>1
    <3> QED  BY <2>1, <2>2, <2>3, <2>4, <2>5, <3>1, <3>2 DEF Opened
  <2>7. CASE d = Len(op2)
    <3>1. op[d + 1] = c /\ ~(d < Len(op2))
      BY <1>3, <1>7, <2>7
    <3>2. g[c].end = Len(us) /\ Len(us) # 0
      BY <1>1, <1>2, <1>3, <1>5
    <3>3. h[op[d]].list \in Seq(Nat)
      BY <1>6, <2>1
    <3>4. Len(h[op[d]].list) # 0
      BY <2>5, <3>3, EmptySeq
    <3>5. Reaches(g, h[op[d]].list, g[op[d]].begin + 1, Len(us) + 1)
      BY <2>5, <3>1, <3>2, <3>4 DEF Reaches, AfterIn
    <3> QED  BY <2>1, <2>2, <2>3, <2>4, <3>1, <3>5 DEF Opened
  <2>8. Len(op2) \in Nat
    BY <1>3, <1>7
  <2> QED  BY <2>6, <2>7, <2>8
<1>13. Formed(g, us, op2, fs2)
  <2>1. 1 \in 1 .. Len(op)
    BY <1>3
  <2>2. op[1] \in 1 .. N /\ op[1] \in 1 .. Len(g) /\ g[op[1]].begin = h[op[1]].begin
    BY <1>5, <1>9, <1>10, <2>1
  <2>3. Row(h, fs, 1) /\ Reaches(h, fs, 1, h[op[1]].begin)
    BY DEF Good, Formed
  <2>4. Row(g, fs, 1) /\ Reaches(g, fs, 1, g[op[1]].begin)
    BY <1>5, <2>2, <2>3, RowKept, ReachesKept
  <2>5. CASE Len(op) = 1
    <3>1. op[1] = c /\ g[op[1]].end = Len(us) /\ Len(us) # 0
      BY <1>1, <1>2, <1>3, <1>5, <2>5
    <3>2. Row(g, fs2, 1) /\ Reaches(g, fs2, 1, Len(us) + 1)
      BY <1>5, <2>2, <2>4, <2>5, <3>1, RowGrows
    <3>3. op2 = <<>>
      BY <1>7, <2>5, EmptySeq
    <3> QED  BY <3>2, <3>3 DEF Formed
  <2>6. CASE Len(op) # 1
    <3>1. 1 \in 1 .. Len(op) - 1 /\ Len(op2) # 0
      BY <1>3, <1>7, <2>6
    <3>2. op2[1] = op[1] /\ op2 # <<>>
      BY <1>7, <3>1, EmptySeq
    <3> QED  BY <2>4, <2>6, <3>2 DEF Formed
  <2> QED  BY <2>5, <2>6
<1>14. \A i \in 1 .. Len(g) : Tree(g, us, op2, i)
  BY <1>5, <1>11
<1>15. \A d \in 1 .. Len(op2) : Opened(g, us, op2, d)
  BY <1>12
<1>16. Good(g, us, op2, fs2)
  BY <1>13, <1>14, <1>15 DEF Good
<1> QED  BY <1>16 DEF g, us, op2, c
-----------------------------------------------------------------------------
(***************************************************************************)
(* The tokens that the lexer reads.                                        *)
(***************************************************************************)
LEMMA CharRead ==
  ASSUME LexTypes
  PROVE  /\ Char \in Letters /\ Past \in 0 .. Len(file) /\ Len(file) \in Nat
         /\ Char # Eof => Past = pos + 1 /\ file[Past] = Char
         /\ Char = Eof => Past = pos /\ pos = Len(file)
<1>1. file \in Seq(STRING \ {Eof})
  BY FilesAssumption DEF LexTypes
<1>2. Len(file) \in Nat /\ pos \in 0 .. Len(file)
  BY <1>1, LenProperties DEF LexTypes
<1>3. CASE pos < Len(file)
  <2>1. pos + 1 \in 1 .. Len(file)
    BY <1>2, <1>3
  <2>2. file[pos + 1] \in STRING \ {Eof}
    BY <1>1, <2>1, ElementOfSeq
  <2> QED  BY <1>2, <1>3, <2>2 DEF Char, Past, Letters
<1>4. CASE ~(pos < Len(file))
  <2>1. pos = Len(file)
    BY <1>2, <1>4
  <2>2. Char = Eof /\ Past = pos
    BY <1>4 DEF Char, Past
  <2>3. Eof \in Letters
    BY DEF Letters
  <2> QED  BY <1>2, <2>1, <2>2, <2>3
<1> QED  BY <1>3, <1>4

LEMMA NotDigits ==
  /\ Quote \notin Digits /\ "-" \notin Digits /\ Quote # "-"
  /\ "#" \notin Digits /\ Eof \notin Digits
BY DigitsAssumption DEF Quote

(* What a literal is made of is between its quotes.                        *)
LEMMA LiteralConverts ==
  ASSUME NEW str \in Seq(Letters)
  PROVE  AtomToNode(<<Quote>> \o str \o <<Quote>>) = [type |-> "StringLiteral", str |-> str]
<1> DEFINE q == <<Quote>>
           s == q \o str \o q
<1>1. Len(str) \in Nat
  BY LenProperties
<1>2. q \in Seq(Letters) /\ Len(q) = 1 /\ q[1] = Quote
  <2>1. Quote \in Letters
    BY DEF Letters
  <2> QED  BY <2>1
<1> HIDE DEF q
<1>3. /\ q \o str \in Seq(Letters) /\ Len(q \o str) = 1 + Len(str)
      /\ \A k \in 1 .. 1 + Len(str) :
           (q \o str)[k] = IF k <= 1 THEN q[k] ELSE str[k - 1]
  <2>1. /\ q \o str \in Seq(Letters) /\ Len(q \o str) = Len(q) + Len(str)
        /\ \A k \in 1 .. Len(q) + Len(str) :
             (q \o str)[k] = IF k <= Len(q) THEN q[k] ELSE str[k - Len(q)]
    BY <1>2, ConcatProperties
  <2> QED  BY <1>2, <2>1
<1>4. /\ s \in Seq(Letters) /\ Len(s) = 1 + Len(str) + 1
      /\ \A k \in 1 .. 1 + Len(str) + 1 :
           s[k] = IF k <= 1 + Len(str) THEN (q \o str)[k] ELSE q[k - (1 + Len(str))]
  BY <1>2, <1>3, ConcatProperties
<1> HIDE DEF s
<1>5. s[1] = Quote
  <2>1. 1 \in 1 .. 1 + Len(str) + 1 /\ 1 <= 1 + Len(str) /\ 1 \in 1 .. 1 + Len(str)
    BY <1>1
  <2> QED  BY <1>2, <1>3, <1>4, <2>1
<1>6. Last(s) = Quote
  <2>1. /\ Len(s) \in 1 .. 1 + Len(str) + 1 /\ ~(Len(s) <= 1 + Len(str))
        /\ Len(s) - (1 + Len(str)) = 1
    BY <1>1, <1>4
  <2> QED  BY <1>2, <1>4, <2>1 DEF Last
<1>7. SubSeq(s, 2, Len(s) - 1) = str
  <2> DEFINE b == SubSeq(s, 2, Len(s) - 1)
             n == Len(s) - 1
  <2>1. n \in Int /\ n = 1 + Len(str) /\ \A k \in 2 .. n : s[k] \in Letters
    BY <1>1, <1>4, ElementOfSeq
  <2>2. b = SubSeq(s, 2, n)
    OBVIOUS
  <2> HIDE DEF b, n
  <2>3. /\ SubSeq(s, 2, n) \in Seq(Letters)
        /\ Len(SubSeq(s, 2, n)) = IF 2 <= n THEN n - 2 + 1 ELSE 0
        /\ \A k \in 1 .. n - 2 + 1 : SubSeq(s, 2, n)[k] = s[2 + k - 1]
    BY <2>1, SubSeqProperties
  <2>4. n - 2 + 1 = Len(str)
    BY <1>1, <2>1
  <2>5. b \in Seq(Letters) /\ Len(b) = Len(str)
    BY <1>1, <2>1, <2>2, <2>3
  <2>6. ASSUME NEW k \in 1 .. Len(b) PROVE b[k] = str[k]
    <3>1. k \in 1 .. Len(str)
      BY <2>5
    <3>2. b[k] = s[2 + k - 1]
      BY <2>2, <2>3, <2>4, <3>1
    <3>3. 2 + k - 1 = k + 1 /\ k + 1 \in 1 .. 1 + Len(str) + 1 /\ k + 1 <= 1 + Len(str)
          /\ k + 1 \in 1 .. 1 + Len(str) /\ ~(k + 1 <= 1) /\ (k + 1) - 1 = k
      BY <1>1, <3>1
    <3>4. s[k + 1] = (q \o str)[k + 1]
      BY <1>4, <3>3
    <3>5. (q \o str)[k + 1] = str[k]
      BY <1>3, <3>3
    <3> QED  BY <3>2, <3>3, <3>4, <3>5
  <2>7. b = str
    BY <2>5, <2>6, SeqEqual
  <2> QED  BY <2>7 DEF b
<1>8. ~(s[1] \in Digits \/ (Len(s) > 1 /\ s[1] = "-" /\ s[2] \in Digits))
  BY <1>5, NotDigits
<1>9. AtomToNode(s) = [type |-> "StringLiteral", str |-> SubSeq(s, 2, Len(s) - 1)]
  BY <1>5, <1>6, <1>8 DEF AtomToNode
<1>10. AtomToNode(s) = [type |-> "StringLiteral", str |-> str]
  BY <1>7, <1>9
<1> QED  BY <1>10 DEF s, q

(* What the parser is given.                                               *)
IsGiven(t) == /\ t \in Read /\ (t.error <=> t.type = Null) /\ Converts(Atom(t))

LEMMA TokenGiven ==
  ASSUME NEW t, NEW type \in Atoms \cup {"(", ")", Eof}, NEW str \in Seq(Letters),
         t = Token(type, str), Converts([type |-> type, str |-> str])
  PROVE  IsGiven(t)
BY DEF IsGiven, Read, Kinds, Token, Atom, Atoms, Null, Eof

LEMMA BadGiven == IsGiven(Bad)
<1>1. <<>> \in Seq(Letters)
  BY EmptySeq
<1> QED  BY <1>1 DEF IsGiven, Bad, Read, Kinds, Atom, Converts, Atoms, Null

LEMMA FinishedGiven ==
  ASSUME NEW type \in {"Int", "String"}, NEW str \in Seq(Letters),
         type = "Int" => Numeral(str) \/ str = <<"-">>,
         type = "String" => ~Numeral(str) /\ str[1] # Quote
  PROVE  IsGiven(Finished(type, str))
<1>1. CASE type = "String"
  <2>1. Converts([type |-> type, str |-> str])
    BY <1>1 DEF Converts, AtomToNode, DNodeString, Numeral, Atoms
  <2> QED  BY <1>1, <2>1, TokenGiven DEF Finished, Atoms
<1>2. CASE type = "Int" /\ str = <<"-">>
  <2>1. str[1] = "-" /\ Len(str) = 1
    BY <1>2
  <2>2. AtomToNode(str) = [type |-> "String", str |-> str]
    BY <2>1, NotDigits DEF AtomToNode
  <2>3. Converts([type |-> "String", str |-> str])
    BY <2>2 DEF Converts, DNodeString
  <2> QED  BY <1>2, <2>3, TokenGiven DEF Finished, Atoms
<1>3. CASE type = "Int" /\ str # <<"-">>
  <2>1. AtomToNode(str) = NumberAtom(str)
    BY <1>3 DEF AtomToNode, Numeral
  <2>2. CASE Finished(type, str) = Bad
    BY <2>2, BadGiven
  <2>3. CASE Finished(type, str) = Token("FloatingPoint", str) /\ Contains(str, ".")
             /\ IsSimpleFloat(str)
    <3>1. Converts([type |-> "FloatingPoint", str |-> str])
      BY <2>1, <2>3 DEF Converts, DNodeString, NumberAtom
    <3> QED  BY <2>3, <3>1, TokenGiven DEF Atoms
  <2>4. CASE Finished(type, str) = Token("Int", str) /\ ~Contains(str, ".") /\ IsSimpleInt(str)
    <3>1. Converts([type |-> "Int", str |-> str])
      BY <2>1, <2>4 DEF Converts, DNodeString, NumberAtom
    <3> QED  BY <2>4, <3>1, TokenGiven DEF Atoms
  <2> QED  BY <1>3, <2>2, <2>3, <2>4 DEF Finished
<1> QED  BY <1>1, <1>2, <1>3
-----------------------------------------------------------------------------
(***************************************************************************)
(* Each action of the lexer goes on with a token, or gives one.            *)
(***************************************************************************)
Going(l) ==
  /\ l \in Modes /\ Sofar(l) /\ Goes(l)
  /\ l.in = "token" /\ l.type # Null => Char # Eof
Giving(t, u, p) == IsGiven(t) /\ p \in 0 .. Len(file) /\ Gives(t, u, p)

LEMMA StartMode == Start \in Modes /\ Sofar(Start) /\ Start.type = Null
<1>1. <<>> \in Seq(Letters)
  BY EmptySeq
<1> QED  BY <1>1 DEF Start, InToken, Modes, Sofar, Null

LEMMA LineCommentGoes ==
  ASSUME LexTypes, LineComment
  PROVE  \E l : Going(l)
<1>1. Going(IF Char \in {Eof, NewLine} THEN Start ELSE lex)
  BY StartMode DEF LineComment, Reads, Going, LexTypes, Sofar
<1> QED  BY <1>1

LEMMA BlockCommentGoes ==
  ASSUME LexTypes, BlockComment
  PROVE  \E l : Going(l)
<1>1. CASE Reads("after") /\ Goes(Start)
  <2>1. Going(Start)
    BY <1>1, StartMode DEF Going
  <2> QED  BY <2>1
<1>2. CASE Reads("block") /\ Char = Eof /\ Goes(Start)
  <2>1. Going(Start)
    BY <1>2, StartMode DEF Going
  <2> QED  BY <2>1
<1>3. CASE Reads("block") /\ Goes([in |-> "after"])
  <2>1. Going([in |-> "after"])
    BY <1>3 DEF Going, Modes, Sofar
  <2> QED  BY <2>1
<1>4. CASE Reads("block") /\ Goes([lex EXCEPT !.depth = Nesting, !.last = Char])
  <2>1. lex \in [in : {"block"}, depth : Int, last : Letters]
    BY <1>4 DEF Reads, LexTypes, Modes
  <2>2. Nesting \in Int /\ Char \in Letters
    BY <2>1, CharRead DEF Nesting
  <2>3. Going([lex EXCEPT !.depth = Nesting, !.last = Char])
    BY <1>4, <2>1, <2>2 DEF Going, Modes, Sofar
  <2> QED  BY <2>3
<1> QED  BY <1>1, <1>2, <1>3, <1>4 DEF BlockComment

LEMMA StringLiteralReads ==
  ASSUME LexTypes, StringLiteral
  PROVE  (\E l : Going(l)) \/ (\E t, u, p : Giving(t, u, p))
<1>1. lex.in \in {"string", "escape"} /\ lex \in [in : {"string", "escape"}, str : Seq(Letters)]
  BY DEF StringLiteral, Reads, LexTypes, Modes
<1>2. lex.str \in Seq(Letters)
  BY <1>1
<1>3. Char \in Letters /\ Past \in 0 .. Len(file) /\ Slash \in Letters
  BY CharRead DEF Letters
<1>4. CASE Gives(Bad, Past, Past)
  <2>1. Giving(Bad, Past, Past)
    BY <1>2, <1>3, <1>4, BadGiven DEF Giving
  <2> QED  BY <2>1
<1>5. CASE Gives(Token("StringLiteral", lex.str), Past, Past)
  <2>1. Converts([type |-> "StringLiteral", str |-> lex.str])
    BY <1>2, LiteralConverts DEF Converts, DNodeString
  <2>2. IsGiven(Token("StringLiteral", lex.str))
    BY <1>2, <2>1, TokenGiven DEF Atoms
  <2>3. Giving(Token("StringLiteral", lex.str), Past, Past)
    BY <1>2, <1>3, <1>5, <2>2 DEF Giving
  <2> QED  BY <2>3
<1>6. CASE Char # Eof /\ Goes([lex EXCEPT !.in = "escape"])
  <2>1. Going([lex EXCEPT !.in = "escape"])
    BY <1>1, <1>6 DEF Going, Modes, Sofar
  <2> QED  BY <2>1
<1>7. CASE Char # Eof /\ Goes([lex EXCEPT !.str = Append(@, Char)])
  <2>1. Append(lex.str, Char) \in Seq(Letters)
    BY <1>2, <1>3, AppendProperties
  <2>2. Going([lex EXCEPT !.str = Append(@, Char)])
    BY <1>1, <1>7, <2>1 DEF Going, Modes, Sofar
  <2> QED  BY <2>2
<1>8. CASE /\ Char # Eof
           /\ Goes([in |-> "string",
                    str |-> lex.str \o IF Char = Quote THEN <<Char>> ELSE <<Slash, Char>>])
  <2> DEFINE e == IF Char = Quote THEN <<Char>> ELSE <<Slash, Char>>
  <2>1. e \in Seq(Letters)
    BY <1>3
  <2>2. lex.str \o e \in Seq(Letters)
    BY <1>2, <2>1, ConcatProperties
  <2> HIDE DEF e
  <2>3. [in |-> "string", str |-> lex.str \o e] \in Modes
    BY <2>2 DEF Modes
  <2>4. Goes([in |-> "string", str |-> lex.str \o e])
    BY <1>8 DEF e
  <2>5. Going([in |-> "string", str |-> lex.str \o e])
    BY <1>8, <2>3, <2>4 DEF Going, Sofar
  <2> QED  BY <2>5
<1> QED  BY <1>4, <1>5, <1>6, <1>7, <1>8 DEF StringLiteral

LEMMA BetweenReads ==
  ASSUME LexTypes, LexInv, Between
  PROVE  (\E l : Going(l)) \/ (\E t, u, p : Giving(t, u, p))
<1>1. <<>> \in Seq(Letters) /\ <<>> # <<"#", Slash>>
  BY EmptySeq
<1>2. lex.in = "token" /\ lex.type = Null /\ lex.str = <<>>
  BY DEF Between, Begins, Reads, LexInv, Sofar
<1>3. Char \in Spaces \cup {Eof, Semicolon, Quote, "(", ")"}
  BY DEF Between, Ends
<1>4. CASE Goes([in |-> "line"])
  <2>1. Going([in |-> "line"])
    BY <1>4 DEF Going, Modes, Sofar
  <2> QED  BY <2>1
<1>5. CASE Char = Quote /\ Goes([in |-> "string", str |-> <<>>])
  <2>1. Going([in |-> "string", str |-> <<>>])
    BY <1>1, <1>5 DEF Going, Modes, Sofar, Quote, Eof
  <2> QED  BY <2>1
<1>6. CASE Goes(Start)
  <2>1. Going(Start)
    BY <1>6, StartMode DEF Going
  <2> QED  BY <2>1
<1>7. CASE Char \in {Eof, "(", ")"} /\ Gives(Token(Char, <<>>), Past, Past)
  <2>1. Converts([type |-> Char, str |-> <<>>])
    BY <1>7 DEF Converts, Atoms, Eof
  <2>2. IsGiven(Token(Char, <<>>))
    BY <1>1, <1>7, <2>1, TokenGiven
  <2>3. Token(Char, <<>>).type = Char
    BY DEF Token
  <2>4. Past \in 0 .. Len(file)
    BY CharRead
  <2>5. Giving(Token(Char, <<>>), Past, Past)
    BY <1>7, <2>2, <2>3, <2>4 DEF Giving, Eof
  <2> QED  BY <2>5
<1> QED  BY <1>3, <1>4, <1>5, <1>6, <1>7 DEF Between

(* What a character makes of a token.                                      *)
LEMMA ContinueGoes ==
  ASSUME LexTypes, LexInv, Continue
  PROVE  \E l : Going(l)
<1>1. lex.in = "token" /\ lex \in [in : {"token"}, type : {Null, "Int", "String"},
                                str : Seq(Letters)]
  BY DEF Continue, Reads, LexTypes, Modes
<1>2. lex.str \in Seq(Letters) /\ lex.type \in {Null, "Int", "String"} /\ Char \in Letters
  BY <1>1, CharRead
<1>3. /\ lex.type = Null <=> lex.str = <<>>
      /\ lex.type = "Int" => Numeral(lex.str) \/ lex.str = <<"-">>
      /\ lex.type = "String" => ~Numeral(lex.str) /\ lex.str[1] # Quote /\ lex.str # <<"-">>
  BY <1>1 DEF LexInv, Sofar
<1>4. Char # Eof /\ Char \notin Spaces /\ (Char = Quote => lex.str = <<"#", Slash>>)
  BY DEF Continue, Ends
<1>5. CASE Goes([in |-> "block", depth |-> 1, last |-> Char])
  <2>1. Going([in |-> "block", depth |-> 1, last |-> Char])
    BY <1>2, <1>5 DEF Going, Modes, Sofar
  <2> QED  BY <2>1
<1> DEFINE type == IF lex.type = Null /\ Char \in {"-"} \cup Digits THEN "Int"
                   ELSE IF lex.type = Null \/ (lex.str = <<"-">> /\ Char \notin Digits)
                     THEN "String"
                   ELSE lex.type
           str == Append(lex.str, Char)
<1>6. CASE Goes(InToken(type, str))
  <2>1. /\ str \in Seq(Letters) /\ str # <<>> /\ Len(str) = Len(lex.str) + 1
        /\ \A k \in 1 .. Len(lex.str) : str[k] = lex.str[k]
        /\ str[Len(lex.str) + 1] = Char
    BY <1>2, AppendProperties
  <2>2. Len(lex.str) \in Nat /\ (lex.str = <<>> <=> Len(lex.str) = 0)
    BY <1>2, LenProperties, EmptySeq
  <2>3. type \in {"Int", "String"}
    BY <1>2
  <2>4. lex.str = <<"-">> => Len(lex.str) = 1 /\ lex.str[1] = "-"
    OBVIOUS
  <2>5. lex.str = <<"#", Slash>> => Len(lex.str) = 2 /\ lex.str[1] = "#"
    OBVIOUS
  <2> HIDE DEF str
  <2> DEFINE Fits == /\ type = "Int" => Numeral(str) \/ str = <<"-">>
                     /\ type = "String" => ~Numeral(str) /\ str[1] # Quote /\ str # <<"-">>
  <2>6. ASSUME lex.str = <<>> PROVE Fits
    <3>1. str[1] = Char /\ Len(str) = 1 /\ lex.type = Null
      <4>1. Len(lex.str) = 0 /\ Len(lex.str) + 1 = 1
        BY <2>2, <2>6
      <4> QED  BY <1>3, <2>1, <2>6, <4>1
    <3>2. CASE Char \in Digits
      BY <3>1, <3>2 DEF Numeral
    <3>3. CASE Char = "-"
      <4>1. <<Char>> \in Seq(Letters) /\ Len(<<Char>>) = 1 /\ <<Char>>[1] = Char
        BY <1>2
      <4>2. str = <<Char>>
        BY <2>1, <3>1, <4>1, SeqEqual
      <4> QED  BY <3>1, <3>3, <4>2
    <3>4. CASE Char \notin {"-"} \cup Digits
      <4>1. lex.str # <<"#", Slash>>
        BY <2>2, <2>5, <2>6
      <4>2. ~Numeral(str) /\ str[1] # Quote /\ str # <<"-">>
        BY <1>4, <3>1, <3>4, <4>1 DEF Numeral
      <4> QED  BY <3>1, <3>4, <4>2
    <3> QED  BY <3>2, <3>3, <3>4
  <2>7. ASSUME lex.str # <<>>
        PROVE  /\ str[1] = lex.str[1] /\ lex.type # Null /\ Len(str) > 1
               /\ Len(lex.str) > 1 => str[2] = lex.str[2]
               /\ Len(lex.str) = 1 => str[2] = Char
    <3>1. Len(lex.str) >= 1 /\ 1 \in 1 .. Len(lex.str)
      BY <2>2, <2>7
    <3>2. Len(lex.str) > 1 => 2 \in 1 .. Len(lex.str)
      BY <2>2
    <3>3. Len(lex.str) = 1 => Len(lex.str) + 1 = 2
      OBVIOUS
    <3>4. Len(str) > 1
      BY <2>1, <2>2, <3>1
    <3>5. str[1] = lex.str[1]
      BY <2>1, <3>1
    <3> QED  BY <1>3, <2>1, <2>7, <3>2, <3>3, <3>4, <3>5
  <2>8. ASSUME lex.str = <<"-">> PROVE Fits
    <3>1. /\ lex.str # <<>> /\ str[1] = "-" /\ str[2] = Char /\ Len(str) > 1
          /\ lex.type = "Int"
      BY <1>2, <1>3, <2>2, <2>4, <2>7, <2>8
    <3>2. CASE Char \in Digits
      BY <3>1, <3>2 DEF Numeral
    <3>3. CASE Char \notin Digits
      <4>1. ~Numeral(str) /\ str[1] # Quote
        BY <3>1, <3>3, NotDigits DEF Numeral
      <4>2. str # <<"-">>
        BY <3>1
      <4>3. type = "String"
        BY <2>7, <2>8, <3>1, <3>3
      <4> HIDE DEF type
      <4> QED  BY <4>1, <4>2, <4>3
    <3> QED  BY <3>2, <3>3
  <2>9. ASSUME lex.str # <<>>, lex.str # <<"-">> PROVE Fits
    <3>1. type = lex.type
      BY <2>7, <2>9
    <3>2. Numeral(lex.str) => Numeral(str)
      BY <2>7, <2>9 DEF Numeral
    <3>3. ASSUME ~Numeral(lex.str) PROVE ~Numeral(str)
      <4>1. CASE Len(lex.str) > 1
        BY <2>7, <2>9, <3>3, <4>1 DEF Numeral
      <4>2. CASE Len(lex.str) = 1
        <5>1. lex.str[1] # "-"
          <6>1. <<"-">> \in Seq({"-"}) /\ Len(<<"-">>) = 1 /\ <<"-">>[1] = "-"
            OBVIOUS
          <6>2. ASSUME lex.str[1] = "-" PROVE FALSE
            <7>1. lex.str \in Seq(Letters \cup {"-"}) /\ <<"-">> \in Seq(Letters \cup {"-"})
              BY <1>2, SeqMonotonic
            <7>2. lex.str = <<"-">>
              BY <4>2, <6>1, <6>2, <7>1, SeqEqual
            <7> QED  BY <2>9, <7>2
          <6> QED  BY <6>2
        <5> QED  BY <2>7, <2>9, <3>3, <4>2, <5>1 DEF Numeral
      <4> QED  BY <2>2, <2>9, <4>1, <4>2
    <3>4. str # <<"-">> /\ str[1] = lex.str[1]
      BY <2>7, <2>9
    <3> HIDE DEF type
    <3>5. type = "Int" => Numeral(str)
      BY <1>3, <2>9, <3>1, <3>2
    <3>6. type = "String" => ~Numeral(str) /\ str[1] # Quote
      BY <1>3, <3>1, <3>3, <3>4
    <3> QED  BY <3>4, <3>5, <3>6
  <2>10. Fits
    BY <2>6, <2>8, <2>9
  <2> HIDE DEF type
  <2>11. InToken(type, str) \in Modes
    BY <2>1, <2>3 DEF InToken, Modes
  <2>12. Sofar(InToken(type, str))
    BY <2>1, <2>3, <2>10 DEF InToken, Sofar, Null
  <2>13. Going(InToken(type, str))
    BY <1>4, <1>6, <2>11, <2>12 DEF Going, str, type
  <2> QED  BY <2>13
<1> QED  BY <1>5, <1>6 DEF Continue
LEMMA TokenEndsReads ==
  ASSUME LexTypes, LexInv, TokenEnds
  PROVE  \E t, u, p : Giving(t, u, p)
<1>1. lex.in = "token" /\ lex \in [in : {"token"}, type : {Null, "Int", "String"},
                                str : Seq(Letters)]
  BY DEF TokenEnds, Reads, LexTypes, Modes
<1>2. lex.str \in Seq(Letters) /\ lex.type \in {"Int", "String"}
  BY <1>1 DEF TokenEnds
<1>3. /\ lex.type = "Int" => Numeral(lex.str) \/ lex.str = <<"-">>
      /\ lex.type = "String" => ~Numeral(lex.str) /\ lex.str[1] # Quote
      /\ pos > 0
  BY <1>1 DEF LexInv, Sofar, TokenEnds
<1>4. IsGiven(Finished(lex.type, lex.str))
  BY <1>2, <1>3, FinishedGiven
<1>5. Unget \in 0 .. Len(file)
  BY <1>3, CharRead DEF Unget, LexTypes
<1>6. Giving(Finished(lex.type, lex.str), pos, Unget)
  BY <1>1, <1>4, <1>5 DEF TokenEnds, Giving
<1> QED  BY <1>6

LEMMA LexerReads ==
  ASSUME LexTypes, LexInv, Next
  PROVE  (\E l : Going(l)) \/ (\E t, u, p : Giving(t, u, p)) \/ Skipped
BY LineCommentGoes, BlockCommentGoes, StringLiteralReads, BetweenReads, ContinueGoes,
   TokenEndsReads DEF Next
-----------------------------------------------------------------------------
(***************************************************************************)
(* The lexer keeps its invariant.                                          *)
(***************************************************************************)
(* What is added to the tokens when t is given to the parser.              *)
LEMMA TokensRead ==
  ASSUME LexTypes, NEW t, NEW u, NEW p, Giving(t, u, p)
  PROVE  /\ file' = file /\ pos' = p /\ lex' = Start /\ tokens' \in Seq(Words)
         /\ \/ t.type \in {Null, Eof} /\ tokens' = tokens
            \/ /\ t.type \notin {Null, Eof} /\ Atom(t) \in Words
               /\ tokens' = Append(tokens, Atom(t)) /\ Len(tokens') = Len(tokens) + 1
<1>1. t \in Read /\ (t.error <=> t.type = Null) /\ tokens \in Seq(Words)
  BY DEF Giving, IsGiven, LexTypes
<1>2. Atom(t) \in Words
  BY <1>1 DEF Atom, Read, Words
<1>3. /\ file' = file /\ pos' = p /\ lex' = Start
      /\ tokens' = IF t.error \/ t.type = Eof THEN tokens ELSE Append(tokens, Atom(t))
  BY DEF Giving, Gives
<1>4. CASE t.type \in {Null, Eof}
  BY <1>1, <1>3, <1>4
<1>5. CASE t.type \notin {Null, Eof}
  <2>1. tokens' = Append(tokens, Atom(t))
    BY <1>1, <1>3, <1>5
  <2>2. Append(tokens, Atom(t)) \in Seq(Words)
        /\ Len(Append(tokens, Atom(t))) = Len(tokens) + 1
    BY <1>1, <1>2, AppendProperties
  <2> QED  BY <1>2, <1>3, <1>5, <2>1, <2>2
<1> QED  BY <1>4, <1>5

LEMMA LexKept ==
  ASSUME LexTypes, LexInv, [Next]_vars
  PROVE  LexTypes' /\ LexInv'
<1>1. ASSUME NEW l, Going(l) PROVE LexTypes' /\ LexInv'
  <2>1. /\ lex' = l /\ pos' = Past /\ file' = file /\ tokens' = tokens
        /\ l \in Modes /\ Sofar(l)
    BY <1>1 DEF Going, Goes, parser
  <2>2. Past \in 0 .. Len(file)
    BY CharRead
  <2>3. LexTypes'
    BY <2>1, <2>2 DEF LexTypes
  <2>4. l.in = "token" /\ l.type # Null => Char # Eof
    BY <1>1 DEF Going
  <2>5. l.in = "token" /\ l.type # Null => Past > 0
    BY <2>4, CharRead DEF LexTypes
  <2>6. LexInv'
    BY <2>1, <2>5 DEF LexInv
  <2> QED  BY <2>3, <2>6
<1>2. ASSUME NEW t, NEW u, NEW p, Giving(t, u, p) PROVE LexTypes' /\ LexInv'
  <2>1. file' = file /\ pos' = p /\ lex' = Start /\ tokens' \in Seq(Words)
    BY <1>2, TokensRead
  <2>2. p \in 0 .. Len(file)
    BY <1>2 DEF Giving
  <2>3. LexTypes'
    BY <2>1, <2>2, StartMode DEF LexTypes
  <2>4. LexInv'
    BY <2>1, StartMode DEF LexInv
  <2> QED  BY <2>3, <2>4
<1>3. CASE Skipped \/ UNCHANGED vars
  <2>1. UNCHANGED <<file, pos, lex, tokens>>
    BY <1>3 DEF Skipped, vars, parser
  <2> QED  BY <2>1 DEF LexTypes, LexInv
<1> QED  BY <1>1, <1>2, <1>3, LexerReads

(* Only atoms that convert are read.                                       *)
LEMMA AtomsKept ==
  ASSUME LexTypes, LexInv, AtomsConvert, [Next]_vars
  PROVE  AtomsConvert'
<1>1. CASE tokens' = tokens
  BY <1>1 DEF AtomsConvert
<1>2. ASSUME NEW t, NEW u, NEW p, Giving(t, u, p) PROVE AtomsConvert'
  <2>1. CASE tokens' = tokens
    BY <1>1, <2>1
  <2>2. CASE Atom(t) \in Words /\ tokens' = Append(tokens, Atom(t))
             /\ Len(tokens') = Len(tokens) + 1
    <3>1. tokens \in Seq(Words) /\ Len(tokens) \in Nat
      BY LenProperties DEF LexTypes
    <3>2. \A k \in 1 .. Len(tokens) : tokens'[k] = tokens[k]
      BY <2>2, <3>1, AppendProperties
    <3>3. tokens'[Len(tokens) + 1] = Atom(t)
      BY <2>2, <3>1, AppendProperties
    <3>4. ASSUME NEW k \in 1 .. Len(tokens') PROVE Converts(tokens'[k])
      <4>1. CASE k \in 1 .. Len(tokens)
        BY <3>2, <4>1 DEF AtomsConvert, Converts
      <4>2. CASE k = Len(tokens) + 1
        BY <1>2, <3>3, <4>2 DEF Giving, IsGiven
      <4> QED  BY <2>2, <3>1, <4>1, <4>2
    <3> QED  BY <3>4 DEF AtomsConvert, Converts
  <2> QED  BY <1>2, <2>1, <2>2, TokensRead
<1>3. ASSUME NEW l, Going(l) PROVE tokens' = tokens
  BY <1>3 DEF Going, Goes, parser
<1>4. ASSUME Skipped \/ UNCHANGED vars PROVE tokens' = tokens
  BY <1>4 DEF Skipped, vars, parser
<1> QED  BY <1>1, <1>2, <1>3, <1>4, LexerReads
-----------------------------------------------------------------------------
(***************************************************************************)
(* The parser keeps its types and its invariant.                           *)
(***************************************************************************)
ParserOK ==
  /\ at \in {"form", "list", "close", "skip", "end"}
  /\ at \in {"list", "close"} <=> open # <<>>
  /\ at = "skip" <=> skip > 0
  /\ \A k \in 1 .. Len(open) : open[k] \in 1 .. Len(nodes)

LEMMA NewNodes ==
  ASSUME NEW t \in Read, tokens \in Seq(Words)
  PROVE  /\ Here \in Nat /\ Here = Len(tokens) + 1 /\ ListNode \in Node /\ TokenNode(t) \in Node
         /\ ListNode.list = <<>> /\ ListNode.begin = Here /\ ListNode.end = 0
         /\ ListNode.token.type = Null
         /\ TokenNode(t).list = <<>> /\ TokenNode(t).begin = Here
         /\ TokenNode(t).end = Here /\ TokenNode(t).token = Atom(t)
<1>1. Here \in Nat /\ Here = Len(tokens) + 1
  BY LenProperties DEF Here
<1>2. <<>> \in Seq(Nat) /\ <<>> \in Seq(Letters)
  BY EmptySeq
<1>3. Atom(t) \in Words /\ Atom(Bad) \in Words /\ Atom(Bad).type = Null
  BY <1>2 DEF Atom, Words, Read, Bad, Kinds
<1>4. ListNode \in Node /\ TokenNode(t) \in Node
  BY <1>1, <1>2, <1>3 DEF ListNode, TokenNode, Node
<1> QED  BY <1>1, <1>3, <1>4 DEF ListNode, TokenNode

LEMMA InnermostOpen ==
  ASSUME ParserTypes, ParserOK, open # <<>>
  PROVE  /\ Len(open) \in Nat \ {0} /\ Last(open) \in 1 .. Len(nodes) /\ open[1] \in Nat
         /\ Front(open) \in Seq(Nat) /\ Len(Front(open)) = Len(open) - 1
         /\ \A k \in 1 .. Len(open) - 1 : Front(open)[k] = open[k]
<1>1. Len(open) \in Nat \ {0} /\ open \in Seq(Nat)
  BY EmptySeq DEF ParserTypes
<1>2. Len(open) \in 1 .. Len(open) /\ 1 \in 1 .. Len(open)
  BY <1>1
<1>3. Last(open) \in 1 .. Len(nodes) /\ open[1] \in Nat
  BY <1>1, <1>2, ElementOfSeq DEF Last, ParserOK
<1> QED  BY <1>1, <1>3, FrontParts

LEMMA EndSet ==
  ASSUME NEW h \in Seq(Node), NEW c \in 1 .. Len(h), NEW to \in Nat
  PROVE  [h EXCEPT ![c].end = to] \in Seq(Node) /\ Len([h EXCEPT ![c].end = to]) = Len(h)
<1> DEFINE n == [h[c] EXCEPT !.end = to]
           g == [h EXCEPT ![c].end = to]
<1>1. h[c] \in Node
  BY ElementOfSeq
<1>2. n \in Node
  BY <1>1 DEF Node
<1>3. g = [h EXCEPT ![c] = n]
  OBVIOUS
<1> HIDE DEF n, g
<1>4. g \in Seq(Node) /\ Len(g) = Len(h)
  BY <1>2, <1>3, ExceptSeq
<1> QED  BY <1>4 DEF g

LEMMA ListOpensTypes ==
  ASSUME ParserTypes, ParserOK, LexTypes, NEW t \in Read, ListOpens(t)
  PROVE  ParserTypes' /\ ParserOK'
<1>1. /\ nodes' = Added(nodes, open, ListNode) /\ open' = Append(open, Len(nodes) + 1)
      /\ at' = "list" /\ UNCHANGED <<skip, forms>> /\ at \in {"form", "list"}
  BY DEF ListOpens, Add, Added
<1>2. nodes \in Seq(Node) /\ open \in Seq(Nat) /\ Len(nodes) \in Nat /\ Len(open) \in Nat
      /\ Len(nodes) + 1 \in Nat
  BY LenProperties DEF ParserTypes
<1>3. ListNode \in Node
  BY NewNodes DEF LexTypes
<1>4. nodes' \in Seq(Node) /\ Len(nodes') = Len(nodes) + 1
  BY <1>1, <1>2, <1>3, AddedNodes, InnermostOpen
<1>5. /\ open' \in Seq(Nat) /\ open' # <<>> /\ Len(open') = Len(open) + 1
      /\ \A k \in 1 .. Len(open) : open'[k] = open[k]
      /\ open'[Len(open) + 1] = Len(nodes) + 1
  BY <1>1, <1>2, AppendProperties
<1>6. ASSUME NEW k \in 1 .. Len(open') PROVE open'[k] \in 1 .. Len(nodes')
  <2>1. CASE k \in 1 .. Len(open)
    <3>1. open'[k] \in 1 .. Len(nodes)
      BY <1>5, <2>1 DEF ParserOK
    <3> QED  BY <1>2, <1>4, <3>1
  <2>2. CASE k = Len(open) + 1
    BY <1>2, <1>4, <1>5, <2>2
  <2> QED  BY <1>2, <1>5, <2>1, <2>2
<1>7. ParserTypes'
  BY <1>1, <1>4, <1>5 DEF ParserTypes
<1>8. skip' = skip /\ ~(skip > 0)
  BY <1>1 DEF ParserOK
<1> QED  BY <1>1, <1>5, <1>6, <1>7, <1>8 DEF ParserOK

LEMMA ListAtomTypes ==
  ASSUME ParserTypes, ParserOK, LexTypes, NEW t \in Read, ListAtom(t)
  PROVE  ParserTypes' /\ ParserOK'
<1>1. nodes' = Added(nodes, open, TokenNode(t)) /\ UNCHANGED <<open, skip, at, forms>>
  BY DEF ListAtom, Add, Added
<1>2. nodes \in Seq(Node) /\ open \in Seq(Nat) /\ Len(nodes) \in Nat /\ TokenNode(t) \in Node
  BY LenProperties, NewNodes DEF ParserTypes, LexTypes
<1>3. nodes' \in Seq(Node) /\ Len(nodes') = Len(nodes) + 1
  BY <1>1, <1>2, AddedNodes, InnermostOpen
<1>4. ASSUME NEW k \in 1 .. Len(open) PROVE open[k] \in 1 .. Len(nodes')
  <2>1. open[k] \in 1 .. Len(nodes)
    BY DEF ParserOK
  <2> QED  BY <1>2, <1>3, <2>1
<1> QED  BY <1>1, <1>3, <1>4 DEF ParserTypes, ParserOK

LEMMA ListClosesTypes ==
  ASSUME ParserTypes, ParserOK, LexTypes, NEW t \in Read, ListCloses(t)
  PROVE  ParserTypes' /\ ParserOK'
<1>1. /\ nodes' = [nodes EXCEPT ![Last(open)].end = Here] /\ open' = Front(open)
      /\ forms' = IF Len(open) = 1 THEN Append(forms, open[1]) ELSE forms
      /\ at' = (IF Len(open) = 1 THEN "form" ELSE "list") /\ UNCHANGED skip
      /\ at \in {"list", "close"}
  BY DEF ListCloses, Closed
<1>2. open # <<>> /\ ~(skip > 0)
  BY <1>1 DEF ParserOK
<1>3. /\ Len(open) \in Nat \ {0} /\ Last(open) \in 1 .. Len(nodes) /\ open[1] \in Nat
      /\ open' \in Seq(Nat) /\ Len(open') = Len(open) - 1
      /\ \A k \in 1 .. Len(open) - 1 : open'[k] = open[k]
  BY <1>1, <1>2, InnermostOpen
<1>4. Here \in Nat /\ nodes \in Seq(Node) /\ forms \in Seq(Nat)
  BY NewNodes DEF ParserTypes, LexTypes
<1>5. nodes' \in Seq(Node) /\ Len(nodes') = Len(nodes)
  BY <1>1, <1>3, <1>4, EndSet
<1>6. forms' \in Seq(Nat)
  BY <1>1, <1>3, <1>4, AppendProperties
<1>7. ASSUME NEW k \in 1 .. Len(open') PROVE open'[k] \in 1 .. Len(nodes')
  <2>1. k \in 1 .. Len(open) - 1 /\ k \in 1 .. Len(open)
    BY <1>3
  <2> QED  BY <1>3, <1>5, <2>1 DEF ParserOK
<1>8. open' # <<>> <=> Len(open) # 1
  <2>1. Len(open') # 0 <=> Len(open) # 1
    BY <1>3
  <2> QED  BY <1>3, <2>1, EmptySeq
<1>9. ParserTypes'
  BY <1>1, <1>3, <1>5, <1>6 DEF ParserTypes
<1> QED  BY <1>1, <1>2, <1>7, <1>8, <1>9 DEF ParserOK

LEMMA StepTypes ==
  ASSUME ParserTypes, ParserOK, LexTypes, NEW t \in Read, Step(t)
  PROVE  ParserTypes' /\ ParserOK'
<1>1. CASE FormFails(t) \/ EndOfFile(t)
  BY <1>1 DEF FormFails, EndOfFile, NoNode, ParserTypes, ParserOK
<1>2. CASE ListError(t) \/ ListEnds(t)
  BY <1>2 DEF ListError, ListEnds, ParserTypes, ParserOK
<1>3. CASE Missing(t)
  <2>1. open # <<>>
    BY <1>3 DEF Missing, ParserOK
  <2>2. Len(open) \in Nat \ {0} /\ <<>> \in Seq(Nat) /\ Len(<<>>) = 0
    BY <2>1, EmptySeq DEF ParserTypes
  <2>3. /\ skip' = Len(open) /\ open' = <<>> /\ at' = "skip" /\ UNCHANGED <<nodes, forms>>
    BY <1>3 DEF Missing
  <2>4. ParserTypes'
    BY <2>2, <2>3 DEF ParserTypes
  <2>5. ParserOK'
    BY <2>2, <2>3 DEF ParserOK
  <2> QED  BY <2>4, <2>5
<1>4. CASE SkipOne(t)
  BY <1>4 DEF SkipOne, ParserTypes, ParserOK
<1> QED
  BY <1>1, <1>2, <1>3, <1>4, ListOpensTypes, ListAtomTypes, ListClosesTypes DEF Step

LEMMA ParserTypesKept ==
  ASSUME LexTypes, LexInv, ParserTypes, ParserOK, [Next]_vars
  PROVE  ParserTypes' /\ ParserOK'
<1>1. ASSUME NEW l, Going(l) PROVE ParserTypes' /\ ParserOK'
  BY <1>1 DEF Going, Goes, parser, ParserTypes, ParserOK
<1>2. ASSUME NEW t, NEW u, NEW p, Giving(t, u, p) PROVE ParserTypes' /\ ParserOK'
  BY <1>2, StepTypes DEF Giving, Gives, IsGiven
<1>3. CASE Skipped
  BY <1>3 DEF Skipped, ParserTypes, ParserOK
<1>4. CASE UNCHANGED vars
  BY <1>4 DEF vars, parser, ParserTypes, ParserOK
<1> QED  BY <1>1, <1>2, <1>3, <1>4, LexerReads

LEMMA ParserKept ==
  ASSUME LexTypes, LexInv, ParserTypes, ParserOK, ParserInv, [Next]_vars
  PROVE  ParserInv'
<1>1. ASSUME NEW l, Going(l) PROVE ParserInv'
  BY <1>1 DEF Going, Goes, parser, ParserInv
<1>2. ASSUME NEW t, NEW u, NEW p, Giving(t, u, p) PROVE ParserInv'
  <2>1. t \in Read /\ Step(t)
    BY <1>2 DEF Giving, Gives, IsGiven
  <2>2. \/ t.type \in {Null, Eof} /\ tokens' = tokens
        \/ t.type \notin {Null, Eof} /\ Atom(t) \in Words /\ tokens' = Append(tokens, Atom(t))
    BY <1>2, TokensRead
  <2>3. nodes \in Seq(Node) /\ open \in Seq(Nat) /\ forms \in Seq(Nat) /\ tokens \in Seq(Words)
    BY DEF ParserTypes, LexTypes
  <2>4. nodes' \in Seq(Node) /\ open' \in Seq(Nat)
    BY <2>1, StepTypes DEF ParserTypes
  <2>5. CASE FormFails(t) \/ ListError(t) \/ Missing(t)
    BY <2>5 DEF FormFails, NoNode, ListError, Missing, ParserInv
  <2>6. CASE SkipOne(t)
    BY <2>6 DEF SkipOne, ParserInv
  <2>7. CASE EndOfFile(t) \/ ListEnds(t)
    <3>1. UNCHANGED <<tokens, nodes, open, forms, errors>> /\ at' # "skip"
      BY <2>2, <2>7 DEF EndOfFile, ListEnds
    <3> QED  BY <3>1 DEF ParserInv
  <2>8. CASE ListOpens(t)
    <3>1. /\ nodes' = Added(nodes, open, ListNode) /\ open' = Append(open, Len(nodes) + 1)
          /\ at' # "skip" /\ UNCHANGED <<forms, errors>> /\ t.type = "("
      BY <2>8 DEF ListOpens, Add, Added
    <3>2. tokens' = Append(tokens, Atom(t)) /\ Atom(t) \in Words /\ Atom(t).type = "("
      BY <2>2, <3>1 DEF Null, Eof, Atom
    <3>3. /\ ListNode \in Node /\ ListNode.list = <<>> /\ ListNode.begin = Len(tokens) + 1
          /\ ListNode.token.type = Null /\ ListNode.end = 0
      BY <2>1, <2>3, NewNodes
    <3>4. ASSUME Good(nodes, tokens, open, forms)
          PROVE  Good(nodes', tokens', open', forms)
      <4> DEFINE n == ListNode
                 w == Atom(t)
                 o == open'
      <4>1. /\ n \in Node /\ n.list = <<>> /\ n.begin = Len(tokens) + 1 /\ n.token.type = Null
            /\ n.end = 0 /\ w \in Words /\ w.type = "(" /\ o \in Seq(Nat)
            /\ o = Append(open, Len(nodes) + 1)
        BY <2>4, <3>1, <3>2, <3>3
      <4> HIDE DEF n, w, o
      <4>2. Good(Added(nodes, open, n), Append(tokens, w), o, forms)
        BY <2>3, <3>4, <4>1, NodeAdded
      <4> QED  BY <3>1, <3>2, <4>2 DEF n, w, o
    <3> QED  BY <3>1, <3>4 DEF ParserInv
  <2>9. CASE ListAtom(t)
    <3>1. /\ nodes' = Added(nodes, open, TokenNode(t)) /\ UNCHANGED <<open, forms, errors>>
          /\ at' # "skip" /\ t.type \in Atoms /\ open # <<>>
      BY <2>9 DEF ListAtom, Add, Added, ParserOK
    <3>2. tokens' = Append(tokens, Atom(t)) /\ Atom(t) \in Words /\ Atom(t).type # Null
      BY <2>2, <3>1 DEF Null, Eof, Atom, Atoms
    <3>3. /\ TokenNode(t) \in Node /\ TokenNode(t).list = <<>>
          /\ TokenNode(t).begin = Len(tokens) + 1 /\ TokenNode(t).end = Len(tokens) + 1
          /\ TokenNode(t).token = Atom(t)
      BY <2>1, <2>3, NewNodes
    <3>4. ASSUME Good(nodes, tokens, open, forms)
          PROVE  Good(nodes', tokens', open, forms)
      <4> DEFINE n == TokenNode(t)
                 w == Atom(t)
      <4>1. /\ n \in Node /\ n.list = <<>> /\ n.begin = Len(tokens) + 1 /\ n.token = w
            /\ n.end = Len(tokens) + 1 /\ w \in Words /\ w.type # Null
        BY <3>2, <3>3
      <4> HIDE DEF n, w
      <4>2. Good(Added(nodes, open, n), Append(tokens, w), open, forms)
        BY <2>3, <3>1, <3>4, <4>1, NodeAdded
      <4> QED  BY <3>1, <3>2, <4>2 DEF n, w
    <3> QED  BY <3>1, <3>4 DEF ParserInv
  <2>10. CASE ListCloses(t)
    <3>1. /\ nodes' = [nodes EXCEPT ![Last(open)].end = Len(tokens) + 1] /\ open' = Front(open)
          /\ forms' = IF Len(open) = 1 THEN Append(forms, open[1]) ELSE forms
          /\ at' # "skip" /\ UNCHANGED errors /\ t.type = ")" /\ open # <<>>
      BY <2>10 DEF ListCloses, Closed, ParserOK, Here
    <3>2. tokens' = Append(tokens, Atom(t)) /\ Atom(t) \in Words /\ Atom(t).type = ")"
      BY <2>2, <3>1 DEF Null, Eof, Atom
    <3>3. ASSUME Good(nodes, tokens, open, forms)
          PROVE  Good(nodes', tokens', open', forms')
      BY <2>3, <3>1, <3>2, <3>3, ListClosed
    <3> QED  BY <3>1, <3>3 DEF ParserInv
  <2> QED  BY <2>1, <2>5, <2>6, <2>7, <2>8, <2>9, <2>10 DEF Step
<1>3. CASE Skipped \/ UNCHANGED vars
  BY <1>3 DEF Skipped, vars, parser, ParserInv
<1> QED  BY <1>1, <1>2, <1>3, LexerReads
-----------------------------------------------------------------------------
(***************************************************************************)
(* The pieces that a file is read in.                                      *)
(***************************************************************************)
Parts    == {"space", "line", "block", "after", "bad", "token"}
PieceSet == [kind : Parts, from : Nat, upto : Nat, token : Nat]

(* What the lexer, l, has read up to i of a piece that begins after b.     *)
Progress(f, l, b, i) ==
  /\ b \in Nat /\ i \in Nat
  /\ l.in = "token"  => i = b + Len(l.str) /\ \A j \in 1 .. Len(l.str) : f[b + j] = l.str[j]
  /\ l.in = "line"   => b < i /\ f[b + 1] = Semicolon /\ \A j \in b + 1 .. i : f[j] # NewLine
  /\ l.in = "block"  => /\ BlockUpTo(f, b, i) /\ l.depth = Depth(f, b, i) /\ l.depth # 0
                        /\ l.last = f[i]
  /\ l.in = "after"  => i = b
  /\ l.in = "string" => LiteralUpTo(f, b, i, l.str)
  /\ l.in = "escape" => LiteralUpTo(f, b, i - 1, l.str) /\ f[i] = Slash

(* InPieces and IsRead, of a file f, the pieces r, the tokens ts and the   *)
(* errors es; n is how many tokens there are.                              *)
UptoIn(r, k)   == IF k = 1 THEN 0 ELSE r[k - 1].upto
KindIn(r, k)   == IF k = 1 THEN "none" ELSE r[k - 1].kind
NumberIn(r, k) == IF k = 1 THEN 0 ELSE r[k - 1].token
Meets(f, kind, upto, from) ==
  from = upto \/ (kind \in {"token", "bad"} /\ upto = Len(f) /\ from = Len(f) - 1)
Linked(f, r, k) ==
  /\ Meets(f, KindIn(r, k), UptoIn(r, k), r[k].from)
  /\ r[k].kind = "after" => KindIn(r, k) = "block"
  /\ r[k].token = NumberIn(r, k) + IF r[k].kind = "token" THEN 1 ELSE 0
Chain(f, r, b, n) ==
  /\ \A k \in 1 .. Len(r) : Linked(f, r, k)
  /\ Meets(f, KindIn(r, Len(r) + 1), UptoIn(r, Len(r) + 1), b)
  /\ NumberIn(r, Len(r) + 1) = n
ReadAs(f, ts, es, p) ==
  /\ p.kind = "space" => p.upto = p.from + 1 /\ f[p.upto] \in Spaces
  /\ p.kind = "line"  => LineWritten(f, p)
  /\ p.kind = "block" => /\ BlockUpTo(f, p.from, p.upto)
                         /\ Depth(f, p.from, p.upto) = 0 \/ p.upto = Len(f)
  /\ p.kind = "after" => Swallowed(p)
  /\ p.kind = "bad"   => es # {}
  /\ p.kind = "token" => /\ p.token \in 1 .. Len(ts)
                         /\ TokenWritten(f, p, ts[p.token])

PieceInv ==
  /\ read \in Seq(PieceSet) /\ Progress(file, lex, begun, pos)
  /\ lex.in = "after" => KindIn(read, Len(read) + 1) = "block"
  /\ Chain(file, read, begun, Len(tokens))
  /\ \A k \in 1 .. Len(read) : ReadAs(file, tokens, errors, read[k])

LEMMA PieceAdded ==
  ASSUME read \in Seq(PieceSet), NEW p \in PieceSet, NEW b2, NEW n \in Nat,
         Chain(file, read, begun, n), p.from = begun,
         p.kind = "after" => KindIn(read, Len(read) + 1) = "block",
         p.kind = "token" => p.token = n + 1, p.kind # "token" => p.token = n,
         Meets(file, p.kind, p.upto, b2)
  PROVE  /\ Append(read, p) \in Seq(PieceSet) /\ Len(Append(read, p)) = Len(read) + 1
         /\ Append(read, p)[Len(read) + 1] = p
         /\ \A k \in 1 .. Len(read) : Append(read, p)[k] = read[k]
         /\ Chain(file, Append(read, p), b2, p.token)
         /\ KindIn(Append(read, p), Len(Append(read, p)) + 1) = p.kind
<1> DEFINE a == Append(read, p)
<1>1. Len(read) \in Nat
  BY LenProperties
<1>2. /\ a \in Seq(PieceSet) /\ Len(a) = Len(read) + 1 /\ a[Len(read) + 1] = p
      /\ \A k \in 1 .. Len(read) : a[k] = read[k]
  BY AppendProperties
<1> HIDE DEF a
<1>3. \A k \in 1 .. Len(read) + 1 : /\ KindIn(a, k) = KindIn(read, k)
                                    /\ UptoIn(a, k) = UptoIn(read, k)
                                    /\ NumberIn(a, k) = NumberIn(read, k)
  <2> TAKE k \in 1 .. Len(read) + 1
  <2>1. k = 1 \/ k - 1 \in 1 .. Len(read)
    BY <1>1
  <2>2. k = 1 \/ a[k - 1] = read[k - 1]
    BY <1>2, <2>1
  <2> QED  BY <2>2 DEF KindIn, UptoIn, NumberIn
<1>4. Len(read) + 1 \in 1 .. Len(read) + 1 /\ Len(a) + 1 # 1 /\ (Len(a) + 1) - 1 = Len(read) + 1
  BY <1>1, <1>2
<1>5. /\ KindIn(a, Len(a) + 1) = p.kind /\ UptoIn(a, Len(a) + 1) = p.upto
      /\ NumberIn(a, Len(a) + 1) = p.token
  BY <1>2, <1>4 DEF KindIn, UptoIn, NumberIn
<1>6. ASSUME NEW k \in 1 .. Len(a) PROVE Linked(file, a, k)
  <2>1. CASE k \in 1 .. Len(read)
    <3>1. Linked(file, read, k) /\ a[k] = read[k] /\ k \in 1 .. Len(read) + 1
      BY <1>1, <1>2, <2>1 DEF Chain
    <3> QED  BY <1>3, <3>1 DEF Linked
  <2>2. CASE k = Len(read) + 1
    <3>1. a[k] = p /\ k \in 1 .. Len(read) + 1
      BY <1>1, <1>2, <2>2
    <3>2. NumberIn(read, Len(read) + 1) = n
      BY DEF Chain
    <3>3. Meets(file, KindIn(read, Len(read) + 1), UptoIn(read, Len(read) + 1), begun)
      BY DEF Chain
    <3>4. KindIn(a, k) = KindIn(read, k) /\ UptoIn(a, k) = UptoIn(read, k)
          /\ NumberIn(a, k) = NumberIn(read, k)
      BY <1>3, <3>1
    <3> QED  BY <2>2, <3>1, <3>2, <3>3, <3>4 DEF Linked
  <2> QED  BY <1>1, <1>2, <2>1, <2>2
<1>7. Chain(file, a, b2, p.token)
  BY <1>5, <1>6 DEF Chain
<1> QED  BY <1>2, <1>5, <1>7 DEF a

(* The pieces before a new one stay what they are.                         *)
LEMMA PieceStays ==
  ASSUME NEW f, NEW ts \in Seq(Words), NEW ts2 \in Seq(Words), NEW es, NEW es2,
         NEW p \in PieceSet, ReadAs(f, ts, es, p), es # {} => es2 # {},
         Len(ts) <= Len(ts2), \A k \in 1 .. Len(ts) : ts2[k] = ts[k]
  PROVE  ReadAs(f, ts2, es2, p)
<1>1. Len(ts) \in Nat /\ Len(ts2) \in Nat
  BY LenProperties
<1>2. p.kind = "token" => p.token \in 1 .. Len(ts2) /\ ts2[p.token] = ts[p.token]
  BY <1>1 DEF ReadAs
<1> QED  BY <1>2 DEF ReadAs

(* The lexer has begun with the next piece, or reads on.                   *)
LEMMA PieceBegins ==
  \A f : \A i \in Nat :
    Progress(f, Start, i, i) /\ Progress(f, [in |-> "after"], i, i)
<1>1. Len(<<>>) = 0
  BY EmptySeq
<1> QED  BY <1>1 DEF Progress, Start, InToken

LEMMA ReadsOn ==
  ASSUME LexTypes, PieceInv, NEW l, Goes(l), l \notin {Start, [in |-> "after"]},
         Progress(file, l, begun, Past), l.in # "after"
  PROVE  PieceInv'
<1>1. /\ lex' = l /\ pos' = Past /\ file' = file /\ read' = read /\ begun' = begun
      /\ tokens' = tokens /\ errors' = errors
  BY DEF Goes, parser, pieces
<1> QED  BY <1>1 DEF PieceInv

(* The lexer leaves out a space or a comment.                              *)
LEMMA LeavesOut ==
  ASSUME LexTypes, PieceInv, NEW l \in {Start, [in |-> "after"]}, Goes(l),
         NEW p, p = [kind |-> Left, from |-> begun, upto |-> Past, token |-> Len(tokens)],
         p.kind \in Parts \ {"token"}, ReadAs(file, tokens, errors, p),
         p.kind = "after" => lex.in = "after",
         l.in = "after" => p.kind = "block"
  PROVE  PieceInv'
<1>1. /\ lex' = l /\ pos' = Past /\ file' = file /\ tokens' = tokens /\ errors' = errors
      /\ read' = Append(read, p) /\ begun' = Past
  <2>1. /\ lex' = l /\ pos' = Past /\ UNCHANGED <<file, parser>>
        /\ read' = Append(read, Piece(Left, Past)) /\ begun' = Past
    BY DEF Goes
  <2>2. tokens' = tokens /\ errors' = errors
    BY <2>1 DEF parser
  <2>3. Piece(Left, Past) = p
    BY <2>2 DEF Piece
  <2> QED  BY <2>1, <2>2, <2>3
<1>2. Past \in Nat /\ Len(tokens) \in Nat /\ begun \in Nat /\ read \in Seq(PieceSet)
  <2>1. Past \in Nat /\ Len(tokens) \in Nat
    BY CharRead, LenProperties DEF LexTypes
  <2>2. begun \in Nat /\ read \in Seq(PieceSet)
    BY DEF PieceInv, Progress
  <2> QED  BY <2>1, <2>2
<1>3. p \in PieceSet /\ p.from = begun /\ p.upto = Past /\ p.token = Len(tokens)
  <2>1. p.kind = Left /\ Left \in Parts
    OBVIOUS
  <2> QED  BY <1>2, <2>1 DEF PieceSet
<1>4. Meets(file, p.kind, p.upto, Past) /\ p.kind # "token"
  BY <1>3 DEF Meets
<1>5. Chain(file, read, begun, Len(tokens))
  BY DEF PieceInv
<1>6. p.kind = "after" => KindIn(read, Len(read) + 1) = "block"
  BY DEF PieceInv
<1>7. /\ read' \in Seq(PieceSet) /\ Len(read') = Len(read) + 1 /\ read'[Len(read) + 1] = p
      /\ \A k \in 1 .. Len(read) : read'[k] = read[k]
      /\ Chain(file, read', Past, Len(tokens)) /\ KindIn(read', Len(read') + 1) = p.kind
  <2>1. /\ Append(read, p) \in Seq(PieceSet) /\ Len(Append(read, p)) = Len(read) + 1
        /\ Append(read, p)[Len(read) + 1] = p
        /\ \A k \in 1 .. Len(read) : Append(read, p)[k] = read[k]
        /\ Chain(file, Append(read, p), Past, p.token)
        /\ KindIn(Append(read, p), Len(Append(read, p)) + 1) = p.kind
    <3>1. Len(tokens) \in Nat /\ p.token = Len(tokens)
      BY <1>2, <1>3
    <3> QED  BY <1>2, <1>3, <1>4, <1>5, <1>6, <3>1, PieceAdded
  <2> QED  BY <1>1, <1>3, <2>1
<1>8. Len(read) \in Nat
  BY <1>2, LenProperties
<1>9. ASSUME NEW k \in 1 .. Len(read') PROVE ReadAs(file, tokens, errors, read'[k])
  BY <1>7, <1>8 DEF PieceInv
<1>10. Progress(file, l, Past, Past)
  BY <1>2, PieceBegins
<1> QED  BY <1>1, <1>7, <1>9, <1>10 DEF PieceInv

(* The parser reports what is no token, and keeps its errors.              *)
LEMMA ErrorsStay ==
  ASSUME ParserInv, NEW t \in Read, Step(t), t.error <=> t.type = Null
  PROVE  (errors # {} => errors' # {}) /\ (t.error => errors' # {})
<1>1. CASE FormFails(t) \/ ListError(t) \/ Missing(t)
  BY <1>1 DEF FormFails, NoNode, ListError, Missing
<1>2. CASE EndOfFile(t) \/ ListOpens(t) \/ ListAtom(t) \/ ListCloses(t) \/ ListEnds(t)
  <2>1. t.type # Null
    BY <1>2 DEF EndOfFile, ListOpens, ListAtom, ListCloses, ListEnds, Atoms, Null, Eof
  <2>2. errors' = errors
    BY <1>2 DEF EndOfFile, ListOpens, ListAtom, ListCloses, ListEnds
  <2> QED  BY <2>1, <2>2
<1>3. CASE SkipOne(t)
  BY <1>3 DEF SkipOne, ParserInv
<1> QED  BY <1>1, <1>2, <1>3 DEF Step

LEMMA TokenIsRead ==
  ASSUME LexTypes, PieceInv, ParserInv, NEW t, NEW u, NEW p, Giving(t, u, p),
         t.type = Eof => p = begun,
         t.type # Eof => u \in Nat /\ (p = u \/ (u = Len(file) /\ p = Len(file) - 1)),
         t.type \notin {Null, Eof} =>
           \A n \in Nat : TokenWritten(file, [kind |-> "token", from |-> begun, upto |-> u,
                                              token |-> n], Atom(t))
  PROVE  PieceInv'
<1>1. /\ t \in Read /\ (t.error <=> t.type = Null) /\ p \in Nat /\ Step(t)
      /\ lex' = Start /\ pos' = p /\ begun' = p /\ file' = file
      /\ read' = IF t.type = Eof THEN read
                ELSE Append(read, Piece(IF t.error THEN "bad" ELSE "token", u))
  BY CharRead DEF Giving, Gives, IsGiven
<1>2. Len(tokens) \in Nat /\ begun \in Nat /\ read \in Seq(PieceSet) /\ tokens \in Seq(Words)
      /\ Len(read) \in Nat
  <2>1. read \in Seq(PieceSet) /\ begun \in Nat
    BY DEF PieceInv, Progress
  <2> QED  BY <2>1, LenProperties DEF LexTypes
<1>3. (errors # {} => errors' # {}) /\ (t.error => errors' # {})
  BY <1>1, ErrorsStay
<1>4. Chain(file, read, begun, Len(tokens))
  BY DEF PieceInv
<1>5. /\ tokens' \in Seq(Words)
      /\ \/ t.type \in {Null, Eof} /\ tokens' = tokens
         \/ t.type \notin {Null, Eof} /\ Atom(t) \in Words /\ tokens' = Append(tokens, Atom(t))
  BY TokensRead
<1>6. Len(tokens) <= Len(tokens') /\ (\A k \in 1 .. Len(tokens) : tokens'[k] = tokens[k])
      /\ (t.type \notin {Null, Eof} => Len(tokens') = Len(tokens) + 1
                                     /\ tokens'[Len(tokens) + 1] = Atom(t))
  <2>1. CASE t.type \in {Null, Eof}
    BY <1>2, <1>5, <2>1
  <2>2. CASE t.type \notin {Null, Eof}
    <3>1. Atom(t) \in Words /\ tokens' = Append(tokens, Atom(t))
      BY <1>5, <2>2
    <3>2. /\ Len(tokens') = Len(tokens) + 1 /\ tokens'[Len(tokens) + 1] = Atom(t)
          /\ \A k \in 1 .. Len(tokens) : tokens'[k] = tokens[k]
      BY <1>2, <3>1, TokensKept
    <3> QED  BY <1>2, <3>2
  <2> QED  BY <2>1, <2>2
<1>7. \A k \in 1 .. Len(read) : ReadAs(file, tokens', errors', read[k])
  <2> TAKE k \in 1 .. Len(read)
  <2>1. read[k] \in PieceSet /\ ReadAs(file, tokens, errors, read[k])
    BY <1>2, ElementOfSeq DEF PieceInv
  <2> QED  BY <1>2, <1>3, <1>5, <1>6, <2>1, PieceStays
<1>8. Progress(file, Start, p, p) /\ Start.in = "token"
  BY <1>1, PieceBegins DEF Start, InToken
<1>9. CASE t.type = Eof
  <2>1. read' = read /\ begun' = begun /\ tokens' = tokens
    BY <1>1, <1>5, <1>9
  <2>2. begun = p
    BY <1>9
  <2> QED  BY <1>1, <1>2, <1>4, <1>7, <1>8, <2>1, <2>2 DEF PieceInv
<1>10. CASE t.type # Eof
  <2> DEFINE kind == IF t.error THEN "bad" ELSE "token"
             q    == [kind |-> kind, from |-> begun, upto |-> u, token |-> Len(tokens')]
  <2>1. read' = Append(read, q)
    BY <1>1, <1>10 DEF Piece
  <2>2. /\ q \in PieceSet /\ q.from = begun /\ q.upto = u /\ q.token = Len(tokens')
        /\ q.kind = kind
    <3>1. Len(tokens') \in Nat
      BY <1>2, <1>5, LenProperties
    <3>2. kind \in Parts
      BY DEF Parts
    <3> QED  BY <1>2, <1>10, <3>1, <3>2 DEF PieceSet
  <2>3. kind = "token" => Len(tokens') = Len(tokens) + 1 /\ t.type \notin {Null, Eof}
    BY <1>1, <1>6, <1>10
  <2>4. kind # "token" => Len(tokens') = Len(tokens)
    BY <1>1, <1>5
  <2>5. kind \in {"bad", "token"} /\ (kind = "bad" => t.error)
    OBVIOUS
  <2>6. Meets(file, q.kind, q.upto, p)
    BY <1>10, <2>2, <2>5 DEF Meets
  <2>7. q.kind = "token" => TokenWritten(file, q, Atom(t))
    <3>1. CASE kind = "token"
      <4>1. q = [kind |-> "token", from |-> begun, upto |-> u, token |-> Len(tokens')]
        BY <3>1
      <4>2. Len(tokens') \in Nat
        BY <1>2, <1>5, LenProperties
      <4> QED  BY <2>3, <3>1, <4>1, <4>2
    <3> QED  BY <2>2, <3>1
  <2> HIDE DEF q, kind
  <2>8. ReadAs(file, tokens', errors', q)
    <3>1. CASE kind = "bad"
      BY <1>3, <2>2, <2>5, <3>1 DEF ReadAs
    <3>2. CASE kind = "token"
      <4>1. q.token = Len(tokens) + 1 /\ q.token \in 1 .. Len(tokens')
            /\ tokens'[q.token] = Atom(t)
        BY <1>2, <1>6, <2>2, <2>3, <3>2
      <4> QED  BY <2>2, <2>7, <3>2, <4>1 DEF ReadAs
    <3> QED  BY <2>5, <3>1, <3>2
  <2>9. /\ q.kind # "after" /\ (q.kind = "token" => q.token = Len(tokens) + 1)
        /\ (q.kind # "token" => q.token = Len(tokens))
    BY <2>2, <2>3, <2>4, <2>5
  <2>10. /\ Append(read, q) \in Seq(PieceSet) /\ Len(Append(read, q)) = Len(read) + 1
         /\ Append(read, q)[Len(read) + 1] = q
         /\ \A k \in 1 .. Len(read) : Append(read, q)[k] = read[k]
         /\ Chain(file, Append(read, q), p, q.token)
    BY <1>2, <1>4, <2>2, <2>6, <2>9, PieceAdded
  <2>11. ASSUME NEW k \in 1 .. Len(read') PROVE ReadAs(file, tokens', errors', read'[k])
    <3>1. CASE k \in 1 .. Len(read)
      BY <1>7, <2>1, <2>10, <3>1
    <3>2. CASE k = Len(read) + 1
      BY <2>1, <2>8, <2>10, <3>2
    <3> QED  BY <1>2, <2>1, <2>10, <3>1, <3>2
  <2> QED  BY <1>1, <1>8, <2>1, <2>2, <2>10, <2>11 DEF PieceInv
<1> QED  BY <1>9, <1>10

-----------------------------------------------------------------------------
(***************************************************************************)
(* How literals and comments grow.                                         *)
(***************************************************************************)
LEMMA QuotesCounted ==
  ASSUME NEW s, NEW n \in Nat
  PROVE  /\ Quotes(s, n) \in Nat /\ Quotes(s, 0) = 0
         /\ Quotes(s, n + 1) = Quotes(s, n) + IF s[n + 1] = Quote THEN 1 ELSE 0
<1> DEFINE S == {i \in 1 .. n : s[i] = Quote}
<1>1. IsFiniteSet(S)
  <2>1. IsFiniteSet(1 .. n) /\ S \in SUBSET (1 .. n)
    BY FS_Interval
  <2> HIDE DEF S
  <2> QED  BY <2>1, FS_Subset
<1>2. Cardinality(S) \in Nat
  BY <1>1, FS_CardinalityType
<1>3. n + 1 \notin S
  OBVIOUS
<1>4. {i \in 1 .. n + 1 : s[i] = Quote} = IF s[n + 1] = Quote THEN S \cup {n + 1} ELSE S
  OBVIOUS
<1>5. Cardinality(S \cup {n + 1}) = Cardinality(S) + 1
  BY <1>1, <1>3, FS_AddElement
<1>6. {i \in 1 .. 0 : s[i] = Quote} = {}
  OBVIOUS
<1> HIDE DEF S
<1>7. Quotes(s, n) = Cardinality(S)
  BY DEF Quotes, S
<1>8. Quotes(s, 0) = 0
  BY <1>6, FS_EmptySet DEF Quotes
<1>9. Quotes(s, n + 1) = Cardinality(S) + IF s[n + 1] = Quote THEN 1 ELSE 0
  <2>1. CASE s[n + 1] = Quote
    BY <1>4, <1>5, <2>1 DEF Quotes
  <2>2. CASE s[n + 1] # Quote
    BY <1>2, <1>4, <2>2 DEF Quotes
  <2> QED  BY <2>1, <2>2
<1> QED  BY <1>2, <1>7, <1>8, <1>9

LEMMA QuotesAppended ==
  ASSUME NEW s \in Seq(Letters), NEW c \in Letters
  PROVE  /\ \A n \in 0 .. Len(s) : Quotes(Append(s, c), n) = Quotes(s, n)
         /\ Quotes(Append(s, c), Len(s) + 1) =
              Quotes(s, Len(s)) + IF c = Quote THEN 1 ELSE 0
<1>1. /\ \A i \in 1 .. Len(s) : Append(s, c)[i] = s[i]
      /\ Append(s, c)[Len(s) + 1] = c /\ Len(s) \in Nat
  BY AppendProperties, LenProperties
<1>2. ASSUME NEW n \in 0 .. Len(s) PROVE Quotes(Append(s, c), n) = Quotes(s, n)
  <2>1. {i \in 1 .. n : Append(s, c)[i] = Quote} = {i \in 1 .. n : s[i] = Quote}
    BY <1>1
  <2> QED  BY <2>1 DEF Quotes
<1>3. Quotes(Append(s, c), Len(s) + 1) =
        Quotes(Append(s, c), Len(s)) + IF Append(s, c)[Len(s) + 1] = Quote THEN 1 ELSE 0
  BY <1>1, QuotesCounted
<1> QED  BY <1>1, <1>2, <1>3

(* A character of a literal: a double quote comes after a backslash.       *)
LEMMA LiteralGrows ==
  ASSUME NEW f, NEW b \in Nat, NEW i \in Nat, NEW s \in Seq(Letters), NEW c \in Letters,
         LiteralUpTo(f, b, i, s), NEW i2 \in Nat, f[i2] = c,
         c # Quote => i2 = i + 1, c = Quote => i2 = i + 2 /\ f[i + 1] = Slash
  PROVE  LiteralUpTo(f, b, i2, Append(s, c))
<1> DEFINE a == Append(s, c)
           q == Quotes(s, Len(s))
<1>1. /\ Len(a) = Len(s) + 1 /\ \A k \in 1 .. Len(s) : a[k] = s[k]
      /\ a[Len(s) + 1] = c /\ Len(s) \in Nat
  BY AppendProperties, LenProperties
<1>2. /\ \A n \in 0 .. Len(s) : Quotes(a, n) = Quotes(s, n)
      /\ Quotes(a, Len(s) + 1) = q + IF c = Quote THEN 1 ELSE 0
      /\ q \in Nat
  BY <1>1, QuotesAppended, QuotesCounted
<1> HIDE DEF a, q
<1>3. i = b + 1 + Len(s) + q /\ f[b + 1] = Quote
  BY DEF LiteralUpTo, q
<1>4. i2 = b + 1 + Len(a) + Quotes(a, Len(a))
  BY <1>1, <1>2, <1>3
<1>5. ASSUME NEW k \in 1 .. Len(a)
      PROVE  /\ f[b + 1 + k + Quotes(a, k)] = a[k]
             /\ a[k] = Quote => f[b + k + Quotes(a, k)] = Slash
  <2>1. CASE k \in 1 .. Len(s)
    <3>1. a[k] = s[k] /\ Quotes(a, k) = Quotes(s, k)
      BY <1>1, <1>2, <2>1
    <3> QED  BY <2>1, <3>1 DEF LiteralUpTo
  <2>2. CASE k = Len(s) + 1
    <3>1. a[k] = c /\ Quotes(a, k) = q + IF c = Quote THEN 1 ELSE 0
      BY <1>1, <1>2, <2>2
    <3>2. b + 1 + k + Quotes(a, k) = i2
      BY <1>1, <1>2, <1>3, <2>2, <3>1
    <3>3. c = Quote => b + k + Quotes(a, k) = i + 1
      BY <1>1, <1>2, <1>3, <2>2, <3>1
    <3> QED  BY <3>1, <3>2, <3>3
  <2> QED  BY <1>1, <2>1, <2>2
<1> QED  BY <1>3, <1>4, <1>5 DEF LiteralUpTo, a

LEMMA PairsCounted ==
  ASSUME NEW f, NEW b \in Nat, NEW i \in Nat, b + 2 <= i, NEW x, NEW y
  PROVE  /\ Pairs(f, b, i, x, y) \in Nat /\ Pairs(f, b, b + 2, x, y) = 0
         /\ Pairs(f, b, i + 1, x, y) =
              Pairs(f, b, i, x, y) + IF f[i] = x /\ f[i + 1] = y THEN 1 ELSE 0
<1> DEFINE S == {j \in b + 3 .. i : f[j - 1] = x /\ f[j] = y}
           here == f[i] = x /\ f[i + 1] = y
<1>1. IsFiniteSet(S)
  <2>1. b + 3 \in Int /\ i \in Int
    OBVIOUS
  <2>2. IsFiniteSet(b + 3 .. i) /\ S \in SUBSET (b + 3 .. i)
    BY <2>1, FS_Interval
  <2> HIDE DEF S
  <2> QED  BY <2>2, FS_Subset
<1>2. Cardinality(S) \in Nat
  BY <1>1, FS_CardinalityType
<1>3. i + 1 \notin S
  OBVIOUS
<1>4. {j \in b + 3 .. i + 1 : f[j - 1] = x /\ f[j] = y} = IF here THEN S \cup {i + 1} ELSE S
  <2>1. (i + 1) - 1 = i /\ b + 3 <= i + 1
    OBVIOUS
  <2>2. b + 3 .. i + 1 = (b + 3 .. i) \cup {i + 1}
    OBVIOUS
  <2> QED  BY <2>1, <2>2
<1>5. Cardinality(S \cup {i + 1}) = Cardinality(S) + 1
  BY <1>1, <1>3, FS_AddElement
<1>6. {j \in b + 3 .. b + 2 : f[j - 1] = x /\ f[j] = y} = {}
  OBVIOUS
<1> HIDE DEF S, here
<1>7. Pairs(f, b, i, x, y) = Cardinality(S)
  BY DEF Pairs, S
<1>8. Pairs(f, b, b + 2, x, y) = 0
  BY <1>6, FS_EmptySet DEF Pairs
<1>9. Pairs(f, b, i + 1, x, y) = Cardinality(S) + IF here THEN 1 ELSE 0
  <2>1. CASE here
    BY <1>4, <1>5, <2>1 DEF Pairs
  <2>2. CASE ~here
    <3>1. Pairs(f, b, i + 1, x, y) = Cardinality(S)
      BY <1>4, <2>2 DEF Pairs
    <3> QED  BY <1>2, <2>2, <3>1
  <2> QED  BY <2>1, <2>2
<1> QED  BY <1>2, <1>7, <1>8, <1>9 DEF here

LEMMA DepthCounted ==
  ASSUME NEW f, NEW b \in Nat, NEW i \in Nat, b + 2 <= i
  PROVE  /\ Depth(f, b, i) \in Int /\ Depth(f, b, b + 2) = 1
         /\ Depth(f, b, i + 1) =
              IF f[i] = "|" /\ f[i + 1] = "#" THEN Depth(f, b, i) - 1
              ELSE IF f[i] = "#" /\ f[i + 1] = "|" THEN Depth(f, b, i) + 1
              ELSE Depth(f, b, i)
<1>1. /\ Pairs(f, b, i, "#", "|") \in Nat /\ Pairs(f, b, b + 2, "#", "|") = 0
      /\ Pairs(f, b, i + 1, "#", "|") =
           Pairs(f, b, i, "#", "|") + IF f[i] = "#" /\ f[i + 1] = "|" THEN 1 ELSE 0
  BY PairsCounted
<1>2. /\ Pairs(f, b, i, "|", "#") \in Nat /\ Pairs(f, b, b + 2, "|", "#") = 0
      /\ Pairs(f, b, i + 1, "|", "#") =
           Pairs(f, b, i, "|", "#") + IF f[i] = "|" /\ f[i + 1] = "#" THEN 1 ELSE 0
  BY PairsCounted
<1> QED  BY <1>1, <1>2 DEF Depth

-----------------------------------------------------------------------------
(***************************************************************************)
(* What each action of the lexer does to the pieces.                       *)
(***************************************************************************)
LEMMA Places ==
  ASSUME LexTypes, PieceInv
  PROVE  /\ begun \in Nat /\ pos \in Nat /\ Past \in Nat /\ Len(tokens) \in Nat
         /\ Progress(file, lex, begun, pos) /\ Char \in Letters
         /\ Char # Eof => Past = pos + 1 /\ file[Past] = Char
         /\ Char = Eof => Past = pos /\ pos = Len(file)
<1>1. begun \in Nat /\ pos \in Nat /\ Progress(file, lex, begun, pos)
  BY DEF PieceInv, Progress
<1>2. Len(tokens) \in Nat
  BY LenProperties DEF LexTypes
<1> QED  BY <1>1, <1>2, CharRead

LEMMA LineCommentPieces ==
  ASSUME LexTypes, PieceInv, LineComment
  PROVE  PieceInv'
<1>1. /\ lex.in = "line" /\ begun < pos /\ file[begun + 1] = Semicolon
      /\ \A j \in begun + 1 .. pos : file[j] # NewLine
  BY Places DEF LineComment, Reads, Progress
<1>2. begun \in Nat /\ pos \in Nat /\ Past \in Nat
  BY Places
<1>3. CASE Char \in {Eof, NewLine}
  <2> DEFINE p == [kind |-> Left, from |-> begun, upto |-> Past, token |-> Len(tokens)]
  <2>1. Goes(Start)
    BY <1>3 DEF LineComment
  <2>2. p.kind = "line" /\ p.from = begun /\ p.upto = Past
    BY <1>1 DEF Left
  <2>3. Past - 1 <= pos /\ begun < Past /\ (file[Past] = NewLine \/ Past = Len(file))
    BY <1>1, <1>2, <1>3, Places
  <2>4. \A j \in begun + 1 .. Past - 1 : file[j] # NewLine
    BY <1>1, <1>2, <2>3
  <2> HIDE DEF p
  <2>5. ReadAs(file, tokens, errors, p)
    BY <1>1, <2>2, <2>3, <2>4 DEF ReadAs, LineWritten
  <2>6. p.kind \in Parts \ {"token"} /\ Start.in = "token"
    BY <2>2 DEF Parts, Start, InToken
  <2> QED  BY <2>1, <2>2, <2>5, <2>6, LeavesOut DEF p
<1>4. CASE Char \notin {Eof, NewLine}
  <2>1. Goes(lex) /\ lex \notin {Start, [in |-> "after"]} /\ lex.in # "after"
    BY <1>1, <1>4 DEF LineComment, Start, InToken
  <2>2. Past = pos + 1 /\ file[Past] # NewLine
    BY <1>4, Places
  <2>3. \A j \in begun + 1 .. Past : file[j] # NewLine
    BY <1>1, <1>2, <2>2
  <2>4. Progress(file, lex, begun, Past)
    BY <1>1, <1>2, <2>2, <2>3 DEF Progress
  <2> QED  BY <2>1, <2>4, ReadsOn
<1> QED  BY <1>3, <1>4

LEMMA BlockCommentPieces ==
  ASSUME LexTypes, PieceInv, BlockComment
  PROVE  PieceInv'
<1>0. begun \in Nat /\ pos \in Nat /\ Past \in Nat /\ Char \in Letters
  BY Places
<1> DEFINE p == [kind |-> Left, from |-> begun, upto |-> Past, token |-> Len(tokens)]
<1>1. CASE Reads("after") /\ Goes(Start)
  <2>1. p.kind = "after" /\ p.from = begun /\ p.upto = Past /\ lex.in = "after"
    BY <1>1 DEF Left, Reads
  <2>2. pos = begun
    BY <2>1, Places DEF Progress
  <2>3. Past - begun \in {0, 1}
    BY <1>0, <2>2, Places
  <2> HIDE DEF p
  <2>4. ReadAs(file, tokens, errors, p)
    BY <2>1, <2>3 DEF ReadAs, Swallowed
  <2>5. p.kind \in Parts \ {"token"} /\ Start.in = "token"
    BY <2>1 DEF Parts, Start, InToken
  <2> QED  BY <1>1, <2>1, <2>4, <2>5, LeavesOut DEF p
<1>2. ASSUME Reads("block") PROVE PieceInv'
  <2>1. /\ lex.in = "block" /\ BlockUpTo(file, begun, pos) /\ lex.depth = Depth(file, begun, pos)
        /\ lex.depth # 0 /\ lex.last = file[pos]
    BY <1>2, Places DEF Reads, Progress
  <2>2. begun + 2 <= pos
    BY <2>1 DEF BlockUpTo
  <2>3. p.kind = "block" /\ p.from = begun /\ p.upto = Past
    BY <2>1 DEF Left
  <2>4. p.kind \in Parts \ {"token"} /\ p.kind # "after" /\ Start.in = "token"
    BY <2>3 DEF Parts, Start, InToken
  <2>5. Char # Eof => BlockUpTo(file, begun, Past)
    <3> SUFFICES ASSUME Char # Eof PROVE BlockUpTo(file, begun, Past)
      OBVIOUS
    <3>1. Past = pos + 1
      BY Places
    <3>2. ASSUME NEW i \in begun + 2 .. Past - 1 PROVE Depth(file, begun, i) # 0
      <4>1. i = pos \/ i \in begun + 2 .. pos - 1
        BY <1>0, <2>2, <3>1
      <4> QED  BY <2>1, <4>1 DEF BlockUpTo
    <3> QED  BY <1>0, <2>1, <3>1, <3>2 DEF BlockUpTo
  <2>6. Char # Eof => Depth(file, begun, Past) = Nesting
    <3> SUFFICES ASSUME Char # Eof PROVE Depth(file, begun, Past) = Nesting
      OBVIOUS
    <3>1. Past = pos + 1 /\ file[Past] = Char
      BY Places
    <3>2. Depth(file, begun, pos + 1) =
            IF file[pos] = "|" /\ file[pos + 1] = "#" THEN Depth(file, begun, pos) - 1
            ELSE IF file[pos] = "#" /\ file[pos + 1] = "|" THEN Depth(file, begun, pos) + 1
            ELSE Depth(file, begun, pos)
      BY <1>0, <2>2, DepthCounted
    <3> QED  BY <2>1, <3>1, <3>2 DEF Nesting
  <2> HIDE DEF p
  <2>7. CASE Char = Eof /\ Goes(Start)
    <3>1. ReadAs(file, tokens, errors, p)
      BY <2>1, <2>3, <2>7, Places DEF ReadAs
    <3> QED  BY <2>3, <2>4, <2>7, <3>1, LeavesOut DEF p
  <2>8. CASE Char # Eof /\ Nesting = 0 /\ Goes([in |-> "after"])
    <3>1. ReadAs(file, tokens, errors, p)
      BY <2>3, <2>5, <2>6, <2>8 DEF ReadAs
    <3> QED  BY <2>3, <2>4, <2>8, <3>1, LeavesOut DEF p
  <2>9. CASE /\ Char # Eof /\ Nesting # 0
             /\ Goes([lex EXCEPT !.depth = Nesting, !.last = Char])
    <3> DEFINE l == [lex EXCEPT !.depth = Nesting, !.last = Char]
    <3>1. lex \in [in : {"block"}, depth : Int, last : Letters]
      BY <2>1 DEF LexTypes, Modes
    <3>2. l.in = "block" /\ l.depth = Nesting /\ l.last = Char
      BY <3>1
    <3>3. l \notin {Start, [in |-> "after"]}
      BY <3>2 DEF Start, InToken
    <3> HIDE DEF l
    <3>4. Progress(file, l, begun, Past)
      BY <1>0, <2>5, <2>6, <2>9, <3>2, Places DEF Progress
    <3>5. Goes(l)
      BY <2>9 DEF l
    <3> QED  BY <3>2, <3>3, <3>4, <3>5, ReadsOn
  <2> QED  BY <1>2, <2>1, <2>7, <2>8, <2>9 DEF BlockComment, Reads
<1> QED  BY <1>1, <1>2 DEF BlockComment

LEMMA StringLiteralPieces ==
  ASSUME LexTypes, PieceInv, ParserInv, StringLiteral
  PROVE  PieceInv'
<1>0. begun \in Nat /\ pos \in Nat /\ Past \in Nat /\ Char \in Letters /\ Slash \in Letters
      /\ Slash # Quote /\ Past \in 0 .. Len(file)
  BY Places, CharRead DEF Letters, Slash, Quote
<1>1. lex.in \in {"string", "escape"} /\ lex \in [in : {"string", "escape"}, str : Seq(Letters)]
  BY DEF StringLiteral, Reads, LexTypes, Modes
<1>2. lex.str \in Seq(Letters)
  BY <1>1
<1>3. CASE Gives(Bad, Past, Past)
  <2>1. Giving(Bad, Past, Past) /\ Bad.type = Null
    BY <1>0, <1>3, BadGiven DEF Giving, Bad
  <2> QED  BY <1>0, <2>1, TokenIsRead DEF Null, Eof
<1>4. ASSUME lex.in = "string", Char # Eof PROVE PieceInv'
  <2>1. LiteralUpTo(file, begun, pos, lex.str)
    BY <1>4, Places DEF Progress
  <2>2. Past = pos + 1 /\ file[Past] = Char
    BY <1>4, Places
  <2>3. CASE Char = Quote
    <3> DEFINE t == Token("StringLiteral", lex.str)
    <3>1. Gives(t, Past, Past)
      BY <1>4, <2>3 DEF StringLiteral, Reads, Quote, Eof
    <3>2. Converts([type |-> "StringLiteral", str |-> lex.str])
      BY <1>2, LiteralConverts DEF Converts, DNodeString
    <3>3. IsGiven(t)
      BY <1>2, <3>2, TokenGiven DEF Atoms
    <3>4. Giving(t, Past, Past)
      BY <1>0, <3>1, <3>3 DEF Giving
    <3>5. t.type = "StringLiteral" /\ Atom(t).type = "StringLiteral" /\ Atom(t).str = lex.str
      BY DEF Token, Atom
    <3>6. Past - 1 = pos
      BY <1>0, <2>2
    <3>7. \A n \in Nat : TokenWritten(file, [kind |-> "token", from |-> begun, upto |-> Past,
                                             token |-> n], Atom(t))
      BY <2>1, <2>2, <2>3, <3>5, <3>6 DEF TokenWritten
    <3> HIDE DEF t
    <3> QED  BY <1>0, <3>4, <3>5, <3>7, TokenIsRead DEF Eof
  <2>4. CASE Char = Slash
    <3> DEFINE l == [lex EXCEPT !.in = "escape"]
    <3>1. Goes(l)
      BY <1>0, <1>4, <2>4 DEF StringLiteral, Reads
    <3>2. l.in = "escape" /\ l.str = lex.str
      BY <1>1
    <3>3. l \notin {Start, [in |-> "after"]} /\ l.in # "after"
      BY <3>2 DEF Start, InToken
    <3> HIDE DEF l
    <3>4. Past - 1 = pos
      BY <1>0, <2>2
    <3>5. Progress(file, l, begun, Past)
      BY <1>0, <2>1, <2>2, <2>4, <3>2, <3>4 DEF Progress
    <3> QED  BY <3>1, <3>3, <3>5, ReadsOn
  <2>5. CASE Char \notin {Quote, Slash}
    <3> DEFINE l == [lex EXCEPT !.str = Append(@, Char)]
    <3>1. Goes(l)
      BY <1>4, <2>5 DEF StringLiteral, Reads
    <3>2. l.in = "string" /\ l.str = Append(lex.str, Char)
      BY <1>1, <1>4
    <3>3. l \notin {Start, [in |-> "after"]} /\ l.in # "after"
      BY <3>2 DEF Start, InToken
    <3> HIDE DEF l
    <3>4. LiteralUpTo(file, begun, Past, Append(lex.str, Char))
      BY <1>0, <1>2, <2>1, <2>2, <2>5, LiteralGrows
    <3>5. Progress(file, l, begun, Past)
      BY <1>0, <3>2, <3>4 DEF Progress
    <3> QED  BY <3>1, <3>3, <3>5, ReadsOn
  <2> QED  BY <2>3, <2>4, <2>5
<1>5. ASSUME lex.in = "escape", Char # Eof PROVE PieceInv'
  <2> DEFINE e == IF Char = Quote THEN <<Char>> ELSE <<Slash, Char>>
             s == lex.str \o e
             l == [in |-> "string", str |-> s]
  <2>1. LiteralUpTo(file, begun, pos - 1, lex.str) /\ file[pos] = Slash
    BY <1>5, Places DEF Progress
  <2>2. Past = pos + 1 /\ file[Past] = Char
    BY <1>5, Places
  <2>3. Goes(l)
    BY <1>5 DEF StringLiteral, Reads
  <2>4. l.in = "string" /\ l.str = s /\ l.in # "after" /\ l \notin {Start, [in |-> "after"]}
    BY DEF Start, InToken
  <2> HIDE DEF l
  <2>5. pos - 1 \in Nat /\ (pos - 1) + 1 = pos /\ (pos - 1) + 2 = Past
    <3>1. pos - 1 = begun + 1 + Len(lex.str) + Quotes(lex.str, Len(lex.str))
      BY <2>1 DEF LiteralUpTo
    <3> DEFINE n == Len(lex.str)
               q == Quotes(lex.str, Len(lex.str))
    <3>2. n \in Nat /\ q \in Nat
      BY <1>2, LenProperties, QuotesCounted
    <3>3. pos - 1 = begun + 1 + n + q
      BY <3>1
    <3> HIDE DEF n, q
    <3>4. begun \in Nat /\ pos \in Nat /\ Past = pos + 1
      BY <1>0, <2>2
    <3> QED  BY ONLY <3>2, <3>3, <3>4
  <2>6. LiteralUpTo(file, begun, Past, s)
    <3>1. CASE Char = Quote
      <4>1. s = Append(lex.str, Char)
        BY <1>0, <1>2, <3>1, AppendIsConcat
      <4>2. LiteralUpTo(file, begun, Past, Append(lex.str, Char))
        BY <1>0, <1>2, <2>1, <2>2, <2>5, <3>1, LiteralGrows
      <4> QED  BY <4>1, <4>2
    <3>2. CASE Char # Quote
      <4>1. Append(lex.str, Slash) \in Seq(Letters)
        BY <1>0, <1>2, AppendProperties
      <4>2. s = Append(Append(lex.str, Slash), Char)
        BY <1>0, <1>2, <3>2
      <4>3. LiteralUpTo(file, begun, pos, Append(lex.str, Slash))
        BY <1>0, <1>2, <2>1, <2>5, LiteralGrows
      <4>4. LiteralUpTo(file, begun, Past, Append(Append(lex.str, Slash), Char))
        BY <1>0, <2>2, <3>2, <4>1, <4>3, LiteralGrows
      <4> QED  BY <4>2, <4>4
    <3> QED  BY <3>1, <3>2
  <2> HIDE DEF s
  <2>7. Progress(file, l, begun, Past)
    BY <1>0, <2>4, <2>6 DEF Progress
  <2> QED  BY <2>3, <2>4, <2>7, ReadsOn
<1>6. CASE Char = Eof
  BY <1>3, <1>6 DEF StringLiteral
<1> QED  BY <1>1, <1>4, <1>5, <1>6

LEMMA BetweenPieces ==
  ASSUME LexTypes, LexInv, PieceInv, ParserInv, Between
  PROVE  PieceInv'
<1>0. begun \in Nat /\ pos \in Nat /\ Past \in Nat /\ Past \in 0 .. Len(file) /\ Char \in Letters
      /\ Len(tokens) \in Nat
  BY Places, CharRead
<1>1. <<>> \in Seq(Letters) /\ <<>> # <<"#", Slash>> /\ Len(<<>>) = 0
  BY EmptySeq
<1>2. lex.in = "token" /\ lex.type = Null /\ lex.str = <<>>
  BY DEF Between, Begins, Reads, LexInv, Sofar
<1>3. pos = begun
  <2>1. pos = begun + Len(lex.str)
    BY <1>2, Places DEF Progress
  <2> QED  BY <1>0, <1>1, <1>2, <2>1
<1>4. CASE Char = Semicolon /\ Goes([in |-> "line"])
  <2> DEFINE l == [in |-> "line"]
  <2>1. Past = begun + 1 /\ file[begun + 1] = Semicolon
    BY <1>3, <1>4, Places DEF Semicolon, Eof
  <2>2. \A j \in begun + 1 .. Past : file[j] # NewLine
    <3>1. Semicolon # NewLine
      BY DEF Semicolon, NewLine
    <3> QED  BY <1>0, <2>1, <3>1
  <2>3. l.in = "line" /\ l \notin {Start, [in |-> "after"]} /\ l.in # "after"
    BY DEF Start, InToken
  <2>4. Goes(l)
    BY <1>4
  <2> HIDE DEF l
  <2>5. Progress(file, l, begun, Past)
    BY <1>0, <2>1, <2>2, <2>3 DEF Progress
  <2> QED  BY <2>3, <2>4, <2>5, ReadsOn
<1>5. CASE Char = Quote /\ Goes([in |-> "string", str |-> <<>>])
  <2> DEFINE l == [in |-> "string", str |-> <<>>]
  <2>1. Past = begun + 1 /\ file[begun + 1] = Quote
    BY <1>3, <1>5, Places DEF Quote, Eof
  <2>2. Quotes(<<>>, 0) = 0
    BY QuotesCounted
  <2>3. LiteralUpTo(file, begun, Past, <<>>)
    BY <1>0, <1>1, <2>1, <2>2 DEF LiteralUpTo
  <2>4. l.in = "string" /\ l.str = <<>> /\ l \notin {Start, [in |-> "after"]} /\ l.in # "after"
    BY DEF Start, InToken
  <2>5. Goes(l)
    BY <1>5
  <2> HIDE DEF l
  <2>6. Progress(file, l, begun, Past)
    BY <1>0, <2>3, <2>4 DEF Progress
  <2> QED  BY <2>4, <2>5, <2>6, ReadsOn
<1>6. CASE Char \in Spaces /\ Goes(Start)
  <2> DEFINE p == [kind |-> Left, from |-> begun, upto |-> Past, token |-> Len(tokens)]
  <2>1. p.kind = "space" /\ p.from = begun /\ p.upto = Past
    BY <1>2 DEF Left
  <2>2. Past = begun + 1 /\ file[Past] \in Spaces
    <3>1. Char # Eof
      BY <1>6 DEF Spaces, NewLine, Eof
    <3> QED  BY <1>3, <1>6, <3>1, Places
  <2>3. p.kind \in Parts \ {"token"} /\ p.kind # "after" /\ Start.in = "token"
    BY <2>1 DEF Parts, Start, InToken
  <2> HIDE DEF p
  <2>4. ReadAs(file, tokens, errors, p)
    BY <2>1, <2>2 DEF ReadAs
  <2> QED  BY <1>6, <2>1, <2>3, <2>4, LeavesOut DEF p
<1>7. CASE Char \in {Eof, "(", ")"} /\ Gives(Token(Char, <<>>), Past, Past)
  <2> DEFINE t == Token(Char, <<>>)
  <2>1. Converts([type |-> Char, str |-> <<>>])
    BY <1>7 DEF Converts, Atoms, Eof
  <2>2. IsGiven(t)
    BY <1>1, <1>7, <2>1, TokenGiven
  <2>3. t.type = Char /\ Atom(t).type = Char
    BY DEF Token, Atom
  <2>4. Giving(t, Past, Past)
    BY <1>0, <1>7, <2>2 DEF Giving
  <2> HIDE DEF t
  <2>5. Char = Eof => Past = begun
    BY <1>3, Places
  <2>6. ASSUME t.type \notin {Null, Eof}, NEW n \in Nat
        PROVE  TokenWritten(file, [kind |-> "token", from |-> begun, upto |-> Past,
                                   token |-> n], Atom(t))
    <3>1. Char \in {"(", ")"} /\ Past = begun + 1 /\ file[begun + 1] = Char
      BY <1>3, <1>7, <2>3, <2>6, Places
    <3>2. Len(<<Char>>) = 1 /\ <<Char>>[1] = Char
      OBVIOUS
    <3>3. Written(file, [kind |-> "token", from |-> begun, upto |-> Past, token |-> n], <<Char>>)
      BY <1>0, <3>1, <3>2 DEF Written
    <3> QED  BY <2>3, <3>1, <3>3 DEF TokenWritten
  <2> QED  BY <1>0, <2>3, <2>4, <2>5, <2>6, TokenIsRead
<1>8. Char \in Spaces \cup {Eof, Semicolon, Quote, "(", ")"}
  BY DEF Between, Ends
<1> QED  BY <1>4, <1>5, <1>6, <1>7, <1>8 DEF Between

LEMMA Appended ==
  ASSUME NEW S, NEW q \in Seq(S), NEW e \in S
  PROVE  /\ Append(q, e) # <<>> /\ Len(Append(q, e)) = Len(q) + 1
         /\ Append(q, e)[Len(q) + 1] = e
         /\ \A j \in 1 .. Len(q) : Append(q, e)[j] = q[j]
BY AppendProperties

LEMMA ContinuePieces ==
  ASSUME LexTypes, PieceInv, Continue
  PROVE  PieceInv'
<1>0. begun \in Nat /\ pos \in Nat /\ Past \in Nat /\ Char \in Letters
  BY Places
<1>1. lex.in = "token" /\ lex \in [in : {"token"}, type : {Null, "Int", "String"},
                                str : Seq(Letters)]
  BY DEF Continue, Reads, LexTypes, Modes
<1>2. /\ lex.str \in Seq(Letters) /\ Len(lex.str) \in Nat /\ pos = begun + Len(lex.str)
      /\ \A j \in 1 .. Len(lex.str) : file[begun + j] = lex.str[j]
  BY <1>1, Places, LenProperties DEF Progress
<1>3. Past = pos + 1 /\ file[Past] = Char
  BY Places DEF Continue, Ends
<1>4. CASE /\ Char = "|" /\ lex.str = <<"#">>
           /\ Goes([in |-> "block", depth |-> 1, last |-> Char])
  <2> DEFINE l == [in |-> "block", depth |-> 1, last |-> Char]
  <2>1. Len(lex.str) = 1 /\ lex.str[1] = "#"
    BY <1>4
  <2>2. Past = begun + 2 /\ file[begun + 1] = "#" /\ file[begun + 2] = "|"
    BY <1>0, <1>2, <1>3, <1>4, <2>1
  <2>3. BlockUpTo(file, begun, Past)
    BY <1>0, <2>2 DEF BlockUpTo
  <2>4. Depth(file, begun, Past) = 1
    <3>1. begun + 2 \in Nat /\ begun + 2 <= begun + 2
      BY <1>0
    <3>2. Depth(file, begun, begun + 2) = 1
      BY <1>0, <3>1, DepthCounted
    <3> QED  BY <2>2, <3>2
  <2>5. l.in = "block" /\ l.depth = 1 /\ l.last = Char /\ l \notin {Start, [in |-> "after"]}
        /\ l.in # "after"
    BY DEF Start, InToken
  <2>6. Goes(l)
    BY <1>4
  <2> HIDE DEF l
  <2>7. Progress(file, l, begun, Past)
    BY <1>0, <1>3, <2>3, <2>4, <2>5 DEF Progress
  <2> QED  BY <2>5, <2>6, <2>7, ReadsOn
<1>5. ASSUME NEW type, Goes(InToken(type, Append(lex.str, Char))) PROVE PieceInv'
  <2>0. /\ Append(lex.str, Char) # <<>> /\ Len(Append(lex.str, Char)) = Len(lex.str) + 1
        /\ Append(lex.str, Char)[Len(lex.str) + 1] = Char
        /\ \A j \in 1 .. Len(lex.str) : Append(lex.str, Char)[j] = lex.str[j]
    BY <1>0, <1>2, Appended
  <2> DEFINE s == Append(lex.str, Char)
             l == InToken(type, s)
  <2>1. /\ s # <<>> /\ Len(s) = Len(lex.str) + 1 /\ s[Len(lex.str) + 1] = Char
        /\ \A j \in 1 .. Len(lex.str) : s[j] = lex.str[j]
    BY <2>0
  <2>2. l.in = "token" /\ l.str = s /\ l.in # "after" /\ l # [in |-> "after"]
    BY DEF InToken
  <2>3. l # Start
    BY <2>1, <2>2 DEF Start, InToken
  <2>4. Goes(l)
    BY <1>5
  <2> HIDE DEF l, s
  <2>5. Past = begun + Len(s)
    BY <1>0, <1>2, <1>3, <2>1
  <2>6. ASSUME NEW j \in 1 .. Len(s) PROVE file[begun + j] = s[j]
    <3>1. CASE j \in 1 .. Len(lex.str)
      BY <1>2, <2>1, <3>1
    <3>2. CASE j = Len(lex.str) + 1
      BY <1>0, <1>2, <1>3, <2>1, <3>2
    <3> QED  BY <1>2, <2>1, <3>1, <3>2
  <2>7. Progress(file, l, begun, Past)
    BY <1>0, <2>2, <2>5, <2>6 DEF Progress
  <2> QED  BY <2>2, <2>3, <2>4, <2>7, ReadsOn
<1> QED  BY <1>4, <1>5 DEF Continue

LEMMA TokenEndsPieces ==
  ASSUME LexTypes, LexInv, PieceInv, ParserInv, TokenEnds
  PROVE  PieceInv'
<1>0. begun \in Nat /\ pos \in Nat /\ Past \in Nat /\ pos \in 0 .. Len(file)
  BY Places DEF LexTypes
<1>1. lex.in = "token" /\ lex \in [in : {"token"}, type : {Null, "Int", "String"},
                                str : Seq(Letters)]
  BY DEF TokenEnds, Reads, LexTypes, Modes
<1>2. lex.str \in Seq(Letters) /\ lex.type \in {"Int", "String"}
  BY <1>1 DEF TokenEnds
<1>3. /\ lex.type = "Int" => Numeral(lex.str) \/ lex.str = <<"-">>
      /\ lex.type = "String" => ~Numeral(lex.str) /\ lex.str[1] # Quote
      /\ pos > 0
  BY <1>1 DEF LexInv, Sofar, TokenEnds
<1> DEFINE t == Finished(lex.type, lex.str)
<1>4. IsGiven(t)
  BY <1>2, <1>3, FinishedGiven
<1>5. Unget \in 0 .. Len(file)
  BY <1>3, CharRead DEF Unget, LexTypes
<1>6. Giving(t, pos, Unget)
  BY <1>4, <1>5 DEF TokenEnds, Giving
<1>7. /\ t.type \in {"String", "Int", "FloatingPoint", Null}
      /\ t.type # Null => Atom(t).str = lex.str /\ Atom(t).type = t.type
  BY <1>2 DEF Finished, Token, Bad, Atom
<1> HIDE DEF t
<1>8. Unget = pos \/ (pos = Len(file) /\ Unget = Len(file) - 1)
  BY <1>0, Places DEF Unget
<1>9. ASSUME t.type \notin {Null, Eof}, NEW n \in Nat
      PROVE  TokenWritten(file, [kind |-> "token", from |-> begun, upto |-> pos,
                                 token |-> n], Atom(t))
  <2>1. /\ pos = begun + Len(lex.str)
        /\ \A j \in 1 .. Len(lex.str) : file[begun + j] = lex.str[j]
    BY <1>1, Places DEF Progress
  <2>2. Written(file, [kind |-> "token", from |-> begun, upto |-> pos, token |-> n], lex.str)
    BY <2>1 DEF Written
  <2>3. Atom(t).str = lex.str /\ Atom(t).type \in {"String", "Int", "FloatingPoint"}
    BY <1>7, <1>9
  <2> QED  BY <2>2, <2>3 DEF TokenWritten
<1>10. t.type # Eof
  BY <1>7 DEF Eof, Null
<1> QED  BY <1>0, <1>6, <1>8, <1>9, <1>10, TokenIsRead

LEMMA PiecesKept ==
  ASSUME LexTypes, LexInv, ParserInv, PieceInv, [Next]_vars
  PROVE  PieceInv'
<1>1. CASE Skipped
  BY <1>1 DEF Skipped, pieces, PieceInv
<1>2. CASE UNCHANGED vars
  BY <1>2 DEF vars, parser, pieces, PieceInv
<1> QED
  BY <1>1, <1>2, LineCommentPieces, BlockCommentPieces, StringLiteralPieces, BetweenPieces,
     ContinuePieces, TokenEndsPieces DEF Next
-----------------------------------------------------------------------------
(***************************************************************************)
(* The theorems.                                                           *)
(***************************************************************************)
LexerInv == LexTypes /\ LexInv /\ AtomsConvert
TreeInv  == ParserTypes /\ ParserOK /\ ParserInv

LEMMA InitSyntax == Init => LexerInv /\ TreeInv /\ PieceInv
<1> SUFFICES ASSUME Init PROVE LexerInv /\ TreeInv /\ PieceInv
  OBVIOUS
<1>1. /\ file \in Files /\ pos = 0 /\ lex = Start /\ tokens = <<>> /\ nodes = <<>>
      /\ open = <<>> /\ skip = 0 /\ at = "form" /\ forms = <<>>
  BY DEF Init
<1>2. /\ Len(<<>>) = 0 /\ <<>> \in Seq(Words) /\ <<>> \in Seq(Node) /\ <<>> \in Seq(Nat)
      /\ Len(file) \in Nat
  BY <1>1, EmptySeq, FilesAssumption, LenProperties
<1>3. LexTypes /\ LexInv
  BY <1>1, <1>2, StartMode DEF LexTypes, LexInv
<1>4. AtomsConvert
  BY <1>1, <1>2 DEF AtomsConvert
<1>5. ParserTypes /\ ParserOK
  BY <1>1, <1>2 DEF ParserTypes, ParserOK
<1>6. Good(<<>>, <<>>, <<>>, <<>>)
  BY <1>2, EmptyRow DEF Good, Formed
<1>7. ParserInv
  BY <1>1, <1>6 DEF ParserInv
<1>8. PieceInv
  <2>1. read = <<>> /\ begun = 0 /\ 0 \in Nat /\ read \in Seq(PieceSet) /\ Len(read) = 0
    BY <1>2 DEF Init
  <2>2. Progress(file, lex, begun, pos) /\ lex.in # "after"
    BY <1>1, <2>1, PieceBegins DEF Start, InToken
  <2>3. Chain(file, read, begun, Len(tokens))
    BY <1>1, <1>2, <2>1 DEF Chain, Meets, UptoIn, NumberIn
  <2> QED  BY <2>1, <2>2, <2>3 DEF PieceInv
<1> QED  BY <1>3, <1>4, <1>5, <1>7, <1>8 DEF LexerInv, TreeInv

LEMMA LexerKept == LexerInv /\ [Next]_vars => LexerInv'
BY LexKept, AtomsKept DEF LexerInv

LEMMA TreeKept == LexerInv /\ TreeInv /\ [Next]_vars => TreeInv'
BY ParserTypesKept, ParserKept DEF LexerInv, TreeInv

(* The lexer and the parser keep their types, and the parser knows the     *)
(* lists it is in, whatever the file holds.                                *)
THEOREM SyntaxTyped == Spec => []TypeOK
<1>1. LexerInv /\ TreeInv => TypeOK
  BY DEF LexerInv, LexTypes, TreeInv, ParserTypes, ParserOK, TypeOK
<1> QED  BY <1>1, InitSyntax, LexerKept, TreeKept, PTL DEF Spec

(* An atom of any file that goes through a macro unchanged is the atom it  *)
(* was.                                                                    *)
THEOREM AtomsStay == Spec => []AtomsConvert
<1>1. LexerInv => AtomsConvert
  BY DEF LexerInv
<1> QED  BY <1>1, InitSyntax, LexerKept, PTL DEF Spec

LEMMA RowIs ==
  ASSUME NEW l, NEW from, NEW to, Row(nodes, l, from), Reaches(nodes, l, from, to)
  PROVE  InRow(l, from, to)
<1>1. \A k : AfterIn(nodes, l, from, k) = After(l, from, k)
  BY DEF After, AfterIn
<1>2. \A k \in 1 .. Len(l) : nodes[l[k]].begin = After(l, from, k - 1)
  BY <1>1 DEF Row, Item
<1>3. After(l, from, Len(l)) = to
  BY <1>1 DEF Reaches
<1> QED  BY <1>2, <1>3 DEF InRow

LEMMA TreeComplete == TreeInv => Complete
<1> SUFFICES ASSUME TreeInv, at = "end", errors = {}
             PROVE  InRow(forms, 1, Here) /\ \A i \in 1 .. Len(nodes) : Covers(i)
  BY DEF Complete
<1>1. open = <<>> /\ Len(open) = 0
  BY EmptySeq DEF TreeInv, ParserOK
<1>2. Good(nodes, tokens, open, forms)
  BY DEF TreeInv, ParserInv
<1>3. Row(nodes, forms, 1) /\ Reaches(nodes, forms, 1, Here)
  BY <1>1, <1>2 DEF Good, Formed, Here
<1>4. InRow(forms, 1, Here)
  BY <1>3, RowIs
<1>5. ASSUME NEW i \in 1 .. Len(nodes) PROVE Covers(i)
  <2>1. Tree(nodes, tokens, open, i)
    BY <1>2 DEF Good
  <2>2. nodes[i].end # 0
    BY <1>1, <2>1 DEF Tree
  <2>3. CASE IsToken(i)
    BY <2>1, <2>3 DEF Tree, IsTokenIn, IsToken, Covers
  <2>4. CASE ~IsToken(i)
    <3>1. /\ nodes[i].begin < nodes[i].end /\ tokens[nodes[i].end].type = ")"
          /\ Reaches(nodes, nodes[i].list, nodes[i].begin + 1, nodes[i].end)
          /\ Row(nodes, nodes[i].list, nodes[i].begin + 1)
          /\ tokens[nodes[i].begin].type = "("
      BY <2>1, <2>2, <2>4 DEF Tree, IsTokenIn, IsToken
    <3>2. InRow(nodes[i].list, nodes[i].begin + 1, nodes[i].end)
      BY <3>1, RowIs
    <3> QED  BY <2>4, <3>1, <3>2 DEF Covers
  <2> QED  BY <2>3, <2>4
<1> QED  BY <1>4, <1>5

(* No list is taken for two, or two for one, and nothing is dropped without *)
(* an error (getNextNodeInternal, getUntilRightParenOrEof).                *)
THEOREM ReadCompletely == Spec => []Complete
BY InitSyntax, LexerKept, TreeKept, TreeComplete, PTL DEF Spec

LEMMA AllInPieces == PieceInv => InPieces /\ \A k \in 1 .. Len(read) : IsRead(read[k])
<1> SUFFICES ASSUME PieceInv PROVE InPieces /\ \A k \in 1 .. Len(read) : IsRead(read[k])
  OBVIOUS
<1>1. Len(read) \in Nat
  BY LenProperties DEF PieceInv
<1>2. /\ \A k \in 1 .. Len(read) : Linked(file, read, k)
      /\ Meets(file, KindIn(read, Len(read) + 1), UptoIn(read, Len(read) + 1), begun)
      /\ NumberIn(read, Len(read) + 1) = Len(tokens)
  BY DEF PieceInv, Chain
<1>3. \A k : Kind(k) = KindIn(read, k) /\ Upto(k) = UptoIn(read, k)
            /\ Number(k) = NumberIn(read, k)
  BY DEF Kind, KindIn, Upto, UptoIn, Number, NumberIn
<1>4. ASSUME NEW k \in 1 .. Len(read) + 1 PROVE From(k) = Upto(k) \/ Again(k)
  <2>1. CASE k \in 1 .. Len(read)
    BY <1>2, <1>3, <2>1 DEF From, Linked, Meets, Again
  <2>2. CASE k = Len(read) + 1
    <3>1. From(k) = begun
      BY <1>1, <2>2 DEF From
    <3> QED  BY <1>2, <1>3, <2>2, <3>1 DEF Meets, Again
  <2> QED  BY <1>1, <2>1, <2>2
<1>5. ASSUME NEW k \in 1 .. Len(read)
      PROVE  /\ read[k].kind = "after" => Kind(k) = "block"
             /\ read[k].token = Number(k) + IF read[k].kind = "token" THEN 1 ELSE 0
  BY <1>2, <1>3 DEF Linked
<1>6. InPieces
  BY <1>2, <1>3, <1>4, <1>5 DEF InPieces
<1>7. \A k \in 1 .. Len(read) : IsRead(read[k])
  BY DEF PieceInv, ReadAs, IsRead
<1> QED  BY <1>6, <1>7

(* No character of any file is left out or read as part of two tokens, but *)
(* the one after a block comment and the last of a file that ends in an    *)
(* atom; and the forms of a file that is read without an error are its     *)
(* tokens in order (getNextToken, ungetchar_, getNextNodeInternal).        *)
THEOREM NothingIsLost == Spec => []NothingLost
<1>1. Init => LexerInv /\ TreeInv /\ PieceInv
  BY InitSyntax
<1>2. LexerInv /\ TreeInv /\ PieceInv /\ [Next]_vars => (LexerInv /\ TreeInv /\ PieceInv)'
  <2>1. LexerInv /\ TreeInv => LexTypes /\ LexInv /\ ParserInv
    BY DEF LexerInv, TreeInv
  <2> QED  BY <2>1, LexerKept, TreeKept, PiecesKept
<1>3. LexerInv /\ TreeInv /\ PieceInv => NothingLost
  BY AllInPieces, TreeComplete DEF NothingLost
<1> QED  BY <1>1, <1>2, <1>3, PTL DEF Spec

=============================================================================
