--------------------------- MODULE NamespaceProofs ---------------------------
(***************************************************************************)
(* What the methods of a context do, for every value of the constants: the *)
(* lemmas that the proofs about Context and about ProcBody share.  First   *)
(* Chain, the walk from a namespace to the root that getVarsAfterIndex,    *)
(* the restoration of a save point and the closing of scopes make.  It is  *)
(* a recursive function over parents, and a namespace is always allocated  *)
(* after its parent, so the walk ends, and its defining equation holds.    *)
(* (What needs an induction is proved of the least number that is an       *)
(* exception.)  Then, for each method, what it does to the two stacks, to  *)
(* the names and the counters, and what it adds to the namespaces.         *)
(***************************************************************************)
EXTENDS Namespaces, SequenceTheorems, WellFoundedInduction, TLAPS

USE DEF NoNode, NoFn, Root

(* A namespace is younger than its parent.                                 *)
Sloped(c) ==
  /\ c.parent \in [Nodes -> Nodes \cup {NoNode}]
  /\ \A m \in Nodes : c.parent[m] < m

(* The active namespaces are the way from the root to the current one.     *)
StackIsPath(c) ==
  /\ c.active \in Seq(Nodes) /\ c.active # <<>> /\ c.active[1] = Root
  /\ c.parent[Root] = NoNode
  /\ \A k \in 2 .. Len(c.active) : c.parent[c.active[k]] = c.active[k - 1]
  /\ \A j, k \in 1 .. Len(c.active) : j < k => c.active[j] < c.active[k]

Tree(c) == Sloped(c) /\ StackIsPath(c)
-----------------------------------------------------------------------------
(* A set of natural numbers that is not empty has a least element: what    *)
(* every induction below appeals to.                                       *)
LEMMA Smallest ==
  ASSUME NEW T \in SUBSET Nat, T # {}
  PROVE  \E m \in T : \A k \in T : m <= k
<1> DEFINE R == OpToRel(<, Nat)
<1>1. IsWellFoundedOn(R, Nat)
  BY NatLessThanWellFounded
<1>2. \A x, y \in Nat : <<x, y>> \in R <=> x < y
  BY DEF OpToRel
<1> HIDE DEF R
<1>3. PICK x \in T : \A y \in T : ~(<<y, x>> \in R)
  BY <1>1, WFMin
<1>4. \A y \in T : x \in Nat /\ y \in Nat /\ ~(y < x)
  BY <1>2, <1>3
<1>5. \A y \in T : x <= y
  BY <1>4
<1> QED  BY <1>3, <1>5

(* A bounded set of natural numbers that is not empty has a greatest one.  *)
LEMMA Greatest ==
  ASSUME NEW b \in Nat, NEW T \in SUBSET (1 .. b), T # {}
  PROVE  \E m \in T : \A k \in T : k <= m
<1> DEFINE U == {k \in Nat : \A t \in T : t <= k}
<1>1. b \in U
  OBVIOUS
<1>2. PICK m \in U : \A k \in U : m <= k
  <2>1. U \in SUBSET Nat /\ U # {}
    BY <1>1
  <2> HIDE DEF U
  <2> QED  BY <2>1, Smallest
<1>3. m \in T
  <2> SUFFICES ASSUME m \notin T PROVE FALSE
    OBVIOUS
  <2>1. \A t \in T : t <= m - 1
    BY <1>2
  <2>2. m - 1 \in Nat
    <3>1. PICK t \in T : TRUE
      OBVIOUS
    <3> QED  BY <1>2, <2>1, <3>1
  <2>3. m - 1 \in U
    BY <2>1, <2>2
  <2> QED  BY <1>2, <2>3
<1> QED  BY <1>2, <1>3

(* The function whose values Chain gives.                                  *)
Walk(c, k, f) ==
  \A m \in 0 .. k : f[m] = IF m = NoNode THEN {} ELSE {m} \cup f[c.parent[m]]

Up(c) ==
  CHOOSE f : f = [m \in 0 .. MaxNodes |->
                    IF m = NoNode THEN {} ELSE {m} \cup f[c.parent[m]]]

(* The walk is defined as far as one cares to go.                          *)
LEMMA WalkExists ==
  ASSUME NEW c, Sloped(c)
  PROVE  \E f \in [0 .. MaxNodes -> SUBSET Nodes] : Walk(c, MaxNodes, f)
<1> DEFINE T == {k \in 0 .. MaxNodes : ~\E f \in [0 .. k -> SUBSET Nodes] : Walk(c, k, f)}
<1>0. MaxNodes \in Nat \ {0}
  BY SizeAssumption
<1> SUFFICES ASSUME T # {} PROVE FALSE
  BY <1>0
<1>1. PICK k \in T : \A j \in T : k <= j
  <2>1. T \in SUBSET Nat
    BY <1>0
  <2> HIDE DEF T
  <2> QED  BY <2>1, Smallest
<1>2. k \in 0 .. MaxNodes /\ ~\E f \in [0 .. k -> SUBSET Nodes] : Walk(c, k, f)
  BY <1>1
<1>3. k # 0
  <2> SUFFICES ASSUME k = 0 PROVE FALSE
    OBVIOUS
  <2>1. [m \in 0 .. 0 |-> {}] \in [0 .. k -> SUBSET Nodes]
    OBVIOUS
  <2>2. Walk(c, k, [m \in 0 .. 0 |-> {}])
    BY DEF Walk
  <2> QED  BY <1>2, <2>1, <2>2
<1>4. k - 1 \in 0 .. MaxNodes /\ k - 1 \notin T /\ k \in Nodes
  <2> HIDE DEF T
  <2>1. k \in Nat \ {0} /\ k <= MaxNodes
    BY <1>0, <1>2, <1>3
  <2>2. k - 1 \in 0 .. MaxNodes /\ ~(k <= k - 1)
    BY <1>0, <2>1
  <2> QED  BY <1>0, <1>1, <2>1, <2>2 DEF Nodes
<1>5. PICK g \in [0 .. k - 1 -> SUBSET Nodes] : Walk(c, k - 1, g)
  BY <1>4
<1> DEFINE f == [m \in 0 .. k |-> IF m < k THEN g[m] ELSE {k} \cup g[c.parent[k]]]
<1>6. \A m \in 1 .. k : c.parent[m] \in 0 .. m - 1
  <2> TAKE m \in 1 .. k
  <2>1. m \in Nodes
    BY <1>0, <1>2 DEF Nodes
  <2>2. c.parent[m] \in Nodes \cup {0} /\ c.parent[m] < m
    BY <2>1 DEF Sloped
  <2> QED  BY <1>0, <2>2 DEF Nodes
<1>7. f \in [0 .. k -> SUBSET Nodes]
  <2>1. \A m \in 0 .. k : m < k => m \in 0 .. k - 1
    BY <1>2
  <2>2. c.parent[k] \in 0 .. k - 1
    BY <1>2, <1>3, <1>6
  <2> QED  BY <1>4, <1>5, <2>1, <2>2
<1>8. Walk(c, k, f)
  <2> SUFFICES ASSUME NEW m \in 0 .. k
               PROVE  f[m] = IF m = NoNode THEN {} ELSE {m} \cup f[c.parent[m]]
    BY DEF Walk
  <2>1. CASE m = 0
    BY <1>2, <1>3, <1>5, <2>1 DEF Walk
  <2>2. CASE m # 0 /\ m < k
    <3>1. m \in 0 .. k - 1 /\ c.parent[m] \in 0 .. k - 1 /\ c.parent[m] < k
      BY <1>2, <1>6, <2>2
    <3>2. g[m] = {m} \cup g[c.parent[m]]
      BY <1>5, <2>2, <3>1 DEF Walk
    <3>3. f[m] = g[m] /\ f[c.parent[m]] = g[c.parent[m]]
      BY <2>2, <3>1
    <3> QED  BY <2>2, <3>2, <3>3
  <2>3. CASE m = k
    <3>1. c.parent[k] \in 0 .. k - 1 /\ c.parent[k] < k
      BY <1>2, <1>3, <1>6
    <3>2. f[k] = {k} \cup g[c.parent[k]] /\ f[c.parent[k]] = g[c.parent[k]]
      BY <1>2, <3>1
    <3> QED  BY <1>3, <2>3, <3>2
  <2> QED  BY <1>2, <2>1, <2>2, <2>3
<1> QED  BY <1>2, <1>7, <1>8

(* So Chain is what its definition says.                                   *)
LEMMA ChainEquation ==
  ASSUME NEW c, Sloped(c)
  PROVE  /\ Chain(c, NoNode) = {}
         /\ \A n \in Nodes : Chain(c, n) = {n} \cup Chain(c, c.parent[n])
         /\ \A n \in Nodes \cup {NoNode} : Chain(c, n) \subseteq Nodes
<1>0. MaxNodes \in Nat \ {0}
  BY SizeAssumption
<1>1. PICK f \in [0 .. MaxNodes -> SUBSET Nodes] : Walk(c, MaxNodes, f)
  BY WalkExists
<1>2. f = [m \in 0 .. MaxNodes |-> IF m = NoNode THEN {} ELSE {m} \cup f[c.parent[m]]]
  BY <1>1 DEF Walk
<1>3. Up(c) = [m \in 0 .. MaxNodes |->
                 IF m = NoNode THEN {} ELSE {m} \cup Up(c)[c.parent[m]]]
  BY <1>2 DEF Up
<1>4. \A n : Chain(c, n) = Up(c)[n]
  BY DEF Chain, Up
<1>5. /\ Up(c)[0] = {}
      /\ \A n \in Nodes : Up(c)[n] = {n} \cup Up(c)[c.parent[n]]
  <2> DEFINE u == Up(c)
  <2>1. u = [m \in 0 .. MaxNodes |-> IF m = NoNode THEN {} ELSE {m} \cup u[c.parent[m]]]
    BY <1>3
  <2> HIDE DEF u
  <2>2. /\ u[0] = {}
        /\ \A n \in 1 .. MaxNodes : u[n] = {n} \cup u[c.parent[n]]
    <3>1. \A m \in 0 .. MaxNodes : u[m] = IF m = NoNode THEN {} ELSE {m} \cup u[c.parent[m]]
      BY <2>1, Zenon
    <3>2. 0 \in 0 .. MaxNodes /\ \A m \in 1 .. MaxNodes : m \in 0 .. MaxNodes /\ m # NoNode
      BY <1>0
    <3>3. u[0] = {}
      BY <3>1, <3>2, Zenon
    <3>4. \A m \in 1 .. MaxNodes : u[m] = {m} \cup u[c.parent[m]]
      BY <3>1, <3>2, Zenon
    <3> QED  BY <3>3, <3>4
  <2> QED  BY <2>2 DEF u, Nodes
<1> DEFINE T == {n \in Nodes : ~(Up(c)[n] \subseteq Nodes)}
<1>6. T = {}
  <2> SUFFICES ASSUME T # {} PROVE FALSE
    OBVIOUS
  <2>1. PICK n \in T : \A j \in T : n <= j
    <3>1. T \in SUBSET Nat
      BY DEF Nodes
    <3> HIDE DEF T
    <3> QED  BY <3>1, Smallest
  <2>2. n \in Nodes /\ c.parent[n] \in Nodes \cup {0} /\ c.parent[n] < n
    BY <2>1 DEF Sloped
  <2>3. c.parent[n] \notin T
    BY <2>1, <2>2 DEF Nodes
  <2>4. Up(c)[c.parent[n]] \subseteq Nodes
    BY <1>5, <2>2, <2>3
  <2> QED  BY <1>5, <2>1, <2>2, <2>4
<1> QED  BY <1>4, <1>5, <1>6

(* What is active below a namespace, and that one, is its chain: what a    *)
(* scope that is left walks through is what the stack holds.               *)
LEMMA ChainOfStack ==
  ASSUME NEW c, Sloped(c), StackIsPath(c)
  PROVE  \A k \in 1 .. Len(c.active) :
           Chain(c, c.active[k]) = {c.active[j] : j \in 1 .. k}
<1> DEFINE Below(k) == {c.active[j] : j \in 1 .. k}
           T == {k \in 1 .. Len(c.active) : Chain(c, c.active[k]) # Below(k)}
<1>0. /\ Len(c.active) \in Nat \ {0}
      /\ \A k \in 1 .. Len(c.active) : c.active[k] \in Nodes
  BY EmptySeq, LenProperties, ElementOfSeq DEF StackIsPath
<1> SUFFICES ASSUME T # {} PROVE FALSE
  OBVIOUS
<1>1. PICK k \in T : \A j \in T : k <= j
  <2>1. T \in SUBSET Nat
    OBVIOUS
  <2> HIDE DEF T
  <2> QED  BY <2>1, Smallest
<1>2. k \in 1 .. Len(c.active) /\ Chain(c, c.active[k]) # Below(k)
  BY <1>1
<1>3. CASE k = 1
  <2>1. c.active[k] = Root /\ Root \in Nodes
    BY <1>0, <1>2, <1>3 DEF StackIsPath
  <2>2. Chain(c, Root) = {Root} \cup Chain(c, NoNode) /\ Chain(c, NoNode) = {}
    BY <2>1, ChainEquation DEF StackIsPath
  <2>3. Below(1) = {c.active[1]}
    OBVIOUS
  <2> QED  BY <1>2, <1>3, <2>1, <2>2, <2>3
<1>4. CASE k # 1
  <2>1. k - 1 \in 1 .. Len(c.active) /\ k \in 2 .. Len(c.active) /\ k - 1 < k
    BY <1>0, <1>2, <1>4
  <2>2. k - 1 \notin T
    <3> HIDE DEF T
    <3> QED  BY <1>1, <2>1
  <2>3. Chain(c, c.active[k - 1]) = Below(k - 1)
    BY <2>1, <2>2
  <2>4. Chain(c, c.active[k]) = {c.active[k]} \cup Chain(c, c.active[k - 1])
    <3>1. c.active[k] \in Nodes /\ c.parent[c.active[k]] = c.active[k - 1]
      BY <1>0, <2>1 DEF StackIsPath
    <3> QED  BY <3>1, ChainEquation
  <2>5. Below(k) = {c.active[k]} \cup Below(k - 1)
    <3>1. \A j : j \in 1 .. k <=> (j = k \/ j \in 1 .. k - 1)
      BY <2>1
    <3> QED  BY <3>1
  <2> QED  BY <1>2, <2>3, <2>4, <2>5
<1> QED  BY <1>3, <1>4

(* Chains are as the parents are that they go through.                     *)
LEMMA ChainAgrees ==
  ASSUME NEW c, NEW d, Sloped(c), Sloped(d), NEW b \in Nat,
         \A m \in Nodes : m < b => d.parent[m] = c.parent[m]
  PROVE  \A n \in Nodes : n < b => Chain(d, n) = Chain(c, n)
<1> DEFINE T == {n \in Nodes : n < b /\ Chain(d, n) # Chain(c, n)}
<1> SUFFICES ASSUME T # {} PROVE FALSE
  OBVIOUS
<1>1. PICK n \in T : \A j \in T : n <= j
  <2>1. T \in SUBSET Nat
    BY DEF Nodes
  <2> HIDE DEF T
  <2> QED  BY <2>1, Smallest
<1>2. n \in Nodes /\ n \in Nat /\ n < b /\ Chain(d, n) # Chain(c, n)
  BY <1>1 DEF Nodes
<1> DEFINE p == c.parent[n]
<1>3. p \in Nodes \cup {NoNode} /\ p < n /\ p = d.parent[n] /\ p \in Nat /\ p < b
  <2>1. p \in Nodes \cup {NoNode} /\ p < n /\ p = d.parent[n]
    BY <1>2 DEF Sloped
  <2>2. p \in Nat
    BY <2>1 DEF Nodes
  <2> QED  BY <1>2, <2>1, <2>2
<1>4. p \notin T
  <2> HIDE DEF T
  <2> QED  BY <1>1, <1>2, <1>3
<1>5. Chain(d, p) = Chain(c, p)
  BY <1>3, <1>4, ChainEquation
<1>6. /\ Chain(d, n) = {n} \cup Chain(d, d.parent[n])
      /\ Chain(c, n) = {n} \cup Chain(c, c.parent[n])
  BY <1>2, ChainEquation
<1> QED  BY <1>2, <1>3, <1>5, <1>6

(* A chain holds the chains of its elements.                               *)
LEMMA ChainTransitive ==
  ASSUME NEW c, Sloped(c)
  PROVE  \A n \in Nodes : /\ n \in Chain(c, n)
                          /\ \A m \in Chain(c, n) : Chain(c, m) \subseteq Chain(c, n)
<1> DEFINE T == {n \in Nodes : \E m \in Chain(c, n) : ~(Chain(c, m) \subseteq Chain(c, n))}
<1>1. T = {}
  <2> SUFFICES ASSUME T # {} PROVE FALSE
    OBVIOUS
  <2>1. PICK n \in T : \A j \in T : n <= j
    <3>1. T \in SUBSET Nat
      BY DEF Nodes
    <3> HIDE DEF T
    <3> QED  BY <3>1, Smallest
  <2>2. n \in Nodes /\ n \in Nat
    BY <2>1 DEF Nodes
  <2>3. PICK m \in Chain(c, n) : ~(Chain(c, m) \subseteq Chain(c, n))
    BY <2>1
  <2> DEFINE p == c.parent[n]
  <2>4. p \in Nodes \cup {NoNode} /\ p < n /\ p \in Nat
    <3>1. p \in Nodes \cup {NoNode} /\ p < n
      BY <2>2 DEF Sloped
    <3> QED  BY <3>1 DEF Nodes
  <2>5. Chain(c, n) = {n} \cup Chain(c, p)
    BY <2>2, ChainEquation
  <2>6. m # n /\ m \in Chain(c, p)
    BY <2>3, <2>5
  <2>7. p \in Nodes
    BY <2>4, <2>6, ChainEquation
  <2>8. p \notin T
    <3> HIDE DEF T
    <3> QED  BY <2>1, <2>2, <2>4
  <2> QED  BY <2>3, <2>5, <2>6, <2>7, <2>8
<1>2. \A n \in Nodes : n \in Chain(c, n)
  BY ChainEquation
<1> QED  BY <1>1, <1>2

(* Of two namespaces on the way to the root, one is on the way from the    *)
(* other; and the way only goes to older ones.                             *)
LEMMA ChainComparable ==
  ASSUME NEW c, Sloped(c)
  PROVE  \A n \in Nodes : \A m, k \in Chain(c, n) :
           /\ m \in Chain(c, k) \/ k \in Chain(c, m)
           /\ m \in Nodes /\ m <= n
<1> DEFINE Good(n) == \A m, k \in Chain(c, n) :
             /\ m \in Chain(c, k) \/ k \in Chain(c, m)
             /\ m \in Nodes /\ m <= n
           T == {n \in Nodes : ~Good(n)}
<1>1. T = {}
  <2> SUFFICES ASSUME T # {} PROVE FALSE
    OBVIOUS
  <2>1. PICK n \in T : \A j \in T : n <= j
    <3>1. T \in SUBSET Nat
      BY DEF Nodes
    <3> HIDE DEF T
    <3> QED  BY <3>1, Smallest
  <2>2. n \in Nodes /\ n \in Nat
    BY <2>1 DEF Nodes
  <2> DEFINE p == c.parent[n]
  <2>3. p \in Nodes \cup {NoNode} /\ p < n /\ p \in Nat
    <3>1. p \in Nodes \cup {NoNode} /\ p < n
      BY <2>2 DEF Sloped
    <3> QED  BY <3>1 DEF Nodes
  <2>4. Chain(c, n) = {n} \cup Chain(c, p)
    BY <2>2, ChainEquation
  <2>5. p \in Nodes => Good(p)
    <3>1. p \notin T
      <4> HIDE DEF T
      <4> QED  BY <2>1, <2>2, <2>3
    <3> QED  BY <3>1
  <2>6. \A m \in Chain(c, p) : p \in Nodes /\ m \in Nodes /\ m <= p
    <3>1. p \notin Nodes => Chain(c, p) = {}
      BY <2>3, ChainEquation
    <3> QED  BY <2>5, <3>1
  <2>7. ASSUME NEW m \in Chain(c, n), NEW k \in Chain(c, n)
        PROVE  /\ m \in Chain(c, k) \/ k \in Chain(c, m)
               /\ m \in Nodes /\ m <= n
    <3>1. m \in Nodes /\ m <= n
      <4>1. CASE m = n
        BY <2>2, <4>1
      <4>2. CASE m # n
        <5>1. m \in Chain(c, p)
          BY <2>4, <4>2
        <5>2. p \in Nodes /\ m \in Nodes /\ m <= p
          BY <2>6, <5>1
        <5> QED  BY <2>2, <2>3, <5>2 DEF Nodes
      <4> QED  BY <4>1, <4>2
    <3>2. m = n => k \in Chain(c, m)
      OBVIOUS
    <3>3. k = n => m \in Chain(c, k)
      OBVIOUS
    <3>4. m # n /\ k # n => m \in Chain(c, k) \/ k \in Chain(c, m)
      BY <2>4, <2>5, <2>6
    <3> QED  BY <3>1, <3>2, <3>3, <3>4
  <2>8. Good(n)
    BY <2>7
  <2> QED  BY <2>1, <2>8
<1> QED  BY <1>1
-----------------------------------------------------------------------------
(* What all methods but RestoreContext have in common.                     *)
NamesKept(c, d) == \A n \in c.live : n \in d.live /\ d.name[n] = c.name[n]

Grows(c, d) ==
  /\ WF(d) /\ NamesKept(c, d) /\ VarsReach(c, d)
  /\ d.errors = c.errors /\ d.fresh >= c.fresh

SameStacks(c, d) ==
  /\ Grows(c, d) /\ d.nextfn = c.nextfn
  /\ d.active = c.active /\ d.used = c.used

Entered(c, d, n) ==
  /\ Grows(c, d) /\ n \in d.live
  /\ d.active = Append(c.active, n) /\ d.used = Append(c.used, n)

Pushed(c, d, n) == Entered(c, d, n) /\ d.nextfn = c.nextfn

Left(c, d) == Grows(c, d) /\ d.active = Pop(c.active) /\ d.used = Pop(c.used)
-----------------------------------------------------------------------------
(***************************************************************************)
(* Stacks.                                                                 *)
(***************************************************************************)
(* Popping what was pushed leaves the stack as it was.                     *)
LEMMA PrefixType ==
  ASSUME NEW S, NEW s \in Seq(S), NEW k \in Nat, k <= Len(s)
  PROVE  /\ SubSeq(s, 1, k) \in Seq(S) /\ Len(SubSeq(s, 1, k)) = k
         /\ \A i \in 1 .. k : SubSeq(s, 1, k)[i] = s[i]
<1>1. Len(s) \in Nat /\ \A i \in 1 .. k : s[i] \in S
  BY ElementOfSeq, LenProperties
<1> QED  BY <1>1, SubSeqProperties

(* Popping a stack leaves the elements below the top.                      *)
LEMMA PopType ==
  ASSUME NEW S, NEW s \in Seq(S), s # <<>>
  PROVE  /\ Len(s) \in Nat \ {0} /\ Back(s) \in S /\ Back(s) = s[Len(s)]
         /\ Pop(s) = SubSeq(s, 1, Len(s) - 1)
         /\ Pop(s) \in Seq(S) /\ Len(Pop(s)) = Len(s) - 1
         /\ \A i \in 1 .. Len(s) - 1 : Pop(s)[i] = s[i]
<1>1. Len(s) \in Nat \ {0}
  BY EmptySeq
<1>2. Back(s) \in S
  BY <1>1, ElementOfSeq DEF Back
<1>3. Len(s) - 1 \in Nat /\ Len(s) - 1 <= Len(s)
  BY <1>1
<1>4. /\ SubSeq(s, 1, Len(s) - 1) \in Seq(S) /\ Len(SubSeq(s, 1, Len(s) - 1)) = Len(s) - 1
      /\ \A i \in 1 .. Len(s) - 1 : SubSeq(s, 1, Len(s) - 1)[i] = s[i]
  BY <1>3, PrefixType
<1> QED  BY <1>1, <1>2, <1>4 DEF Back, Pop

(* Popping what was pushed leaves what was there.                          *)
LEMMA PopAppend ==
  ASSUME NEW S, NEW s \in Seq(S), NEW e \in S
  PROVE  Pop(Append(s, e)) = s /\ Back(Append(s, e)) = e
<1>1. /\ Append(s, e) \in Seq(S) /\ Append(s, e) # <<>>
      /\ Len(Append(s, e)) = Len(s) + 1 /\ Len(s) \in Nat
      /\ Append(s, e)[Len(s) + 1] = e
      /\ \A i \in 1 .. Len(s) : Append(s, e)[i] = s[i]
  BY AppendProperties, LenProperties
<1>2. /\ Pop(Append(s, e)) \in Seq(S) /\ Len(Pop(Append(s, e))) = Len(s)
      /\ \A i \in 1 .. Len(s) : Pop(Append(s, e))[i] = Append(s, e)[i]
  <2> DEFINE t == Append(s, e)
  <2>1. t \in Seq(S) /\ t # <<>> /\ Len(t) - 1 = Len(s)
    BY <1>1
  <2> HIDE DEF t
  <2>2. /\ Pop(t) \in Seq(S) /\ Len(Pop(t)) = Len(t) - 1
        /\ \A i \in 1 .. Len(t) - 1 : Pop(t)[i] = t[i]
    BY <2>1, PopType
  <2>3. QED  BY <2>1, <2>2 DEF t
<1>3. \A i \in 1 .. Len(s) : Pop(Append(s, e))[i] = s[i]
  BY <1>1, <1>2
<1>4. Pop(Append(s, e)) = s
  BY <1>2, <1>3, SeqEqual
<1>5. Back(Append(s, e)) = e
  BY <1>1, PopType
<1> QED  BY <1>4, <1>5

(* A node pushed on both stacks is all that their nodes gain.              *)
LEMMA StackNodesAppend ==
  ASSUME NEW c, NEW d, NEW n \in Nodes,
         c.active \in Seq(Nodes), c.used \in Seq(Nodes),
         d.active = Append(c.active, n), d.used = Append(c.used, n)
  PROVE  StackNodes(d) \subseteq StackNodes(c) \cup {n}
<1>1. \A s \in Seq(Nodes) : \A i \in 1 .. Len(Append(s, n)) :
        \/ i \in 1 .. Len(s) /\ Append(s, n)[i] = s[i]
        \/ Append(s, n)[i] = n
  <2> TAKE s \in Seq(Nodes)
  <2>1. Len(s) \in Nat
    BY LenProperties
  <2> QED  BY <2>1, AppendProperties
<1> QED  BY <1>1 DEF StackNodes

(***************************************************************************)
(* The methods of a context.                                               *)
(***************************************************************************)
LEMMA FieldTypes ==
  ASSUME NEW c \in ContextType
  PROVE  /\ c.live \subseteq Nodes /\ c.fresh \in 1 .. MaxNodes + 1
         /\ c.name \in [Nodes -> NodeNames] /\ c.parent \in [Nodes -> Nodes \cup {NoNode}]
         /\ c.lv \in [Nodes -> Nat]
         /\ c.vars \in [Nodes -> Seq(Variable)] /\ c.funs \in [Nodes -> SUBSET Function]
         /\ c.active \in Seq(Nodes) /\ c.used \in Seq(Nodes) /\ c.scopes \in Seq(Fns)
         /\ c.nextfn \in 1 .. MaxFns + 1 /\ c.fnindex \in [Fns -> Nat]
         /\ c.anon \in Nat /\ c.lv_index \in Int /\ c.errors \subseteq Errors
BY DEF ContextType

(* The current namespace and the innermost used one are live.              *)
LEMMA TopIsLive ==
  ASSUME NEW c, WF(c)
  PROVE  /\ NS(c) \in c.live /\ NS(c) \in Nodes
         /\ Back(c.used) \in c.live /\ Back(c.used) \in Nodes
<1>1. c.active \in Seq(Nodes) /\ c.used \in Seq(Nodes) /\ c.live \subseteq Nodes
  BY DEF WF, ContextType
<1>2. /\ NS(c) = c.active[Len(c.active)] /\ Len(c.active) \in Nat \ {0}
      /\ Back(c.used) = c.used[Len(c.used)] /\ Len(c.used) \in Nat \ {0}
  BY <1>1, PopType DEF WF, NS
<1> QED  BY <1>1, <1>2 DEF WF, StackNodes

(* A namespace is made as a child of the current one and entered.          *)
LEMMA NewNamespacePushes ==
  ASSUME NEW c, WF(c), c.fresh <= MaxNodes, NEW nm \in NodeNames
  PROVE  /\ Pushed(c, NewNamespace(c, nm), c.fresh)
         /\ NewNamespace(c, nm).fresh = c.fresh + 1
<1> DEFINE n == c.fresh
           d == NewNamespace(c, nm)
<1>1. /\ c \in ContextType /\ n \in Nodes /\ n \notin c.live /\ NS(c) \in Nodes
      /\ c.lv[NS(c)] + 1 \in Nat
  <2>1. c \in ContextType /\ NS(c) \in Nodes
    BY TopIsLive DEF WF
  <2>2. c.fresh \in 1 .. MaxNodes + 1 /\ c.lv \in [Nodes -> Nat] /\ MaxNodes \in Nat
    BY <2>1, FieldTypes, SizeAssumption
  <2>3. n \in Nodes /\ n \notin 1 .. n - 1
    BY <2>2 DEF Nodes
  <2> QED  BY <2>1, <2>2, <2>3 DEF WF
<1>2. /\ Append(c.active, n) \in Seq(Nodes) /\ Append(c.used, n) \in Seq(Nodes)
      /\ Append(c.active, n) # <<>> /\ Append(c.used, n) # <<>>
  <2>1. c.active \in Seq(Nodes) /\ c.used \in Seq(Nodes)
    BY <1>1, FieldTypes
  <2> QED  BY <1>1, <2>1, AppendProperties
<1>3. d \in ContextType
  <2> DEFINE live == c.live \cup {n}
             name == [c.name EXCEPT ![n] = nm]
             parent == [c.parent EXCEPT ![n] = NS(c)]
             lv == [c.lv EXCEPT ![n] = c.lv[NS(c)] + 1]
  <2>1. /\ live \subseteq Nodes /\ n + 1 \in 1 .. MaxNodes + 1
        /\ name \in [Nodes -> NodeNames]
        /\ parent \in [Nodes -> Nodes \cup {NoNode}]
        /\ lv \in [Nodes -> Nat]
    <3>1. c.live \subseteq Nodes /\ c.name \in [Nodes -> NodeNames]
          /\ c.parent \in [Nodes -> Nodes \cup {NoNode}] /\ c.lv \in [Nodes -> Nat]
      BY <1>1, FieldTypes
    <3>2. n + 1 \in 1 .. MaxNodes + 1
      BY <1>1, SizeAssumption DEF Nodes
    <3> QED  BY <1>1, <3>1, <3>2
  <2>2. d = [c EXCEPT !.live = live, !.fresh = n + 1, !.name = name,
                      !.parent = parent, !.lv = lv,
                      !.active = Append(c.active, n), !.used = Append(c.used, n)]
    BY <1>1 DEF NewNamespace, ContextType
  <2> HIDE DEF live, name, parent, lv, d
  <2> QED  BY <1>1, <1>2, <2>1, <2>2 DEF ContextType
<1>4. /\ d.active = Append(c.active, n) /\ d.used = Append(c.used, n)
      /\ d.live = c.live \cup {n} /\ d.fresh = c.fresh + 1
      /\ d.vars = c.vars /\ d.errors = c.errors /\ d.nextfn = c.nextfn
      /\ \A m \in c.live : d.name[m] = c.name[m]
  BY <1>1 DEF ContextType, NewNamespace
<1>5. StackNodes(d) \subseteq d.live
  BY <1>1, <1>4, StackNodesAppend DEF WF, ContextType
<1>6. WF(d)
  <2>1. n \in Nat /\ c.live \subseteq 1 .. n - 1
    BY <1>1, FieldTypes DEF WF
  <2>2. d.live \subseteq 1 .. d.fresh - 1
    <3>1. d.fresh - 1 = n /\ d.live = c.live \cup {n} /\ n >= 1
      BY <1>1, <1>4, <2>1 DEF Nodes
    <3> HIDE DEF d, n
    <3>2. \A m \in d.live : m \in 1 .. n
      BY <2>1, <3>1
    <3> QED  BY <3>1, <3>2
  <2> QED  BY <1>2, <1>3, <1>4, <1>5, <2>2 DEF WF
<1>7. VarsReach(c, d)
  BY <1>1, <1>4, LenProperties DEF VarsReach, ContextType
<1>8. Grows(c, d)
  BY SMTT(20), <1>1, <1>4, <1>6, <1>7 DEF Grows, NamesKept, ContextType
<1> QED  BY <1>4, <1>8 DEF Pushed, Entered

(* The counter of nodes and the lengths of vectors are natural numbers.    *)
LEMMA Counts ==
  ASSUME NEW c, WF(c)
  PROVE  c.fresh \in Nat /\ \A n \in Nodes : Len(c.vars[n]) \in Nat
<1>1. c.fresh \in Nat /\ c.vars \in [Nodes -> Seq(Variable)]
  BY FieldTypes DEF WF
<1> QED  BY <1>1, LenProperties

(* A handler's calls one after the other: what each keeps, all keep.       *)
LEMMA GrowsTransitive ==
  ASSUME NEW c, NEW d, NEW e, WF(c), Grows(c, d), Grows(d, e)
  PROVE  Grows(c, e)
<1>1. /\ c.fresh \in Int /\ d.fresh \in Int /\ e.fresh \in Int
      /\ \A n \in Nodes : Len(c.vars[n]) \in Nat /\ Len(d.vars[n]) \in Nat
                            /\ Len(e.vars[n]) \in Nat
  BY Counts DEF Grows
<1>2. VarsReach(c, e)
  BY SMTT(20), <1>1 DEF VarsReach, Grows
<1>3. NamesKept(c, e)
  BY DEF Grows, NamesKept
<1> QED  BY <1>1, <1>2, <1>3 DEF Grows

(* No call at all keeps everything.                                        *)
LEMMA GrowsReflexive ==
  ASSUME NEW c, WF(c)
  PROVE  Grows(c, c)
<1>1. /\ c.fresh \in Int
      /\ \A n \in Nodes : Len(c.vars[n]) \in Nat
  BY FieldTypes, LenProperties DEF WF
<1> QED  BY <1>1 DEF Grows, NamesKept, VarsReach

(* A change to fields that neither the stacks nor the nodes depend on.     *)
LEMMA OtherFields ==
  ASSUME NEW c, WF(c), NEW d \in ContextType,
         d.live = c.live, d.fresh = c.fresh, d.name = c.name, d.nextfn = c.nextfn,
         d.active = c.active, d.used = c.used, d.errors = c.errors, VarsReach(c, d)
  PROVE  SameStacks(c, d)
<1>1. WF(d)
  BY DEF WF, StackNodes
<1>2. c.fresh \in Int
  BY FieldTypes DEF WF
<1> QED  BY <1>1, <1>2 DEF SameStacks, Grows, NamesKept

(* Context::activateNamespace pushes one live namespace on both stacks.    *)
LEMMA ActivatePushes ==
  ASSUME NEW c, WF(c), c.fresh <= MaxNodes, NEW nm \in NodeNames
  PROVE  /\ \E n \in Nodes : Pushed(c, ActivateNamespace(c, nm), n)
         /\ ActivateNamespace(c, nm).fresh <= c.fresh + 1
<1> DEFINE child == Child(c, NS(c), nm)
           d == [c EXCEPT !.active = Append(@, child), !.used = Append(@, child)]
<1>0. c \in ContextType /\ c.fresh \in Nat /\ c.live \subseteq Nodes
  BY FieldTypes DEF WF
<1>1. CASE child = NoNode
  <2>1. c.fresh \in Nodes
    BY <1>0, FieldTypes, SizeAssumption DEF Nodes
  <2>2. ActivateNamespace(c, nm) = NewNamespace(c, nm)
    BY <1>1 DEF ActivateNamespace
  <2> QED  BY <1>0, <2>1, <2>2, NewNamespacePushes
<1>2. CASE child # NoNode
  <2>1. child \in c.live
    BY <1>2 DEF Child
  <2>2. /\ c.active \in Seq(Nodes) /\ c.used \in Seq(Nodes) /\ child \in Nodes
    BY <1>0, <2>1, FieldTypes
  <2>3. /\ Append(c.active, child) \in Seq(Nodes) /\ Append(c.used, child) \in Seq(Nodes)
        /\ Append(c.active, child) # <<>> /\ Append(c.used, child) # <<>>
    BY <2>2, AppendProperties
  <2> HIDE DEF child
  <2>4. d \in ContextType
    BY <1>0, <2>3 DEF ContextType
  <2>5. /\ d.active = Append(c.active, child) /\ d.used = Append(c.used, child)
        /\ d.live = c.live /\ d.fresh = c.fresh /\ d.name = c.name
        /\ d.vars = c.vars /\ d.errors = c.errors /\ d.nextfn = c.nextfn
    BY <1>0 DEF ContextType
  <2> HIDE DEF d
  <2>6. StackNodes(d) \subseteq d.live
    BY <2>1, <2>2, <2>5, StackNodesAppend DEF WF
  <2>7. WF(d)
    BY <2>3, <2>4, <2>5, <2>6 DEF WF
  <2>8. Grows(c, d)
    BY <2>5, <2>7, GrowsReflexive DEF Grows, NamesKept, VarsReach
  <2>9. ActivateNamespace(c, nm) = d
    BY <1>2 DEF ActivateNamespace, child, d
  <2> QED  BY <1>0, <2>1, <2>2, <2>5, <2>8, <2>9 DEF Pushed, Entered
<1> QED  BY <1>1, <1>2

(* So does Context::activateAnonymousNamespace, under its new name.        *)
LEMMA AnonymousPushes ==
  ASSUME NEW c, WF(c), c.fresh <= MaxNodes
  PROVE  /\ \E n \in Nodes : Pushed(c, ActivateAnonymousNamespace(c), n)
         /\ ActivateAnonymousNamespace(c).fresh <= c.fresh + 1
<1> DEFINE k == c.anon + 1
           d == [c EXCEPT !.anon = @ + 1]
<1>1. c \in ContextType /\ k \in Nat
  BY FieldTypes DEF WF
<1>2. AnonName(k) \in NodeNames
  BY <1>1, AnonAssumption DEF AnonName, NodeNames
<1>3. d \in ContextType
  BY <1>1 DEF ContextType
<1>4. /\ d.live = c.live /\ d.fresh = c.fresh /\ d.name = c.name /\ d.nextfn = c.nextfn
      /\ d.active = c.active /\ d.used = c.used /\ d.errors = c.errors /\ d.vars = c.vars
  BY <1>1 DEF ContextType
<1>5. ActivateAnonymousNamespace(c) = ActivateNamespace(d, AnonName(k))
  BY DEF ActivateAnonymousNamespace
<1> HIDE DEF k, d
<1>6. SameStacks(c, d)
  BY <1>3, <1>4, GrowsReflexive, OtherFields DEF Grows, VarsReach
<1>7. /\ \E n \in Nodes : Pushed(d, ActivateNamespace(d, AnonName(k)), n)
      /\ ActivateNamespace(d, AnonName(k)).fresh <= d.fresh + 1
  BY <1>2, <1>4, <1>6, ActivatePushes DEF SameStacks, Grows
<1> QED  BY <1>4, <1>5, <1>6, <1>7, GrowsTransitive DEF SameStacks, Pushed, Entered

(* Namespace::addVariable lengthens one vector and leaves the stacks.      *)
LEMMA AddVariableKeeps ==
  ASSUME NEW c, WF(c), NEW nm \in VarNames
  PROVE  SameStacks(c, AddVariable(c, nm))
<1> DEFINE n == NS(c)
           v == [name |-> nm, fn |-> CurrentFn(c), index |-> c.lv[n] + 1]
           lv == [c.lv EXCEPT ![n] = c.lv[n] + 1]
           vs == [c.vars EXCEPT ![n] = Append(c.vars[n], v)]
           d == [c EXCEPT !.lv = lv, !.vars = vs]
<1>1. /\ c \in ContextType /\ n \in Nodes /\ c.lv \in [Nodes -> Nat]
      /\ c.vars \in [Nodes -> Seq(Variable)] /\ c.scopes \in Seq(Fns)
  BY TopIsLive, FieldTypes DEF WF
<1>2. v \in Variable
  <2>1. CurrentFn(c) \in Fns \cup {NoFn}
    BY <1>1, PopType DEF CurrentFn
  <2> QED  BY <1>1, <2>1 DEF Variable
<1>3. lv \in [Nodes -> Nat] /\ c.vars[n] \in Seq(Variable)
  BY <1>1
<1>4. /\ Append(c.vars[n], v) \in Seq(Variable)
      /\ Len(Append(c.vars[n], v)) = Len(c.vars[n]) + 1
  BY <1>2, <1>3, AppendProperties
<1>5. vs \in [Nodes -> Seq(Variable)]
  BY <1>1, <1>4
<1>6. \A m \in Nodes : Len(c.vars[m]) <= Len(vs[m])
  BY <1>1, <1>4, Counts
<1>7. AddVariable(c, nm) = c \/ AddVariable(c, nm) = d
  BY <1>1 DEF AddVariable, ContextType
<1>8. SameStacks(c, c)
  BY GrowsReflexive DEF SameStacks
<1> HIDE DEF lv, vs
<1>9. d \in ContextType
  BY <1>1, <1>3, <1>5 DEF ContextType
<1>10. /\ d.live = c.live /\ d.fresh = c.fresh /\ d.name = c.name /\ d.nextfn = c.nextfn
       /\ d.active = c.active /\ d.used = c.used /\ d.errors = c.errors /\ d.vars = vs
  BY <1>1 DEF ContextType
<1> HIDE DEF d
<1>11. SameStacks(c, d)
  BY <1>6, <1>9, <1>10, OtherFields DEF VarsReach
<1> QED  BY <1>7, <1>8, <1>11

(* The parameters of a function do so one after the other.                 *)
LEMMA AddParametersKeeps ==
  ASSUME NEW c, WF(c), NEW ps \in Parameters
  PROVE  SameStacks(c, AddParameters(c, ps))
<1>1. CASE ps = <<>>
  BY <1>1, GrowsReflexive DEF AddParameters, SameStacks
<1>2. CASE ps # <<>>
  BY <1>2, AddVariableKeeps DEF AddParameters, Parameters
<1> QED  BY <1>1, <1>2

(* Namespace::addFunction leaves stacks, nodes and variables alone.        *)
LEMMA AddFunctionKeeps ==
  ASSUME NEW c, WF(c), NEW nm \in FunNames \cup Nat, NEW fn \in Fns
  PROVE  SameStacks(c, AddFunction(c, nm, fn))
<1> DEFINE n == NS(c)
           lv == [c.lv EXCEPT ![n] = c.lv[n] + 1]
           funs == [c.funs EXCEPT ![n] = c.funs[n] \cup {[name |-> nm, fn |-> fn]}]
           fnindex == [c.fnindex EXCEPT ![fn] = c.lv[n] + 1]
           d == AddFunction(c, nm, fn)
<1>1. /\ c \in ContextType /\ n \in Nodes /\ c.lv \in [Nodes -> Nat]
      /\ c.funs \in [Nodes -> SUBSET Function] /\ c.fnindex \in [Fns -> Nat]
  BY TopIsLive, FieldTypes DEF WF
<1>2. lv \in [Nodes -> Nat] /\ fnindex \in [Fns -> Nat]
  BY <1>1
<1>3. funs \in [Nodes -> SUBSET Function]
  BY <1>1 DEF Function
<1>4. d = [c EXCEPT !.lv = lv, !.funs = funs, !.fnindex = fnindex]
  BY <1>1 DEF AddFunction, ContextType
<1> HIDE DEF lv, funs, fnindex, d
<1>5. d \in ContextType
  BY <1>1, <1>2, <1>3, <1>4 DEF ContextType
<1>6. /\ d.live = c.live /\ d.fresh = c.fresh /\ d.name = c.name /\ d.nextfn = c.nextfn
      /\ d.active = c.active /\ d.used = c.used /\ d.errors = c.errors /\ d.vars = c.vars
  BY <1>1, <1>4 DEF ContextType
<1>7. SameStacks(c, d)
  BY <1>5, <1>6, GrowsReflexive, OtherFields DEF Grows, VarsReach
<1> QED  BY <1>7 DEF d

(* Zeroing the indices of variables changes no length.                     *)
LEMMA ZeroIndicesKeeps ==
  ASSUME NEW c, WF(c), NEW index \in Int
  PROVE  SameStacks(c, ZeroIndices(c, index))
<1> DEFINE zero(n) == [k \in 1 .. Len(c.vars[n]) |->
                         IF c.vars[n][k].index >= index
                           THEN [c.vars[n][k] EXCEPT !.index = 0]
                           ELSE c.vars[n][k]]
           vs == [n \in Nodes |-> IF n \in Chain(c, NS(c)) THEN zero(n) ELSE c.vars[n]]
           d == ZeroIndices(c, index)
<1>1. c \in ContextType /\ c.vars \in [Nodes -> Seq(Variable)]
  BY FieldTypes DEF WF
<1>2. \A n \in Nodes : zero(n) \in Seq(Variable) /\ Len(zero(n)) = Len(c.vars[n])
  <2> SUFFICES ASSUME NEW n \in Nodes
               PROVE  zero(n) \in Seq(Variable) /\ Len(zero(n)) = Len(c.vars[n])
    OBVIOUS
  <2>1. Len(c.vars[n]) \in Nat /\ \A k \in 1 .. Len(c.vars[n]) : c.vars[n][k] \in Variable
    BY <1>1, ElementOfSeq, LenProperties
  <2>2. \A k \in 1 .. Len(c.vars[n]) : [c.vars[n][k] EXCEPT !.index = 0] \in Variable
    BY <2>1 DEF Variable
  <2>3. zero(n) \in [1 .. Len(c.vars[n]) -> Variable]
    BY <2>1, <2>2
  <2>4. zero(n) \in Seq(Variable)
    BY <2>1, <2>3, SeqDef
  <2> HIDE DEF zero
  <2>5. zero(n) \in [1 .. Len(zero(n)) -> Variable] /\ Len(zero(n)) \in Nat
    BY <2>4, LenProperties
  <2> QED  BY <2>1, <2>3, <2>4, <2>5
<1>3. d = [c EXCEPT !.vars = vs]
  BY DEF ZeroIndices
<1> HIDE DEF zero
<1>4. /\ vs \in [Nodes -> Seq(Variable)]
      /\ \A n \in Nodes : Len(c.vars[n]) <= Len(vs[n])
  BY <1>1, <1>2, Counts
<1> HIDE DEF vs, d
<1>5. d \in ContextType
  BY <1>1, <1>3, <1>4 DEF ContextType
<1>6. /\ d.live = c.live /\ d.fresh = c.fresh /\ d.name = c.name /\ d.nextfn = c.nextfn
      /\ d.active = c.active /\ d.used = c.used /\ d.errors = c.errors /\ d.vars = vs
  BY <1>1, <1>3 DEF ContextType
<1>7. SameStacks(c, d)
  BY <1>4, <1>5, <1>6, OtherFields DEF VarsReach
<1> QED  BY <1>7 DEF d

(* t is what is left of s when it is cut off behind its k-th element.      *)
IsCut(s, t, k) ==
  /\ t # <<>> /\ Len(t) = k
  /\ \A i \in 1 .. k : t[i] = s[i] /\ i \in 1 .. Len(s)

(* SubSeq from the first element cuts a stack off.                         *)
LEMMA CutStack ==
  ASSUME NEW s \in Seq(Nodes), NEW k \in 1 .. Len(s)
  PROVE  IsCut(s, SubSeq(s, 1, k), k)
<1> DEFINE t == SubSeq(s, 1, k)
<1>1. Len(s) \in Nat /\ k \in Nat /\ k <= Len(s) /\ k # 0
  BY LenProperties
<1>2. Len(t) = k /\ \A i \in 1 .. k : t[i] = s[i]
  BY <1>1, PrefixType
<1>3. t # <<>>
  BY <1>1, <1>2, EmptySeq
<1> QED  BY <1>1, <1>2, <1>3 DEF IsCut

(* Cutting the stacks off leaves live nodes on them.                       *)
LEMMA CutStacks ==
  ASSUME NEW c, WF(c), NEW d \in ContextType, d.live \subseteq c.live, d.fresh = c.fresh,
         NEW k \in 1 .. Len(c.active), NEW m \in 1 .. Len(c.used),
         d.active = SubSeq(c.active, 1, k), d.used = SubSeq(c.used, 1, m),
         StackNodes(c) \subseteq d.live
  PROVE  WF(d)
<1>1. c.active \in Seq(Nodes) /\ c.used \in Seq(Nodes)
  BY FieldTypes DEF WF
<1>2. IsCut(c.active, d.active, k) /\ IsCut(c.used, d.used, m)
  BY <1>1, CutStack
<1>3. StackNodes(d) \subseteq StackNodes(c)
  BY SMTT(20), <1>2 DEF StackNodes, IsCut
<1> QED  BY <1>2, <1>3 DEF WF, IsCut

(* The two stacks are sequences of nodes, and never empty.                 *)
LEMMA StackLengths ==
  ASSUME NEW c, WF(c)
  PROVE  /\ c.active \in Seq(Nodes) /\ c.used \in Seq(Nodes)
         /\ Len(c.active) \in Nat \ {0} /\ Len(c.used) \in Nat \ {0}
BY FieldTypes, EmptySeq DEF WF

(* Both stacks, popped by whatever leaves a namespace.                     *)
LEMMA PopBothLeaves ==
  ASSUME NEW c, WF(c), Len(c.active) > 1, Len(c.used) > 1
  PROVE  LET d == [c EXCEPT !.active = Pop(@), !.used = Pop(@)]
         IN  Left(c, d) /\ d.nextfn = c.nextfn
<1> DEFINE d == [c EXCEPT !.active = Pop(@), !.used = Pop(@)]
<1>1. c \in ContextType
  BY DEF WF
<1>2. /\ Pop(c.active) \in Seq(Nodes) /\ Pop(c.used) \in Seq(Nodes)
      /\ Pop(c.active) = SubSeq(c.active, 1, Len(c.active) - 1)
      /\ Pop(c.used) = SubSeq(c.used, 1, Len(c.used) - 1)
  BY StackLengths, PopType DEF WF
<1>3. d \in ContextType
  BY <1>1, <1>2 DEF ContextType
<1>4. /\ d.live = c.live /\ d.fresh = c.fresh /\ d.name = c.name /\ d.nextfn = c.nextfn
      /\ d.active = Pop(c.active) /\ d.used = Pop(c.used) /\ d.errors = c.errors
      /\ d.vars = c.vars
  BY <1>1 DEF ContextType
<1> HIDE DEF d
<1>5. Len(c.active) - 1 \in 1 .. Len(c.active) /\ Len(c.used) - 1 \in 1 .. Len(c.used)
  BY StackLengths
<1>6. WF(d)
  BY <1>2, <1>3, <1>4, <1>5, CutStacks DEF WF
<1>7. Grows(c, d)
  BY <1>4, <1>6, GrowsReflexive DEF Grows, NamesKept, VarsReach
<1>8. Left(c, d) /\ d.nextfn = c.nextfn
  BY <1>4, <1>7 DEF Left
<1> QED  BY <1>8 DEF d

(* Context::unuseNamespace pops the used stack only.                       *)
LEMMA PopUsedKeeps ==
  ASSUME NEW c, WF(c), Len(c.used) > 1
  PROVE  /\ Grows(c, UnuseNamespace(c))
         /\ UnuseNamespace(c).active = c.active /\ UnuseNamespace(c).used = Pop(c.used)
<1> DEFINE d == UnuseNamespace(c)
<1>1. c \in ContextType
  BY DEF WF
<1>2. /\ Pop(c.used) \in Seq(Nodes) /\ Pop(c.used) = SubSeq(c.used, 1, Len(c.used) - 1)
      /\ c.active = SubSeq(c.active, 1, Len(c.active))
  BY SMTT(20), StackLengths, PopType, SubSeqFull DEF WF
<1>3. d \in ContextType
  BY <1>1, <1>2 DEF ContextType, UnuseNamespace
<1>4. /\ d.live = c.live /\ d.fresh = c.fresh /\ d.name = c.name
      /\ d.active = c.active /\ d.used = Pop(c.used) /\ d.errors = c.errors
      /\ d.vars = c.vars
  BY <1>1 DEF ContextType, UnuseNamespace
<1> HIDE DEF d
<1>5. Len(c.active) \in 1 .. Len(c.active) /\ Len(c.used) - 1 \in 1 .. Len(c.used)
  BY StackLengths
<1>6. WF(d)
  BY <1>2, <1>3, <1>4, <1>5, CutStacks DEF WF
<1>7. Grows(c, d)
  BY <1>4, <1>6, GrowsReflexive DEF Grows, NamesKept, VarsReach
<1> QED  BY <1>4, <1>7 DEF d

(* deactivateNamespace, when the name is that of the top of both stacks.   *)
LEMMA DeactivatePops ==
  ASSUME NEW c, WF(c), Len(c.active) > 1, Len(c.used) > 1, NEW nm,
         c.name[NS(c)] = nm, c.name[Back(c.used)] = nm
  PROVE  Left(c, DeactivateNamespace(c, nm)) /\ DeactivateNamespace(c, nm).nextfn = c.nextfn
BY PopBothLeaves DEF DeactivateNamespace

(***************************************************************************)
(* The methods put together.                                               *)
(***************************************************************************)
(* A top of the stack that was pushed is on both.                          *)
LEMMA TopAfterPush ==
  ASSUME NEW c, WF(c), NEW d, WF(d), NEW n \in Nodes,
         d.active = Append(c.active, n), d.used = Append(c.used, n)
  PROVE  /\ NS(d) = n /\ Back(d.used) = n
         /\ Len(d.active) = Len(c.active) + 1 /\ Len(d.used) = Len(c.used) + 1
         /\ Len(d.active) > 1 /\ Len(d.used) > 1
         /\ Pop(d.active) = c.active /\ Pop(d.used) = c.used
BY StackLengths, PopAppend, AppendProperties DEF NS

(* Parsing a return type enters and leaves a namespace.                    *)
LEMMA ParseReturnTypeKeeps ==
  ASSUME NEW c, WF(c), c.fresh <= MaxNodes, NEW ps \in Parameters
  PROVE  /\ SameStacks(c, ParseReturnType(c, ps))
         /\ ParseReturnType(c, ps).fresh <= c.fresh + 1
<1> DEFINE a == ActivateAnonymousNamespace(c)
           p == AddParameters(a, ps)
           d == DeactivateNamespace(p, a.name[NS(a)])
<1>1. PICK n \in Nodes : Pushed(c, a, n)
  BY AnonymousPushes
<1>2. SameStacks(a, p)
  BY <1>1, AddParametersKeeps DEF Pushed, Entered, Grows
<1>3. a.fresh <= c.fresh + 1 /\ p.fresh = a.fresh /\ d.fresh = p.fresh
  <2>1. p.fresh = a.fresh
    BY <1>1, FieldTypes DEF AddParameters, AddVariable, Pushed, Entered, Grows, WF, ContextType
  <2>2. d.fresh = p.fresh
    BY <1>2 DEF DeactivateNamespace, SameStacks, Grows, WF, ContextType
  <2> QED  BY <2>1, <2>2, AnonymousPushes
<1>4. ParseReturnType(c, ps) = d
  BY DEF ParseReturnType
<1> HIDE DEF a, p
<1>5. /\ NS(a) = n /\ NS(p) = n /\ Back(p.used) = n
      /\ Len(p.active) > 1 /\ Len(p.used) > 1
      /\ Pop(p.active) = c.active /\ Pop(p.used) = c.used
  BY <1>1, <1>2, TopAfterPush DEF Pushed, Entered, SameStacks, Grows
<1>6. p.name[n] = a.name[n]
  BY <1>1, <1>2 DEF Pushed, Entered, SameStacks, Grows, NamesKept
<1>7. Left(p, d) /\ d.nextfn = p.nextfn
  BY <1>2, <1>5, <1>6, DeactivatePops DEF SameStacks, Grows
<1> HIDE DEF d
<1>8. Grows(c, p)
  BY <1>1, <1>2, GrowsTransitive DEF Pushed, Entered, SameStacks
<1>9. Grows(c, d)
  BY <1>7, <1>8, GrowsTransitive DEF Left
<1>10. d.active = c.active /\ d.used = c.used /\ d.nextfn = c.nextfn
  BY <1>1, <1>2, <1>5, <1>7 DEF Left, Pushed, SameStacks
<1>11. d.fresh <= c.fresh + 1
  BY <1>3 DEF d
<1> QED  BY <1>4, <1>9, <1>10, <1>11 DEF SameStacks

(* Parsing a body begins by entering a namespace and a function scope.     *)
LEMMA EnterBodyEnters ==
  ASSUME NEW c, WF(c), c.fresh <= MaxNodes, NEW fn \in Fns, NEW ps \in Parameters
  PROVE  \E n \in Nodes : Entered(c, EnterBody(c, fn, ps), n)
<1> DEFINE a == ActivateAnonymousNamespace(c)
           b == [a EXCEPT !.scopes = Append(@, fn)]
<1>1. PICK n \in Nodes : Pushed(c, a, n)
  BY AnonymousPushes
<1>2. a \in ContextType /\ a.scopes \in Seq(Fns) /\ Append(a.scopes, fn) \in Seq(Fns)
  BY <1>1, FieldTypes, AppendProperties DEF Pushed, Entered, Grows, WF
<1> HIDE DEF a
<1>3. b \in ContextType
  BY <1>2 DEF ContextType
<1>4. /\ b.live = a.live /\ b.fresh = a.fresh /\ b.name = a.name /\ b.nextfn = a.nextfn
      /\ b.active = a.active /\ b.used = a.used /\ b.errors = a.errors /\ b.vars = a.vars
  BY <1>2 DEF ContextType
<1>5. EnterBody(c, fn, ps) = AddParameters(b, ps)
  BY DEF EnterBody, a
<1> HIDE DEF b
<1>6. WF(a)
  BY <1>1 DEF Pushed, Entered, Grows
<1>7. SameStacks(a, b)
  BY <1>3, <1>4, <1>6, GrowsReflexive, OtherFields DEF Grows, VarsReach
<1>8. SameStacks(b, AddParameters(b, ps))
  BY <1>7, AddParametersKeeps DEF SameStacks, Grows
<1>9. Grows(c, AddParameters(b, ps))
  BY <1>1, <1>7, <1>8, GrowsTransitive DEF Pushed, Entered, SameStacks, Grows
<1>10. n \in AddParameters(b, ps).live
  BY <1>1, <1>7, <1>8 DEF Pushed, Entered, SameStacks, Grows, NamesKept
<1> QED  BY <1>1, <1>5, <1>7, <1>8, <1>9, <1>10 DEF Pushed, Entered, SameStacks

(* FormFunctionParse, down to the body, pushes what EnterBody does.        *)
LEMMA BeginFnEnters ==
  ASSUME NEW c, WF(c), c.fresh + 2 <= MaxNodes + 1, c.nextfn \in Fns,
         NEW nm \in FunNames \cup Nat, NEW ps \in Parameters
  PROVE  \E n \in Nodes : Entered(c, BeginFn(c, nm, ps), n)
<1> DEFINE fn == c.nextfn
           p == ParseReturnType(c, ps)
           d == AddFunction(p, nm, fn)
           e == [d EXCEPT !.nextfn = @ + 1]
<1>0. c.fresh \in Nat /\ c.fresh <= MaxNodes
  BY Counts, SizeAssumption
<1>1. SameStacks(c, p) /\ p.fresh <= c.fresh + 1
  BY <1>0, ParseReturnTypeKeeps
<1>2. SameStacks(p, d)
  BY <1>1, AddFunctionKeeps DEF SameStacks, Grows
<1>3. d.fresh = p.fresh
  BY <1>1 DEF AddFunction, SameStacks, Grows, WF, ContextType
<1> HIDE DEF p, d
<1>4. d \in ContextType /\ d.nextfn = fn /\ fn + 1 \in 1 .. MaxFns + 1
  BY <1>1, <1>2, SizeAssumption DEF SameStacks, Grows, WF, Fns
<1>5. e \in ContextType
  BY <1>4 DEF ContextType
<1>6. /\ e.live = d.live /\ e.fresh = d.fresh /\ e.name = d.name
      /\ e.active = d.active /\ e.used = d.used /\ e.errors = d.errors /\ e.vars = d.vars
  BY <1>4 DEF ContextType
<1>7. BeginFn(c, nm, ps) = EnterBody(e, fn, ps)
  BY DEF BeginFn, p, d
<1> HIDE DEF e
<1>8. WF(d)
  BY <1>2 DEF SameStacks, Grows
<1>9. Grows(d, e)
  <2>1. WF(e)
    BY <1>5, <1>6, <1>8 DEF WF, StackNodes
  <2> QED  BY <1>6, <1>8, <2>1, GrowsReflexive DEF Grows, NamesKept, VarsReach
<1>10. Grows(c, e)
  BY <1>1, <1>2, <1>9, GrowsTransitive DEF SameStacks, Grows
<1>11. e.fresh <= MaxNodes
  <2>1. e.fresh \in Nat /\ p.fresh \in Nat /\ MaxNodes \in Nat
    BY <1>1, <1>9, Counts, SizeAssumption DEF SameStacks, Grows
  <2> QED  BY <1>0, <1>1, <1>3, <1>6, <2>1
<1>12. PICK n \in Nodes : Entered(e, EnterBody(e, fn, ps), n)
  BY <1>9, <1>11, EnterBodyEnters DEF Grows
<1>13. Grows(c, EnterBody(e, fn, ps))
  BY <1>10, <1>12, GrowsTransitive DEF Entered
<1>14. e.active = c.active /\ e.used = c.used
  BY <1>1, <1>2, <1>6 DEF SameStacks
<1> QED  BY <1>7, <1>12, <1>13, <1>14 DEF Entered

(* Leaving the body pops it again.                                         *)
LEMMA LeaveBodyLeaves ==
  ASSUME NEW c, WF(c), Len(c.active) > 1, Len(c.used) > 1, NEW nm,
         c.name[NS(c)] = nm, c.name[Back(c.used)] = nm
  PROVE  Left(c, LeaveBody(c, nm))
<1> DEFINE d == [c EXCEPT !.scopes = Pop(@)]
<1>1. c \in ContextType /\ c.scopes \in Seq(Fns)
  BY FieldTypes DEF WF
<1>2. Pop(c.scopes) \in Seq(Fns)
  <2>1. CASE c.scopes = <<>>
    BY <2>1, <1>1, SubSeqEmpty, EmptySeq DEF Pop
  <2>2. CASE c.scopes # <<>>
    BY <2>2, <1>1, PopType
  <2> QED  BY <2>1, <2>2
<1>3. d \in ContextType
  BY <1>1, <1>2 DEF ContextType
<1>4. /\ d.live = c.live /\ d.fresh = c.fresh /\ d.name = c.name /\ d.nextfn = c.nextfn
      /\ d.active = c.active /\ d.used = c.used /\ d.errors = c.errors /\ d.vars = c.vars
  BY <1>1 DEF ContextType
<1>5. LeaveBody(c, nm) = DeactivateNamespace(d, nm)
  BY DEF LeaveBody
<1> HIDE DEF d
<1>6. SameStacks(c, d)
  BY <1>3, <1>4, GrowsReflexive, OtherFields DEF Grows, VarsReach
<1>7. Left(d, DeactivateNamespace(d, nm))
  BY <1>4, <1>6, DeactivatePops DEF SameStacks, Grows, NS
<1> QED  BY <1>4, <1>5, <1>6, <1>7, GrowsTransitive DEF Left, SameStacks

(* A save point restored when the stacks are those it was taken with.      *)
LEMMA RestoreContextKeeps ==
  ASSUME NEW c, WF(c), NEW saved, WF(saved), VarsReach(saved, c),
         c.active = saved.active, c.used = saved.used
  PROVE  LET d == RestoreContext(c, saved)
         IN  /\ WF(d) /\ d.active = c.active /\ d.used = c.used /\ d.name = c.name
             /\ d.errors = c.errors /\ VarsReach(saved, d)
<1> DEFINE from == NS(saved)
           below == {n \in saved.live : from \in Chain(saved, n)}
           created == {n \in c.live \ saved.live : from \in Chain(c, n)}
           cut(n) == SubSeq(c.vars[n], 1, Len(saved.vars[n]))
           vs == [n \in Nodes |-> IF n \in below THEN cut(n) ELSE c.vars[n]]
           fs == [n \in Nodes |-> IF n \in below
                                    THEN RestoreFuns(c.funs[n], saved.funs[n])
                                    ELSE c.funs[n]]
           d == RestoreContext(c, saved)
<1>1. /\ c \in ContextType /\ c.vars \in [Nodes -> Seq(Variable)]
      /\ c.funs \in [Nodes -> SUBSET Function] /\ c.live \subseteq Nodes
  BY FieldTypes DEF WF
<1>2. /\ SubSeq(c.active, 1, Len(saved.active)) = c.active
      /\ SubSeq(c.used, 1, Len(saved.used)) = c.used
      /\ c.active \in Seq(Nodes) /\ c.used \in Seq(Nodes)
  BY StackLengths, SubSeqFull
<1>3. \A n \in Nodes : Len(saved.vars[n]) \in Nat /\ Len(saved.vars[n]) <= Len(c.vars[n])
  BY Counts DEF VarsReach
<1>4. \A n \in Nodes : cut(n) \in Seq(Variable) /\ Len(cut(n)) = Len(saved.vars[n])
  BY <1>1, <1>3, PrefixType
<1>5. /\ vs \in [Nodes -> Seq(Variable)]
      /\ \A n \in Nodes : Len(saved.vars[n]) <= Len(vs[n])
  <2> HIDE DEF cut, below
  <2> QED  BY <1>1, <1>3, <1>4
<1>6. fs \in [Nodes -> SUBSET Function]
  BY <1>1 DEF RestoreFuns
<1>7. d = [c EXCEPT !.live = @ \ created, !.active = c.active, !.used = c.used,
                    !.vars = vs, !.funs = fs]
  BY <1>1, <1>2 DEF RestoreContext, ContextType
<1>8. created \cap saved.live = {}
  OBVIOUS
<1> HIDE DEF created, vs, fs, d
<1>9. d \in ContextType
  BY <1>1, <1>2, <1>5, <1>6, <1>7 DEF ContextType
<1>10. /\ d.live = c.live \ created /\ d.fresh = c.fresh /\ d.name = c.name
       /\ d.active = c.active /\ d.used = c.used /\ d.errors = c.errors /\ d.vars = vs
  BY <1>1, <1>7 DEF ContextType
<1>11. StackNodes(d) \subseteq d.live
  <2>1. StackNodes(d) = StackNodes(c) /\ StackNodes(d) = StackNodes(saved)
    BY <1>10 DEF StackNodes
  <2> QED  BY <1>8, <1>10, <2>1 DEF WF
<1>12. WF(d)
  BY <1>9, <1>10, <1>11 DEF WF
<1> QED  BY <1>5, <1>10, <1>12 DEF VarsReach, d

(***************************************************************************)
(* The forms.                                                              *)
(***************************************************************************)
LEMMA ReachTransitive ==
  ASSUME NEW c, WF(c), NEW d, WF(d), NEW e, WF(e), VarsReach(c, d), VarsReach(d, e)
  PROVE  VarsReach(c, e)
BY Counts DEF VarsReach

(* Sequences that agree up to a place have the same prefix there.          *)
LEMMA SamePrefix ==
  ASSUME NEW S, NEW s \in Seq(S), NEW t \in Seq(S), NEW j \in Nat,
         j <= Len(s), j <= Len(t), \A i \in 1 .. j : s[i] = t[i]
  PROVE  SubSeq(s, 1, j) = SubSeq(t, 1, j)
<1> DEFINE a == SubSeq(s, 1, j)
           b == SubSeq(t, 1, j)
<1>1. a \in Seq(S) /\ Len(a) = j /\ \A i \in 1 .. j : a[i] = s[i]
  BY PrefixType
<1>2. b \in Seq(S) /\ Len(b) = j /\ \A i \in 1 .. j : b[i] = t[i]
  BY PrefixType
<1> HIDE DEF a, b
<1>3. a = b
  BY <1>1, <1>2, SeqEqual
<1> QED  BY <1>3 DEF a, b

(* Context::useNamespace pushes on the used stack only.                    *)
LEMMA UseNamespaceUses ==
  ASSUME NEW c, WF(c), NEW n \in c.live
  PROVE  /\ Grows(c, UseNamespace(c, n)) /\ UseNamespace(c, n).active = c.active
         /\ n \in Nodes /\ UseNamespace(c, n).used = Append(c.used, n)
<1> DEFINE d == UseNamespace(c, n)
<1>1. /\ c \in ContextType /\ n \in Nodes /\ c.used \in Seq(Nodes)
      /\ c.active \in Seq(Nodes)
  BY FieldTypes DEF WF
<1>2. Append(c.used, n) \in Seq(Nodes) /\ Append(c.used, n) # <<>>
  BY <1>1, AppendProperties
<1>3. d \in ContextType
  BY <1>1, <1>2 DEF ContextType, UseNamespace
<1>4. /\ d.live = c.live /\ d.fresh = c.fresh /\ d.name = c.name
      /\ d.active = c.active /\ d.used = Append(c.used, n) /\ d.errors = c.errors
      /\ d.vars = c.vars
  BY <1>1 DEF ContextType, UseNamespace
<1> HIDE DEF d
<1>5. StackNodes(d) \subseteq StackNodes(c) \cup {n}
  <2>1. Len(c.used) \in Nat
    BY <1>1, LenProperties
  <2>2. \A i \in 1 .. Len(d.used) : d.used[i] = n \/ (i \in 1 .. Len(c.used) /\ d.used[i] = c.used[i])
    BY <1>1, <1>4, <2>1, AppendProperties
  <2> QED  BY <1>4, <2>2 DEF StackNodes
<1>6. WF(d)
  BY <1>2, <1>3, <1>4, <1>5 DEF WF
<1>7. Grows(c, d)
  BY <1>4, <1>6, GrowsReflexive DEF Grows, NamesKept, VarsReach
<1> QED  BY <1>1, <1>4, <1>7 DEF d
-----------------------------------------------------------------------------
(***************************************************************************)
(* A scope is never one that was open before: the names of anonymous       *)
(* namespaces are numbers already given out (NamesBelow), so that          *)
(* activateNamespace finds no child of the next one's name and makes a new *)
(* namespace.  The lemmas say of each method what becomes of the           *)
(* namespaces, their names and the counter.                                *)
(***************************************************************************)
(* Methods that make no namespace.                                         *)
Quiet(c, d) ==
  /\ d.live \subseteq c.live /\ d.name = c.name
  /\ d.anon = c.anon /\ d.fresh = c.fresh

(* A method that makes one namespace, and ends in it.                      *)
Fresh(c, d) ==
  /\ WF(d) /\ NamesBelow(d) /\ NS(d) = c.fresh
  /\ d.live = c.live \cup {c.fresh} /\ d.fresh = c.fresh + 1

(* What makes no namespace keeps the names below the counter.              *)
LEMMA QuietKeeps ==
  ASSUME NEW c, NEW d, NamesBelow(c), Quiet(c, d)
  PROVE  NamesBelow(d)
BY DEF NamesBelow, Quiet

(* The number of the next namespace is not in use.                         *)
LEMMA FreshIsNew ==
  ASSUME NEW c, WF(c)
  PROVE  /\ c.fresh \in Nat /\ c.fresh \notin c.live /\ c.anon \in Nat
         /\ \A n \in c.live : n # c.fresh + 1
<1>1. c.fresh \in Nat /\ c.anon \in Nat /\ c.live \subseteq 1 .. c.fresh - 1
  BY FieldTypes DEF WF
<1> QED  BY <1>1

(* A namespace that is made gets the name asked for.                       *)
LEMMA NewNamespaceNames ==
  ASSUME NEW c, WF(c), c.fresh <= MaxNodes, NEW nm \in NodeNames
  PROVE  LET d == NewNamespace(c, nm)
         IN  /\ WF(d) /\ NS(d) = c.fresh /\ d.live = c.live \cup {c.fresh}
             /\ d.fresh = c.fresh + 1 /\ d.anon = c.anon
             /\ d.name[c.fresh] = nm /\ \A n \in c.live : d.name[n] = c.name[n]
<1> DEFINE d == NewNamespace(c, nm)
<1>1. c \in ContextType /\ c.fresh \in Nodes
  <2>1. c \in ContextType /\ c.fresh \in 1 .. MaxNodes + 1 /\ MaxNodes \in Nat
    BY FieldTypes, SizeAssumption DEF WF
  <2> QED  BY <2>1 DEF Nodes
<1>2. /\ d.live = c.live \cup {c.fresh} /\ d.fresh = c.fresh + 1 /\ d.anon = c.anon
      /\ d.name = [c.name EXCEPT ![c.fresh] = nm]
      /\ d.active = Append(c.active, c.fresh) /\ d.used = Append(c.used, c.fresh)
  BY <1>1 DEF NewNamespace, ContextType
<1>3. WF(d)
  BY NewNamespacePushes DEF Pushed, Entered, Grows
<1> HIDE DEF d
<1>4. NS(d) = c.fresh
  BY <1>1, <1>2, <1>3, TopAfterPush
<1>5. /\ d.name[c.fresh] = nm /\ \A n \in c.live : d.name[n] = c.name[n]
  BY <1>1, <1>2, FreshIsNew, FieldTypes
<1> QED  BY <1>2, <1>3, <1>4, <1>5 DEF d

(* No namespace has the next number for a name, so that asking for an      *)
(* anonymous namespace makes one.                                          *)
LEMMA AnonymousMakes ==
  ASSUME MaxNodes < AnonLimit, NEW c, WF(c), NamesBelow(c), c.fresh <= MaxNodes
  PROVE  LET k == c.anon + 1
             b == [c EXCEPT !.anon = @ + 1]
         IN  /\ ActivateAnonymousNamespace(c) = NewNamespace(b, k)
             /\ k \in NodeNames /\ k \in Nat /\ WF(b) /\ b.anon = k
             /\ b.live = c.live /\ b.fresh = c.fresh /\ b.name = c.name
             /\ b.active = c.active /\ b.used = c.used
<1> DEFINE k == c.anon + 1
           b == [c EXCEPT !.anon = @ + 1]
           d == NewNamespace(b, k)
<1>1. /\ c \in ContextType /\ k \in Nat /\ c.fresh \in Nat /\ MaxNodes \in Nat
      /\ c.anon \in Nat /\ AnonLimit \in Nat
  BY FieldTypes, FreshIsNew, SizeAssumption, AnonAssumption DEF WF
<1>2. /\ b.live = c.live /\ b.fresh = c.fresh /\ b.name = c.name /\ b.anon = k
      /\ b.active = c.active /\ b.used = c.used
  BY <1>1 DEF ContextType
<1>3. WF(b)
  <2>1. b \in ContextType
    BY <1>1 DEF ContextType
  <2> HIDE DEF b
  <2> QED  BY <1>2, <2>1 DEF WF, StackNodes
<1>4. AnonName(k) = k /\ k \in NodeNames
  BY <1>1 DEF NamesBelow, AnonName, NodeNames
<1> HIDE DEF b, d
<1>5. Child(b, NS(b), k) = NoNode
  <2> HIDE DEF k
  <2>1. \A m \in b.live : b.name[m] # k
    <3> SUFFICES ASSUME NEW m \in c.live, c.name[m] = k PROVE FALSE
      BY <1>2
    <3>1. k <= c.anon
      BY <1>1 DEF NamesBelow
    <3> QED  BY <1>1, <3>1 DEF k
  <2> QED  BY <2>1 DEF Child
<1>6. ActivateAnonymousNamespace(c) = d
  <2>1. ActivateAnonymousNamespace(c) = ActivateNamespace(b, k)
    BY <1>4 DEF ActivateAnonymousNamespace, b
  <2> HIDE DEF k
  <2> QED  BY <1>5, <2>1 DEF ActivateNamespace, d
<1> QED  BY <1>1, <1>2, <1>3, <1>4, <1>6 DEF b, d

(* The next anonymous namespace is a new one.                              *)
LEMMA AnonymousIsFresh ==
  ASSUME MaxNodes < AnonLimit, NEW c, WF(c), NamesBelow(c), c.fresh <= MaxNodes
  PROVE  Fresh(c, ActivateAnonymousNamespace(c))
<1> DEFINE k == c.anon + 1
           b == [c EXCEPT !.anon = @ + 1]
           d == NewNamespace(b, k)
<1>1. k \in Nat /\ c.fresh \in Nat /\ c.anon \in Nat
  BY FreshIsNew
<1>2. /\ b.live = c.live /\ b.fresh = c.fresh /\ b.name = c.name /\ b.anon = k
      /\ WF(b) /\ k \in NodeNames
  BY AnonymousMakes
<1>3. ActivateAnonymousNamespace(c) = d
  BY AnonymousMakes
<1> HIDE DEF b, d
<1>4. /\ WF(d) /\ NS(d) = c.fresh /\ d.live = c.live \cup {c.fresh}
      /\ d.fresh = c.fresh + 1 /\ d.anon = k
      /\ d.name[c.fresh] = k /\ \A n \in c.live : d.name[n] = c.name[n]
  BY <1>2, NewNamespaceNames DEF d
<1>5. NamesBelow(d)
  <2>1. d.anon < d.fresh
    BY <1>1, <1>4 DEF NamesBelow
  <2>2. ASSUME NEW n \in d.live, d.name[n] \in Int PROVE d.name[n] <= d.anon
    <3>1. CASE n = c.fresh
      BY <1>1, <1>4, <3>1
    <3>2. CASE n \in c.live
      <4>1. d.name[n] = c.name[n] /\ c.name[n] \in Int
        BY <1>4, <2>2, <3>2
      <4>2. c.name[n] <= c.anon
        BY <3>2, <4>1 DEF NamesBelow
      <4> QED  BY <1>1, <1>4, <4>1, <4>2
    <3> QED  BY <1>4, <3>1, <3>2
  <2> QED  BY <2>1, <2>2 DEF NamesBelow
<1> QED  BY <1>3, <1>4, <1>5 DEF Fresh

(* A namespace a program names has no number for a name.                   *)
LEMMA NamedKeeps ==
  ASSUME NEW c, WF(c), NamesBelow(c), c.fresh <= MaxNodes, NEW nm \in NsNames
  PROVE  NamesBelow(ActivateNamespace(c, nm))
<1>1. c \in ContextType /\ nm \in NodeNames /\ nm \notin Int
  BY NameAssumption DEF WF, NodeNames
<1>2. CASE Child(c, NS(c), nm) = NoNode
  <2> DEFINE d == NewNamespace(c, nm)
  <2>1. /\ d.live = c.live \cup {c.fresh} /\ d.fresh = c.fresh + 1 /\ d.anon = c.anon
        /\ d.name[c.fresh] = nm /\ \A n \in c.live : d.name[n] = c.name[n]
    BY <1>1, NewNamespaceNames
  <2> HIDE DEF d
  <2>2. c.fresh \in Nat /\ c.anon \in Nat
    BY FreshIsNew
  <2>3. NamesBelow(d)
    BY <1>1, <2>1, <2>2 DEF NamesBelow
  <2>4. ActivateNamespace(c, nm) = d
    BY <1>2 DEF ActivateNamespace, d
  <2> QED  BY <2>3, <2>4
<1>3. CASE Child(c, NS(c), nm) # NoNode
  <2>1. Quiet(c, ActivateNamespace(c, nm))
    BY <1>1, <1>3 DEF ActivateNamespace, ContextType, Quiet
  <2> QED  BY <2>1, QuietKeeps
<1> QED  BY <1>2, <1>3

(* The other methods make no namespace.                                    *)
LEMMA ParametersQuiet ==
  ASSUME NEW c, WF(c), NEW ps \in Parameters
  PROVE  Quiet(c, AddParameters(c, ps)) /\ AddParameters(c, ps).active = c.active
BY DEF AddParameters, AddVariable, Quiet, WF, ContextType

LEMMA DeactivateQuiet ==
  ASSUME NEW c, WF(c), NEW nm
  PROVE  Quiet(c, DeactivateNamespace(c, nm))
BY DEF DeactivateNamespace, Quiet, WF, ContextType

LEMMA LeaveBodyQuiet ==
  ASSUME NEW c, WF(c), NEW nm
  PROVE  Quiet(c, LeaveBody(c, nm))
BY DEF LeaveBody, DeactivateNamespace, Quiet, WF, ContextType

(* A function's parameters are left and its body entered in namespaces     *)
(* that are both new.                                                      *)
LEMMA BeginFnIsFresh ==
  ASSUME MaxNodes < AnonLimit, NEW c, WF(c), NamesBelow(c), c.fresh + 2 <= MaxNodes + 1,
         c.nextfn \in Fns, NEW nm \in FunNames \cup Nat, NEW ps \in Parameters
  PROVE  NamesBelow(BeginFn(c, nm, ps)) /\ NS(BeginFn(c, nm, ps)) \notin c.live
<1> DEFINE f == c.nextfn
           a == ActivateAnonymousNamespace(c)
           p == ParseReturnType(c, ps)
           d == AddFunction(p, nm, f)
           e == [d EXCEPT !.nextfn = @ + 1]
           b == ActivateAnonymousNamespace(e)
           g == [b EXCEPT !.scopes = Append(@, f)]
<1>1. /\ c.fresh \in Nat /\ MaxNodes \in Nat /\ c.fresh <= MaxNodes /\ c.fresh + 1 <= MaxNodes
  BY FreshIsNew, SizeAssumption
<1>2. Fresh(c, a)
  BY <1>1, AnonymousIsFresh
<1>3. Quiet(a, p)
  <2> HIDE DEF a
  <2>1. Quiet(a, AddParameters(a, ps)) /\ WF(AddParameters(a, ps))
    BY <1>2, ParametersQuiet, AddParametersKeeps DEF Fresh, SameStacks, Grows
  <2>2. p = DeactivateNamespace(AddParameters(a, ps), a.name[NS(a)])
    BY DEF ParseReturnType, a
  <2> QED  BY <2>1, <2>2, DeactivateQuiet DEF Quiet
<1>4. SameStacks(c, p)
  BY <1>1, ParseReturnTypeKeeps
<1> HIDE DEF a, p
<1>5. SameStacks(p, d) /\ WF(p) /\ d \in ContextType
  BY <1>4, AddFunctionKeeps DEF SameStacks, Grows, WF
<1>6. Quiet(p, d)
  BY <1>5 DEF AddFunction, Quiet, WF, ContextType
<1> HIDE DEF d
<1>7. /\ Quiet(d, e) /\ e.active = d.active /\ e.used = d.used /\ e.live = d.live
      /\ e \in ContextType
  <2>1. f + 1 \in 1 .. MaxFns + 1 /\ d.nextfn = f
    <3>1. d.nextfn = c.nextfn
      BY <1>4, <1>5 DEF SameStacks
    <3>2. MaxFns \in Nat /\ f \in 1 .. MaxFns
      BY SizeAssumption DEF Fns
    <3> QED  BY <3>1, <3>2
  <2> QED  BY <1>5, <2>1 DEF Quiet, ContextType
<1> HIDE DEF e
<1>8. WF(e) /\ NamesBelow(e) /\ e.fresh = c.fresh + 1 /\ c.live \subseteq e.live
  <2>1. NamesBelow(e)
    BY <1>2, <1>3, <1>6, <1>7, QuietKeeps DEF Fresh
  <2>2. WF(e)
    BY <1>5, <1>7 DEF WF, StackNodes, Quiet, SameStacks, Grows
  <2>3. e.fresh = c.fresh + 1
    BY <1>2, <1>3, <1>6, <1>7 DEF Fresh, Quiet
  <2>4. c.live \subseteq e.live
    BY <1>4, <1>5, <1>7 DEF SameStacks, Grows, NamesKept
  <2> QED  BY <2>1, <2>2, <2>3, <2>4
<1>9. Fresh(e, b)
  BY <1>1, <1>8, AnonymousIsFresh
<1> HIDE DEF b
<1>10. /\ Quiet(b, g) /\ g.active = b.active /\ g.used = b.used /\ g.live = b.live
       /\ WF(g)
  <2>1. b \in ContextType /\ Append(b.scopes, f) \in Seq(Fns)
    BY <1>9, FieldTypes, AppendProperties DEF Fresh, WF
  <2>2. /\ Quiet(b, g) /\ g.active = b.active /\ g.used = b.used /\ g.live = b.live
        /\ g \in ContextType
    BY <2>1 DEF Quiet, ContextType
  <2> HIDE DEF g
  <2> QED  BY <1>9, <2>2 DEF WF, StackNodes, Quiet, Fresh
<1>11. BeginFn(c, nm, ps) = AddParameters(g, ps)
  BY DEF BeginFn, EnterBody, g, b, e, d, p
<1> HIDE DEF g
<1>12. /\ Quiet(g, AddParameters(g, ps)) /\ AddParameters(g, ps).active = g.active
  BY <1>10, ParametersQuiet
<1>13. NS(AddParameters(g, ps)) = c.fresh + 1
  BY <1>8, <1>9, <1>10, <1>12 DEF NS, Fresh
<1>14. NamesBelow(AddParameters(g, ps))
  BY <1>9, <1>10, <1>12, QuietKeeps DEF Fresh
<1> QED  BY <1>11, <1>13, <1>14, FreshIsNew
-----------------------------------------------------------------------------
(* The variables of p are still there, in their places, though the indices *)
(* of some may have been cleared since.                                    *)
Continues(b, p, q) ==
  Len(p) <= Len(q) /\ \A k \in 1 .. Len(p) : SameButIndex(b, p[k], q[k])

(* c is what s became by forms that were opened in the current namespace   *)
(* of s.                                                                   *)
Extends(s, c) ==
  /\ s.live \subseteq c.live /\ s.fresh <= c.fresh /\ c.lv_index = s.lv_index
  /\ \A m \in Nodes : m < s.fresh => c.parent[m] = s.parent[m]
  /\ \A n \in c.live \ s.live : NS(s) \in Chain(c, n)
  /\ \A n \in s.live :
       /\ Continues(s.lv_index, s.vars[n], c.vars[n])
       /\ NS(s) \notin Chain(s, n) => Len(c.vars[n]) = Len(s.vars[n])

(* No variable has an index that its namespace has not counted, or else it *)
(* has lost it, which only an index from lv_index on does; a namespace     *)
(* still to be made has no variables.                                      *)
Indexed(c) ==
  \A n \in Nodes :
    /\ n >= c.fresh => c.vars[n] = <<>>
    /\ \A k \in 1 .. Len(c.vars[n]) :
         \/ c.vars[n][k].index \in 1 .. c.lv[n]
         \/ c.vars[n][k].index = 0 /\ c.lv_index <= c.lv[n]

(***************************************************************************)
(* Extends is a preorder along the path of the active namespaces.          *)
(***************************************************************************)
LEMMA ContinuesReflexive ==
  ASSUME NEW b, NEW S, NEW p \in Seq(S)
  PROVE  Continues(b, p, p)
BY LenProperties DEF Continues, SameButIndex

(* What is cleared stays cleared.                                          *)
LEMMA ContinuesTransitive ==
  ASSUME NEW b \in Int, NEW p \in Seq(Variable), NEW q \in Seq(Variable),
         NEW r \in Seq(Variable), Continues(b, p, q), Continues(b, q, r)
  PROVE  Continues(b, p, r)
<1>1. Len(p) \in Nat /\ Len(q) \in Nat /\ Len(r) \in Nat
  BY LenProperties
<1>2. ASSUME NEW k \in 1 .. Len(p) PROVE SameButIndex(b, p[k], r[k])
  <2>1. k \in 1 .. Len(q) /\ p[k] \in Variable /\ q[k] \in Variable
    BY <1>1, ElementOfSeq DEF Continues
  <2>2. SameButIndex(b, p[k], q[k]) /\ SameButIndex(b, q[k], r[k])
    BY <2>1 DEF Continues
  <2>3. CASE q[k] = p[k]
    BY <2>2, <2>3
  <2>4. CASE b <= p[k].index /\ q[k] = [p[k] EXCEPT !.index = 0]
    <3>1. [q[k] EXCEPT !.index = 0] = q[k]
      BY <2>1, <2>4 DEF Variable
    <3> QED  BY <2>2, <2>4, <3>1 DEF SameButIndex
  <2> QED  BY <2>2, <2>3, <2>4 DEF SameButIndex
<1> QED  BY <1>1, <1>2 DEF Continues

(* What is used of a well-formed context.                                  *)
LEMMA Parts ==
  ASSUME NEW c, WF(c)
  PROVE  /\ c \in ContextType /\ c.fresh \in Nat /\ c.live \subseteq Nodes
         /\ \A n \in c.live : n < c.fresh
         /\ c.vars \in [Nodes -> Seq(Variable)] /\ c.lv \in [Nodes -> Nat]
         /\ c.lv_index \in Int
         /\ c.active \in Seq(Nodes) /\ Len(c.active) \in Nat \ {0}
         /\ NS(c) \in Nodes /\ NS(c) \in c.live
<1>1. c.fresh \in Nat /\ c.live \subseteq Nodes /\ c.live \subseteq 1 .. c.fresh - 1
  BY Counts, FieldTypes DEF WF
<1>2. \A n \in c.live : n < c.fresh
  BY <1>1
<1>3. c \in ContextType
  BY DEF WF
<1>4. c.vars \in [Nodes -> Seq(Variable)] /\ c.lv \in [Nodes -> Nat] /\ c.lv_index \in Int
  BY <1>3, FieldTypes DEF ContextType
<1> QED  BY <1>1, <1>2, <1>3, <1>4, TopIsLive, StackLengths

(* Nothing was added.                                                      *)
LEMMA ExtendsReflexive ==
  ASSUME NEW c, WF(c)
  PROVE  Extends(c, c)
<1>1. c.fresh \in Nat /\ c.live \subseteq Nodes /\ c.vars \in [Nodes -> Seq(Variable)]
  BY FieldTypes, Counts DEF WF
<1>2. \A n \in c.live : Continues(c.lv_index, c.vars[n], c.vars[n])
  BY <1>1, ContinuesReflexive
<1> QED  BY <1>1, <1>2 DEF Extends

(* What was added, and then some more.                                     *)
LEMMA ExtendsTransitive ==
  ASSUME NEW s, NEW c, NEW d, WF(s), WF(c), WF(d), Sloped(s), Sloped(c), Sloped(d),
         Extends(s, c), Extends(c, d), NS(s) \in Chain(c, NS(c))
  PROVE  Extends(s, d)
<1>1. /\ s.fresh \in Nat /\ c.fresh \in Nat /\ d.fresh \in Nat
      /\ s.live \subseteq Nodes /\ c.live \subseteq Nodes /\ d.live \subseteq Nodes
      /\ \A n \in s.live : n < s.fresh
      /\ \A n \in c.live : n < c.fresh
      /\ s.vars \in [Nodes -> Seq(Variable)] /\ c.vars \in [Nodes -> Seq(Variable)]
      /\ d.vars \in [Nodes -> Seq(Variable)]
      /\ NS(c) \in Nodes /\ NS(c) \in c.live /\ s.lv_index \in Int
      /\ c.lv_index = s.lv_index /\ d.lv_index = s.lv_index
  BY Parts DEF Extends
<1>2. \A n \in s.live : Chain(c, n) = Chain(s, n)
  <2>1. \A n \in Nodes : n < s.fresh => Chain(c, n) = Chain(s, n)
    BY <1>1, ChainAgrees DEF Extends
  <2> QED  BY <1>1, <2>1
<1>3. \A n \in c.live : Chain(d, n) = Chain(c, n)
  <2>1. \A n \in Nodes : n < c.fresh => Chain(d, n) = Chain(c, n)
    BY <1>1, ChainAgrees DEF Extends
  <2> QED  BY <1>1, <2>1
<1>4. s.live \subseteq d.live /\ s.fresh <= d.fresh
  BY <1>1 DEF Extends
<1>5. \A m \in Nodes : m < s.fresh => d.parent[m] = s.parent[m]
  BY <1>1 DEF Extends, Nodes
<1>6. ASSUME NEW n \in d.live \ s.live PROVE NS(s) \in Chain(d, n)
  <2>1. CASE n \in c.live
    BY <1>3, <1>6, <2>1 DEF Extends
  <2>2. CASE n \notin c.live
    <3>1. NS(c) \in Chain(d, n)
      BY <2>2 DEF Extends
    <3>2. Chain(d, NS(c)) \subseteq Chain(d, n)
      BY <1>1, <3>1, ChainTransitive
    <3> QED  BY <1>1, <1>3, <3>2
  <2> QED  BY <2>1, <2>2
<1>7. ASSUME NEW n \in s.live
      PROVE  /\ Continues(s.lv_index, s.vars[n], d.vars[n])
             /\ NS(s) \notin Chain(s, n) => Len(d.vars[n]) = Len(s.vars[n])
  <2>1. n \in c.live /\ n \in Nodes
    BY <1>1 DEF Extends
  <2>2. Continues(s.lv_index, s.vars[n], c.vars[n]) /\ Continues(s.lv_index, c.vars[n], d.vars[n])
    BY <1>1, <2>1 DEF Extends
  <2>3. Continues(s.lv_index, s.vars[n], d.vars[n])
    BY <1>1, <2>1, <2>2, ContinuesTransitive
  <2>4. ASSUME NS(s) \notin Chain(s, n) PROVE Len(d.vars[n]) = Len(s.vars[n])
    <3>1. Len(c.vars[n]) = Len(s.vars[n])
      BY <2>4 DEF Extends
    <3>2. NS(c) \notin Chain(c, n)
      BY <1>2, <2>1, <2>4, ChainTransitive
    <3> QED  BY <2>1, <3>1, <3>2 DEF Extends
  <2> QED  BY <2>3, <2>4
<1> QED  BY <1>1, <1>4, <1>5, <1>6, <1>7 DEF Extends

(* What lies on the stack is on the way from the current namespace to the  *)
(* root.                                                                   *)
LEMMA OnPath ==
  ASSUME NEW c, Tree(c), NEW k \in 1 .. Len(c.active)
  PROVE  c.active[k] \in Chain(c, NS(c))
<1>1. /\ Len(c.active) \in 1 .. Len(c.active) /\ NS(c) = c.active[Len(c.active)]
      /\ k \in 1 .. Len(c.active)
  <2>1. Len(c.active) \in Nat \ {0}
    BY EmptySeq DEF Tree, StackIsPath
  <2> QED  BY <2>1 DEF NS, Back
<1> QED  BY <1>1, ChainOfStack DEF Tree

(***************************************************************************)
(* The methods of a context, each as an addition to it.                    *)
(***************************************************************************)
Adds(c, d) == Tree(d) /\ Extends(c, d) /\ (Indexed(c) => Indexed(d))

(* One method after another.                                               *)
LEMMA AddsTransitive ==
  ASSUME NEW c, NEW d, NEW e, WF(c), WF(d), WF(e), Tree(c),
         Adds(c, d), Adds(d, e), NS(c) \in Chain(d, NS(d))
  PROVE  Adds(c, e)
<1>1. Extends(c, e)
  BY ExtendsTransitive DEF Adds, Tree
<1> QED  BY <1>1 DEF Adds

(* A change that leaves the namespaces, their variables and the stack of   *)
(* active ones as they are, or pops that.                                  *)
LEMMA RestAdds ==
  ASSUME NEW c, WF(c), Tree(c), NEW d, WF(d),
         d.live = c.live, d.fresh = c.fresh, d.parent = c.parent, d.vars = c.vars,
         d.lv = c.lv, d.lv_index = c.lv_index,
         \/ d.active = c.active
         \/ d.active = Pop(c.active) /\ Len(c.active) > 1
  PROVE  Adds(c, d)
<1>1. /\ c.active \in Seq(Nodes) /\ d.active \in Seq(Nodes) /\ c.fresh \in Nat
      /\ Len(c.active) \in Nat \ {0} /\ Len(d.active) \in Nat \ {0}
  BY Parts
<1>2. /\ Len(d.active) <= Len(c.active)
      /\ \A k \in 1 .. Len(d.active) : d.active[k] = c.active[k]
  <2>1. CASE d.active = c.active
    BY <1>1, <2>1
  <2>2. CASE d.active = Pop(c.active) /\ Len(c.active) > 1
    BY SMTT(20), <1>1, <2>2, PopType
  <2> QED  BY <2>1, <2>2
<1>3. Tree(d)
  <2>1. /\ d.active \in Seq(Nodes) /\ d.active # <<>>
        /\ d.active[1] = Root /\ d.parent[Root] = NoNode
    BY <1>1, <1>2 DEF Tree, StackIsPath, WF
  <2>2. ASSUME NEW k \in 2 .. Len(d.active)
        PROVE  d.parent[d.active[k]] = d.active[k - 1]
    <3>1. k \in 1 .. Len(d.active) /\ k - 1 \in 1 .. Len(d.active) /\ k \in 2 .. Len(c.active)
      BY <1>1, <1>2
    <3> QED  BY <1>2, <3>1 DEF Tree, StackIsPath
  <2>3. ASSUME NEW j \in 1 .. Len(d.active), NEW k \in 1 .. Len(d.active), j < k
        PROVE  d.active[j] < d.active[k]
    <3>1. j \in 1 .. Len(c.active) /\ k \in 1 .. Len(c.active)
      BY <1>1, <1>2
    <3> QED  BY <1>2, <2>3, <3>1 DEF Tree, StackIsPath
  <2>4. Sloped(d)
    BY DEF Tree, Sloped
  <2> QED  BY <2>1, <2>2, <2>3, <2>4 DEF Tree, StackIsPath
<1>4. Extends(c, d)
  BY ExtendsReflexive DEF Extends
<1> QED  BY <1>3, <1>4 DEF Adds, Indexed

(* What is pushed on the stack of active namespaces is a child of the      *)
(* current one.                                                            *)
LEMMA PushedIsPath ==
  ASSUME NEW c, WF(c), Tree(c), NEW d, Sloped(d), NEW n \in Nodes,
         \A m \in c.live : d.parent[m] = c.parent[m],
         d.active = Append(c.active, n), d.parent[n] = NS(c)
  PROVE  Tree(d)
<1> DEFINE l == Len(c.active)
<1>1. /\ c.active \in Seq(Nodes) /\ l \in Nat \ {0} /\ NS(c) = c.active[l] /\ NS(c) \in Nodes
      /\ \A k \in 1 .. l : c.active[k] \in Nodes /\ c.active[k] \in c.live
  BY Parts, ElementOfSeq DEF NS, Back, WF, StackNodes
<1>2. /\ d.active \in Seq(Nodes) /\ d.active # <<>> /\ Len(d.active) = l + 1
      /\ d.active[l + 1] = n /\ \A k \in 1 .. l : d.active[k] = c.active[k]
  BY <1>1, AppendProperties
<1>3. NS(c) < n /\ n \in Nat /\ NS(c) \in Nat
  BY <1>1 DEF Sloped, Nodes
<1>4. d.active[1] = Root /\ d.parent[Root] = NoNode
  <2>1. 1 \in 1 .. l
    BY <1>1
  <2> QED  BY <1>1, <1>2, <2>1 DEF Tree, StackIsPath
<1>5. ASSUME NEW k \in 2 .. Len(d.active)
      PROVE  d.parent[d.active[k]] = d.active[k - 1]
  <2>1. CASE k = l + 1
    BY <1>1, <1>2, <2>1
  <2>2. CASE k # l + 1
    <3>1. k \in 2 .. l /\ k \in 1 .. l /\ k - 1 \in 1 .. l
      BY <1>1, <1>2, <2>2
    <3> QED  BY <1>1, <1>2, <3>1 DEF Tree, StackIsPath
  <2> QED  BY <2>1, <2>2
<1>6. ASSUME NEW j \in 1 .. Len(d.active), NEW k \in 1 .. Len(d.active), j < k
      PROVE  d.active[j] < d.active[k]
  <2>1. j \in 1 .. l
    BY <1>1, <1>2, <1>6
  <2>2. CASE k = l + 1
    <3>1. c.active[j] <= c.active[l] /\ c.active[j] \in Nat
      <4>1. c.active[j] \in Nat /\ c.active[l] \in Nat /\ l \in 1 .. l
        BY <1>1, <2>1 DEF Nodes
      <4>2. j < l => c.active[j] < c.active[l]
        BY <2>1, <4>1 DEF Tree, StackIsPath
      <4> QED  BY <2>1, <4>1, <4>2
    <3> QED  BY <1>1, <1>2, <1>3, <2>1, <2>2, <3>1
  <2>3. CASE k # l + 1
    <3>1. k \in 1 .. l
      BY <1>1, <1>2, <2>3
    <3> QED  BY <1>2, <1>6, <2>1, <3>1 DEF Tree, StackIsPath
  <2> QED  BY <2>2, <2>3
<1> QED  BY <1>2, <1>4, <1>5, <1>6 DEF Tree, StackIsPath

(* Namespace::addNamespace, and entering what it made.                     *)
LEMMA NewNamespaceAdds ==
  ASSUME NEW c, WF(c), Tree(c), c.fresh <= MaxNodes, NEW nm \in NodeNames
  PROVE  Adds(c, NewNamespace(c, nm))
<1> DEFINE d == NewNamespace(c, nm)
           n == c.fresh
<1>1. /\ c \in ContextType /\ n \in Nat /\ n \in Nodes /\ n \notin c.live /\ n # Root
      /\ c.live \subseteq Nodes /\ NS(c) \in c.live /\ NS(c) \in Nodes
      /\ \A m \in c.live : m < n
      /\ c.lv \in [Nodes -> Nat] /\ c.vars \in [Nodes -> Seq(Variable)]
      /\ c.parent \in [Nodes -> Nodes \cup {NoNode}]
  <2>1. c \in ContextType /\ n \in Nat /\ n \in 1 .. MaxNodes + 1
    BY Parts, FieldTypes
  <2>2. n \in Nodes
    BY <2>1, SizeAssumption DEF Nodes
  <2>3. NS(c) < n /\ NS(c) >= 1
    BY Parts DEF Nodes
  <2>4. /\ c.live \subseteq Nodes /\ NS(c) \in c.live /\ NS(c) \in Nodes
        /\ \A m \in c.live : m < n
        /\ c.lv \in [Nodes -> Nat] /\ c.vars \in [Nodes -> Seq(Variable)]
    BY Parts
  <2>5. c.parent \in [Nodes -> Nodes \cup {NoNode}]
    BY <2>1, FieldTypes
  <2>6. n \notin c.live /\ n # Root
    BY <2>1, <2>3, <2>4 DEF Nodes
  <2> QED  BY <2>1, <2>2, <2>4, <2>5, <2>6
<1>2. WF(d)
  BY NewNamespacePushes DEF Pushed, Entered, Grows
<1>3. /\ d.live = c.live \cup {n} /\ d.fresh = n + 1 /\ d.vars = c.vars
      /\ d.parent = [c.parent EXCEPT ![n] = NS(c)]
      /\ d.lv = [c.lv EXCEPT ![n] = c.lv[NS(c)] + 1]
      /\ d.lv_index = c.lv_index /\ d.active = Append(c.active, n)
  BY <1>1 DEF NewNamespace, ContextType
<1> HIDE DEF d
<1>4. Sloped(d)
  <2>1. d.parent \in [Nodes -> Nodes \cup {NoNode}]
    BY <1>1, <1>3
  <2>2. \A m \in Nodes : d.parent[m] < m
    BY <1>1, <1>3 DEF Tree, Sloped
  <2> QED  BY <2>1, <2>2 DEF Sloped
<1>5. /\ \A m \in Nodes : m # n => d.parent[m] = c.parent[m]
      /\ d.parent[n] = NS(c)
  BY <1>1, <1>3
<1>6. Tree(d)
  <2>1. \A m \in c.live : d.parent[m] = c.parent[m]
    BY <1>1, <1>5
  <2>2. n \in Nodes /\ d.active = Append(c.active, n) /\ d.parent[n] = NS(c)
    BY <1>1, <1>3, <1>5
  <2> HIDE DEF n
  <2> QED  BY <1>4, <2>1, <2>2, PushedIsPath
<1>7. Extends(c, d)
  <2>1. NS(c) \in Chain(d, n)
    BY <1>1, <1>4, <1>5, ChainEquation
  <2>2. \A m \in c.live : Continues(c.lv_index, c.vars[m], d.vars[m])
    BY <1>1, <1>3, ContinuesReflexive
  <2> QED  BY <1>1, <1>3, <1>5, <2>1, <2>2 DEF Extends
<1>8. ASSUME Indexed(c) PROVE Indexed(d)
  <2> SUFFICES ASSUME NEW m \in Nodes
               PROVE  /\ m >= d.fresh => d.vars[m] = <<>>
                      /\ \A k \in 1 .. Len(d.vars[m]) :
                           \/ d.vars[m][k].index \in 1 .. d.lv[m]
                           \/ d.vars[m][k].index = 0 /\ d.lv_index <= d.lv[m]
    BY DEF Indexed
  <2>1. CASE m # n
    <3>1. d.lv[m] = c.lv[m] /\ d.vars[m] = c.vars[m] /\ d.lv_index = c.lv_index
      BY <1>1, <1>3, <2>1
    <3>2. m >= d.fresh => m >= c.fresh
      BY <1>1, <1>3 DEF Nodes
    <3> QED  BY <1>8, <3>1, <3>2 DEF Indexed
  <2>2. CASE m = n
    <3>1. d.vars[m] = <<>> /\ Len(d.vars[m]) = 0
      BY <1>1, <1>3, <1>8, <2>2 DEF Indexed
    <3> QED  BY <3>1
  <2> QED  BY <2>1, <2>2
<1>9. Adds(c, d)
  BY <1>6, <1>7, <1>8 DEF Adds
<1> QED  BY <1>9 DEF d

(* Context::activateNamespace, which enters a child that is there already  *)
(* or makes one.                                                           *)
LEMMA ActivateAdds ==
  ASSUME NEW c, WF(c), Tree(c), c.fresh <= MaxNodes, NEW nm \in NodeNames
  PROVE  Adds(c, ActivateNamespace(c, nm))
<1> DEFINE child == Child(c, NS(c), nm)
           d == ActivateNamespace(c, nm)
<1>1. c \in ContextType /\ c.fresh \in Nat /\ c.live \subseteq Nodes
  BY Parts
<1>2. CASE child = NoNode
  BY <1>2, NewNamespaceAdds DEF ActivateNamespace
<1>3. CASE child # NoNode
  <2>1. child \in c.live /\ c.parent[child] = NS(c)
    BY <1>3 DEF Child
  <2>2. d = [c EXCEPT !.active = Append(@, child), !.used = Append(@, child)]
    BY <1>3 DEF ActivateNamespace
  <2> HIDE DEF child
  <2>3. /\ d.live = c.live /\ d.fresh = c.fresh /\ d.parent = c.parent /\ d.vars = c.vars
        /\ d.lv = c.lv /\ d.lv_index = c.lv_index /\ d.active = Append(c.active, child)
    BY <1>1, <2>2 DEF ContextType
  <2> HIDE DEF d
  <2>4. Sloped(d)
    BY <2>3 DEF Tree, Sloped
  <2>5. Tree(d)
    BY <1>1, <2>1, <2>3, <2>4, PushedIsPath
  <2>6. Extends(c, d)
    BY <2>3, ExtendsReflexive DEF Extends
  <2>7. Adds(c, d)
    BY <2>3, <2>5, <2>6 DEF Adds, Indexed
  <2> QED  BY <2>7 DEF d
<1> QED  BY <1>2, <1>3

(* So does Context::activateAnonymousNamespace.                            *)
LEMMA AnonymousAdds ==
  ASSUME NEW c, WF(c), Tree(c), c.fresh <= MaxNodes
  PROVE  Adds(c, ActivateAnonymousNamespace(c))
<1> DEFINE k == c.anon + 1
           b == [c EXCEPT !.anon = @ + 1]
           d == ActivateNamespace(b, AnonName(k))
<1>1. c \in ContextType /\ k \in Nat /\ c.fresh \in Nat
  BY Parts, FieldTypes
<1>2. AnonName(k) \in NodeNames
  BY <1>1, AnonAssumption DEF AnonName, NodeNames
<1>3. /\ b \in ContextType /\ b.live = c.live /\ b.fresh = c.fresh /\ b.parent = c.parent
      /\ b.vars = c.vars /\ b.lv = c.lv /\ b.lv_index = c.lv_index
      /\ b.active = c.active /\ b.used = c.used
  BY <1>1 DEF ContextType
<1>4. ActivateAnonymousNamespace(c) = d
  BY DEF ActivateAnonymousNamespace
<1> HIDE DEF k, b
<1>5. WF(b)
  BY <1>3 DEF WF, StackNodes
<1>6. Adds(c, b)
  BY <1>3, <1>5, RestAdds
<1>7. Adds(b, d) /\ WF(d)
  BY <1>2, <1>3, <1>5, <1>6, ActivateAdds, ActivatePushes DEF Adds, Pushed, Entered, Grows
<1>8. NS(c) \in Chain(b, NS(b))
  BY <1>3, <1>5, <1>6, Parts, ChainTransitive DEF Adds, Tree, NS
<1> HIDE DEF d
<1>9. Adds(c, d)
  BY <1>5, <1>6, <1>7, <1>8, AddsTransitive
<1> QED  BY <1>4, <1>9

(* Namespace::addVariable adds to the current namespace only.              *)
LEMMA AddVariableAdds ==
  ASSUME NEW c, WF(c), Tree(c), NEW nm \in VarNames
  PROVE  Adds(c, AddVariable(c, nm))
<1> DEFINE n == NS(c)
           x == c.lv[n] + 1
           v == [name |-> nm, fn |-> CurrentFn(c), index |-> x]
           d == AddVariable(c, nm)
<1>1. /\ c \in ContextType /\ n \in Nodes /\ n \in c.live /\ c.fresh \in Nat
      /\ c.lv \in [Nodes -> Nat] /\ c.vars \in [Nodes -> Seq(Variable)] /\ n < c.fresh
      /\ c.live \subseteq Nodes
  BY Parts
<1>2. WF(d)
  BY AddVariableKeeps DEF SameStacks, Grows
<1>3. CASE nm \in NamesOf(c.vars[n])
  <2>1. d = c
    BY <1>3 DEF AddVariable
  <2>2. Adds(c, c)
    BY RestAdds
  <2> QED  BY <2>1, <2>2
<1>4. CASE nm \notin NamesOf(c.vars[n])
  <2>1. /\ d.live = c.live /\ d.fresh = c.fresh /\ d.parent = c.parent
        /\ d.lv_index = c.lv_index /\ d.active = c.active
        /\ d.lv = [c.lv EXCEPT ![n] = x]
        /\ d.vars = [c.vars EXCEPT ![n] = Append(c.vars[n], v)]
    BY <1>1, <1>4 DEF AddVariable, ContextType
  <2>2. v.index = x /\ x \in Nat
    BY <1>1
  <2> HIDE DEF d, v
  <2>3. Tree(d)
    BY <2>1 DEF Tree, Sloped, StackIsPath
  <2> DEFINE s == c.vars[n]
  <2>4. /\ s \in Seq(Variable) /\ Len(s) \in Nat
        /\ Len(Append(s, v)) = Len(s) + 1 /\ Append(s, v)[Len(s) + 1] = v
        /\ \A k \in 1 .. Len(s) : Append(s, v)[k] = s[k]
    BY <1>1
  <2>5. /\ d.vars[n] = Append(s, v) /\ d.lv[n] = x
        /\ \A m \in Nodes : m # n => d.vars[m] = c.vars[m] /\ d.lv[m] = c.lv[m]
    BY <1>1, <2>1
  <2> HIDE DEF x
  <2>6. Extends(c, d)
    <3>1. ASSUME NEW m \in c.live
          PROVE  /\ Continues(c.lv_index, c.vars[m], d.vars[m])
                 /\ n \notin Chain(c, m) => Len(d.vars[m]) = Len(c.vars[m])
      <4>1. CASE m = n
        <5>1. Continues(c.lv_index, c.vars[m], d.vars[m])
          BY <2>4, <2>5, <4>1 DEF Continues, SameButIndex
        <5>2. n \in Chain(c, m)
          BY <1>1, <4>1, ChainTransitive DEF Tree
        <5> QED  BY <5>1, <5>2
      <4>2. CASE m # n
        BY <1>1, <2>5, <4>2, ContinuesReflexive
      <4> QED  BY <4>1, <4>2
    <3> QED  BY <1>1, <2>1, <3>1 DEF Extends
  <2>7. ASSUME Indexed(c) PROVE Indexed(d)
    <3> SUFFICES ASSUME NEW m \in Nodes
                 PROVE  /\ m >= d.fresh => d.vars[m] = <<>>
                        /\ \A k \in 1 .. Len(d.vars[m]) :
                             \/ d.vars[m][k].index \in 1 .. d.lv[m]
                             \/ d.vars[m][k].index = 0 /\ d.lv_index <= d.lv[m]
      BY DEF Indexed
    <3>1. CASE m # n
      <4>1. /\ d.lv[m] = c.lv[m] /\ d.vars[m] = c.vars[m]
            /\ d.fresh = c.fresh /\ d.lv_index = c.lv_index
        BY <1>1, <2>1, <2>5, <3>1
      <4> QED  BY <2>7, <4>1 DEF Indexed
    <3>2. CASE m = n
      <4>1. ~(m >= d.fresh)
        BY <1>1, <2>1, <3>2 DEF Nodes
      <4>2. ASSUME NEW k \in 1 .. Len(d.vars[n])
            PROVE  \/ d.vars[n][k].index \in 1 .. x
                   \/ d.vars[n][k].index = 0 /\ c.lv_index <= x
        <5>1. CASE k = Len(s) + 1
          BY <1>1, <2>2, <2>4, <2>5, <5>1 DEF x
        <5>2. CASE k # Len(s) + 1
          <6>1. k \in 1 .. Len(s) /\ d.vars[n][k] = s[k]
            BY <2>4, <2>5, <4>2, <5>2
          <6>2. /\ c.lv[n] \in Nat /\ c.lv_index \in Int
                /\ \/ s[k].index \in 1 .. c.lv[n]
                   \/ s[k].index = 0 /\ c.lv_index <= c.lv[n]
            BY <1>1, <2>7, <6>1, Parts DEF Indexed
          <6> QED  BY <6>1, <6>2 DEF x
        <5> QED  BY <5>1, <5>2
      <4>3. d.lv[n] = x /\ d.lv_index = c.lv_index
        BY <2>1, <2>5
      <4> QED  BY <3>2, <4>1, <4>2, <4>3
    <3> QED  BY <3>1, <3>2
  <2>8. Adds(c, d)
    BY <2>3, <2>6, <2>7 DEF Adds
  <2> QED  BY <2>8 DEF d
<1> QED  BY <1>3, <1>4

(* The parameters of a function.                                           *)
LEMMA ParametersAdd ==
  ASSUME NEW c, WF(c), Tree(c), NEW ps \in Parameters
  PROVE  Adds(c, AddParameters(c, ps))
<1>1. CASE ps = <<>>
  <2>1. Adds(c, c)
    BY RestAdds
  <2> QED  BY <1>1, <2>1 DEF AddParameters
<1>2. CASE ps # <<>>
  BY <1>2, AddVariableAdds DEF AddParameters, Parameters
<1> QED  BY <1>1, <1>2

(* Namespace::addFunction takes an index in the current namespace.         *)
LEMMA AddFunctionAdds ==
  ASSUME NEW c, WF(c), Tree(c), NEW nm \in FunNames \cup Nat, NEW f \in Fns
  PROVE  Adds(c, AddFunction(c, nm, f))
<1> DEFINE n == NS(c)
           d == AddFunction(c, nm, f)
<1>1. /\ c \in ContextType /\ n \in Nodes /\ c.fresh \in Nat /\ c.lv \in [Nodes -> Nat]
  BY Parts
<1>2. WF(d)
  BY AddFunctionKeeps DEF SameStacks, Grows
<1>3. /\ d.live = c.live /\ d.fresh = c.fresh /\ d.parent = c.parent /\ d.vars = c.vars
      /\ d.lv_index = c.lv_index /\ d.active = c.active
      /\ d.lv = [c.lv EXCEPT ![n] = c.lv[n] + 1]
  BY <1>1 DEF AddFunction, ContextType
<1> HIDE DEF d
<1>4. Tree(d)
  BY <1>3 DEF Tree, Sloped, StackIsPath
<1>5. Extends(c, d)
  BY <1>3, ExtendsReflexive DEF Extends
<1>6. ASSUME Indexed(c) PROVE Indexed(d)
  <2>1. \A m \in Nodes : c.lv[m] \in Nat /\ c.lv[m] <= d.lv[m] /\ d.lv[m] \in Nat
    BY <1>1, <1>3
  <2>2. c.lv_index \in Int
    BY Parts
  <2> SUFFICES ASSUME NEW m \in Nodes, NEW k \in 1 .. Len(c.vars[m])
               PROVE  \/ c.vars[m][k].index \in 1 .. d.lv[m]
                      \/ c.vars[m][k].index = 0 /\ c.lv_index <= d.lv[m]
    BY <1>3, <1>6 DEF Indexed
  <2>3. \/ c.vars[m][k].index \in 1 .. c.lv[m]
        \/ c.vars[m][k].index = 0 /\ c.lv_index <= c.lv[m]
    BY <1>6 DEF Indexed
  <2> QED  BY <2>1, <2>2, <2>3
<1>7. Adds(c, d)
  BY <1>3, <1>4, <1>5, <1>6 DEF Adds
<1> QED  BY <1>7 DEF d

(* What deactivates a namespace only pops the stacks, or reports.          *)
LEMMA DeactivateAdds ==
  ASSUME NEW c, WF(c), Tree(c), NEW nm, WF(DeactivateNamespace(c, nm)), Len(c.active) > 1
  PROVE  Adds(c, DeactivateNamespace(c, nm)) /\ DeactivateNamespace(c, nm).scopes = c.scopes
<1> DEFINE d == DeactivateNamespace(c, nm)
<1>1. c \in ContextType
  BY Parts
<1>2. /\ d.live = c.live /\ d.fresh = c.fresh /\ d.parent = c.parent /\ d.vars = c.vars
      /\ d.lv_index = c.lv_index /\ d.lv = c.lv /\ d.scopes = c.scopes
      /\ d.active = c.active \/ d.active = Pop(c.active)
  BY <1>1 DEF DeactivateNamespace, ContextType
<1> HIDE DEF d
<1>3. WF(d)
  BY DEF d
<1>4. Adds(c, d)
  BY <1>2, <1>3, RestAdds
<1> QED  BY <1>2, <1>4 DEF d

(* Parsing a return type: a namespace that is left, and the parameters.    *)
LEMMA ReturnTypeAdds ==
  ASSUME NEW c, WF(c), Tree(c), c.fresh <= MaxNodes, NEW ps \in Parameters
  PROVE  Adds(c, ParseReturnType(c, ps))
<1> DEFINE a == ActivateAnonymousNamespace(c)
           p == AddParameters(a, ps)
           d == DeactivateNamespace(p, a.name[NS(a)])
<1>1. PICK n \in Nodes : Pushed(c, a, n)
  BY AnonymousPushes
<1>2. Adds(c, a)
  BY AnonymousAdds
<1>3. ParseReturnType(c, ps) = d
  BY DEF ParseReturnType
<1>4. WF(d)
  BY <1>3, ParseReturnTypeKeeps DEF SameStacks, Grows
<1> HIDE DEF a
<1>5. WF(a) /\ Tree(a) /\ SameStacks(a, p)
  BY <1>1, <1>2, AddParametersKeeps DEF Pushed, Entered, Grows, Adds
<1>6. Adds(a, p)
  BY <1>5, ParametersAdd
<1> HIDE DEF p
<1>7. WF(p) /\ Tree(p) /\ p.active = a.active /\ Len(a.active) > 1 /\ NS(c) \in Chain(a, NS(a))
  <2>1. WF(p) /\ Tree(p) /\ p.active = a.active
    BY <1>5, <1>6 DEF SameStacks, Grows, Adds
  <2>2. Len(a.active) > 1 /\ Len(c.active) \in 1 .. Len(a.active) /\ a.active[Len(c.active)] = NS(c)
    <3>1. /\ c.active \in Seq(Nodes) /\ Len(c.active) \in Nat \ {0}
          /\ a.active = Append(c.active, n)
      BY <1>1, Parts DEF Pushed, Entered
    <3> QED  BY <3>1, AppendProperties DEF NS, Back
  <2>3. NS(c) \in Chain(a, NS(a))
    BY <1>5, <2>2, OnPath
  <2> QED  BY <2>1, <2>2, <2>3
<1>8. Adds(p, d)
  BY <1>4, <1>7, DeactivateAdds
<1> HIDE DEF d
<1>9. NS(c) \in Chain(p, NS(p))
  <2>1. /\ Len(c.active) \in 1 .. Len(p.active) /\ p.active[Len(c.active)] = NS(c)
    <3>1. /\ c.active \in Seq(Nodes) /\ Len(c.active) \in Nat \ {0}
          /\ p.active = Append(c.active, n)
      BY <1>1, <1>7, Parts DEF Pushed, Entered
    <3> QED  BY <3>1, AppendProperties DEF NS, Back
  <2> QED  BY <1>7, <2>1, OnPath
<1>10. Adds(c, p)
  BY <1>2, <1>5, <1>6, <1>7, AddsTransitive
<1>11. Adds(c, d)
  BY <1>4, <1>7, <1>8, <1>9, <1>10, AddsTransitive
<1> QED  BY <1>3, <1>11

(* None of these touches the function scopes.                              *)
LEMMA ScopesStay ==
  ASSUME NEW c, WF(c)
  PROVE  /\ \A nm \in NodeNames : ActivateNamespace(c, nm).scopes = c.scopes
         /\ ActivateAnonymousNamespace(c).scopes = c.scopes
         /\ \A nm \in VarNames : AddVariable(c, nm).scopes = c.scopes
         /\ \A ps \in Parameters : AddParameters(c, ps).scopes = c.scopes
         /\ \A nm, f : AddFunction(c, nm, f).scopes = c.scopes
<1>1. c \in ContextType
  BY Parts
<1>2. \A nm \in NodeNames : ActivateNamespace(c, nm).scopes = c.scopes
  BY <1>1 DEF ActivateNamespace, NewNamespace, ContextType
<1>3. ActivateAnonymousNamespace(c).scopes = c.scopes
  BY <1>1 DEF ActivateAnonymousNamespace, ActivateNamespace, NewNamespace, ContextType
<1>4. \A nm \in VarNames : AddVariable(c, nm).scopes = c.scopes
  BY <1>1 DEF AddVariable, ContextType
<1>5. \A ps \in Parameters : AddParameters(c, ps).scopes = c.scopes
  BY <1>4 DEF AddParameters, Parameters
<1>6. \A nm, f : AddFunction(c, nm, f).scopes = c.scopes
  BY <1>1 DEF AddFunction, ContextType
<1> QED  BY <1>2, <1>3, <1>4, <1>5, <1>6

(* The current namespace is still on the way to the root when one more is  *)
(* entered.                                                                *)
LEMMA EnteredPath ==
  ASSUME NEW c, WF(c), NEW d, Tree(d), NEW n, n \in Nodes,
         d.active = c.active \/ d.active = Append(c.active, n)
  PROVE  NS(c) \in Chain(d, NS(d))
<1>1. c.active \in Seq(Nodes) /\ Len(c.active) \in Nat \ {0} /\ NS(c) = c.active[Len(c.active)]
  BY Parts DEF NS, Back
<1>2. Len(c.active) \in 1 .. Len(d.active) /\ d.active[Len(c.active)] = NS(c)
  BY <1>1, AppendProperties
<1> QED  BY <1>2, OnPath

(* The whole of what precedes a body.                                      *)
LEMMA BeginFnAdds ==
  ASSUME NEW c, WF(c), Tree(c), c.fresh + 2 <= MaxNodes + 1, c.nextfn \in Fns,
         NEW nm \in FunNames \cup Nat, NEW ps \in Parameters
  PROVE  LET d == BeginFn(c, nm, ps)
         IN  /\ Adds(c, d) /\ d.scopes = Append(c.scopes, c.nextfn)
             /\ d.nextfn = c.nextfn + 1
<1> DEFINE f == c.nextfn
           p == ParseReturnType(c, ps)
           d == AddFunction(p, nm, f)
           e == [d EXCEPT !.nextfn = @ + 1]
           a == ActivateAnonymousNamespace(e)
           b == [a EXCEPT !.scopes = Append(@, f)]
           g == AddParameters(b, ps)
<1>0. c.fresh \in Nat /\ c.fresh <= MaxNodes
  BY Parts, SizeAssumption
<1>1. /\ SameStacks(c, p) /\ p.fresh <= c.fresh + 1 /\ Adds(c, p) /\ p.scopes = c.scopes
  <2>1. /\ SameStacks(c, p) /\ p.fresh <= c.fresh + 1 /\ Adds(c, p)
    BY <1>0, ParseReturnTypeKeeps, ReturnTypeAdds
  <2> DEFINE x == ActivateAnonymousNamespace(c)
             y == AddParameters(x, ps)
  <2>2. WF(x) /\ x.scopes = c.scopes
    BY <1>0, AnonymousPushes, ScopesStay DEF Pushed, Entered, Grows
  <2>3. p = DeactivateNamespace(y, x.name[NS(x)])
    BY DEF ParseReturnType
  <2> HIDE DEF x
  <2>4. y \in ContextType /\ y.scopes = c.scopes
    BY <2>2, AddParametersKeeps, ScopesStay DEF SameStacks, Grows, WF
  <2> HIDE DEF y
  <2>5. p.scopes = c.scopes
    BY <2>3, <2>4 DEF DeactivateNamespace, ContextType
  <2> QED  BY <2>1, <2>5
<1> HIDE DEF p
<1>2. WF(p) /\ Tree(p) /\ p.active = c.active /\ p.fresh \in Nat /\ p.nextfn = f
  BY <1>1, Parts DEF SameStacks, Grows, Adds
<1>3. /\ SameStacks(p, d) /\ Adds(p, d) /\ d.scopes = c.scopes /\ d.fresh = p.fresh
  <2>1. SameStacks(p, d) /\ Adds(p, d)
    BY <1>2, AddFunctionKeeps, AddFunctionAdds
  <2>2. d.scopes = c.scopes
    BY <1>1, <1>2, ScopesStay
  <2>3. d.fresh = p.fresh
    BY <1>2, Parts DEF AddFunction, ContextType
  <2> QED  BY <2>1, <2>2, <2>3
<1> HIDE DEF d
<1>4. WF(d) /\ Tree(d) /\ d.active = c.active /\ d \in ContextType /\ d.nextfn = f
  BY <1>2, <1>3 DEF SameStacks, Grows, Adds, WF
<1>5. /\ e.live = d.live /\ e.fresh = d.fresh /\ e.parent = d.parent /\ e.vars = d.vars
      /\ e.lv = d.lv /\ e.lv_index = d.lv_index /\ e.active = d.active /\ e.used = d.used
      /\ e.scopes = c.scopes /\ e.nextfn = f + 1 /\ e \in ContextType
  <2>1. f + 1 \in 1 .. MaxFns + 1
    BY SizeAssumption DEF Fns
  <2> QED  BY <1>3, <1>4, <2>1 DEF ContextType
<1> HIDE DEF e
<1>6. WF(e)
  BY <1>4, <1>5 DEF WF, StackNodes
<1>7. Adds(d, e)
  BY <1>4, <1>5, <1>6, RestAdds
<1>8. Adds(c, e) /\ Tree(e) /\ e.fresh <= MaxNodes /\ e.active = c.active
  <2>1. 1 \in Nodes
    BY SizeAssumption DEF Nodes
  <2>2. NS(c) \in Chain(p, NS(p)) /\ NS(c) \in Chain(d, NS(d))
    BY <1>2, <1>4, <2>1, EnteredPath
  <2>3. Adds(c, d)
    BY <1>1, <1>2, <1>3, <1>4, <2>2, AddsTransitive
  <2>4. Adds(c, e)
    BY <1>4, <1>6, <1>7, <2>2, <2>3, AddsTransitive
  <2>5. e.fresh <= MaxNodes
    BY <1>0, <1>1, <1>2, <1>3, <1>5, SizeAssumption
  <2> QED  BY <1>4, <1>5, <1>7, <2>4, <2>5 DEF Adds
<1>9. PICK n \in Nodes : Pushed(e, a, n)
  BY <1>6, <1>8, AnonymousPushes
<1>10. Adds(e, a) /\ a.scopes = c.scopes
  BY <1>5, <1>6, <1>8, AnonymousAdds, ScopesStay
<1> HIDE DEF a
<1>11. /\ WF(a) /\ Tree(a) /\ a \in ContextType /\ a.nextfn = f + 1
       /\ a.active = Append(c.active, n) /\ a.scopes \in Seq(Fns)
  BY <1>5, <1>8, <1>9, <1>10, FieldTypes DEF Pushed, Entered, Grows, Adds, WF
<1>12. /\ b.live = a.live /\ b.fresh = a.fresh /\ b.parent = a.parent /\ b.vars = a.vars
       /\ b.lv = a.lv /\ b.lv_index = a.lv_index /\ b.active = a.active /\ b.used = a.used
       /\ b.scopes = Append(c.scopes, f) /\ b.nextfn = f + 1 /\ b \in ContextType
  <2>1. Append(a.scopes, f) \in Seq(Fns)
    BY <1>11, AppendProperties
  <2> QED  BY <1>10, <1>11, <2>1 DEF ContextType
<1> HIDE DEF b
<1>13. WF(b)
  BY <1>11, <1>12 DEF WF, StackNodes
<1>14. Adds(a, b) /\ Tree(b)
  BY <1>11, <1>12, <1>13, RestAdds DEF Adds
<1>15. /\ Adds(b, g) /\ WF(g) /\ g.scopes = b.scopes /\ g.nextfn = b.nextfn
  BY <1>13, <1>14, ParametersAdd, AddParametersKeeps, ScopesStay DEF SameStacks, Grows
<1>16. BeginFn(c, nm, ps) = g
  BY DEF BeginFn, EnterBody, g, b, a, e, d, p
<1> HIDE DEF g
<1>17. Adds(c, g)
  <2>1. /\ NS(c) \in Chain(e, NS(e)) /\ NS(c) \in Chain(a, NS(a))
        /\ NS(c) \in Chain(b, NS(b))
    BY <1>8, <1>9, <1>11, <1>12, <1>14, EnteredPath
  <2>2. Adds(c, a)
    BY <1>6, <1>8, <1>10, <1>11, <2>1, AddsTransitive
  <2>3. Adds(c, b)
    BY <1>11, <1>13, <1>14, <2>1, <2>2, AddsTransitive
  <2>4. Adds(c, g)
    BY <1>13, <1>15, <2>1, <2>3, AddsTransitive
  <2> QED  BY <2>4
<1> QED  BY <1>12, <1>15, <1>16, <1>17

(* Clearing indices changes nothing but the indices of variables, and of   *)
(* those only the ones from lv_index on.                                   *)
LEMMA ZeroKeeps ==
  ASSUME NEW c, WF(c)
  PROVE  LET d == ZeroIndices(c, c.lv_index)
         IN  /\ d.live = c.live /\ d.fresh = c.fresh /\ d.parent = c.parent
             /\ d.lv = c.lv /\ d.lv_index = c.lv_index /\ d.active = c.active
             /\ d.scopes = c.scopes /\ d.nextfn = c.nextfn
             /\ d.name = c.name /\ d.fnindex = c.fnindex
             /\ \A n \in Nodes :
                  /\ Len(d.vars[n]) = Len(c.vars[n])
                  /\ \A k \in 1 .. Len(c.vars[n]) :
                       SameButIndex(c.lv_index, c.vars[n][k], d.vars[n][k])
<1> DEFINE index == c.lv_index
           d == ZeroIndices(c, index)
           cut == [n \in Nodes |->
                     IF n \in Chain(c, NS(c))
                       THEN [k \in 1 .. Len(c.vars[n]) |->
                               IF c.vars[n][k].index >= index
                                 THEN [c.vars[n][k] EXCEPT !.index = 0]
                                 ELSE c.vars[n][k]]
                       ELSE c.vars[n]]
<1>1. /\ c \in ContextType /\ c.vars \in [Nodes -> Seq(Variable)]
      /\ c.lv_index \in Int
  BY Parts
<1>2. d = [c EXCEPT !.vars = cut]
  BY DEF ZeroIndices
<1> HIDE DEF cut
<1>3. /\ d.live = c.live /\ d.fresh = c.fresh /\ d.parent = c.parent /\ d.vars = cut
      /\ d.lv = c.lv /\ d.lv_index = c.lv_index /\ d.active = c.active
      /\ d.scopes = c.scopes /\ d.nextfn = c.nextfn
      /\ d.name = c.name /\ d.fnindex = c.fnindex
  BY <1>1, <1>2 DEF ContextType
<1>4. ASSUME NEW n \in Nodes
      PROVE  /\ Len(cut[n]) = Len(c.vars[n])
             /\ \A k \in 1 .. Len(c.vars[n]) : SameButIndex(index, c.vars[n][k], cut[n][k])
  <2> DEFINE s == c.vars[n]
             t == [k \in 1 .. Len(s) |->
                     IF s[k].index >= index THEN [s[k] EXCEPT !.index = 0] ELSE s[k]]
  <2>1. cut[n] = IF n \in Chain(c, NS(c)) THEN t ELSE s
    BY <1>4 DEF cut
  <2>2. s \in Seq(Variable) /\ Len(s) \in Nat
    BY <1>1
  <2>3. \A k \in 1 .. Len(s) : s[k] \in Variable /\ s[k].index \in Nat
    <3>1. \A k \in 1 .. Len(s) : s[k] \in Variable
      BY <2>2, ElementOfSeq
    <3> QED  BY <3>1 DEF Variable
  <2> HIDE DEF s
  <2>4. Len(t) = Len(s)
    BY <2>2
  <2>5. \A k \in 1 .. Len(s) : SameButIndex(index, s[k], t[k])
    BY <1>1, <2>3 DEF SameButIndex, index
  <2>6. \A k \in 1 .. Len(s) : SameButIndex(index, s[k], s[k])
    BY DEF SameButIndex
  <2> HIDE DEF t
  <2> QED  BY <2>1, <2>4, <2>5, <2>6 DEF s
<1> QED  BY <1>3, <1>4 DEF d, index

(* So it is an addition like the others.                                   *)
LEMMA ZeroAdds ==
  ASSUME NEW c, WF(c), Tree(c)
  PROVE  Adds(c, ZeroIndices(c, c.lv_index))
<1> DEFINE d == ZeroIndices(c, c.lv_index)
<1>1. /\ d.live = c.live /\ d.fresh = c.fresh /\ d.parent = c.parent
      /\ d.lv = c.lv /\ d.lv_index = c.lv_index /\ d.active = c.active
      /\ \A n \in Nodes :
           /\ Len(d.vars[n]) = Len(c.vars[n])
           /\ \A k \in 1 .. Len(c.vars[n]) :
                SameButIndex(c.lv_index, c.vars[n][k], d.vars[n][k])
  BY ZeroKeeps
<1>2. /\ c.live \subseteq Nodes /\ c.fresh \in Nat /\ c.lv \in [Nodes -> Nat]
      /\ c.vars \in [Nodes -> Seq(Variable)] /\ c.lv_index \in Int
      /\ \A n \in Nodes : Len(c.vars[n]) \in Nat
      /\ d.vars \in [Nodes -> Seq(Variable)]
  <2>1. c.vars \in [Nodes -> Seq(Variable)] /\ c.lv_index \in Int
    BY Parts
  <2>2. \A n \in Nodes : Len(c.vars[n]) \in Nat
    BY <2>1, LenProperties
  <2>3. WF(d)
    BY <2>1, ZeroIndicesKeeps DEF SameStacks, Grows
  <2> HIDE DEF d
  <2> QED  BY <2>1, <2>2, <2>3, Parts
<1> HIDE DEF d
<1>3. Tree(d)
  BY <1>1 DEF Tree, Sloped, StackIsPath
<1>4. Extends(c, d)
  BY <1>1, <1>2 DEF Extends, Continues
<1>5. ASSUME Indexed(c) PROVE Indexed(d)
  <2>1. ASSUME NEW n \in Nodes, n >= d.fresh PROVE d.vars[n] = <<>>
    <3>1. Len(c.vars[n]) = 0
      BY <1>1, <1>5, <2>1 DEF Indexed
    <3>2. Len(d.vars[n]) = 0 /\ d.vars[n] \in Seq(Variable)
      BY <1>1, <1>2, <3>1
    <3> QED  BY <3>2, EmptySeq
  <2>2. ASSUME NEW n \in Nodes, NEW k \in 1 .. Len(d.vars[n])
        PROVE  \/ d.vars[n][k].index \in 1 .. d.lv[n]
               \/ d.vars[n][k].index = 0 /\ d.lv_index <= d.lv[n]
    <3>1. /\ k \in 1 .. Len(c.vars[n]) /\ SameButIndex(c.lv_index, c.vars[n][k], d.vars[n][k])
          /\ c.vars[n][k] \in Variable
      BY <1>1, <1>2, ElementOfSeq
    <3>2. /\ c.lv[n] \in Nat
          /\ \/ c.vars[n][k].index \in 1 .. c.lv[n]
             \/ c.vars[n][k].index = 0 /\ c.lv_index <= c.lv[n]
      BY <1>2, <1>5, <3>1 DEF Indexed
    <3>3. CASE d.vars[n][k] = c.vars[n][k]
      BY <1>1, <3>2, <3>3
    <3>4. CASE /\ c.lv_index <= c.vars[n][k].index
               /\ d.vars[n][k] = [c.vars[n][k] EXCEPT !.index = 0]
      <4>1. d.vars[n][k].index = 0
        BY <3>1, <3>4 DEF Variable
      <4>2. c.lv_index <= c.lv[n]
        BY <1>2, <3>2, <3>4
      <4> QED  BY <1>1, <4>1, <4>2
    <3> QED  BY <3>1, <3>3, <3>4 DEF SameButIndex
  <2> QED  BY <2>1, <2>2 DEF Indexed
<1>6. Adds(c, d)
  BY <1>3, <1>4, <1>5 DEF Adds
<1> QED  BY <1>6 DEF d

(* It may come after a form has been left.                                 *)
LEMMA ClearedExtends ==
  ASSUME NEW s, NEW c, WF(s), WF(c), Extends(s, c)
  PROVE  Extends(s, ZeroIndices(c, c.lv_index))
<1> DEFINE d == ZeroIndices(c, c.lv_index)
<1>1. /\ d.live = c.live /\ d.fresh = c.fresh /\ d.parent = c.parent
      /\ d.lv_index = c.lv_index
      /\ \A n \in Nodes :
           /\ Len(d.vars[n]) = Len(c.vars[n])
           /\ \A k \in 1 .. Len(c.vars[n]) :
                SameButIndex(c.lv_index, c.vars[n][k], d.vars[n][k])
  BY ZeroKeeps
<1>2. WF(d)
  <2>1. c.lv_index \in Int
    BY Parts
  <2> QED  BY <2>1, ZeroIndicesKeeps DEF SameStacks, Grows
<1>3. /\ s.vars \in [Nodes -> Seq(Variable)] /\ c.vars \in [Nodes -> Seq(Variable)]
      /\ d.vars \in [Nodes -> Seq(Variable)] /\ s.lv_index \in Int
      /\ s.live \subseteq c.live /\ c.live \subseteq Nodes /\ c.lv_index = s.lv_index
  BY <1>2, Parts DEF Extends
<1> HIDE DEF d
<1>4. \A n : Chain(d, n) = Chain(c, n)
  BY <1>1 DEF Chain
<1>5. ASSUME NEW n \in s.live
      PROVE  /\ Continues(s.lv_index, s.vars[n], d.vars[n])
             /\ NS(s) \notin Chain(s, n) => Len(d.vars[n]) = Len(s.vars[n])
  <2>1. /\ Continues(s.lv_index, s.vars[n], c.vars[n])
        /\ NS(s) \notin Chain(s, n) => Len(c.vars[n]) = Len(s.vars[n])
    BY DEF Extends
  <2>2. n \in Nodes
    BY <1>3
  <2>3. Continues(s.lv_index, c.vars[n], d.vars[n])
    BY <1>1, <1>3, <2>2, LenProperties DEF Continues
  <2>4. Continues(s.lv_index, s.vars[n], d.vars[n])
    BY <1>3, <2>1, <2>2, <2>3, ContinuesTransitive
  <2> QED  BY <1>1, <2>1, <2>2, <2>4
<1>6. Extends(s, d)
  BY <1>1, <1>4, <1>5 DEF Extends
<1> QED  BY <1>6 DEF d

(* What leaves a function body only pops the stacks and the function       *)
(* scopes, or reports.                                                     *)
LEMMA LeaveBodyAdds ==
  ASSUME NEW c, WF(c), Tree(c), NEW nm, WF(LeaveBody(c, nm)), Len(c.active) > 1
  PROVE  LET d == LeaveBody(c, nm)
         IN  /\ Adds(c, d) /\ d.scopes = Pop(c.scopes)
             /\ d.fresh = c.fresh /\ d.nextfn = c.nextfn
<1> DEFINE d == LeaveBody(c, nm)
<1>1. c \in ContextType
  BY Parts
<1>2. /\ d.live = c.live /\ d.fresh = c.fresh /\ d.parent = c.parent /\ d.vars = c.vars
      /\ d.lv_index = c.lv_index /\ d.lv = c.lv /\ d.scopes = Pop(c.scopes)
      /\ d.active = c.active \/ d.active = Pop(c.active)
      /\ d.nextfn = c.nextfn
  BY <1>1 DEF LeaveBody, DeactivateNamespace, ContextType
<1> HIDE DEF d
<1>3. WF(d)
  BY DEF d
<1>4. Adds(c, d)
  BY <1>2, <1>3, RestAdds
<1> QED  BY <1>2, <1>4 DEF d
-----------------------------------------------------------------------------
VarsIn(c, n) == {c.vars[n][k] : k \in 1 .. Len(c.vars[n])}

(***************************************************************************)
(* What the methods of a context do to names, counters and variables.      *)
(***************************************************************************)
(* A new namespace that no program names is entered.                       *)
ScopeEntered(c, d) ==
  /\ d.active = Append(c.active, c.fresh) /\ d.fresh = c.fresh + 1
  /\ d.name[c.fresh] \notin NsNames /\ c.fresh \in Nodes /\ c.fresh # Root
  /\ \A m \in Nodes : m # c.fresh => d.name[m] = c.name[m]
  /\ d.lv = [c.lv EXCEPT ![c.fresh] = c.lv[NS(c)] + 1]
  /\ d.vars = c.vars /\ d.scopes = c.scopes
  /\ d.nextfn = c.nextfn /\ d.fnindex = c.fnindex

(* A variable of the current function has been added to the current        *)
(* namespace, or none.                                                     *)
OneMore(c, d) ==
  /\ d.active = c.active /\ d.fresh = c.fresh /\ d.name = c.name
  /\ d.scopes = c.scopes /\ d.nextfn = c.nextfn /\ d.fnindex = c.fnindex
  /\ \A m \in Nodes : m # NS(c) => d.lv[m] = c.lv[m] /\ VarsIn(d, m) = VarsIn(c, m)
  /\ d.lv[NS(c)] \in {c.lv[NS(c)], c.lv[NS(c)] + 1}
  /\ \A v \in VarsIn(d, NS(c)) :
       \/ v \in VarsIn(c, NS(c))
       \/ v.fn = CurrentFn(c) /\ v.index = d.lv[NS(c)] /\ d.lv[NS(c)] = c.lv[NS(c)] + 1
  /\ Len(d.vars[NS(c)]) <= Len(c.vars[NS(c)]) + 1

(* The parameters of the next function have been added to one new          *)
(* namespace, and to another, which has been entered; and between them the *)
(* function took its index from the current namespace.                     *)
BodyEntered(c, d) ==
  LET t == NS(c)
      p == c.fresh
      b == c.fresh + 1
      x == c.lv[t] + 1
  IN  /\ d.active = Append(c.active, b) /\ d.nextfn = c.nextfn + 1
      /\ p \in Nodes /\ b \in Nodes /\ p # Root /\ b # Root
      /\ d.name[p] \notin NsNames /\ d.name[b] \notin NsNames
      /\ \A m \in Nodes \ {p, b} : /\ d.name[m] = c.name[m] /\ VarsIn(d, m) = VarsIn(c, m)
                                   /\ m # t => d.lv[m] = c.lv[m]
      /\ d.lv[t] = x /\ d.fnindex = [c.fnindex EXCEPT ![c.nextfn] = x]
      /\ \A v \in VarsIn(d, p) : v.fn = CurrentFn(c)
      /\ d.lv[b] \in Nat /\ x <= d.lv[b] /\ Len(d.vars[b]) <= 1
      /\ \A v \in VarsIn(d, b) : v.fn = c.nextfn /\ x <= v.index /\ v.index <= d.lv[b]

(* Context::activateAnonymousNamespace enters a new one.                   *)
LEMMA AnonymousOpens ==
  ASSUME MaxNodes < AnonLimit, NEW c, WF(c), NamesBelow(c), c.fresh <= MaxNodes
  PROVE  ScopeEntered(c, ActivateAnonymousNamespace(c))
<1> DEFINE k == c.anon + 1
           b == [c EXCEPT !.anon = @ + 1]
           d == NewNamespace(b, k)
<1>1. /\ c \in ContextType /\ c.fresh \in Nat /\ c.fresh >= 1 /\ MaxNodes \in Nat
      /\ c.name \in [Nodes -> NodeNames]
  BY FieldTypes, SizeAssumption DEF WF
<1>2. ActivateAnonymousNamespace(c) = d /\ k \in Nat
  BY AnonymousMakes
<1>3. /\ b.fresh = c.fresh /\ b.name = c.name /\ b.active = c.active /\ b.lv = c.lv
      /\ b.vars = c.vars /\ b.scopes = c.scopes /\ b.nextfn = c.nextfn
      /\ b.fnindex = c.fnindex /\ b \in ContextType /\ NS(b) = NS(c)
  BY <1>1, <1>2 DEF ContextType, NS
<1> HIDE DEF b, k
<1>4. /\ d.active = Append(b.active, b.fresh) /\ d.fresh = b.fresh + 1
      /\ d.name = [b.name EXCEPT ![b.fresh] = k]
      /\ d.lv = [b.lv EXCEPT ![b.fresh] = b.lv[NS(b)] + 1]
      /\ d.vars = b.vars /\ d.scopes = b.scopes
      /\ d.nextfn = b.nextfn /\ d.fnindex = b.fnindex
  BY <1>3 DEF NewNamespace, ContextType
<1>5. k \notin NsNames
  BY <1>2, NameAssumption
<1>6. c.fresh \in Nodes /\ c.fresh # Root
  <2>1. NS(c) < c.fresh /\ NS(c) \in Nodes
    BY Parts
  <2> QED  BY <1>1, <2>1 DEF Nodes
<1> HIDE DEF d
<1> QED  BY <1>1, <1>2, <1>3, <1>4, <1>5, <1>6 DEF ScopeEntered

(* Context::addVariable adds one, unless the namespace has its name.       *)
LEMMA AddVariableOne ==
  ASSUME NEW c, WF(c), NEW nm \in VarNames
  PROVE  OneMore(c, AddVariable(c, nm))
<1> DEFINE n == NS(c)
           v == [name |-> nm, fn |-> CurrentFn(c), index |-> c.lv[n] + 1]
           d == AddVariable(c, nm)
<1>1. /\ c \in ContextType /\ n \in Nodes /\ c.lv \in [Nodes -> Nat]
      /\ c.vars \in [Nodes -> Seq(Variable)]
  BY Parts
<1>2. CASE nm \in NamesOf(c.vars[n])
  BY <1>1, <1>2 DEF AddVariable, OneMore
<1>3. CASE nm \notin NamesOf(c.vars[n])
  <2>1. /\ d.active = c.active /\ d.fresh = c.fresh /\ d.name = c.name
        /\ d.scopes = c.scopes /\ d.nextfn = c.nextfn /\ d.fnindex = c.fnindex
        /\ d.lv = [c.lv EXCEPT ![n] = c.lv[n] + 1]
        /\ d.vars = [c.vars EXCEPT ![n] = Append(c.vars[n], v)]
    BY <1>1, <1>3 DEF AddVariable, ContextType
  <2>2. v.fn = CurrentFn(c) /\ v.index = c.lv[n] + 1
    OBVIOUS
  <2> HIDE DEF d, v
  <2>3. /\ \A m \in Nodes : m # n => d.lv[m] = c.lv[m] /\ d.vars[m] = c.vars[m]
        /\ d.lv[n] = c.lv[n] + 1 /\ d.vars[n] = Append(c.vars[n], v)
    BY <1>1, <2>1
  <2>4. VarsIn(d, n) \subseteq VarsIn(c, n) \cup {v}
    <3> DEFINE s == c.vars[n]
    <3>1. s \in Seq(Variable) /\ Len(s) \in Nat
      BY <1>1
    <3>2. \A k \in 1 .. Len(Append(s, v)) :
            Append(s, v)[k] = v \/ (k \in 1 .. Len(s) /\ Append(s, v)[k] = s[k])
      BY <3>1, AppendProperties
    <3> QED  BY <2>3, <3>2 DEF VarsIn
  <2>5. Len(d.vars[n]) = Len(c.vars[n]) + 1
    BY <1>1, <2>3
  <2> QED  BY <1>1, <2>1, <2>2, <2>3, <2>4, <2>5 DEF OneMore, VarsIn, d
<1> QED  BY <1>2, <1>3

(* So do parameters.                                                       *)
LEMMA ParametersOne ==
  ASSUME NEW c, WF(c), NEW ps \in Parameters
  PROVE  OneMore(c, AddParameters(c, ps))
<1>1. OneMore(c, c)
  BY Parts DEF OneMore
<1> QED  BY <1>1, AddVariableOne DEF AddParameters, Parameters

(* What precedes a function's body.                                        *)
LEMMA BeginFnEntersBody ==
  ASSUME MaxNodes < AnonLimit, NEW c, WF(c), NamesBelow(c), c.fresh + 2 <= MaxNodes + 1,
         c.nextfn \in Fns, NEW nm \in FunNames \cup Nat, NEW ps \in Parameters,
         \A m \in Nodes : m >= c.fresh => c.vars[m] = <<>>
  PROVE  BodyEntered(c, BeginFn(c, nm, ps))
<1> DEFINE f == c.nextfn
           t == NS(c)
           r == c.fresh
           s == c.fresh + 1
           x == c.lv[t] + 1
           a == ActivateAnonymousNamespace(c)
           q == AddParameters(a, ps)
           p == ParseReturnType(c, ps)
           d == AddFunction(p, nm, f)
           e == [d EXCEPT !.nextfn = @ + 1]
           b == ActivateAnonymousNamespace(e)
           g == [b EXCEPT !.scopes = Append(@, f)]
           h == AddParameters(g, ps)
<1>1. /\ c.fresh \in Nat /\ MaxNodes \in Nat /\ c.fresh <= MaxNodes /\ c.fresh + 1 <= MaxNodes
      /\ c \in ContextType /\ c.active \in Seq(Nodes)
      /\ t \in Nodes /\ t < c.fresh /\ c.lv \in [Nodes -> Nat] /\ c.fnindex \in [Fns -> Nat]
      /\ c.scopes \in Seq(Fns) /\ f \in Nat
  BY SMTT(20), Parts, FieldTypes, FreshIsNew, SizeAssumption
<1>2. r \in Nodes /\ s \in Nodes /\ r # t /\ s # t /\ r # s /\ r # Root /\ s # Root
  <2> HIDE DEF t, x
  <2>1. t \in Nat /\ t >= 1 /\ t < c.fresh /\ c.fresh \in Nat
    BY <1>1 DEF Nodes
  <2>2. MaxNodes \in Nat /\ c.fresh <= MaxNodes /\ c.fresh + 1 <= MaxNodes
    BY <1>1
  <2>3. c.fresh \in Nodes /\ c.fresh + 1 \in Nodes
    BY <2>1, <2>2 DEF Nodes
  <2> QED  BY <2>1, <2>3
<1>3. ScopeEntered(c, a) /\ Fresh(c, a) /\ NS(a) = r
  BY <1>1, AnonymousOpens, AnonymousIsFresh DEF Fresh
<1>4. CurrentFn(a) = CurrentFn(c)
  BY <1>3 DEF ScopeEntered, CurrentFn
<1> HIDE DEF a
<1>5. OneMore(a, q) /\ WF(q) /\ Quiet(a, q)
  BY <1>3, ParametersOne, AddParametersKeeps, ParametersQuiet DEF SameStacks, Grows, Fresh
<1>6. p = DeactivateNamespace(q, a.name[NS(a)])
  BY DEF ParseReturnType, a
<1> HIDE DEF q
<1>7. /\ p.fresh = q.fresh /\ p.name = q.name /\ p.lv = q.lv /\ p.vars = q.vars
      /\ p.scopes = q.scopes /\ p.nextfn = q.nextfn /\ p.fnindex = q.fnindex
      /\ p.live = q.live /\ p.anon = q.anon
  BY <1>5, <1>6 DEF DeactivateNamespace, WF, ContextType
<1>8. SameStacks(c, p)
  BY <1>1, ParseReturnTypeKeeps
<1> HIDE DEF p
<1>9. /\ WF(p) /\ p.active = c.active /\ p.fresh = s /\ p.scopes = c.scopes /\ p.nextfn = f
      /\ p.fnindex = c.fnindex /\ NS(p) = t /\ NamesBelow(p)
      /\ p.name[r] \notin NsNames
      /\ \A m \in Nodes \ {r} : /\ p.name[m] = c.name[m] /\ p.lv[m] = c.lv[m]
                                /\ VarsIn(p, m) = VarsIn(c, m)
      /\ \A v \in VarsIn(p, r) : v.fn = CurrentFn(c)
  <2>1. WF(p) /\ p.active = c.active /\ NS(p) = t
    BY <1>8 DEF SameStacks, Grows, NS
  <2>2. /\ p.fresh = s /\ p.scopes = c.scopes /\ p.nextfn = f /\ p.fnindex = c.fnindex
        /\ p.name = a.name
    BY <1>3, <1>5, <1>7 DEF ScopeEntered, OneMore
  <2>3. NamesBelow(p)
    BY <1>3, <1>5, <1>7 DEF Fresh, Quiet, NamesBelow
  <2>4. /\ a.name[r] \notin NsNames
        /\ \A m \in Nodes \ {r} : a.name[m] = c.name[m] /\ a.lv[m] = c.lv[m]
        /\ a.vars = c.vars
    BY <1>1, <1>2, <1>3 DEF ScopeEntered
  <2>5. \A m \in Nodes \ {r} : p.lv[m] = c.lv[m] /\ VarsIn(p, m) = VarsIn(c, m)
    <3>1. \A m \in Nodes : VarsIn(p, m) = VarsIn(q, m) /\ VarsIn(a, m) = VarsIn(c, m)
      BY <1>7, <2>4 DEF VarsIn
    <3>2. \A m \in Nodes \ {r} : q.lv[m] = a.lv[m] /\ VarsIn(q, m) = VarsIn(a, m)
      BY <1>3, <1>5 DEF OneMore
    <3> QED  BY <1>7, <2>4, <3>1, <3>2
  <2>6. \A v \in VarsIn(p, r) : v.fn = CurrentFn(c)
    <3>1. VarsIn(a, r) = {}
      <4>1. a.vars[r] = <<>>
        BY <1>1, <1>2, <2>4
      <4>2. Len(a.vars[r]) = 0
        BY <4>1
      <4> QED  BY <4>2 DEF VarsIn
    <3>2. VarsIn(p, r) = VarsIn(q, r)
      BY <1>7 DEF VarsIn
    <3> QED  BY <1>3, <1>4, <1>5, <3>1, <3>2 DEF OneMore
  <2> QED  BY <2>1, <2>2, <2>3, <2>4, <2>5, <2>6
<1>10. /\ d.active = p.active /\ d.used = p.used /\ d.fresh = p.fresh /\ d.name = p.name
       /\ d.live = p.live /\ d.anon = p.anon
       /\ d.vars = p.vars /\ d.scopes = p.scopes /\ d.nextfn = p.nextfn
       /\ d.lv = [p.lv EXCEPT ![t] = p.lv[t] + 1]
       /\ d.fnindex = [p.fnindex EXCEPT ![f] = p.lv[t] + 1]
       /\ WF(d) /\ d \in ContextType
  <2>1. WF(d) /\ d \in ContextType
    BY <1>9, AddFunctionKeeps DEF SameStacks, Grows, WF
  <2>2. p \in ContextType
    BY <1>9 DEF WF
  <2> QED  BY <1>9, <2>1, <2>2 DEF AddFunction, ContextType
<1> HIDE DEF d
<1>11. /\ e.active = d.active /\ e.used = d.used /\ e.fresh = d.fresh /\ e.name = d.name
       /\ e.live = d.live /\ e.anon = d.anon
       /\ e.vars = d.vars /\ e.scopes = d.scopes /\ e.nextfn = f + 1
       /\ e.lv = d.lv /\ e.fnindex = d.fnindex /\ e \in ContextType
  <2>1. f + 1 \in 1 .. MaxFns + 1 /\ d.nextfn = f
    BY <1>9, <1>10, SizeAssumption DEF Fns
  <2> QED  BY <1>10, <2>1 DEF ContextType
<1> HIDE DEF e
<1>12. WF(e) /\ NamesBelow(e) /\ e.fresh <= MaxNodes
  BY SMTT(20), <1>1, <1>9, <1>10, <1>11 DEF WF, StackNodes, NamesBelow
<1>13. ScopeEntered(e, b) /\ WF(b) /\ NS(b) = s /\ NS(e) = t
  <2>1. ScopeEntered(e, b) /\ Fresh(e, b)
    BY <1>12, AnonymousOpens, AnonymousIsFresh
  <2> QED  BY <1>9, <1>10, <1>11, <2>1 DEF Fresh, NS
<1> HIDE DEF b
<1>14. /\ g.active = b.active /\ g.used = b.used /\ g.fresh = b.fresh /\ g.name = b.name
       /\ g.live = b.live /\ g.vars = b.vars /\ g.nextfn = b.nextfn /\ g.lv = b.lv
       /\ g.fnindex = b.fnindex /\ g.scopes = Append(b.scopes, f) /\ g \in ContextType
  <2>1. b \in ContextType /\ Append(b.scopes, f) \in Seq(Fns)
    BY <1>13, FieldTypes, AppendProperties DEF WF
  <2> QED  BY <2>1 DEF ContextType
<1> HIDE DEF g
<1>15. WF(g) /\ NS(g) = s /\ CurrentFn(g) = f
  <2>1. WF(g) /\ NS(g) = s
    BY <1>13, <1>14 DEF WF, StackNodes, NS
  <2>2. g.scopes = Append(c.scopes, f)
    BY <1>9, <1>10, <1>11, <1>13, <1>14 DEF ScopeEntered
  <2>3. Append(c.scopes, f) # <<>> /\ Back(Append(c.scopes, f)) = f
    <3>1. /\ Append(c.scopes, f) \in Seq(Fns) /\ Len(c.scopes) \in Nat
          /\ Len(Append(c.scopes, f)) = Len(c.scopes) + 1
          /\ Append(c.scopes, f)[Len(c.scopes) + 1] = f
      BY <1>1, AppendProperties, LenProperties
    <3> QED  BY <3>1, EmptySeq DEF Back
  <2> QED  BY <2>1, <2>2, <2>3 DEF CurrentFn
<1>16. OneMore(g, h)
  BY <1>15, ParametersOne
<1>17. BeginFn(c, nm, ps) = h
  BY DEF BeginFn, EnterBody, h, g, b, e, d, p
<1> HIDE DEF h
<1>18. p.lv[t] = c.lv[t] /\ p.lv \in [Nodes -> Nat]
  BY <1>2, <1>9, Parts, <1>1
<1>19. /\ \A m \in Nodes \ {r, s} : /\ h.name[m] = c.name[m] /\ VarsIn(h, m) = VarsIn(c, m)
                                    /\ m # t => h.lv[m] = c.lv[m]
       /\ h.lv[t] = x /\ h.name[r] \notin NsNames /\ h.name[s] \notin NsNames
       /\ VarsIn(h, r) = VarsIn(p, r)
  <2>1. /\ \A m \in Nodes \ {s} : /\ h.name[m] = e.name[m] /\ h.lv[m] = e.lv[m]
                                  /\ VarsIn(h, m) = VarsIn(e, m)
        /\ h.name[s] \notin NsNames
    <3>1. /\ e.fresh = s
          /\ \A m \in Nodes \ {s} : /\ b.name[m] = e.name[m] /\ b.lv[m] = e.lv[m]
                                    /\ VarsIn(b, m) = VarsIn(e, m)
          /\ b.name[s] \notin NsNames
      <4>1. e.fresh = s /\ e.lv \in [Nodes -> Nat]
        BY <1>9, <1>10, <1>11, FieldTypes
      <4> QED  BY <1>13, <4>1 DEF ScopeEntered, VarsIn
    <3>2. \A m \in Nodes \ {s} : /\ h.name[m] = g.name[m] /\ h.lv[m] = g.lv[m]
                                 /\ VarsIn(h, m) = VarsIn(g, m)
      BY <1>15, <1>16 DEF OneMore
    <3>3. \A m \in Nodes \ {s} : VarsIn(g, m) = VarsIn(b, m)
      BY <1>14 DEF VarsIn
    <3>4. h.name = b.name /\ g.lv = b.lv
      BY <1>14, <1>16 DEF OneMore
    <3> QED  BY <3>1, <3>2, <3>3, <3>4
  <2>2. \A m \in Nodes : /\ e.name[m] = p.name[m] /\ VarsIn(e, m) = VarsIn(p, m)
                         /\ m # t => e.lv[m] = p.lv[m]
    BY <1>10, <1>11, <1>18 DEF VarsIn
  <2>3. e.lv[t] = x
    BY <1>1, <1>10, <1>11, <1>18
  <2> QED  BY SMTT(20), <1>1, <1>2, <1>9, <2>1, <2>2, <2>3
<1>20. VarsIn(g, s) = {}
  <2>1. VarsIn(c, s) = {}
    <3>1. c.vars[s] = <<>>
      BY <1>1, <1>2
    <3>2. Len(c.vars[s]) = 0
      BY <3>1
    <3> QED  BY <3>2 DEF VarsIn
  <2>2. VarsIn(p, s) = {}
    BY <1>2, <1>9, <2>1
  <2>3. g.vars = p.vars
    BY <1>10, <1>11, <1>13, <1>14 DEF ScopeEntered
  <2> QED  BY <2>2, <2>3 DEF VarsIn
<1>21. /\ h.lv[s] \in Nat /\ x <= h.lv[s]
       /\ \A v \in VarsIn(h, s) : v.fn = f /\ x <= v.index /\ v.index <= h.lv[s]
  <2>1. e.lv[t] = x /\ x \in Nat /\ e.lv \in [Nodes -> Nat] /\ e.fresh = s
    BY SMTT(20), <1>1, <1>9, <1>10, <1>11, <1>18, FieldTypes
  <2>2. g.lv[s] = x + 1
    BY <1>2, <1>13, <1>14, <2>1 DEF ScopeEntered
  <2>3. h.lv[s] \in {x + 1, x + 2}
    BY <1>15, <1>16, <2>1, <2>2 DEF OneMore
  <2>4. \A v \in VarsIn(h, s) : v.fn = f /\ v.index = h.lv[s]
    BY <1>15, <1>16, <1>20 DEF OneMore
  <2>5. h.lv[s] \in Nat /\ x <= h.lv[s]
    BY <2>1, <2>3
  <2> QED  BY <2>4, <2>5
<1>22. /\ h.active = Append(c.active, s) /\ h.nextfn = f + 1
       /\ h.fnindex = [c.fnindex EXCEPT ![f] = x]
  BY <1>9, <1>10, <1>11, <1>13, <1>14, <1>16, <1>18 DEF ScopeEntered, OneMore
<1>23. \A v \in VarsIn(h, r) : v.fn = CurrentFn(c)
  BY <1>9, <1>19
<1>24. Len(h.vars[s]) <= 1
  <2>1. Len(g.vars[s]) = 0
    <3> SUFFICES ASSUME Len(g.vars[s]) # 0 PROVE FALSE
      OBVIOUS
    <3>1. 1 \in 1 .. Len(g.vars[s])
      BY <1>15, Parts
    <3>2. g.vars[s][1] \in VarsIn(g, s)
      BY <3>1 DEF VarsIn
    <3> QED  BY <1>20, <3>2
  <2> QED  BY <1>15, <1>16, <2>1 DEF OneMore
<1>25. BodyEntered(c, h)
  BY <1>2, <1>19, <1>21, <1>22, <1>23, <1>24 DEF BodyEntered
<1> QED  BY <1>17, <1>25
=============================================================================
