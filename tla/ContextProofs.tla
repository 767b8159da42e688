--------------------------- MODULE ContextProofs ---------------------------
(***************************************************************************)
(* Proofs about Context for every value of its constants: the type         *)
(* invariant, the discipline of the two namespace stacks and of the save   *)
(* points.  The methods of a context come first, one lemma for what each   *)
(* does to the stacks; then one lemma for a form that is begun, one for a  *)
(* form that is left, and the actions on top of these; then, that scopes   *)
(* are new namespaces (FreshScope).  From Saves on, the proofs are about   *)
(* variables: what a restoration undoes, and what a return closes.         *)
(***************************************************************************)
EXTENDS Context, NamespaceProofs

USE DEF NoNode, NoFn, Root
-----------------------------------------------------------------------------
(* The types of a frame's fields.                                          *)
LEMMA FrameFields ==
  ASSUME IInv, NEW i \in 1 .. Len(open)
  PROVE  /\ Len(open) \in Nat /\ open[i] \in FrameType
         /\ open[i].kind \in Kinds /\ open[i].node \in Nodes
         /\ open[i].alen \in Nat /\ open[i].ulen \in Nat
<1>1. open[i] \in FrameType /\ Len(open) \in Nat
  BY ElementOfSeq, LenProperties DEF IInv
<1> QED  BY <1>1 DEF FrameType

(* What a form pushed is still on the stacks.                              *)
LEMMA NodeOnStack ==
  ASSUME IInv, NEW i \in 1 .. Len(open), Activates(open[i].kind)
  PROVE  /\ open[i].alen + 1 \in 1 .. Len(ctx.active)
         /\ open[i].ulen + 1 \in 1 .. Len(ctx.used)
         /\ open[i].node \in StackNodes(ctx) /\ open[i].node \in ctx.live
<1>1. /\ Len(open) \in Nat /\ Len(ctx.active) \in Nat /\ Len(ctx.used) \in Nat
      /\ open[i].alen \in Nat /\ open[i].ulen \in Nat
  BY FrameFields, StackLengths DEF IInv
<1>2. FrameOK(i) /\ (i # Len(open) => FrameOK(i + 1))
  BY <1>1 DEF IInv, StackDiscipline
<1>3. /\ ActiveHeight(i) = open[i].alen + 1 /\ UsedHeight(i) = open[i].ulen + 1
      /\ ctx.active[open[i].alen + 1] = open[i].node
  BY <1>2 DEF FrameOK
<1>4. /\ open[i].alen + 1 \in 1 .. Len(ctx.active)
      /\ open[i].ulen + 1 \in 1 .. Len(ctx.used)
  <2>1. CASE i = Len(open)
    BY <1>1, <1>3, <2>1 DEF ActiveHeight, UsedHeight
  <2>2. CASE i # Len(open)
    BY <1>1, <1>2, <1>3, <2>2 DEF FrameOK, ActiveHeight, UsedHeight
  <2> QED  BY <2>1, <2>2
<1> QED  BY <1>3, <1>4 DEF StackNodes, IInv, WF

(* Nothing entered and nothing left.                                       *)
LEMMA StayPreserves ==
  ASSUME IInv, SameStacks(ctx, ctx'), UNCHANGED open
  PROVE  IInv'
<1>1. /\ WF(ctx)' /\ ctx'.active = ctx.active /\ ctx'.used = ctx.used
      /\ ctx'.errors = ctx.errors
      /\ \A n \in StackNodes(ctx) : ctx'.name[n] = ctx.name[n]
      /\ VarsReach(ctx, ctx')
  BY DEF IInv, SameStacks, Grows, NamesKept, WF
<1>2. SavedCountsReached'
  BY <1>1, ReachTransitive DEF IInv, SavedCountsReached, SavePointsNest, WF
<1>3. StackDiscipline'
  <2> SUFFICES ASSUME NEW i \in 1 .. Len(open) PROVE FrameOK(i)'
    BY DEF StackDiscipline
  <2>1. FrameOK(i) /\ ActiveHeight(i)' = ActiveHeight(i) /\ UsedHeight(i)' = UsedHeight(i)
    BY <1>1 DEF IInv, StackDiscipline, ActiveHeight, UsedHeight
  <2>2. Activates(open[i].kind) => open[i].node \in StackNodes(ctx)
    BY NodeOnStack
  <2> QED  BY <1>1, <2>1, <2>2 DEF FrameOK
<1> QED  BY <1>1, <1>2, <1>3
         DEF IInv, NoDeactivationError, ActivationsAreOpen, FramesNest, SavePointsNest, WF

(* What each kind of form pushes, by cases.                                *)
LEMMA PushValues ==
  ASSUME NEW kind \in Kinds
  PROVE  /\ ActivePush(kind) \in {0, 1} /\ UsedPush(kind) \in {0, 1}
         /\ Activates(kind) => ActivePush(kind) = 1 /\ UsedPush(kind) = 1
         /\ ~Activates(kind) => ActivePush(kind) = 0
         /\ kind = "using" => UsedPush(kind) = 1
         /\ kind = "call" => UsedPush(kind) = 0
         /\ Activates(kind) \/ kind = "using" \/ kind = "call"
         /\ Activates(kind) => kind # "using" /\ kind # "call"
BY DEF ActivePush, UsedPush, Activates

(* A form is begun: what it pushes goes on top of what the others pushed.  *)
LEMMA EnterPreserves ==
  ASSUME IInv, NEW kind \in Kinds, NEW c, Grows(ctx, c), NEW fn \in Fns \cup {NoFn},
         Enter(kind, c, fn),
         Activates(kind) => \E n \in Nodes : Entered(ctx, c, n),
         kind = "using" => /\ c.active = ctx.active
                           /\ \E n \in Nodes : c.used = Append(ctx.used, n),
         kind = "call" => c = ctx
  PROVE  IInv'
<1> DEFINE fr == Frame(kind, c, fn)
<1>0. PICK k \in Nat : k = Len(open) + 1
  BY LenProperties DEF IInv
<1>1. /\ WF(ctx) /\ WF(c) /\ ctx' = c /\ open' = Append(open, fr)
      /\ open \in Seq(FrameType) /\ Len(open) \in Nat
      /\ Len(ctx.active) \in Nat \ {0} /\ Len(ctx.used) \in Nat \ {0}
      /\ ctx.active \in Seq(Nodes) /\ ctx.used \in Seq(Nodes)
  BY StackLengths, LenProperties DEF IInv, Grows, Enter
<1>2. /\ fr.kind = kind /\ fr.node = Back(c.used) /\ fr.name = c.name[Back(c.used)]
      /\ fr.alen = Len(ctx.active) /\ fr.ulen = Len(ctx.used)
      /\ kind = "call" => fr.saved = ctx
  BY DEF Frame
<1>3. fr \in FrameType
  <2>1. EmptyContext(0) \in ContextType
    <3>1. 0 \in NodeNames /\ 1 \in 1 .. MaxFns + 1 /\ 2 \in 1 .. MaxNodes + 1 /\ 1 \in Nodes
      BY SizeAssumption DEF NodeNames, Nodes
    <3>2. <<>> \in Seq(Variable) /\ <<>> \in Seq(Fns) /\ <<1>> \in Seq(Nodes)
      BY <3>1
    <3> QED  BY <3>1, <3>2 DEF EmptyContext, ContextType
  <2>2. Back(c.used) \in Nodes /\ c.name[Back(c.used)] \in NodeNames
    BY <1>1, TopIsLive, FieldTypes DEF WF
  <2> QED  BY <1>1, <2>1, <2>2 DEF Frame, FrameType, WF
<1> HIDE DEF fr
<1>4. /\ open' \in Seq(FrameType) /\ Len(open') = k /\ open'[k] = fr
      /\ \A i \in 1 .. Len(open) : open'[i] = open[i]
  BY <1>0, <1>1, <1>3, AppendProperties
<1>5. /\ Len(ctx'.active) \in Nat /\ Len(ctx'.used) \in Nat
      /\ Len(ctx.active) <= Len(ctx'.active) /\ Len(ctx.used) <= Len(ctx'.used)
      /\ \A i \in 1 .. Len(ctx.active) : ctx'.active[i] = ctx.active[i]
      /\ \A i \in 1 .. Len(ctx.used) : ctx'.used[i] = ctx.used[i]
      /\ Activates(kind) => Len(ctx'.active) = Len(ctx.active) + 1
      /\ ~Activates(kind) => ctx'.active = ctx.active
      /\ Activates(kind) \/ kind = "using" => Len(ctx'.used) = Len(ctx.used) + 1
      /\ kind = "call" => ctx'.used = ctx.used
  <2>1. CASE Activates(kind)
    <3>1. PICK n \in Nodes : Entered(ctx, c, n)
      BY <2>1
    <3>2. /\ Len(c.active) = Len(ctx.active) + 1
          /\ \A i \in 1 .. Len(ctx.active) : c.active[i] = ctx.active[i]
      BY <1>1, <3>1, AppendProperties DEF Entered
    <3>3. /\ Len(c.used) = Len(ctx.used) + 1
          /\ \A i \in 1 .. Len(ctx.used) : c.used[i] = ctx.used[i]
      BY <1>1, <3>1, AppendProperties DEF Entered
    <3> QED  BY <1>1, <2>1, <3>2, <3>3 DEF Activates
  <2>2. CASE kind = "using"
    BY SMTT(20), <1>1, <2>2, AppendProperties DEF Activates
  <2>3. CASE kind = "call"
    BY <1>1, <2>3 DEF Activates
  <2> QED  BY <2>1, <2>2, <2>3 DEF Activates
<1>6. \A i \in 1 .. Len(open) :
        ActiveHeight(i)' = ActiveHeight(i) /\ UsedHeight(i)' = UsedHeight(i)
  BY <1>0, <1>1, <1>2, <1>4 DEF ActiveHeight, UsedHeight
<1>7. ASSUME NEW i \in 1 .. Len(open)
      PROVE  FrameOK(i)'
  <2>1. FrameOK(i) /\ open'[i] = open[i]
    BY <1>4 DEF IInv, StackDiscipline
  <2>2. /\ ActiveHeight(i)' = ActiveHeight(i) /\ UsedHeight(i)' = UsedHeight(i)
        /\ open[i].alen \in Nat /\ open[i].ulen \in Nat
        /\ open[i].alen \in 1 .. Len(ctx'.active) /\ open[i].ulen \in 1 .. Len(ctx'.used)
    BY SMTT(20), <1>5, <1>6, <1>1, <2>1, FrameFields DEF FrameOK
  <2>3. ASSUME Activates(open[i].kind)
        PROVE  /\ ctx'.active[open[i].alen + 1] = open[i].node
               /\ ctx'.used[open[i].ulen + 1] = open[i].node
               /\ ctx'.name[open[i].node] = open[i].name
    <3>1. /\ open[i].alen + 1 \in 1 .. Len(ctx.active) /\ open[i].ulen + 1 \in 1 .. Len(ctx.used)
          /\ open[i].node \in ctx.live
      BY <2>3, NodeOnStack
    <3> QED  BY <1>1, <1>5, <2>1, <2>3, <3>1 DEF FrameOK, Grows, NamesKept
  <2>4. /\ SubSeq(ctx'.active, 1, open[i].alen) = SubSeq(ctx.active, 1, open[i].alen)
        /\ SubSeq(ctx'.used, 1, open[i].ulen) = SubSeq(ctx.used, 1, open[i].ulen)
    <3>1. /\ ctx'.active \in Seq(Nodes) /\ ctx'.used \in Seq(Nodes)
          /\ open[i].alen <= Len(ctx.active) /\ open[i].ulen <= Len(ctx.used)
      BY <1>1, <2>1, <2>2, StackLengths DEF FrameOK
    <3>2. SubSeq(ctx'.active, 1, open[i].alen) = SubSeq(ctx.active, 1, open[i].alen)
      <4>1. /\ open[i].alen <= Len(ctx'.active)
            /\ \A m \in 1 .. open[i].alen : ctx'.active[m] = ctx.active[m]
        BY <1>1, <1>5, <2>2, <3>1
      <4> QED  BY <1>1, <2>2, <3>1, <4>1, SamePrefix
    <3>3. SubSeq(ctx'.used, 1, open[i].ulen) = SubSeq(ctx.used, 1, open[i].ulen)
      <4>1. /\ open[i].ulen <= Len(ctx'.used)
            /\ \A m \in 1 .. open[i].ulen : ctx'.used[m] = ctx.used[m]
        BY <1>1, <1>5, <2>2, <3>1
      <4> QED  BY <1>1, <2>2, <3>1, <4>1, SamePrefix
    <3> QED  BY <3>2, <3>3
  <2> QED  BY <2>1, <2>2, <2>3, <2>4 DEF FrameOK
<1>8. FrameOK(k)'
  <2>1. /\ ActiveHeight(k)' = Len(ctx'.active) /\ UsedHeight(k)' = Len(ctx'.used)
        /\ open'[k] = fr /\ fr.alen \in 1 .. Len(ctx'.active)
        /\ fr.ulen \in 1 .. Len(ctx'.used)
    BY <1>1, <1>2, <1>4, <1>5 DEF ActiveHeight, UsedHeight
  <2>2. CASE Activates(kind)
    <3>1. PICK n \in Nodes : Entered(ctx, c, n)
      BY <2>2
    <3>2. /\ Back(c.used) = n /\ ctx'.active[Len(ctx.active) + 1] = n
          /\ ctx'.used[Len(ctx.used) + 1] = n
      BY <1>1, <3>1, PopAppend, AppendProperties DEF Entered
    <3> QED  BY <1>1, <1>2, <1>5, <2>1, <2>2, <3>2 DEF FrameOK, Activates
  <2>3. CASE kind = "using"
    BY <1>2, <1>5, <2>1, <2>3 DEF FrameOK, Activates
  <2>4. CASE kind = "call"
    <3>1. /\ SubSeq(ctx.active, 1, Len(ctx.active)) = ctx.active
          /\ SubSeq(ctx.used, 1, Len(ctx.used)) = ctx.used
      BY <1>1, SubSeqFull
    <3> QED  BY <1>1, <1>2, <1>5, <2>1, <2>4, <3>1 DEF FrameOK, Activates
  <2> QED  BY <2>2, <2>3, <2>4 DEF Activates
<1>9. StackDiscipline'
  BY <1>0, <1>1, <1>4, <1>7, <1>8 DEF StackDiscipline
<1>10. ActivationsAreOpen'
  <2> SUFFICES ASSUME NEW j \in 2 .. Len(ctx'.active)
               PROVE  \E i \in 1 .. Len(open') :
                        Activates(open'[i].kind) /\ open'[i].alen + 1 = j
    BY DEF ActivationsAreOpen
  <2>1. CASE j \in 2 .. Len(ctx.active)
    <3>1. PICK i \in 1 .. Len(open) : Activates(open[i].kind) /\ open[i].alen + 1 = j
      BY <2>1 DEF IInv, ActivationsAreOpen
    <3>2. i \in 1 .. Len(open') /\ open'[i] = open[i]
      BY <1>0, <1>1, <1>4
    <3> QED  BY <3>1, <3>2
  <2>2. CASE j \notin 2 .. Len(ctx.active)
    <3>1. Activates(kind) /\ j = Len(ctx.active) + 1
      BY <1>1, <1>5, <2>2
    <3> QED  BY <1>0, <1>1, <1>2, <1>4, <3>1
  <2> QED  BY <2>1, <2>2
<1>11. /\ \A i \in 1 .. Len(open) : open[i].kind = "call" =>
            WF(open[i].saved) /\ VarsReach(open[i].saved, ctx)
       /\ kind = "call" => WF(fr.saved) /\ VarsReach(fr.saved, ctx)
  BY <1>1, <1>2, GrowsReflexive DEF IInv, SavePointsNest, SavedCountsReached, Grows
<1>12. SavedCountsReached'
  <2>1. VarsReach(ctx, c)
    BY DEF Grows
  <2> SUFFICES ASSUME NEW i \in 1 .. k, open'[i].kind = "call"
               PROVE  VarsReach(open'[i].saved, c)
    BY <1>1, <1>4 DEF SavedCountsReached
  <2>2. WF(open'[i].saved) /\ VarsReach(open'[i].saved, ctx)
    BY <1>0, <1>1, <1>2, <1>4, <1>11
  <2> QED  BY <1>1, <2>1, <2>2, ReachTransitive
<1>13. SavePointsNest'
  BY <1>0, <1>1, <1>2, <1>4, <1>11 DEF IInv, SavePointsNest, WF
<1>14. NoDeactivationError' /\ (ctx.active[1] = ctx.used[1])'
  BY <1>1, <1>5 DEF IInv, NoDeactivationError, Grows
<1>15. FramesNest'
  <2> SUFFICES ASSUME NEW i \in 1 .. k, NEW j \in 1 .. k, i < j
               PROVE  /\ open'[i].alen + ActivePush(open'[i].kind) <= open'[j].alen
                      /\ open'[i].ulen + UsedPush(open'[i].kind) <= open'[j].ulen
    BY <1>0, <1>1, <1>4 DEF FramesNest
  <2>1. CASE j # k
    <3>1. i \in 1 .. Len(open) /\ j \in 1 .. Len(open)
      BY <1>0, <1>1, <2>1
    <3> QED  BY <1>4, <3>1 DEF IInv, FramesNest
  <2>2. CASE j = k
    <3>1. i \in 1 .. Len(open) /\ Len(open) \in 1 .. Len(open)
      BY <1>0, <1>1, <2>2
    <3>2. /\ open[i].alen + ActivePush(open[i].kind) <= Len(ctx.active)
          /\ open[i].ulen + UsedPush(open[i].kind) <= Len(ctx.used)
      <4>1. /\ FrameOK(i) /\ FrameOK(Len(open)) /\ open[i].kind \in Kinds
            /\ open[i].alen \in Nat /\ open[i].ulen \in Nat
            /\ open[Len(open)].alen \in Nat /\ open[Len(open)].ulen \in Nat
        BY <3>1, FrameFields DEF IInv, StackDiscipline
      <4>2. CASE i = Len(open)
        <5>1. ActiveHeight(i) = Len(ctx.active) /\ UsedHeight(i) = Len(ctx.used)
          BY <4>2 DEF ActiveHeight, UsedHeight
        <5>2. CASE Activates(open[i].kind)
          BY <4>1, <5>1, <5>2, PushValues DEF FrameOK
        <5>3. CASE open[i].kind = "using"
          BY <4>1, <5>1, <5>3, PushValues DEF FrameOK
        <5>4. CASE open[i].kind = "call"
          BY <4>1, <5>1, <5>4, PushValues DEF FrameOK
        <5> QED  BY <4>1, <5>2, <5>3, <5>4, PushValues
      <4>3. CASE i # Len(open)
        <5>1. /\ open[i].alen + ActivePush(open[i].kind) <= open[Len(open)].alen
              /\ open[i].ulen + UsedPush(open[i].kind) <= open[Len(open)].ulen
          BY <1>1, <3>1, <4>3 DEF IInv, FramesNest
        <5>2. open[Len(open)].alen <= Len(ctx.active) /\ open[Len(open)].ulen <= Len(ctx.used)
          BY <1>1, <4>1 DEF FrameOK
        <5>3. /\ ActivePush(open[i].kind) \in Int /\ UsedPush(open[i].kind) \in Int
              /\ Len(ctx.active) \in Int /\ Len(ctx.used) \in Int
          BY <1>1, <4>1, PushValues
        <5> HIDE DEF FrameOK
        <5> QED  BY <4>1, <5>1, <5>2, <5>3, SMTT(60)
      <4> QED  BY <4>2, <4>3
    <3> QED  BY <1>2, <1>4, <2>2, <3>1, <3>2
  <2> QED  BY <2>1, <2>2
<1> QED  BY <1>1, <1>4, <1>9, <1>10, <1>12, <1>13, <1>14, <1>15 DEF IInv

CutTo(s, t, k) == t = SubSeq(s, 1, k)

(* The innermost form is left: the stacks are again what it found.         *)
LEMMA LeavePreserves ==
  ASSUME IInv, open # <<>>, NEW c, WF(c), ctx' = c, open' = Pop(open),
         c.errors = ctx.errors, \A n \in StackNodes(ctx) : c.name[n] = ctx.name[n],
         CutTo(ctx.active, c.active, Back(open).alen),
         CutTo(ctx.used, c.used, Back(open).ulen),
         \A i \in 1 .. Len(open) - 1 :
           open[i].kind = "call" => VarsReach(open[i].saved, c)
  PROVE  IInv'
<1>0. PICK k \in Nat \ {0} : k = Len(open)
  BY EmptySeq DEF IInv
<1>1. /\ Back(open) = open[k] /\ open' \in Seq(FrameType) /\ Len(open') = k - 1
      /\ \A i \in 1 .. k - 1 : open'[i] = open[i]
  BY <1>0, PopType DEF IInv
<1>2. /\ WF(ctx) /\ ctx.active \in Seq(Nodes) /\ ctx.used \in Seq(Nodes)
      /\ Len(ctx.active) \in Nat \ {0} /\ Len(ctx.used) \in Nat \ {0}
      /\ \A i \in 1 .. k : open[i].alen \in Nat /\ open[i].ulen \in Nat
  BY <1>0, StackLengths, FrameFields DEF IInv
<1>3. FrameOK(k)
  BY <1>0 DEF IInv, StackDiscipline
<1>4. open[k].alen \in 1 .. Len(ctx.active) /\ open[k].ulen \in 1 .. Len(ctx.used)
  BY <1>3 DEF FrameOK
<1> DEFINE al == open[k].alen
           ul == open[k].ulen
<1>5. /\ Len(c.active) = al /\ al \in Nat \ {0} /\ al <= Len(ctx.active)
      /\ \A i \in 1 .. al : c.active[i] = ctx.active[i]
  <2>1. c.active = SubSeq(ctx.active, 1, al)
    BY <1>1 DEF CutTo
  <2>2. al \in Nat \ {0} /\ al <= Len(ctx.active)
    BY <1>2, <1>4
  <2> HIDE DEF al
  <2> QED  BY <1>2, <2>1, <2>2, PrefixType
<1>6. /\ Len(c.used) = ul /\ ul \in Nat \ {0} /\ ul <= Len(ctx.used)
      /\ \A i \in 1 .. ul : c.used[i] = ctx.used[i]
  <2>1. c.used = SubSeq(ctx.used, 1, ul)
    BY <1>1 DEF CutTo
  <2>2. ul \in Nat \ {0} /\ ul <= Len(ctx.used)
    BY <1>2, <1>4
  <2> HIDE DEF ul
  <2> QED  BY <1>2, <2>1, <2>2, PrefixType
<1>7. ASSUME NEW i \in 1 .. k - 1
      PROVE  FrameOK(i)'
  <2>1. FrameOK(i) /\ open'[i] = open[i] /\ i \in 1 .. k
    BY <1>0, <1>1 DEF IInv, StackDiscipline
  <2>2. ActiveHeight(i)' = ActiveHeight(i) /\ UsedHeight(i)' = UsedHeight(i)
    <3>1. CASE i = k - 1
      BY <1>0, <1>1, <1>5, <1>6, <3>1 DEF ActiveHeight, UsedHeight
    <3>2. CASE i # k - 1
      BY <1>0, <1>1, <3>2 DEF ActiveHeight, UsedHeight
    <3> QED  BY <3>1, <3>2
  <2>3. /\ open[i].alen + ActivePush(open[i].kind) <= open[k].alen
        /\ open[i].ulen + UsedPush(open[i].kind) <= open[k].ulen
    BY <1>0 DEF IInv, FramesNest
  <2>4. /\ open[i].alen \in 1 .. open[k].alen /\ open[i].ulen \in 1 .. open[k].ulen
        /\ Activates(open[i].kind) =>
             /\ open[i].alen + 1 \in 1 .. open[k].alen
             /\ open[i].ulen + 1 \in 1 .. open[k].ulen
    <3>1. /\ open[i].kind \in Kinds /\ open[i].alen \in Nat /\ open[i].ulen \in Nat
          /\ open[i].alen >= 1 /\ open[i].ulen >= 1
      BY <1>0, <1>2, <2>1, FrameFields DEF FrameOK
    <3>2. /\ ActivePush(open[i].kind) \in {0, 1} /\ UsedPush(open[i].kind) \in {0, 1}
          /\ Activates(open[i].kind) =>
               ActivePush(open[i].kind) = 1 /\ UsedPush(open[i].kind) = 1
      BY <3>1, PushValues
    <3> QED  BY SMTT(20), <1>5, <1>6, <2>3, <3>1, <3>2
  <2>5. ASSUME Activates(open[i].kind)
        PROVE  /\ c.active[open[i].alen + 1] = open[i].node
               /\ c.used[open[i].ulen + 1] = open[i].node
               /\ c.name[open[i].node] = open[i].name
    <3>1. open[i].node \in StackNodes(ctx)
      BY <1>0, <2>5, NodeOnStack
    <3> QED  BY <1>5, <1>6, <2>1, <2>4, <2>5, <3>1 DEF FrameOK
  <2>6. SubSeq(c.active, 1, open[i].alen) = SubSeq(ctx.active, 1, open[i].alen)
    <3>1. /\ c.active \in Seq(Nodes) /\ open[i].alen \in Nat
          /\ open[i].alen <= Len(c.active) /\ open[i].alen <= Len(ctx.active)
          /\ \A m \in 1 .. open[i].alen : c.active[m] = ctx.active[m]
      BY <1>2, <1>4, <1>5, <2>1, <2>4, StackLengths DEF FrameOK
    <3> QED  BY <1>2, <3>1, SamePrefix
  <2>7. SubSeq(c.used, 1, open[i].ulen) = SubSeq(ctx.used, 1, open[i].ulen)
    <3>1. /\ c.used \in Seq(Nodes) /\ open[i].ulen \in Nat
          /\ open[i].ulen <= Len(c.used) /\ open[i].ulen <= Len(ctx.used)
          /\ \A m \in 1 .. open[i].ulen : c.used[m] = ctx.used[m]
      BY <1>2, <1>4, <1>6, <2>1, <2>4, StackLengths DEF FrameOK
    <3> QED  BY <1>2, <3>1, SamePrefix
  <2> QED  BY <1>5, <1>6, <2>1, <2>2, <2>4, <2>5, <2>6, <2>7 DEF FrameOK
<1>8. StackDiscipline'
  BY <1>1, <1>7 DEF StackDiscipline
<1>9. ActivationsAreOpen'
  <2> SUFFICES ASSUME NEW j \in 2 .. Len(c.active)
               PROVE  \E i \in 1 .. Len(open') :
                        Activates(open'[i].kind) /\ open'[i].alen + 1 = j
    BY DEF ActivationsAreOpen
  <2>1. j \in 2 .. Len(ctx.active) /\ j <= open[k].alen
    BY <1>2, <1>4, <1>5
  <2>2. PICK i \in 1 .. Len(open) : Activates(open[i].kind) /\ open[i].alen + 1 = j
    BY <2>1 DEF IInv, ActivationsAreOpen
  <2>3. i # k
    BY <1>2, <1>4, <2>1, <2>2
  <2> QED  BY <1>0, <1>1, <2>2, <2>3
<1>10. SavePointsNest'
  BY SMTT(20), <1>0, <1>1 DEF IInv, SavePointsNest, WF
<1>11. SavedCountsReached'
  BY <1>0, <1>1 DEF SavedCountsReached
<1>12. FramesNest'
  BY SMTT(20), <1>0, <1>1 DEF IInv, FramesNest
<1>13. NoDeactivationError' /\ (ctx.active[1] = ctx.used[1])'
  BY <1>2, <1>4, <1>5, <1>6 DEF IInv, NoDeactivationError
<1> QED  BY <1>1, <1>8, <1>9, <1>10, <1>11, <1>12, <1>13 DEF IInv

(* The innermost form and the tops of the stacks.                          *)
LEMMA Innermost ==
  ASSUME IInv, open # <<>>
  PROVE  LET fr == Back(open)
         IN  /\ fr.kind \in Kinds /\ Len(open) \in 1 .. Len(open) /\ fr = open[Len(open)]
             /\ FrameOK(Len(open))
             /\ Activates(fr.kind) =>
                  /\ Len(ctx.active) > 1 /\ Len(ctx.used) > 1
                  /\ ctx.name[NS(ctx)] = fr.name /\ ctx.name[Back(ctx.used)] = fr.name
                  /\ CutTo(ctx.active, Pop(ctx.active), fr.alen)
                  /\ CutTo(ctx.used, Pop(ctx.used), fr.ulen)
             /\ fr.kind = "using" =>
                  /\ Len(ctx.used) > 1
                  /\ CutTo(ctx.active, ctx.active, fr.alen)
                  /\ CutTo(ctx.used, Pop(ctx.used), fr.ulen)
             /\ fr.kind = "call" =>
                  /\ CutTo(ctx.active, ctx.active, fr.alen)
                  /\ CutTo(ctx.used, ctx.used, fr.ulen)
                  /\ fr.saved.active = ctx.active /\ fr.saved.used = ctx.used
<1> DEFINE fr == Back(open)
           k == Len(open)
<1>1. k \in 1 .. k /\ fr = open[k] /\ fr.kind \in Kinds /\ FrameOK(k)
  <2>1. open \in Seq(FrameType) /\ k \in Nat \ {0}
    BY EmptySeq DEF IInv
  <2>2. k \in 1 .. k /\ fr = open[k]
    BY <2>1 DEF Back
  <2> QED  BY <2>2, FrameFields DEF IInv, StackDiscipline
<1>2. /\ ActiveHeight(k) = Len(ctx.active) /\ UsedHeight(k) = Len(ctx.used)
      /\ fr.alen \in Nat \ {0} /\ fr.ulen \in Nat \ {0}
  BY <1>1, FrameFields DEF ActiveHeight, UsedHeight, FrameOK
<1>3. /\ WF(ctx) /\ ctx.active \in Seq(Nodes) /\ ctx.used \in Seq(Nodes)
      /\ Len(ctx.active) \in Nat \ {0} /\ Len(ctx.used) \in Nat \ {0}
      /\ ctx.active # <<>> /\ ctx.used # <<>>
      /\ SubSeq(ctx.active, 1, Len(ctx.active)) = ctx.active
      /\ SubSeq(ctx.used, 1, Len(ctx.used)) = ctx.used
  BY StackLengths, SubSeqFull DEF IInv, WF
<1>4. /\ NS(ctx) = ctx.active[Len(ctx.active)]
      /\ Pop(ctx.active) = SubSeq(ctx.active, 1, Len(ctx.active) - 1)
      /\ Back(ctx.used) = ctx.used[Len(ctx.used)]
      /\ Pop(ctx.used) = SubSeq(ctx.used, 1, Len(ctx.used) - 1)
  BY DEF NS, Back, Pop
<1> HIDE DEF fr, k
<1>5. ASSUME Activates(fr.kind)
      PROVE  /\ Len(ctx.active) > 1 /\ Len(ctx.used) > 1
             /\ ctx.name[NS(ctx)] = fr.name /\ ctx.name[Back(ctx.used)] = fr.name
             /\ CutTo(ctx.active, Pop(ctx.active), fr.alen)
             /\ CutTo(ctx.used, Pop(ctx.used), fr.ulen)
  <2>1. /\ Len(ctx.active) = fr.alen + 1 /\ Len(ctx.used) = fr.ulen + 1
        /\ ctx.active[fr.alen + 1] = fr.node /\ ctx.used[fr.ulen + 1] = fr.node
        /\ ctx.name[fr.node] = fr.name
    BY <1>1, <1>2, <1>5 DEF FrameOK
  <2>2. Len(ctx.active) - 1 = fr.alen /\ Len(ctx.used) - 1 = fr.ulen
    BY <1>2, <2>1
  <2> QED  BY SMTT(20), <1>2, <1>3, <1>4, <2>1, <2>2 DEF CutTo
<1>6. ASSUME fr.kind = "using"
      PROVE  /\ Len(ctx.used) > 1
             /\ CutTo(ctx.active, ctx.active, fr.alen)
             /\ CutTo(ctx.used, Pop(ctx.used), fr.ulen)
  <2>1. Len(ctx.active) = fr.alen /\ Len(ctx.used) = fr.ulen + 1
    BY <1>1, <1>2, <1>6 DEF FrameOK
  <2>2. Len(ctx.used) - 1 = fr.ulen
    BY <1>2, <2>1
  <2> QED  BY <1>2, <1>3, <1>4, <2>1, <2>2 DEF CutTo
<1>7. ASSUME fr.kind = "call"
      PROVE  /\ CutTo(ctx.active, ctx.active, fr.alen)
             /\ CutTo(ctx.used, ctx.used, fr.ulen)
             /\ fr.saved.active = ctx.active /\ fr.saved.used = ctx.used
  BY <1>1, <1>2, <1>3, <1>7 DEF FrameOK, CutTo
<1> QED  BY <1>1, <1>5, <1>6, <1>7 DEF fr, k

(* Forms whose leaving only grows the context otherwise.                   *)
LEMMA LeaveGrowing ==
  ASSUME IInv, open # <<>>, NEW c, Grows(ctx, c), ctx' = c, open' = Pop(open),
         CutTo(ctx.active, c.active, Back(open).alen),
         CutTo(ctx.used, c.used, Back(open).ulen)
  PROVE  IInv'
<1>1. WF(ctx) /\ WF(c) /\ VarsReach(ctx, c) /\ c.errors = ctx.errors
  BY DEF IInv, Grows
<1>2. \A n \in StackNodes(ctx) : c.name[n] = ctx.name[n]
  BY <1>1 DEF Grows, NamesKept, WF
<1>3. \A i \in 1 .. Len(open) - 1 :
        open[i].kind = "call" => VarsReach(open[i].saved, c)
  <2> SUFFICES ASSUME NEW i \in 1 .. Len(open) - 1, open[i].kind = "call"
               PROVE  VarsReach(open[i].saved, c)
    OBVIOUS
  <2>1. i \in 1 .. Len(open)
    BY LenProperties DEF IInv
  <2>2. WF(open[i].saved) /\ VarsReach(open[i].saved, ctx)
    BY <2>1 DEF IInv, SavePointsNest, SavedCountsReached
  <2> QED  BY <1>1, <2>2, ReachTransitive
<1> QED  BY <1>1, <1>2, <1>3, LeavePreserves

(* A form that activated a namespace is left by popping both stacks.       *)
LEMMA LeaveActivated ==
  ASSUME IInv, open # <<>>, Activates(Back(open).kind),
         NEW c, Left(ctx, c), ctx' = c, open' = Pop(open)
  PROVE  IInv'
BY Innermost, LeaveGrowing DEF Left
-----------------------------------------------------------------------------
(***************************************************************************)
(* The specification.                                                      *)
(***************************************************************************)
LEMMA InitIInv == Init => IInv
<1> SUFFICES ASSUME NEW pre \in PreIndices, ctx = EmptyContext(pre), open = <<>>
             PROVE  IInv
  BY DEF Init
<1>1. /\ 0 \in NodeNames /\ 1 \in 1 .. MaxFns + 1 /\ 2 \in 1 .. MaxNodes + 1 /\ 1 \in Nodes
      /\ pre \in Int
  BY SizeAssumption, PreIndexAssumption DEF NodeNames, Nodes
<1>2. /\ <<>> \in Seq(Variable) /\ <<>> \in Seq(Fns) /\ <<1>> \in Seq(Nodes)
      /\ <<>> \in Seq(FrameType) /\ Len(<<>>) = 0
      /\ <<1>> # <<>> /\ Len(<<1>>) = 1 /\ <<1>>[1] = 1
  BY <1>1
<1>3. ctx \in ContextType
  BY <1>1, <1>2 DEF EmptyContext, ContextType
<1>4. /\ ctx.live = {1} /\ ctx.fresh = 2 /\ ctx.active = <<1>> /\ ctx.used = <<1>>
      /\ ctx.errors = {}
  BY DEF EmptyContext
<1>5. WF(ctx)
  BY <1>2, <1>3, <1>4 DEF WF, StackNodes
<1>6. open \in Seq(FrameType) /\ Len(open) = 0
  BY <1>2
<1> QED  BY <1>2, <1>4, <1>5, <1>6
         DEF IInv, NoDeactivationError, StackDiscipline, ActivationsAreOpen, FramesNest,
             SavePointsNest, SavedCountsReached

(* Every step of the compiler preserves the invariant.                     *)
LEMMA NextIInv == IInv /\ [Next]_vars => IInv'
<1> SUFFICES ASSUME IInv, [Next]_vars PROVE IInv'
  OBVIOUS
<1>1. WF(ctx) /\ ctx \in ContextType /\ ctx.fresh \in Nat /\ MaxNodes \in Nat
  BY Counts, SizeAssumption DEF IInv, WF
<1>2. ASSUME NEW nm \in NsNames, OpenNamespace(nm) PROVE IInv'
  <2>1. /\ ctx.fresh <= MaxNodes /\ nm \in NodeNames
        /\ Enter("namespace", ActivateNamespace(ctx, nm), NoFn)
    BY <1>1, <1>2 DEF OpenNamespace, Room, NodeNames
  <2>2. PICK n \in Nodes : Pushed(ctx, ActivateNamespace(ctx, nm), n)
    BY <1>1, <2>1, ActivatePushes
  <2> QED  BY <2>1, <2>2, EnterPreserves DEF Pushed, Entered, Activates, Kinds
<1>3. ASSUME NEW nm \in NsNames, OpenUsing(nm) PROVE IInv'
  <2>1. PICK n \in ctx.live : Enter("using", UseNamespace(ctx, n), NoFn)
    BY <1>3 DEF OpenUsing
  <2> QED  BY <1>1, <2>1, UseNamespaceUses, EnterPreserves DEF Activates, Kinds
<1>4. ASSUME CloseNamespace \/ CloseNewScope PROVE IInv'
  <2>1. /\ open # <<>> /\ Activates(Back(open).kind)
        /\ ctx' = DeactivateNamespace(ctx, Back(open).name) /\ open' = Pop(open)
    BY <1>4 DEF CloseNamespace, CloseNewScope, Leave, Activates, Kinds
  <2>2. Left(ctx, DeactivateNamespace(ctx, Back(open).name))
    BY <1>1, <2>1, Innermost, DeactivatePops
  <2> QED  BY <2>1, <2>2, LeaveActivated
<1>5. ASSUME CloseUsing PROVE IInv'
  <2>1. /\ open # <<>> /\ Back(open).kind = "using"
        /\ ctx' = UnuseNamespace(ctx) /\ open' = Pop(open)
    BY <1>5 DEF CloseUsing, Leave
  <2>2. /\ Grows(ctx, UnuseNamespace(ctx)) /\ UnuseNamespace(ctx).active = ctx.active
        /\ UnuseNamespace(ctx).used = Pop(ctx.used)
    BY <1>1, <2>1, Innermost, PopUsedKeeps
  <2> QED  BY <2>1, <2>2, Innermost, LeaveGrowing
<1>6. ASSUME NEW nm \in VarNames, DefineVariable(nm) PROVE IInv'
  BY <1>1, <1>6, AddVariableKeeps, StayPreserves DEF DefineVariable
<1>7. ASSUME NEW nm \in FunNames, NEW ps \in Parameters, BeginFunction(nm, ps) PROVE IInv'
  <2>1. PICK n \in Nodes : Entered(ctx, BeginFn(ctx, nm, ps), n)
    BY <1>1, <1>7, BeginFnEnters DEF BeginFunction, Room
  <2> QED  BY <1>7, <2>1, EnterPreserves DEF BeginFunction, Entered, Activates, Kinds
<1>8. ASSUME NEW ps \in Parameters, BeginAnonFunction(ps) PROVE IInv'
  <2>1. ctx.nextfn \in Fns /\ ctx.nextfn \in Nat
    BY <1>8 DEF BeginAnonFunction, Fns
  <2>2. PICK n \in Nodes : Entered(ctx, BeginFn(ctx, ctx.nextfn, ps), n)
    BY <1>1, <1>8, <2>1, BeginFnEnters DEF BeginAnonFunction, Room
  <2> QED  BY <1>8, <2>1, <2>2, EnterPreserves DEF BeginAnonFunction, Entered, Activates, Kinds
<1>9. ASSUME EndFunction \/ AbandonAnonFunction PROVE IInv'
  <2>1. /\ open # <<>> /\ Activates(Back(open).kind)
        /\ ctx' = LeaveBody(ctx, Back(open).name) /\ open' = Pop(open)
    BY <1>9 DEF EndFunction, AbandonAnonFunction, Leave, Activates, Kinds
  <2>2. Left(ctx, LeaveBody(ctx, Back(open).name))
    BY <1>1, <2>1, Innermost, LeaveBodyLeaves
  <2> QED  BY <2>1, <2>2, LeaveActivated
<1>10. ASSUME EndAnonFunction PROVE IInv'
  <2> DEFINE c == LeaveBody(ctx, Back(open).name)
             d == ZeroIndices(c, ctx.lv_index)
  <2>1. /\ open # <<>> /\ Activates(Back(open).kind)
        /\ ctx' = d /\ open' = Pop(open)
    BY <1>10 DEF EndAnonFunction, Leave, Activates, Kinds
  <2>2. Left(ctx, c)
    BY <1>1, <2>1, Innermost, LeaveBodyLeaves
  <2>3. ctx.lv_index \in Int
    BY <1>1, FieldTypes
  <2> HIDE DEF c
  <2>4. SameStacks(c, d)
    BY <2>2, <2>3, ZeroIndicesKeeps DEF Left, Grows
  <2>5. Left(ctx, d)
    BY <1>1, <2>2, <2>4, GrowsTransitive DEF Left, SameStacks
  <2> QED  BY <2>1, <2>5, LeaveActivated
<1>11. ASSUME NEW kind \in {"new_scope", "branch"}, OpenScope(kind) PROVE IInv'
  <2>1. PICK n \in Nodes : Pushed(ctx, ActivateAnonymousNamespace(ctx), n)
    BY <1>1, <1>11, AnonymousPushes DEF OpenScope, Room
  <2> QED  BY <1>11, <2>1, EnterPreserves DEF OpenScope, Pushed, Entered, Activates, Kinds
<1>12. ASSUME CloseBranch PROVE IInv'
  <2>1. /\ open # <<>> /\ Activates(Back(open).kind) /\ open' = Pop(open)
        /\ ctx' = [ctx EXCEPT !.active = Pop(@), !.used = Pop(@)]
    BY <1>12 DEF CloseBranch, DeactivateAnonymousNamespace, Leave, Activates, Kinds
  <2>2. Left(ctx, ctx')
    BY <1>1, <2>1, Innermost, PopBothLeaves
  <2> QED  BY <2>1, <2>2, LeaveActivated
<1>13. ASSUME BeginCall PROVE IInv'
  BY <1>1, <1>13, GrowsReflexive, EnterPreserves DEF BeginCall, Activates, Kinds
<1>14. ASSUME EndCall PROVE IInv'
  <2>1. open # <<>> /\ Back(open).kind = "call" /\ ctx' = ctx /\ open' = Pop(open)
    BY <1>14 DEF EndCall, Leave
  <2> QED  BY <1>1, <2>1, Innermost, GrowsReflexive, LeaveGrowing
<1>15. ASSUME RestoreCall PROVE IInv'
  <2> DEFINE saved == Back(open).saved
             d == RestoreContext(ctx, saved)
  <2>1. /\ open # <<>> /\ Back(open).kind = "call" /\ open' = Pop(open) /\ ctx' = d
    BY <1>15 DEF RestoreCall, Leave
  <2>2. /\ Len(open) \in 1 .. Len(open) /\ Back(open) = open[Len(open)]
        /\ saved.active = ctx.active /\ saved.used = ctx.used
        /\ CutTo(ctx.active, ctx.active, Back(open).alen)
        /\ CutTo(ctx.used, ctx.used, Back(open).ulen)
    BY <2>1, Innermost
  <2>3. WF(saved) /\ VarsReach(saved, ctx)
    BY <2>1, <2>2 DEF IInv, SavePointsNest, SavedCountsReached
  <2> HIDE DEF saved
  <2>4. /\ WF(d) /\ d.active = ctx.active /\ d.used = ctx.used /\ d.name = ctx.name
        /\ d.errors = ctx.errors /\ VarsReach(saved, d)
    BY <1>1, <2>2, <2>3, RestoreContextKeeps
  <2>5. ASSUME NEW i \in 1 .. Len(open) - 1, open[i].kind = "call"
        PROVE  VarsReach(open[i].saved, d)
    <3>1. i \in 1 .. Len(open) /\ Len(open) \in i + 1 .. Len(open)
      BY LenProperties DEF IInv
    <3>2. WF(open[i].saved) /\ VarsReach(open[i].saved, saved)
      BY <2>1, <2>2, <2>5, <3>1 DEF IInv, SavePointsNest, saved
    <3> QED  BY <2>3, <2>4, <3>2, ReachTransitive
  <2> HIDE DEF d
  <2> QED  BY <2>1, <2>2, <2>4, <2>5, LeavePreserves
<1>16. ASSUME UNCHANGED vars PROVE IInv'
  BY <1>1, <1>16, GrowsReflexive, StayPreserves DEF vars, SameStacks
<1> QED
  BY <1>2, <1>3, <1>4, <1>5, <1>6, <1>7, <1>8, <1>9, <1>10, <1>11, <1>12, <1>13,
     <1>14, <1>15, <1>16 DEF Next

(* The stacks, the open forms and the save points fit together in every    *)
(* state, for any number of namespaces, functions and nested forms.        *)
THEOREM Invariance == Spec => []IInv
<1>1. Init => IInv
  BY InitIInv
<1>2. IInv /\ [Next]_vars => IInv'
  BY NextIInv
<1> QED  BY <1>1, <1>2, PTL DEF Spec

(* Every part of the context keeps its type.                               *)
THEOREM TypeCorrect == Spec => []TypeOK
<1>1. IInv => TypeOK
  BY DEF IInv, WF, TypeOK
<1> QED  BY <1>1, Invariance, PTL

(* Leaving a form uncovers the stacks it found.                            *)
THEOREM StacksFollowForms == Spec => []StackDiscipline
<1>1. IInv => StackDiscipline
  BY DEF IInv
<1> QED  BY <1>1, Invariance, PTL

(* deactivateNamespace never reports either of its errors.                 *)
THEOREM Deactivations == Spec => []NoDeactivationError
<1>1. IInv => NoDeactivationError
  BY DEF IInv
<1> QED  BY <1>1, Invariance, PTL

(* All active namespaces are used (Context.h).                             *)
THEOREM ActiveUsed == Spec => []ActiveAreUsed
<1>1. IInv => ActiveAreUsed
  <2> SUFFICES ASSUME IInv, NEW k \in 1 .. Len(ctx.active)
               PROVE  \E j \in 1 .. Len(ctx.used) : ctx.used[j] = ctx.active[k]
    BY DEF ActiveAreUsed
  <2>1. Len(ctx.active) \in Nat \ {0} /\ Len(ctx.used) \in Nat \ {0}
    BY StackLengths DEF IInv
  <2>2. CASE k = 1
    BY <2>1, <2>2 DEF IInv
  <2>3. CASE k # 1
    <3>1. k \in 2 .. Len(ctx.active)
      BY <2>1, <2>3
    <3>2. PICK i \in 1 .. Len(open) : Activates(open[i].kind) /\ open[i].alen + 1 = k
      BY <3>1 DEF IInv, ActivationsAreOpen
    <3>3. /\ open[i].ulen + 1 \in 1 .. Len(ctx.used)
          /\ ctx.active[open[i].alen + 1] = open[i].node
          /\ ctx.used[open[i].ulen + 1] = open[i].node
      BY <3>2, NodeOnStack DEF IInv, StackDiscipline, FrameOK
    <3> QED  BY <3>2, <3>3
  <2> QED  BY <2>2, <2>3
<1> QED  BY <1>1, Invariance, PTL

(* No save point dangles, whichever nested one was restored before it.     *)
THEOREM SavePointsAreLive == Spec => []NoDanglingNode
<1>1. IInv => NoDanglingNode
  <2> SUFFICES ASSUME IInv, NEW i \in 1 .. Len(open), open[i].kind = "call"
               PROVE  NS(open[i].saved) \in ctx.live
    BY DEF NoDanglingNode, IInv, WF
  <2>1. /\ WF(open[i].saved) /\ FrameOK(i)
    BY DEF IInv, SavePointsNest, StackDiscipline
  <2>2. /\ open[i].alen \in Nat \ {0} /\ open[i].alen <= Len(ctx.active)
        /\ Len(ctx.active) \in Nat /\ ctx.active \in Seq(Nodes)
    BY <2>1, FrameFields, StackLengths DEF FrameOK, IInv
  <2> DEFINE s == open[i].saved.active
             k == open[i].alen
  <2>3. s = SubSeq(ctx.active, 1, k)
    BY <2>1 DEF FrameOK
  <2> HIDE DEF k
  <2>4. Len(s) = k /\ \A j \in 1 .. k : s[j] = ctx.active[j]
    BY <2>2, <2>3, PrefixType DEF k
  <2>5. s[k] = ctx.active[k] /\ k \in 1 .. Len(ctx.active)
    BY <2>2, <2>4 DEF k
  <2>6. NS(open[i].saved) = s[k]
    BY <2>4 DEF NS, Back
  <2> QED  BY <2>5, <2>6 DEF IInv, WF, StackNodes
<1> QED  BY <1>1, Invariance, PTL

(* Restoring a save point never pops more than there is.                   *)
THEOREM RestoresEnd == Spec => []SavedCountsReached
<1>1. IInv => SavedCountsReached
  BY DEF IInv
<1> QED  BY <1>1, Invariance, PTL
-----------------------------------------------------------------------------
(* Every step keeps the names below the counter, and enters scopes that    *)
(* are new.                                                                *)
LEMMA NextNamesBelow ==
  ASSUME MaxNodes < AnonLimit, IInv, NamesBelow(ctx), [Next]_vars
  PROVE  /\ NamesBelow(ctx)'
         /\ Len(open') > Len(open)
            /\ Back(open').kind \in {"new_scope", "branch", "fn", "anon_fn"}
              => NS(ctx') \notin ctx.live
<1> DEFINE Goal == /\ NamesBelow(ctx')
                   /\ Len(open') > Len(open)
                      /\ Back(open').kind \in {"new_scope", "branch", "fn", "anon_fn"}
                        => NS(ctx') \notin ctx.live
<1>1. /\ WF(ctx) /\ ctx \in ContextType /\ ctx.fresh \in Nat /\ MaxNodes \in Nat
      /\ open \in Seq(FrameType) /\ Len(open) \in Nat
  BY Counts, SizeAssumption, LenProperties DEF IInv, WF
<1>2. ASSUME NEW kind, NEW c, NEW fn, Enter(kind, c, fn), NamesBelow(c),
             kind \in {"new_scope", "branch", "fn", "anon_fn"} => NS(c) \notin ctx.live
      PROVE  Goal
  <2>1. Back(open').kind = kind /\ ctx' = c
    <3>1. open' = Append(open, Frame(kind, c, fn)) /\ ctx' = c
      BY <1>2 DEF Enter
    <3>2. Frame(kind, c, fn).kind = kind
      BY DEF Frame
    <3>3. Len(open') = Len(open) + 1 /\ open'[Len(open) + 1] = Frame(kind, c, fn)
      BY <1>1, <3>1
    <3> QED  BY <3>1, <3>2, <3>3 DEF Back
  <2> QED  BY <1>2, <2>1
<1>3. ASSUME NEW kind, NEW c, Leave(kind, c), Quiet(ctx, c)
      PROVE  Goal
  <2>1. NamesBelow(c) /\ ctx' = c
    BY <1>3, QuietKeeps DEF Leave
  <2>2. Len(open') = Len(open) - 1
    BY <1>1, <1>3, PopType DEF Leave
  <2> QED  BY <1>1, <2>1, <2>2
<1>4. ASSUME NEW nm \in NsNames, OpenNamespace(nm) PROVE Goal
  <2>1. /\ ctx.fresh <= MaxNodes /\ Enter("namespace", ActivateNamespace(ctx, nm), NoFn)
    BY <1>1, <1>4 DEF OpenNamespace, Room
  <2> QED  BY <1>1, <1>2, <2>1, NamedKeeps
<1>5. ASSUME NEW nm \in NsNames, OpenUsing(nm) PROVE Goal
  <2>1. PICK n \in ctx.live : Enter("using", UseNamespace(ctx, n), NoFn)
    BY <1>5 DEF OpenUsing
  <2>2. Quiet(ctx, UseNamespace(ctx, n))
    BY <1>1 DEF UseNamespace, Quiet, ContextType
  <2> QED  BY <1>2, <2>1, <2>2, QuietKeeps
<1>6. ASSUME CloseNamespace \/ CloseNewScope PROVE Goal
  BY <1>1, <1>3, <1>6, DeactivateQuiet DEF CloseNamespace, CloseNewScope
<1>7. ASSUME CloseUsing PROVE Goal
  <2>1. Quiet(ctx, UnuseNamespace(ctx))
    BY <1>1 DEF UnuseNamespace, Quiet, ContextType
  <2> QED  BY <1>3, <1>7, <2>1 DEF CloseUsing
<1>8. ASSUME NEW nm \in VarNames, DefineVariable(nm) PROVE Goal
  <2>1. Quiet(ctx, ctx') /\ open' = open
    BY <1>1, <1>8 DEF DefineVariable, AddVariable, Quiet, ContextType
  <2> QED  BY <1>1, <2>1, QuietKeeps
<1>9. ASSUME NEW nm \in FunNames, NEW ps \in Parameters, BeginFunction(nm, ps) PROVE Goal
  BY <1>1, <1>2, <1>9, BeginFnIsFresh DEF BeginFunction, Room
<1>10. ASSUME NEW ps \in Parameters, BeginAnonFunction(ps) PROVE Goal
  <2>1. ctx.nextfn \in Fns /\ ctx.nextfn \in Nat
    BY <1>10 DEF BeginAnonFunction, Fns
  <2> QED  BY <1>1, <1>2, <1>10, <2>1, BeginFnIsFresh DEF BeginAnonFunction, Room
<1>11. ASSUME EndFunction \/ AbandonAnonFunction PROVE Goal
  BY <1>1, <1>3, <1>11, LeaveBodyQuiet DEF EndFunction, AbandonAnonFunction
<1>12. ASSUME EndAnonFunction PROVE Goal
  <2> DEFINE b == LeaveBody(ctx, Back(open).name)
  <2>1. Leave("anon_fn", ZeroIndices(b, ctx.lv_index)) /\ Quiet(ctx, b)
    BY <1>1, <1>12, LeaveBodyQuiet DEF EndAnonFunction
  <2>2. Quiet(b, ZeroIndices(b, ctx.lv_index))
    BY <1>1 DEF LeaveBody, DeactivateNamespace, ZeroIndices, Quiet, ContextType
  <2> HIDE DEF b
  <2> QED  BY <1>3, <2>1, <2>2 DEF Quiet
<1>13. ASSUME NEW kind \in {"new_scope", "branch"}, OpenScope(kind) PROVE Goal
  <2>1. /\ ctx.fresh <= MaxNodes /\ Enter(kind, ActivateAnonymousNamespace(ctx), NoFn)
    BY <1>1, <1>13 DEF OpenScope, Room
  <2>2. Fresh(ctx, ActivateAnonymousNamespace(ctx))
    BY <1>1, <2>1, AnonymousIsFresh
  <2> QED  BY <1>1, <1>2, <2>1, <2>2, FreshIsNew DEF Fresh
<1>14. ASSUME CloseBranch PROVE Goal
  <2>1. Quiet(ctx, DeactivateAnonymousNamespace(ctx))
    BY <1>1 DEF DeactivateAnonymousNamespace, Quiet, ContextType
  <2> QED  BY <1>3, <1>14, <2>1 DEF CloseBranch
<1>15. ASSUME BeginCall PROVE Goal
  BY <1>2, <1>15 DEF BeginCall
<1>16. ASSUME EndCall PROVE Goal
  BY <1>3, <1>16 DEF EndCall, Quiet
<1>17. ASSUME RestoreCall PROVE Goal
  <2>1. Quiet(ctx, RestoreContext(ctx, Back(open).saved))
    BY <1>1 DEF RestoreContext, Quiet, ContextType
  <2> QED  BY <1>3, <1>17, <2>1 DEF RestoreCall
<1>18. ASSUME UNCHANGED vars PROVE Goal
  BY <1>1, <1>18 DEF vars
<1> HIDE DEF Goal
<1>19. Goal
  BY <1>4, <1>5, <1>6, <1>7, <1>8, <1>9, <1>10, <1>11, <1>12, <1>13, <1>14, <1>15,
     <1>16, <1>17, <1>18 DEF Next
<1> QED  BY <1>19 DEF Goal

(* As long as their numbers fit into the buffer they are printed to, no    *)
(* new-scope, branch of an if or function body enters a namespace that was *)
(* there before.                                                           *)
THEOREM FreshScopes == ASSUME MaxNodes < AnonLimit PROVE Spec => FreshScope
<1>1. Init => NamesBelow(ctx)
  <2> SUFFICES ASSUME NEW pre \in PreIndices, ctx = EmptyContext(pre)
               PROVE  NamesBelow(ctx)
    BY DEF Init
  <2>1. ctx.live = {1} /\ ctx.fresh = 2 /\ ctx.anon = 0 /\ ctx.name[1] = 0
    <3>1. 1 \in Nodes
      BY SizeAssumption DEF Nodes
    <3>2. ctx.name[1] = 0
      BY <3>1 DEF EmptyContext
    <3>3. ctx.live = {1} /\ ctx.fresh = 2 /\ ctx.anon = 0
      BY DEF EmptyContext, Root
    <3> QED  BY <3>2, <3>3
  <2> QED  BY <2>1 DEF NamesBelow
<1>2. IInv /\ NamesBelow(ctx) /\ [Next]_vars => NamesBelow(ctx)'
  BY NextNamesBelow
<1>3. IInv /\ NamesBelow(ctx) /\ [Next]_vars =>
        [Len(open') > Len(open)
         /\ Back(open').kind \in {"new_scope", "branch", "fn", "anon_fn"}
           => NS(ctx') \notin ctx.live]_vars
  BY NextNamesBelow
<1> QED  BY <1>1, <1>2, <1>3, Invariance, PTL DEF Spec, FreshScope
-----------------------------------------------------------------------------
(***************************************************************************)
(* The restoration of a save point undoes what the arguments of a macro    *)
(* declared (RestoreUndoesVariables).  What a form adds to a context it    *)
(* adds below the current namespace: new namespaces hang from it, and only *)
(* namespaces on the way to the root from one of those, or from itself,    *)
(* get variables (Extends).  So every namespace that is there when a save  *)
(* point is restored, and was not when it was taken, is below the one that *)
(* was current then, as restore expects.                                   *)
(***************************************************************************)
(* What every save point that is open saved has only been added to since.  *)
Saves(c, fs) ==
  \A i \in 1 .. Len(fs) : fs[i].kind = "call" =>
    /\ Tree(fs[i].saved) /\ Extends(fs[i].saved, c)
    /\ \A j \in i + 1 .. Len(fs) : fs[j].kind = "call" => Extends(fs[i].saved, fs[j].saved)

(* The stack of function scopes holds the functions of the open forms: up  *)
(* to form i, h[i] of them.                                                *)
Depths(h, c, fs) ==
  /\ h \in [0 .. Len(fs) -> Nat] /\ h[0] = 0 /\ h[Len(fs)] = Len(c.scopes)
  /\ \A i, j \in 0 .. Len(fs) : i <= j =>
       /\ h[i] <= h[j]
       /\ (\A k \in i + 1 .. j : fs[k].fn = NoFn) => h[i] = h[j]
  /\ \A i \in 1 .. Len(fs) :
       /\ fs[i].fn # NoFn <=> fs[i].kind \in {"fn", "anon_fn"}
       /\ fs[i].fn # NoFn => h[i] = h[i - 1] + 1 /\ c.scopes[h[i]] = fs[i].fn
       /\ fs[i].kind = "call" => fs[i].saved.scopes = SubSeq(c.scopes, 1, h[i])

ScopesAreForms(c, fs) == \E h : Depths(h, c, fs)

VariablesInv ==
  Tree(ctx) /\ Saves(ctx, open) /\ ScopesAreForms(ctx, open) /\ Indexed(ctx)
-----------------------------------------------------------------------------
(***************************************************************************)
(* The steps.                                                              *)
(***************************************************************************)
(* What adds to the context adds to what the open save points saved.       *)
LEMMA SavesStep ==
  ASSUME IInv, VariablesInv, NEW c, WF(c), Tree(c), Extends(ctx, c),
         NEW i \in 1 .. Len(open), open[i].kind = "call"
  PROVE  Extends(open[i].saved, c)
<1> DEFINE s == open[i].saved
<1>1. /\ WF(ctx) /\ Tree(ctx) /\ WF(s) /\ Tree(s) /\ Extends(s, ctx)
  BY DEF IInv, SavePointsNest, VariablesInv, Saves
<1>2. /\ s.active = SubSeq(ctx.active, 1, open[i].alen) /\ open[i].alen \in 1 .. Len(ctx.active)
  BY DEF IInv, StackDiscipline, FrameOK
<1> HIDE DEF s
<1>3. NS(s) \in Chain(ctx, NS(ctx))
  <2>1. /\ ctx.active \in Seq(Nodes) /\ Len(ctx.active) \in Nat
    BY <1>1, Parts
  <2> DEFINE k == open[i].alen
  <2>2. k \in 1 .. Len(ctx.active) /\ s.active = SubSeq(ctx.active, 1, k)
    BY <1>2
  <2> HIDE DEF k
  <2>3. Len(s.active) = k /\ s.active[k] = ctx.active[k]
    BY <2>1, <2>2, PrefixType
  <2>4. NS(s) = ctx.active[k]
    BY <2>3 DEF NS, Back
  <2> QED  BY <1>1, <2>2, <2>4, OnPath
<1>4. Extends(s, c)
  BY <1>1, <1>3, ExtendsTransitive DEF Tree
<1> QED  BY <1>4 DEF s

(* Opening a form, what it does to the function scopes.                    *)
LEMMA EnterScopes ==
  ASSUME NEW fs \in Seq(FrameType), NEW c, NEW d, WF(c), ScopesAreForms(c, fs), NEW fr \in FrameType,
         fr.fn # NoFn <=> fr.kind \in {"fn", "anon_fn"},
         d.scopes = IF fr.fn = NoFn THEN c.scopes ELSE Append(c.scopes, fr.fn),
         fr.kind = "call" => fr.saved.scopes = c.scopes
  PROVE  ScopesAreForms(d, Append(fs, fr))
<1> DEFINE l == Len(fs)
           gs == Append(fs, fr)
           top == Len(c.scopes)
<1>1. PICK h : Depths(h, c, fs)
  BY DEF ScopesAreForms
<1>2. /\ l \in Nat /\ Len(gs) = l + 1 /\ gs[l + 1] = fr /\ \A i \in 1 .. l : gs[i] = fs[i]
  BY AppendProperties, LenProperties
<1>3. c.scopes \in Seq(Fns) /\ top \in Nat
  BY Parts, FieldTypes, LenProperties
<1>4. h \in [0 .. l -> Nat] /\ h[0] = 0 /\ h[l] = top
  BY <1>1 DEF Depths
<1>5. fr.fn \in Fns \/ fr.fn = NoFn
  BY DEF FrameType
<1> DEFINE new == IF fr.fn = NoFn THEN top ELSE top + 1
           g == [i \in 0 .. l + 1 |-> IF i <= l THEN h[i] ELSE new]
<1>6. /\ new \in Nat /\ new = Len(d.scopes) /\ top <= new
      /\ fr.fn # NoFn => new = top + 1 /\ d.scopes[new] = fr.fn
      /\ \A k \in 1 .. top : d.scopes[k] = c.scopes[k]
      /\ d.scopes \in Seq(Fns)
  BY <1>3, <1>5, AppendProperties
<1>7. /\ g \in [0 .. l + 1 -> Nat] /\ g[l + 1] = new
      /\ \A i \in 0 .. l : g[i] = h[i]
  BY <1>2, <1>4, <1>6
<1> HIDE DEF g, new, gs, l, top
<1>8. \A i \in 0 .. l : h[i] \in Nat /\ h[i] <= top
  BY <1>1, <1>2, <1>4 DEF Depths, l
<1>9. ASSUME NEW i \in 0 .. l + 1, NEW j \in 0 .. l + 1, i <= j
      PROVE  /\ g[i] <= g[j]
             /\ (\A k \in i + 1 .. j : gs[k].fn = NoFn) => g[i] = g[j]
  <2>1. CASE j \in 0 .. l
    <3>1. i \in 0 .. l
      BY <1>2, <1>9, <2>1
    <3>2. \A k \in i + 1 .. j : gs[k] = fs[k]
      <4>1. l \in Nat /\ \A k \in 1 .. l : gs[k] = fs[k]
        BY <1>2
      <4>2. \A k \in i + 1 .. j : k \in 1 .. l
        BY ONLY <4>1, <2>1, <3>1
      <4> QED  BY ONLY <4>1, <4>2
    <3>3. /\ h[i] <= h[j]
          /\ (\A k \in i + 1 .. j : fs[k].fn = NoFn) => h[i] = h[j]
      BY <1>1, <1>9, <2>1, <3>1 DEF Depths, l
    <3>4. g[i] = h[i] /\ g[j] = h[j]
      BY <1>7, <2>1, <3>1
    <3>5. ASSUME \A k \in i + 1 .. j : gs[k].fn = NoFn PROVE g[i] = g[j]
      <4>1. ASSUME NEW k \in i + 1 .. j PROVE fs[k].fn = NoFn
        BY <3>2, <3>5
      <4> QED  BY <3>3, <3>4, <4>1
    <3> QED  BY <3>3, <3>4, <3>5
  <2>2. CASE j = l + 1 /\ i \in 0 .. l
    <3>1. g[i] = h[i] /\ g[j] = new /\ h[i] <= top
      BY <1>7, <1>8, <2>2
    <3>2. ASSUME \A k \in i + 1 .. j : gs[k].fn = NoFn PROVE g[i] = g[j]
      <4>1. fr.fn = NoFn
        <5>1. l + 1 \in i + 1 .. j
          BY <1>2, <2>2
        <5> QED  BY <1>2, <3>2, <5>1
      <4>2. \A k \in i + 1 .. l : fs[k].fn = NoFn
        <5>1. \A k \in i + 1 .. l : k \in i + 1 .. j /\ k \in 1 .. l
          BY <1>2, <2>2
        <5> QED  BY <1>2, <3>2, <5>1
      <4>3. i \in 0 .. Len(fs) /\ Len(fs) \in 0 .. Len(fs) /\ i <= Len(fs)
        BY <1>2, <2>2 DEF l
      <4>4. h[i] = h[l]
        BY <1>1, <4>2, <4>3 DEF Depths, l
      <4>5. new = top
        BY <4>1 DEF new
      <4> QED  BY <1>4, <3>1, <4>4, <4>5
    <3>3. g[i] <= g[j]
      <4>1. h[i] \in Nat /\ top <= new /\ new \in Nat /\ top \in Nat
        BY <1>3, <1>6, <1>8, <2>2
      <4> QED  BY <3>1, <4>1
    <3> QED  BY <3>2, <3>3
  <2>3. CASE j = l + 1 /\ i = l + 1
    BY <1>6, <1>7, <2>3
  <2> QED  BY <1>2, <2>1, <2>2, <2>3
<1>10. ASSUME NEW i \in 1 .. l + 1
       PROVE  /\ gs[i].fn # NoFn <=> gs[i].kind \in {"fn", "anon_fn"}
              /\ gs[i].fn # NoFn => g[i] = g[i - 1] + 1 /\ d.scopes[g[i]] = gs[i].fn
              /\ gs[i].kind = "call" => gs[i].saved.scopes = SubSeq(d.scopes, 1, g[i])
  <2>1. CASE i \in 1 .. l
    <3>1. /\ gs[i] = fs[i] /\ g[i] = h[i] /\ g[i - 1] = h[i - 1] /\ h[i] \in Nat /\ h[i] <= top
          /\ h[i - 1] \in Nat
      <4>1. i \in 0 .. l /\ i - 1 \in 0 .. l
        BY <1>2, <2>1
      <4> QED  BY <1>2, <1>7, <1>8, <2>1, <4>1
    <3>2. SubSeq(d.scopes, 1, h[i]) = SubSeq(c.scopes, 1, h[i])
      <4>1. \A k \in 1 .. h[i] : d.scopes[k] = c.scopes[k]
        BY <1>3, <1>6, <3>1
      <4>2. h[i] <= Len(d.scopes) /\ h[i] <= Len(c.scopes)
        BY <1>3, <1>6, <3>1 DEF top
      <4> QED  BY <1>3, <1>6, <3>1, <4>1, <4>2, SamePrefix
    <3>3. /\ fs[i].fn # NoFn <=> fs[i].kind \in {"fn", "anon_fn"}
          /\ fs[i].fn # NoFn => h[i] = h[i - 1] + 1 /\ c.scopes[h[i]] = fs[i].fn
          /\ fs[i].kind = "call" => fs[i].saved.scopes = SubSeq(c.scopes, 1, h[i])
      BY <1>1, <2>1 DEF Depths, l
    <3>4. fs[i].fn # NoFn => d.scopes[h[i]] = c.scopes[h[i]]
      BY <1>3, <1>6, <3>1, <3>3
    <3> QED  BY <3>1, <3>2, <3>3, <3>4
  <2>2. CASE i = l + 1
    <3>1. gs[i] = fr /\ g[i] = new /\ g[i - 1] = top
      BY <1>2, <1>4, <1>7, <2>2
    <3>2. fr.kind = "call" => fr.saved.scopes = SubSeq(d.scopes, 1, new)
      <4>1. fr.kind = "call" => fr.fn = NoFn
        OBVIOUS
      <4>2. fr.fn = NoFn => d.scopes = c.scopes /\ new = Len(c.scopes)
        BY DEF new, top
      <4>3. SubSeq(c.scopes, 1, Len(c.scopes)) = c.scopes
        BY <1>3, SubSeqFull
      <4> QED  BY <4>1, <4>2, <4>3
    <3>3. fr.fn # NoFn => new = top + 1 /\ d.scopes[new] = fr.fn
      BY <1>6
    <3> QED  BY <3>1, <3>2, <3>3
  <2>3. i \in 1 .. l \/ i = l + 1
    BY <1>2
  <2> QED  BY <2>1, <2>2, <2>3
<1>11. g[0] = 0 /\ g[l + 1] = Len(d.scopes)
  BY <1>2, <1>4, <1>6, <1>7
<1>12. Depths(g, d, gs)
  <2>1. /\ g \in [0 .. Len(gs) -> Nat] /\ g[Len(gs)] = Len(d.scopes)
        /\ 0 .. Len(gs) = 0 .. l + 1 /\ 1 .. Len(gs) = 1 .. l + 1
    BY <1>2, <1>7, <1>11
  <2>2. \A i, j \in 0 .. Len(gs) : i <= j =>
          /\ g[i] <= g[j]
          /\ (\A k \in i + 1 .. j : gs[k].fn = NoFn) => g[i] = g[j]
    BY ONLY <2>1, <1>9
  <2>3. \A i \in 1 .. Len(gs) :
          /\ gs[i].fn # NoFn <=> gs[i].kind \in {"fn", "anon_fn"}
          /\ gs[i].fn # NoFn => g[i] = g[i - 1] + 1 /\ d.scopes[g[i]] = gs[i].fn
          /\ gs[i].kind = "call" => gs[i].saved.scopes = SubSeq(d.scopes, 1, g[i])
    BY ONLY <2>1, <1>10
  <2> QED  BY ONLY <1>11, <2>1, <2>2, <2>3 DEF Depths
<1> QED  BY <1>12 DEF ScopesAreForms, gs

(* And leaving it.                                                         *)
LEMMA LeaveScopes ==
  ASSUME NEW fs \in Seq(FrameType), fs # <<>>, NEW c, NEW d, WF(c), ScopesAreForms(c, fs),
         d.scopes = IF Back(fs).fn = NoFn THEN c.scopes ELSE Pop(c.scopes)
  PROVE  ScopesAreForms(d, Pop(fs))
<1> DEFINE l == Len(fs)
           gs == Pop(fs)
           top == Len(c.scopes)
<1>1. PICK h : Depths(h, c, fs)
  BY DEF ScopesAreForms
<1>2. /\ l \in Nat \ {0} /\ Len(gs) = l - 1 /\ Back(fs) = fs[l]
      /\ \A i \in 1 .. l - 1 : gs[i] = fs[i]
  BY PopType, EmptySeq, LenProperties
<1>3. c.scopes \in Seq(Fns) /\ top \in Nat
  BY Parts, FieldTypes, LenProperties
<1>4. h \in [0 .. l -> Nat] /\ h[0] = 0 /\ h[l] = top
  BY <1>1 DEF Depths
<1> HIDE DEF l, gs, top
<1>5. /\ l - 1 \in 0 .. l /\ l \in 1 .. l /\ l \in 0 .. l
  BY <1>2
<1>6. /\ fs[l].fn = NoFn => h[l - 1] = h[l]
      /\ fs[l].fn # NoFn => h[l] = h[l - 1] + 1
  <2>1. ASSUME fs[l].fn = NoFn PROVE h[l - 1] = h[l]
    <3>1. \A k \in (l - 1) + 1 .. l : fs[k].fn = NoFn
      BY <1>2, <2>1
    <3>2. l - 1 \in 0 .. Len(fs) /\ l \in 0 .. Len(fs) /\ l - 1 <= l
      BY <1>2 DEF l
    <3> QED  BY <1>1, <3>1, <3>2 DEF Depths
  <2>2. fs[l].fn # NoFn => h[l] = h[l - 1] + 1
    BY <1>1, <1>5 DEF Depths, l
  <2> QED  BY <2>1, <2>2
<1>0. d.scopes \in Seq(Fns)
  <2>1. Back(fs).fn # NoFn => c.scopes # <<>>
    <3>1. fs[l].fn # NoFn => top = h[l - 1] + 1 /\ h[l - 1] \in Nat
      BY <1>4, <1>5, <1>6
    <3> QED  BY <1>2, <1>3, <3>1, EmptySeq DEF top
  <2> QED  BY <1>3, <2>1, PopType
<1>7. /\ h[l - 1] \in Nat /\ h[l - 1] = Len(d.scopes) /\ h[l - 1] <= top
      /\ \A k \in 1 .. h[l - 1] : d.scopes[k] = c.scopes[k]
  <2>1. h[l - 1] \in Nat
    BY <1>4, <1>5
  <2>2. CASE fs[l].fn = NoFn
    BY <1>2, <1>3, <1>4, <1>6, <2>1, <2>2 DEF top
  <2>3. CASE fs[l].fn # NoFn
    <3>1. top = h[l - 1] + 1 /\ d.scopes = Pop(c.scopes)
      BY <1>2, <1>3, <1>4, <1>6, <2>1, <2>3
    <3>2. c.scopes # <<>> /\ Len(c.scopes) = h[l - 1] + 1
      BY <1>3, <2>1, <3>1, EmptySeq DEF top
    <3>3. Len(d.scopes) = h[l - 1] /\ \A k \in 1 .. h[l - 1] : d.scopes[k] = c.scopes[k]
      <4>1. Len(c.scopes) - 1 = h[l - 1]
        BY <2>1, <3>2
      <4>2. /\ Len(Pop(c.scopes)) = Len(c.scopes) - 1
            /\ \A k \in 1 .. Len(c.scopes) - 1 : Pop(c.scopes)[k] = c.scopes[k]
        BY <1>3, <3>2, PopType
      <4> QED  BY <3>1, <4>1, <4>2
    <3> QED  BY <2>1, <3>1, <3>3
  <2> QED  BY <2>2, <2>3
<1> DEFINE g == [i \in 0 .. l - 1 |-> h[i]]
<1>8. \A i \in 0 .. l - 1 : i \in 0 .. l /\ h[i] \in Nat /\ h[i] <= h[l - 1]
  BY <1>1, <1>2, <1>4, <1>5 DEF Depths, l
<1>9. g \in [0 .. l - 1 -> Nat] /\ g[0] = 0 /\ g[l - 1] = Len(d.scopes)
  BY <1>2, <1>4, <1>7, <1>8
<1>10. ASSUME NEW i \in 0 .. l - 1, NEW j \in 0 .. l - 1, i <= j
       PROVE  /\ g[i] <= g[j]
              /\ (\A k \in i + 1 .. j : gs[k].fn = NoFn) => g[i] = g[j]
  <2>1. \A k \in i + 1 .. j : gs[k] = fs[k]
    BY <1>2
  <2> QED  BY <1>1, <1>8, <1>10, <2>1 DEF Depths, l
<1>11. ASSUME NEW i \in 1 .. l - 1
       PROVE  /\ gs[i].fn # NoFn <=> gs[i].kind \in {"fn", "anon_fn"}
              /\ gs[i].fn # NoFn => g[i] = g[i - 1] + 1 /\ d.scopes[g[i]] = gs[i].fn
              /\ gs[i].kind = "call" => gs[i].saved.scopes = SubSeq(d.scopes, 1, g[i])
  <2>1. /\ i \in 0 .. l - 1 /\ i - 1 \in 0 .. l - 1 /\ gs[i] = fs[i] /\ i \in 1 .. l
        /\ g[i] = h[i] /\ g[i - 1] = h[i - 1]
    BY <1>2
  <2>2. h[i] \in Nat /\ h[i - 1] \in Nat /\ h[i] <= h[l - 1]
    BY <1>8, <2>1
  <2>3. SubSeq(d.scopes, 1, h[i]) = SubSeq(c.scopes, 1, h[i])
    <3>1. \A k \in 1 .. h[i] : d.scopes[k] = c.scopes[k]
      BY <1>7, <2>2
    <3>2. h[i] <= Len(d.scopes) /\ h[i] <= Len(c.scopes)
      BY <1>3, <1>7, <2>2 DEF top
    <3> QED  BY <1>0, <1>3, <2>2, <3>1, <3>2, SamePrefix
  <2>4. /\ fs[i].fn # NoFn <=> fs[i].kind \in {"fn", "anon_fn"}
        /\ fs[i].fn # NoFn => h[i] = h[i - 1] + 1 /\ c.scopes[h[i]] = fs[i].fn
        /\ fs[i].kind = "call" => fs[i].saved.scopes = SubSeq(c.scopes, 1, h[i])
    BY <1>1, <2>1 DEF Depths, l
  <2>5. fs[i].fn # NoFn => d.scopes[h[i]] = c.scopes[h[i]]
    BY <1>7, <2>2, <2>4
  <2> QED  BY <2>1, <2>3, <2>4, <2>5
<1> HIDE DEF g
<1>12. Depths(g, d, gs)
  BY <1>2, <1>9, <1>10, <1>11 DEF Depths
<1> QED  BY <1>12 DEF ScopesAreForms, gs
(* A step that leaves the open forms as they are, or opens one, or leaves  *)
(* the innermost: what it does to the save points that stay open.          *)
LEMMA SavesStay ==
  ASSUME IInv, VariablesInv, NEW c, WF(c), Tree(c), Extends(ctx, c),
         NEW gs, Len(gs) \in Nat, Len(gs) <= Len(open),
         \A i \in 1 .. Len(gs) : gs[i] = open[i]
  PROVE  Saves(c, gs)
<1>1. Len(open) \in Nat /\ \A i \in 1 .. Len(gs) : i \in 1 .. Len(open)
  BY LenProperties DEF IInv
<1>2. ASSUME NEW i \in 1 .. Len(gs), gs[i].kind = "call"
      PROVE  /\ Tree(gs[i].saved) /\ Extends(gs[i].saved, c)
             /\ \A j \in i + 1 .. Len(gs) :
                  gs[j].kind = "call" => Extends(gs[i].saved, gs[j].saved)
  <2>1. i \in 1 .. Len(open) /\ gs[i] = open[i] /\ open[i].kind = "call"
    BY <1>1, <1>2
  <2>2. Extends(open[i].saved, c)
    BY <2>1, SavesStep
  <2>3. /\ Tree(open[i].saved)
        /\ \A j \in i + 1 .. Len(open) :
             open[j].kind = "call" => Extends(open[i].saved, open[j].saved)
    BY <2>1 DEF VariablesInv, Saves
  <2>4. \A j \in i + 1 .. Len(gs) : j \in i + 1 .. Len(open) /\ gs[j] = open[j]
    BY <1>1, <2>1
  <2> QED  BY <2>1, <2>2, <2>3, <2>4
<1> QED  BY <1>2 DEF Saves

(* What a form that is opened adds to.                                     *)
LEMMA EnterKeeps ==
  ASSUME IInv, IInv', VariablesInv, NEW kind \in Kinds, NEW c, NEW fn, Enter(kind, c, fn),
         Adds(ctx, c), fn # NoFn <=> kind \in {"fn", "anon_fn"},
         c.scopes = IF fn = NoFn THEN ctx.scopes ELSE Append(ctx.scopes, fn),
         kind = "call" => c = ctx
  PROVE  VariablesInv'
<1> DEFINE l == Len(open)
           fr == Frame(kind, c, fn)
<1>1. /\ ctx' = c /\ open' = Append(open, fr) /\ open \in Seq(FrameType) /\ l \in Nat
      /\ open' \in Seq(FrameType) /\ WF(ctx) /\ WF(c)
  <2>1. ctx' = c /\ open' = Append(open, fr) /\ open \in Seq(FrameType) /\ WF(ctx)
    BY DEF Enter, IInv
  <2>2. open' \in Seq(FrameType) /\ WF(ctx')
    BY DEF IInv, WF, StackNodes
  <2> QED  BY <2>1, <2>2, LenProperties
<1>2. /\ fr.kind = kind /\ fr.fn = fn
      /\ kind = "call" => fr.saved = ctx
  BY DEF Frame
<1> HIDE DEF fr, l
<1>3. /\ Len(open') = l + 1 /\ open'[l + 1] = fr /\ \A i \in 1 .. l : open'[i] = open[i]
  BY <1>1, AppendProperties DEF l
<1>4. fr \in FrameType
  BY <1>1, <1>3, ElementOfSeq
<1>5. Tree(c) /\ Extends(ctx, c)
  BY DEF Adds
<1>6. ScopesAreForms(c, open')
  <2>1. ScopesAreForms(ctx, open)
    BY DEF VariablesInv
  <2> QED  BY <1>1, <1>2, <1>4, <2>1, EnterScopes
<1>7. Indexed(c)
  BY DEF Adds, VariablesInv
<1>8. Saves(c, open')
  <2>1. Saves(c, open)
    BY <1>1, <1>5, SavesStay DEF l
  <2>2. ASSUME NEW i \in 1 .. Len(open'), open'[i].kind = "call"
        PROVE  /\ Tree(open'[i].saved) /\ Extends(open'[i].saved, c)
               /\ \A j \in i + 1 .. Len(open') :
                    open'[j].kind = "call" => Extends(open'[i].saved, open'[j].saved)
    <3>1. CASE i \in 1 .. l
      <4>1. open'[i] = open[i] /\ open[i].kind = "call"
        BY <1>3, <2>2, <3>1
      <4>2. /\ Tree(open[i].saved) /\ Extends(open[i].saved, c)
            /\ Extends(open[i].saved, ctx)
            /\ \A j \in i + 1 .. l :
                 open[j].kind = "call" => Extends(open[i].saved, open[j].saved)
        BY <2>1, <3>1, <4>1 DEF Saves, VariablesInv, l
      <4>3. ASSUME NEW j \in i + 1 .. Len(open'), open'[j].kind = "call"
            PROVE  Extends(open[i].saved, open'[j].saved)
        <5>1. CASE j = l + 1
          BY <1>2, <1>3, <4>2, <4>3, <5>1
        <5>2. CASE j # l + 1
          <6>1. j \in i + 1 .. l /\ j \in 1 .. l
            BY <1>1, <1>3, <3>1, <5>2 DEF l
          <6> QED  BY <1>3, <4>2, <4>3, <6>1
        <5> QED  BY <5>1, <5>2
      <4> QED  BY <4>1, <4>2, <4>3
    <3>2. CASE i = l + 1
      <4>1. open'[i].saved = ctx /\ c = ctx
        BY <1>2, <1>3, <2>2, <3>2
      <4>2. \A j \in i + 1 .. Len(open') : FALSE
        BY <1>1, <1>3, <3>2 DEF l
      <4> QED  BY <1>5, <4>1, <4>2
    <3>3. i \in 1 .. l \/ i = l + 1
      BY <1>1, <1>3 DEF l
    <3> QED  BY <3>1, <3>2, <3>3
  <2> QED  BY <2>2 DEF Saves
<1> QED  BY <1>1, <1>5, <1>6, <1>7, <1>8 DEF VariablesInv

(* And what one that is left.                                              *)
LEMMA LeaveKeeps ==
  ASSUME IInv, IInv', VariablesInv, NEW c, open # <<>>, ctx' = c, open' = Pop(open),
         Adds(ctx, c),
         c.scopes = IF Back(open).fn = NoFn THEN ctx.scopes ELSE Pop(ctx.scopes)
  PROVE  VariablesInv'
<1>1. open \in Seq(FrameType) /\ WF(ctx) /\ WF(c)
  BY DEF IInv, WF, StackNodes
<1>2. Tree(c) /\ Extends(ctx, c)
  BY DEF Adds
<1>3. ScopesAreForms(c, open')
  <2>1. ScopesAreForms(ctx, open)
    BY DEF VariablesInv
  <2> QED  BY <1>1, <2>1, LeaveScopes
<1>4. Indexed(c)
  BY DEF Adds, VariablesInv
<1>5. Saves(c, open')
  <2>1. /\ Len(open') \in Nat /\ Len(open') <= Len(open)
        /\ \A i \in 1 .. Len(open') : open'[i] = open[i]
    BY SMTT(20), <1>1, PopType
  <2> QED  BY <1>1, <1>2, <2>1, SavesStay
<1> QED  BY <1>2, <1>3, <1>4, <1>5 DEF VariablesInv

(* The innermost form's function.                                          *)
LEMMA InnermostFn ==
  ASSUME IInv, VariablesInv, open # <<>>
  PROVE  /\ Back(open).fn # NoFn <=> Back(open).kind \in {"fn", "anon_fn"}
         /\ Back(open).fn # NoFn => ctx.scopes # <<>> /\ Back(ctx.scopes) = Back(open).fn
         /\ Back(open).kind = "call" => Back(open).saved.scopes = ctx.scopes
<1> DEFINE l == Len(open)
<1>1. /\ l \in 1 .. Len(open) /\ l - 1 \in 0 .. Len(open) /\ Back(open) = open[l]
  <2>1. l \in Nat \ {0}
    BY EmptySeq DEF IInv
  <2> QED  BY <2>1 DEF Back
<1>2. PICK h : Depths(h, ctx, open)
  BY DEF VariablesInv, ScopesAreForms
<1>3. ctx.scopes \in Seq(Fns) /\ h[l] = Len(ctx.scopes) /\ h[l - 1] \in Nat
  BY <1>1, <1>2, FieldTypes DEF IInv, WF, Depths
<1>4. /\ open[l].fn # NoFn <=> open[l].kind \in {"fn", "anon_fn"}
      /\ open[l].fn # NoFn => h[l] = h[l - 1] + 1 /\ ctx.scopes[h[l]] = open[l].fn
      /\ open[l].kind = "call" => open[l].saved.scopes = SubSeq(ctx.scopes, 1, h[l])
  BY <1>1, <1>2 DEF Depths
<1> HIDE DEF l
<1>5. open[l].fn # NoFn => ctx.scopes # <<>> /\ Back(ctx.scopes) = open[l].fn
  BY <1>3, <1>4, EmptySeq DEF Back
<1>6. SubSeq(ctx.scopes, 1, h[l]) = ctx.scopes
  BY <1>3, SubSeqFull
<1> QED  BY <1>1, <1>4, <1>5, <1>6

(* Restoring the save point of a call: all is as it was, but for counters, *)
(* functions and names, and for indices that have been cleared.            *)
LEMMA Undone ==
  ASSUME IInv, VariablesInv, open # <<>>, Back(open).kind = "call"
  PROVE  LET s == Back(open).saved
             d == RestoreContext(ctx, s)
         IN  /\ d.active = s.active /\ d.used = s.used /\ d.active = ctx.active
             /\ d.scopes = s.scopes /\ d.scopes = ctx.scopes
             /\ d.live = s.live /\ d.fresh = ctx.fresh /\ d.parent = ctx.parent
             /\ d.lv = ctx.lv /\ d.lv_index = ctx.lv_index /\ d.nextfn = ctx.nextfn
             /\ \A n \in s.live :
                  /\ Len(d.vars[n]) = Len(s.vars[n]) /\ Len(s.vars[n]) <= Len(ctx.vars[n])
                  /\ \A k \in 1 .. Len(s.vars[n]) :
                       /\ d.vars[n][k] = ctx.vars[n][k]
                       /\ SameButIndex(ctx.lv_index, s.vars[n][k], d.vars[n][k])
             /\ \A n \in Nodes \ s.live : d.vars[n] = ctx.vars[n]
<1> DEFINE l == Len(open)
           s == Back(open).saved
           d == RestoreContext(ctx, s)
           from == NS(s)
           below == {n \in s.live : from \in Chain(s, n)}
           created == {n \in ctx.live \ s.live : from \in Chain(ctx, n)}
           cut == [n \in Nodes |-> IF n \in below
                                     THEN SubSeq(ctx.vars[n], 1, Len(s.vars[n]))
                                     ELSE ctx.vars[n]]
<1>1. /\ l \in 1 .. Len(open) /\ Back(open) = open[l] /\ s.active = ctx.active /\ s.used = ctx.used
  BY Innermost
<1>2. /\ WF(ctx) /\ WF(s) /\ Extends(s, ctx) /\ s.scopes = ctx.scopes
  BY <1>1, InnermostFn DEF IInv, SavePointsNest, VariablesInv, Saves
<1> HIDE DEF s, l
<1>3. /\ ctx \in ContextType /\ ctx.active \in Seq(Nodes) /\ ctx.used \in Seq(Nodes)
      /\ ctx.vars \in [Nodes -> Seq(Variable)] /\ s.vars \in [Nodes -> Seq(Variable)]
      /\ s.live \subseteq Nodes
  BY <1>2, Parts, FieldTypes
<1>4. /\ d.active = SubSeq(ctx.active, 1, Len(s.active))
      /\ d.used = SubSeq(ctx.used, 1, Len(s.used)) /\ d.scopes = ctx.scopes
      /\ d.live = ctx.live \ created /\ d.fresh = ctx.fresh /\ d.parent = ctx.parent
      /\ d.lv = ctx.lv /\ d.lv_index = ctx.lv_index /\ d.nextfn = ctx.nextfn
      /\ d.vars = cut
  BY <1>3 DEF RestoreContext, ContextType
<1> HIDE DEF d
<1>5. d.active = ctx.active /\ d.used = ctx.used
  BY <1>1, <1>3, <1>4, SubSeqFull
<1>6. d.live = s.live
  BY <1>2, <1>4 DEF Extends
<1>7. ASSUME NEW n \in s.live
      PROVE  /\ Len(d.vars[n]) = Len(s.vars[n]) /\ Len(s.vars[n]) <= Len(ctx.vars[n])
             /\ \A k \in 1 .. Len(s.vars[n]) :
                  /\ d.vars[n][k] = ctx.vars[n][k]
                  /\ SameButIndex(ctx.lv_index, s.vars[n][k], d.vars[n][k])
  <2>1. /\ n \in Nodes /\ s.vars[n] \in Seq(Variable) /\ ctx.vars[n] \in Seq(Variable)
        /\ Len(s.vars[n]) \in Nat /\ Len(ctx.vars[n]) \in Nat
    BY <1>3, LenProperties
  <2>2. /\ Len(s.vars[n]) <= Len(ctx.vars[n])
        /\ \A k \in 1 .. Len(s.vars[n]) : SameButIndex(ctx.lv_index, s.vars[n][k], ctx.vars[n][k])
    BY <1>2 DEF Extends, Continues
  <2>3. CASE from \in Chain(s, n)
    <3>1. d.vars[n] = SubSeq(ctx.vars[n], 1, Len(s.vars[n]))
      BY <1>4, <2>1, <2>3
    <3>2. /\ Len(d.vars[n]) = Len(s.vars[n])
          /\ \A k \in 1 .. Len(s.vars[n]) : d.vars[n][k] = ctx.vars[n][k]
      BY <2>1, <2>2, <3>1
    <3> QED  BY <2>2, <3>2
  <2>4. CASE from \notin Chain(s, n)
    <3>1. Len(ctx.vars[n]) = Len(s.vars[n]) /\ d.vars[n] = ctx.vars[n]
      BY <1>2, <1>4, <2>1, <2>4 DEF Extends
    <3> QED  BY <2>2, <3>1
  <2> QED  BY <2>3, <2>4
<1>8. \A n \in Nodes \ s.live : d.vars[n] = ctx.vars[n]
  BY <1>4
<1> QED  BY <1>1, <1>2, <1>4, <1>5, <1>6, <1>7, <1>8 DEF d, s

(* And what is outside the call is as if it had not been.                  *)
LEMMA RestoreKeeps ==
  ASSUME IInv, IInv', VariablesInv, RestoreCall
  PROVE  VariablesInv'
<1> DEFINE s == Back(open).saved
           d == RestoreContext(ctx, s)
           l == Len(open)
<1>1. /\ open # <<>> /\ Back(open).kind = "call" /\ ctx' = d /\ open' = Pop(open)
  BY DEF RestoreCall, Leave
<1>2. /\ d.active = ctx.active /\ d.scopes = ctx.scopes
      /\ d.live = s.live /\ d.fresh = ctx.fresh /\ d.parent = ctx.parent
      /\ d.lv = ctx.lv /\ d.lv_index = ctx.lv_index /\ d.nextfn = ctx.nextfn
      /\ \A n \in s.live :
           /\ Len(d.vars[n]) = Len(s.vars[n]) /\ Len(s.vars[n]) <= Len(ctx.vars[n])
           /\ \A k \in 1 .. Len(s.vars[n]) : d.vars[n][k] = ctx.vars[n][k]
      /\ \A n \in Nodes \ s.live : d.vars[n] = ctx.vars[n]
  BY <1>1, Undone
<1>3. /\ l \in 1 .. Len(open) /\ Back(open) = open[l] /\ Back(open).fn = NoFn
      /\ open \in Seq(FrameType)
  BY <1>1, Innermost, InnermostFn DEF IInv
<1>4. /\ WF(ctx) /\ WF(s) /\ Extends(s, ctx) /\ Tree(s) /\ Tree(ctx)
  BY <1>1, <1>3 DEF IInv, SavePointsNest, VariablesInv, Saves
<1> HIDE DEF d
<1>5. WF(d)
  <2>1. WF(ctx')
    BY DEF IInv, WF, StackNodes
  <2> QED  BY <1>1, <2>1
<1>6. /\ Len(open') = l - 1 /\ l \in Nat \ {0} /\ \A i \in 1 .. l - 1 : open'[i] = open[i]
  BY <1>1, <1>3, PopType
<1> HIDE DEF s, l
<1>7. Tree(d)
  BY <1>2, <1>4 DEF Tree, Sloped, StackIsPath
<1>8. ScopesAreForms(d, open')
  <2>1. ScopesAreForms(ctx, open)
    BY DEF VariablesInv
  <2> QED  BY <1>1, <1>2, <1>3, <1>4, <2>1, LeaveScopes
<1>9. /\ s.fresh \in Nat /\ ctx.fresh \in Nat /\ s.live \subseteq Nodes
      /\ \A n \in s.live : n < s.fresh
      /\ ctx.vars \in [Nodes -> Seq(Variable)] /\ s.vars \in [Nodes -> Seq(Variable)]
      /\ s.fresh <= ctx.fresh
  BY <1>4, Parts DEF Extends
<1>10. Indexed(d)
  <2> SUFFICES ASSUME NEW n \in Nodes
               PROVE  /\ n >= d.fresh => d.vars[n] = <<>>
                      /\ \A k \in 1 .. Len(d.vars[n]) :
                           \/ d.vars[n][k].index \in 1 .. d.lv[n]
                           \/ d.vars[n][k].index = 0 /\ d.lv_index <= d.lv[n]
    BY DEF Indexed
  <2>1. /\ n >= ctx.fresh => ctx.vars[n] = <<>>
        /\ \A k \in 1 .. Len(ctx.vars[n]) :
             \/ ctx.vars[n][k].index \in 1 .. ctx.lv[n]
             \/ ctx.vars[n][k].index = 0 /\ ctx.lv_index <= ctx.lv[n]
    BY DEF VariablesInv, Indexed
  <2>2. CASE n \in s.live
    <3>1. ~(n >= d.fresh)
      BY <1>2, <1>9, <2>2 DEF Nodes
    <3>2. \A k \in 1 .. Len(d.vars[n]) : k \in 1 .. Len(ctx.vars[n]) /\ d.vars[n][k] = ctx.vars[n][k]
      <4>1. Len(s.vars[n]) \in Nat /\ Len(ctx.vars[n]) \in Nat
        BY <1>9
      <4> QED  BY <1>2, <2>2, <4>1
    <3> QED  BY <1>2, <2>1, <3>1, <3>2
  <2>3. CASE n \notin s.live
    BY <1>2, <2>1, <2>3
  <2> QED  BY <2>2, <2>3
<1>11. ASSUME NEW i \in 1 .. l - 1, open[i].kind = "call"
       PROVE  /\ Tree(open[i].saved) /\ Extends(open[i].saved, d)
              /\ \A j \in i + 1 .. l - 1 : open[j].kind = "call" => Extends(open[i].saved, open[j].saved)
  <2> DEFINE r == open[i].saved
  <2>1. /\ i \in 1 .. Len(open) /\ l \in i + 1 .. Len(open)
        /\ \A j \in i + 1 .. l - 1 : j \in i + 1 .. Len(open)
    BY <1>3, <1>6 DEF l
  <2>2. /\ WF(r) /\ Tree(r) /\ Extends(r, ctx) /\ Extends(r, s)
        /\ \A j \in i + 1 .. l - 1 : open[j].kind = "call" => Extends(r, open[j].saved)
    BY <1>1, <1>3, <1>11, <2>1 DEF IInv, SavePointsNest, VariablesInv, Saves, s
  <2> HIDE DEF r
  <2>3. \A n \in s.live : Chain(d, n) = Chain(s, n)
    <3>1. \A m \in Nodes : m < s.fresh => d.parent[m] = s.parent[m]
      BY <1>2, <1>4 DEF Extends
    <3>2. \A n \in Nodes : n < s.fresh => Chain(d, n) = Chain(s, n)
      BY <1>4, <1>7, <1>9, <3>1, ChainAgrees DEF Tree
    <3> QED  BY <1>9, <3>2
  <2>4. /\ r.live \subseteq d.live /\ r.fresh <= d.fresh /\ d.lv_index = r.lv_index
        /\ \A m \in Nodes : m < r.fresh => d.parent[m] = r.parent[m]
    BY <1>2, <2>2 DEF Extends
  <2>5. \A n \in d.live \ r.live : NS(r) \in Chain(d, n)
    BY <1>2, <2>2, <2>3 DEF Extends
  <2>6. ASSUME NEW n \in r.live
        PROVE  /\ Continues(r.lv_index, r.vars[n], d.vars[n])
               /\ NS(r) \notin Chain(r, n) => Len(d.vars[n]) = Len(r.vars[n])
    <3>1. /\ n \in s.live /\ n \in Nodes
          /\ Continues(r.lv_index, r.vars[n], ctx.vars[n])
          /\ Len(r.vars[n]) <= Len(s.vars[n])
          /\ NS(r) \notin Chain(r, n) => Len(s.vars[n]) = Len(r.vars[n])
      BY <1>9, <2>2 DEF Extends, Continues
    <3>2. Len(r.vars[n]) \in Nat /\ Len(s.vars[n]) \in Nat
      BY <1>9, <2>2, <3>1, Parts, LenProperties
    <3>3. \A k \in 1 .. Len(r.vars[n]) : d.vars[n][k] = ctx.vars[n][k]
      BY <1>2, <3>1, <3>2
    <3>4. Len(d.vars[n]) = Len(s.vars[n])
      BY <1>2, <3>1
    <3> QED  BY <3>1, <3>3, <3>4 DEF Continues
  <2>7. Extends(r, d)
    BY <2>4, <2>5, <2>6 DEF Extends
  <2> QED  BY <2>2, <2>7 DEF r
<1>12. Saves(d, open')
  <2>1. ASSUME NEW i \in 1 .. Len(open'), open'[i].kind = "call"
        PROVE  /\ Tree(open'[i].saved) /\ Extends(open'[i].saved, d)
               /\ \A j \in i + 1 .. Len(open') :
                    open'[j].kind = "call" => Extends(open'[i].saved, open'[j].saved)
    <3>1. i \in 1 .. l - 1 /\ open'[i] = open[i] /\ open[i].kind = "call"
      BY <1>6, <2>1
    <3>2. \A j \in i + 1 .. Len(open') : j \in i + 1 .. l - 1 /\ open'[j] = open[j]
      BY <1>6, <3>1
    <3> QED  BY <1>11, <3>1, <3>2
  <2> QED  BY <2>1 DEF Saves
<1> QED  BY <1>1, <1>7, <1>8, <1>10, <1>12 DEF VariablesInv
-----------------------------------------------------------------------------
(***************************************************************************)
(* The specification.                                                      *)
(***************************************************************************)
LEMMA InitVariables == Init => VariablesInv
<1> SUFFICES ASSUME NEW pre \in PreIndices, ctx = EmptyContext(pre), open = <<>>
             PROVE  VariablesInv
  BY DEF Init
<1>1. Root \in Nodes /\ MaxNodes \in Nat
  BY SizeAssumption DEF Nodes
<1>2. /\ ctx.live = {Root} /\ ctx.fresh = 2 /\ ctx.active = <<Root>> /\ ctx.scopes = <<>>
      /\ ctx.parent = [n \in Nodes |-> NoNode] /\ ctx.lv = [n \in Nodes |-> 0]
      /\ ctx.vars = [n \in Nodes |-> <<>>] /\ ctx.lv_index = pre /\ ctx.nextfn = 1
  BY DEF EmptyContext
<1>3. Tree(ctx)
  <2>1. Sloped(ctx)
    BY <1>2 DEF Sloped, Nodes
  <2>2. <<Root>> \in Seq(Nodes) /\ <<Root>> # <<>> /\ Len(<<Root>>) = 1 /\ <<Root>>[1] = Root
    BY <1>1
  <2>3. StackIsPath(ctx)
    BY <1>1, <1>2, <2>2 DEF StackIsPath
  <2> QED  BY <2>1, <2>3 DEF Tree
<1>4. Len(open) = 0 /\ Len(ctx.scopes) = 0
  BY <1>2
<1>5. Saves(ctx, open)
  BY <1>4 DEF Saves
<1>6. ScopesAreForms(ctx, open)
  <2>1. Depths([i \in 0 .. 0 |-> 0], ctx, open)
    BY <1>4 DEF Depths
  <2> QED  BY <2>1 DEF ScopesAreForms
<1>7. Indexed(ctx)
  BY <1>2 DEF Indexed
<1> QED  BY <1>2, <1>3, <1>5, <1>6, <1>7 DEF VariablesInv

(* Each step keeps the invariant: an opened form adds below the current    *)
(* namespace, one that is left pops, and a save point undoes.              *)
LEMMA NextVariables ==
  ASSUME IInv, VariablesInv, [Next]_vars
  PROVE  VariablesInv'
<1>1. /\ WF(ctx) /\ Tree(ctx) /\ ctx \in ContextType /\ ctx.fresh \in Nat /\ ctx.nextfn \in Nat
      /\ MaxNodes \in Nat /\ MaxIndex \in Nat /\ open \in Seq(FrameType)
  BY Parts, FieldTypes, SizeAssumption, DepthAssumption DEF IInv, VariablesInv
<1>2. IInv'
  BY NextIInv
<1>4. ASSUME NEW nm \in NsNames, OpenNamespace(nm) PROVE VariablesInv'
  <2> DEFINE c == ActivateNamespace(ctx, nm)
  <2>1. ctx.fresh <= MaxNodes /\ nm \in NodeNames /\ Enter("namespace", c, NoFn)
    BY <1>1, <1>4 DEF OpenNamespace, Room, NodeNames
  <2>2. WF(c) /\ c.nextfn = ctx.nextfn
    BY <1>1, <2>1, ActivatePushes DEF Pushed, Entered, Grows
  <2>3. Adds(ctx, c) /\ c.scopes = ctx.scopes
    BY <1>1, <2>1, ActivateAdds, ScopesStay
  <2> HIDE DEF c
  <2> QED  BY <1>2, <2>1, <2>3, EnterKeeps DEF Kinds
<1>5. ASSUME NEW nm \in NsNames, OpenUsing(nm) PROVE VariablesInv'
  <2>1. PICK n \in ctx.live : Enter("using", UseNamespace(ctx, n), NoFn)
    BY <1>5 DEF OpenUsing
  <2> DEFINE c == UseNamespace(ctx, n)
  <2>2. WF(c)
    BY <1>1, UseNamespaceUses DEF Grows
  <2>3. /\ c.live = ctx.live /\ c.fresh = ctx.fresh /\ c.parent = ctx.parent
        /\ c.vars = ctx.vars /\ c.lv = ctx.lv /\ c.lv_index = ctx.lv_index
        /\ c.active = ctx.active /\ c.scopes = ctx.scopes /\ c.nextfn = ctx.nextfn
    BY <1>1 DEF UseNamespace, ContextType
  <2> HIDE DEF c
  <2>4. Adds(ctx, c)
    BY <1>1, <2>2, <2>3, RestAdds
  <2> QED  BY <1>2, <2>1, <2>3, <2>4, EnterKeeps DEF Kinds, c
<1>6. ASSUME CloseNamespace \/ CloseNewScope PROVE VariablesInv'
  <2> DEFINE c == DeactivateNamespace(ctx, Back(open).name)
  <2>1. /\ open # <<>> /\ Back(open).kind \in {"namespace", "new_scope"}
        /\ ctx' = c /\ open' = Pop(open)
    BY <1>6 DEF CloseNamespace, CloseNewScope, Leave
  <2>2. Len(ctx.active) > 1 /\ Back(open).fn = NoFn
    BY <2>1, Innermost, InnermostFn DEF Activates, Kinds, VariablesInv
  <2>3. WF(c)
    <3>1. WF(ctx')
      BY <1>2 DEF IInv, WF, StackNodes
    <3> QED  BY <2>1, <3>1
  <2>4. Adds(ctx, c) /\ c.scopes = ctx.scopes
    BY <1>1, <2>2, <2>3, DeactivateAdds
  <2> HIDE DEF c
  <2> QED  BY <1>2, <2>1, <2>2, <2>4, LeaveKeeps
<1>7. ASSUME CloseUsing \/ CloseBranch \/ EndCall PROVE VariablesInv'
  <2> DEFINE c == ctx'
  <2>1. /\ open # <<>> /\ Back(open).kind \in {"using", "branch", "call"} /\ open' = Pop(open)
        /\ \/ c = UnuseNamespace(ctx)
           \/ c = DeactivateAnonymousNamespace(ctx) /\ Back(open).kind = "branch"
           \/ c = ctx
    BY <1>7 DEF CloseUsing, CloseBranch, EndCall, Leave
  <2>2. /\ Back(open).kind = "branch" => Len(ctx.active) > 1
        /\ Back(open).fn = NoFn
    BY <2>1, Innermost, InnermostFn DEF Activates, Kinds
  <2>3. WF(c)
    BY <1>2 DEF IInv, WF, StackNodes
  <2>4. /\ c.live = ctx.live /\ c.fresh = ctx.fresh /\ c.parent = ctx.parent
        /\ c.vars = ctx.vars /\ c.lv = ctx.lv /\ c.lv_index = ctx.lv_index
        /\ c.active = ctx.active \/ (c.active = Pop(ctx.active) /\ Len(ctx.active) > 1)
        /\ c.scopes = ctx.scopes /\ c.nextfn = ctx.nextfn
    BY <1>1, <2>1, <2>2 DEF UnuseNamespace, DeactivateAnonymousNamespace, ContextType
  <2>5. ctx' = c
    OBVIOUS
  <2> HIDE DEF c
  <2>6. Adds(ctx, c)
    BY <1>1, <2>3, <2>4, RestAdds
  <2> QED  BY <1>2, <2>1, <2>2, <2>4, <2>5, <2>6, LeaveKeeps
<1>8. ASSUME NEW nm \in VarNames, DefineVariable(nm) PROVE VariablesInv'
  <2> DEFINE c == AddVariable(ctx, nm)
  <2>1. ctx' = c /\ open' = open
    BY <1>8 DEF DefineVariable
  <2>2. Adds(ctx, c) /\ WF(c)
    BY <1>1, AddVariableAdds, AddVariableKeeps DEF SameStacks, Grows
  <2>3. c.scopes = ctx.scopes /\ c.fresh = ctx.fresh /\ c.nextfn = ctx.nextfn
    BY <1>1 DEF AddVariable, ContextType
  <2> HIDE DEF c
  <2>4. Indexed(c)
    BY <2>2 DEF Adds, VariablesInv
  <2>5. Saves(c, open)
    <3>1. Len(open) \in Nat
      BY <1>1, LenProperties
    <3> QED  BY <1>1, <2>2, <3>1, SavesStay DEF Adds
  <2>6. ScopesAreForms(c, open)
    <3>1. PICK h : Depths(h, ctx, open)
      BY DEF VariablesInv, ScopesAreForms
    <3>2. Depths(h, c, open)
      BY <2>3, <3>1 DEF Depths
    <3> QED  BY <3>2 DEF ScopesAreForms
  <2> QED  BY <2>1, <2>2, <2>4, <2>5, <2>6 DEF VariablesInv, Adds
<1>9. ASSUME NEW kind \in {"fn", "anon_fn"}, NEW nm \in FunNames \cup Nat, NEW ps \in Parameters,
             ctx.fresh + 2 <= MaxNodes + 1, ctx.nextfn \in Fns,
             Enter(kind, BeginFn(ctx, nm, ps), ctx.nextfn)
      PROVE  VariablesInv'
  <2> DEFINE c == BeginFn(ctx, nm, ps)
  <2>1. /\ Adds(ctx, c) /\ c.scopes = Append(ctx.scopes, ctx.nextfn)
        /\ c.nextfn = ctx.nextfn + 1
    BY <1>1, <1>9, BeginFnAdds
  <2>2. WF(c)
    BY <1>1, <1>9, BeginFnEnters DEF Entered, Grows
  <2>3. Enter(kind, c, ctx.nextfn)
    BY <1>9
  <2> HIDE DEF c
  <2>4. ctx.nextfn # NoFn /\ kind \in Kinds /\ kind # "call"
    BY <1>9 DEF Fns, Kinds
  <2> QED  BY <1>2, <1>9, <2>1, <2>3, <2>4, EnterKeeps
<1>10. ASSUME NEW nm \in FunNames, NEW ps \in Parameters, BeginFunction(nm, ps)
       PROVE  VariablesInv'
  BY <1>9, <1>10 DEF BeginFunction, Room
<1>11. ASSUME NEW ps \in Parameters, BeginAnonFunction(ps) PROVE VariablesInv'
  BY <1>1, <1>9, <1>11 DEF BeginAnonFunction, Room
<1>12. ASSUME EndFunction \/ AbandonAnonFunction PROVE VariablesInv'
  <2> DEFINE c == LeaveBody(ctx, Back(open).name)
  <2>1. /\ open # <<>> /\ Back(open).kind \in {"fn", "anon_fn"} /\ ctx' = c /\ open' = Pop(open)
    BY <1>12 DEF EndFunction, AbandonAnonFunction, Leave
  <2>2. Len(ctx.active) > 1 /\ Back(open).fn # NoFn
    BY <2>1, Innermost, InnermostFn DEF Activates, Kinds
  <2>3. WF(c)
    <3>1. WF(ctx')
      BY <1>2 DEF IInv, WF, StackNodes
    <3> QED  BY <2>1, <3>1
  <2>4. /\ Adds(ctx, c) /\ c.scopes = Pop(ctx.scopes)
        /\ c.fresh = ctx.fresh /\ c.nextfn = ctx.nextfn
    BY <1>1, <2>2, <2>3, LeaveBodyAdds
  <2> HIDE DEF c
  <2> QED  BY <1>2, <2>1, <2>2, <2>4, LeaveKeeps
<1>13. ASSUME EndAnonFunction PROVE VariablesInv'
  <2> DEFINE b == LeaveBody(ctx, Back(open).name)
             c == ZeroIndices(b, ctx.lv_index)
  <2>1. /\ open # <<>> /\ Back(open).kind = "anon_fn" /\ ctx' = c /\ open' = Pop(open)
    BY <1>13 DEF EndAnonFunction, Leave
  <2>2. /\ Len(ctx.active) > 1 /\ Len(ctx.used) > 1 /\ Back(open).fn # NoFn
        /\ ctx.name[NS(ctx)] = Back(open).name /\ ctx.name[Back(ctx.used)] = Back(open).name
    BY <2>1, Innermost, InnermostFn DEF Activates, Kinds
  <2>3. WF(b)
    BY <1>1, <2>2, LeaveBodyLeaves DEF Left, Grows
  <2>4. /\ Adds(ctx, b) /\ b.scopes = Pop(ctx.scopes)
        /\ b.fresh = ctx.fresh /\ b.nextfn = ctx.nextfn
    BY <1>1, <2>2, <2>3, LeaveBodyAdds
  <2> HIDE DEF b
  <2>5. Tree(b) /\ b.lv_index = ctx.lv_index
    BY <2>4 DEF Adds, Extends
  <2>6. Adds(b, c) /\ WF(c) /\ c.scopes = b.scopes
    BY <2>3, <2>5, ZeroAdds, ZeroKeeps, ZeroIndicesKeeps, Parts DEF SameStacks, Grows
  <2> HIDE DEF c
  <2>7. Adds(ctx, c)
    <3>1. Tree(c) /\ Extends(b, c)
      BY <2>6 DEF Adds
    <3>2. Extends(ctx, c)
      <4>1. Extends(ctx, b) /\ WF(ctx)
        BY <1>1, <2>4 DEF Adds
      <4> QED  BY <2>3, <2>5, <4>1, ClearedExtends DEF c
    <3> QED  BY <2>4, <2>6, <3>2 DEF Adds
  <2> QED  BY <1>2, <2>1, <2>2, <2>4, <2>6, <2>7, LeaveKeeps
<1>14. ASSUME NEW kind \in {"new_scope", "branch"}, OpenScope(kind) PROVE VariablesInv'
  <2> DEFINE c == ActivateAnonymousNamespace(ctx)
  <2>1. ctx.fresh <= MaxNodes /\ Enter(kind, c, NoFn)
    BY <1>1, <1>14 DEF OpenScope, Room
  <2>2. WF(c) /\ c.nextfn = ctx.nextfn
    BY <1>1, <2>1, AnonymousPushes DEF Pushed, Entered, Grows
  <2>3. Adds(ctx, c) /\ c.scopes = ctx.scopes
    BY <1>1, <2>1, AnonymousAdds, ScopesStay
  <2> HIDE DEF c
  <2> QED  BY <1>2, <2>1, <2>3, EnterKeeps DEF Kinds
<1>15. ASSUME BeginCall PROVE VariablesInv'
  <2>1. Enter("call", ctx, NoFn)
    BY <1>15 DEF BeginCall
  <2>2. Adds(ctx, ctx)
    BY <1>1, RestAdds
  <2> QED  BY <1>2, <2>1, <2>2, EnterKeeps DEF Kinds
<1>16. ASSUME RestoreCall PROVE VariablesInv'
  BY <1>2, <1>16, RestoreKeeps
<1>17. ASSUME UNCHANGED vars PROVE VariablesInv'
  BY <1>17 DEF vars, VariablesInv
<1> QED
  BY <1>4, <1>5, <1>6, <1>7, <1>8, <1>10, <1>11, <1>12, <1>13, <1>14, <1>15, <1>16, <1>17
     DEF Next

(* The namespaces form a tree that the stack of active ones is a path of,  *)
(* a variable's index is one its namespace has given out, or it has been   *)
(* cleared, and whatever has been added since a save point was taken is    *)
(* below the namespace that was current then.                              *)
THEOREM AddedBelow == Spec => []VariablesInv
<1>1. IInv /\ VariablesInv /\ [Next]_vars => VariablesInv'
  BY NextVariables
<1> QED  BY <1>1, InitVariables, Invariance, PTL DEF Spec

(* When the arguments of a macro have been parsed and their save point is  *)
(* restored, the stacks, the namespaces and the variables of each are what *)
(* they were when it was taken, but for the indices that anonymous         *)
(* functions in the arguments cleared, whatever the unset lv_index holds.  *)
THEOREM RestoreUndoes == Spec => RestoreUndoesVariables
<1>1. IInv /\ VariablesInv /\ [Next]_vars =>
        [RestoreCall =>
           LET was == Back(open).saved
           IN  /\ ctx'.active = was.active /\ ctx'.used = was.used
               /\ ctx'.scopes = was.scopes
               /\ ctx'.live = was.live
               /\ \A n \in was.live :
                    /\ Len(ctx'.vars[n]) = Len(was.vars[n])
                    /\ \A k \in 1 .. Len(was.vars[n]) :
                         SameButIndex(ctx.lv_index, was.vars[n][k], ctx'.vars[n][k])]_vars
  <2> SUFFICES ASSUME IInv, VariablesInv, RestoreCall
               PROVE  LET was == Back(open).saved
                      IN  /\ ctx'.active = was.active /\ ctx'.used = was.used
                          /\ ctx'.scopes = was.scopes
                          /\ ctx'.live = was.live
                          /\ \A n \in was.live :
                               /\ Len(ctx'.vars[n]) = Len(was.vars[n])
                               /\ \A k \in 1 .. Len(was.vars[n]) :
                                    SameButIndex(ctx.lv_index, was.vars[n][k], ctx'.vars[n][k])
    OBVIOUS
  <2>1. /\ open # <<>> /\ Back(open).kind = "call"
        /\ ctx' = RestoreContext(ctx, Back(open).saved)
    BY DEF RestoreCall, Leave
  <2> QED  BY <2>1, Undone
<1> QED  BY <1>1, AddedBelow, Invariance, PTL DEF Spec, RestoreUndoesVariables
-----------------------------------------------------------------------------
(***************************************************************************)
(* Proof that the label-variable indices separate the variables of the     *)
(* functions being parsed, though counters of different namespaces give    *)
(* them out: a return closes the local variables of its function and of no *)
(* other (ReturnClosesLocals), and a name denotes one of them              *)
(* (OwnLocalsVisible).  A function's index is taken from the namespace     *)
(* around it before its body is entered, a body's namespaces start to      *)
(* count above those they are in, and what is declared in a namespace      *)
(* belongs to the innermost function around it: the invariant Locals.  A   *)
(* variable whose index has been cleared keeps its function, and is closed *)
(* by no return.                                                           *)
(***************************************************************************)

(* The root, and namespaces a program names.                               *)
Named(c, n) == n = Root \/ c.name[n] \in NsNames

IsFn(fs, i) == fs[i].fn # NoFn

(* The k-th active namespace belongs to the function of form i: it is      *)
(* inside that and inside no function that was begun later.                *)
Owns(fs, i, k) ==
  fs[i].alen < k /\ \A j \in i + 1 .. Len(fs) : IsFn(fs, j) => k <= fs[j].alen

(* Named namespaces hold global variables; variables belong to functions   *)
(* there are; and of local ones none has a greater index than the          *)
(* namespaces further in have counted to.                                  *)
Globals(c) == \A n \in Nodes : Named(c, n) => \A v \in VarsIn(c, n) : v.fn = NoFn
Given(c)   == \A n \in Nodes : \A v \in VarsIn(c, n) : v.fn < c.nextfn
Counted(c) ==
  \A k, m \in 1 .. Len(c.active) : k <= m =>
    \A v \in VarsIn(c, c.active[k]) : v.fn = NoFn \/ v.index <= c.lv[c.active[m]]

(* Outside all functions are named namespaces only.                        *)
Outside(c, fs) ==
  \A k \in 1 .. Len(c.active) :
    (\A i \in 1 .. Len(fs) : IsFn(fs, i) => k <= fs[i].alen) => Named(c, c.active[k])

(* The namespaces inside and around the function of form i.                *)
Inside(c, fs, i, k) ==
  LET n == c.active[k]
      x == c.fnindex[fs[i].fn]
  IN  /\ ~Named(c, n) /\ x <= c.lv[n]
      /\ \A v \in VarsIn(c, n) : (v.index = 0 \/ x <= v.index) /\ v.fn # NoFn
      /\ Owns(fs, i, k) => \A v \in VarsIn(c, n) : v.fn = fs[i].fn

Around(c, fs, i, k) ==
  \A v \in VarsIn(c, c.active[k]) :
    v.fn = NoFn \/ (v.index < c.fnindex[fs[i].fn] /\ v.fn # fs[i].fn)

Separated(c, fs, i) ==
  /\ fs[i].fn < c.nextfn /\ 1 <= c.fnindex[fs[i].fn]
  /\ \A k \in 1 .. Len(c.active) : IF fs[i].alen < k THEN Inside(c, fs, i, k)
                                                     ELSE Around(c, fs, i, k)

Locals(c, fs) ==
  /\ Globals(c) /\ Given(c) /\ Counted(c) /\ Outside(c, fs)
  /\ \A i \in 1 .. Len(fs) : IsFn(fs, i) => Separated(c, fs, i)

LocalsInv == NamesBelow(ctx) /\ Locals(ctx, open)
-----------------------------------------------------------------------------
(* The active namespaces are distinct nodes, and the last is the current   *)
(* one.                                                                    *)
LEMMA Positions ==
  ASSUME NEW c, WF(c), Tree(c)
  PROVE  /\ Len(c.active) \in Nat \ {0} /\ NS(c) = c.active[Len(c.active)]
         /\ \A k \in 1 .. Len(c.active) : c.active[k] \in Nodes /\ c.active[k] \in c.live
         /\ \A j, k \in 1 .. Len(c.active) : c.active[j] = c.active[k] => j = k
<1>1. c.active \in Seq(Nodes) /\ Len(c.active) \in Nat \ {0}
  BY Parts
<1>2. \A k \in 1 .. Len(c.active) : c.active[k] \in Nodes /\ c.active[k] \in c.live
  BY <1>1, ElementOfSeq DEF WF, StackNodes
<1>3. ASSUME NEW j \in 1 .. Len(c.active), NEW k \in 1 .. Len(c.active), c.active[j] = c.active[k]
      PROVE  j = k
  <2>1. c.active[j] \in Nat /\ c.active[k] \in Nat
    BY <1>2 DEF Nodes
  <2>2. ~(j < k) /\ ~(k < j)
    BY <1>3, <2>1 DEF Tree, StackIsPath
  <2> QED  BY <1>1, <2>2
<1> QED  BY <1>1, <1>2, <1>3 DEF NS, Back

(* The types that an index may be compared by.                             *)
LEMMA IndexTypes ==
  ASSUME IInv
  PROVE  /\ ctx.lv \in [Nodes -> Nat]
         /\ \A i \in 1 .. Len(open) : IsFn(open, i) => ctx.fnindex[open[i].fn] \in Nat
<1>1. ctx.lv \in [Nodes -> Nat] /\ ctx.fnindex \in [Fns -> Nat]
  BY FieldTypes DEF IInv, WF
<1>2. \A i \in 1 .. Len(open) : IsFn(open, i) => open[i].fn \in Fns
  BY FrameFields DEF FrameType, IsFn
<1> QED  BY <1>1, <1>2

(* Every variable of namespace n in d was there in c, with its index or    *)
(* with one that has been cleared since.                                   *)
Lessened(c, d, n) ==
  \A w \in VarsIn(d, n) :
    \E v \in VarsIn(c, n) : w.fn = v.fn /\ (w.index = v.index \/ w.index = 0)

(* Popping the stacks, and restoring what was, loses variables and forms.  *)
LEMMA LessKeeps ==
  ASSUME NEW c, NEW d, NEW fs, NEW gs, Locals(c, fs),
         Len(fs) \in Nat, Len(gs) \in Nat, Len(c.active) \in Nat,
         Len(d.active) \in Nat, Len(d.active) <= Len(c.active),
         \A k \in 1 .. Len(d.active) : d.active[k] = c.active[k] /\ c.active[k] \in Nodes,
         \A n \in Nodes : Lessened(c, d, n), c.lv \in [Nodes -> Nat],
         \A i \in 1 .. Len(fs) : IsFn(fs, i) => c.fnindex[fs[i].fn] \in Nat,
         d.lv = c.lv, d.name = c.name, d.nextfn = c.nextfn, d.fnindex = c.fnindex,
         \A i \in 1 .. Len(gs) : IsFn(gs, i) => i \in 1 .. Len(fs) /\ gs[i] = fs[i],
         \A i \in 1 .. Len(fs) : IsFn(fs, i) => \/ i \in 1 .. Len(gs) /\ gs[i] = fs[i]
                                                \/ Len(d.active) <= fs[i].alen,
         \A i \in 1 .. Len(fs) : fs[i].alen \in Nat
  PROVE  Locals(d, gs)
<1>1. Globals(d) /\ Given(d)
  BY DEF Locals, Globals, Given, Named, Lessened
<1>2. \A k \in 1 .. Len(d.active) :
        /\ k \in 1 .. Len(c.active) /\ c.lv[c.active[k]] \in Nat
        /\ d.lv[d.active[k]] = c.lv[c.active[k]]
        /\ \A w \in VarsIn(d, d.active[k]) : \E v \in VarsIn(c, c.active[k]) :
             w.fn = v.fn /\ (w.index = v.index \/ w.index = 0)
  BY DEF Lessened
<1>3. Counted(d)
  <2> SUFFICES ASSUME NEW k \in 1 .. Len(d.active), NEW m \in 1 .. Len(d.active), k <= m,
                      NEW w \in VarsIn(d, d.active[k]), w.fn # NoFn
               PROVE  w.index <= d.lv[d.active[m]]
    BY DEF Counted
  <2>1. PICK v \in VarsIn(c, c.active[k]) : w.fn = v.fn /\ (w.index = v.index \/ w.index = 0)
    BY <1>2
  <2>2. v.index <= c.lv[c.active[m]]
    BY <1>2, <2>1 DEF Locals, Counted
  <2> QED  BY <1>2, <2>1, <2>2
<1>4. Outside(d, gs)
  <2> SUFFICES ASSUME NEW k \in 1 .. Len(d.active),
                      \A i \in 1 .. Len(gs) : IsFn(gs, i) => k <= gs[i].alen
               PROVE  Named(d, d.active[k])
    BY DEF Outside
  <2>1. ASSUME NEW i \in 1 .. Len(fs), IsFn(fs, i) PROVE k <= fs[i].alen
    <3>1. CASE i \in 1 .. Len(gs) /\ gs[i] = fs[i]
      BY <2>1, <3>1 DEF IsFn
    <3>2. CASE Len(d.active) <= fs[i].alen
      BY <3>2
    <3> QED  BY <2>1, <3>1, <3>2
  <2>2. Named(c, c.active[k])
    BY <1>2, <2>1 DEF Locals, Outside
  <2> QED  BY <2>2 DEF Named
<1>5. ASSUME NEW i \in 1 .. Len(gs), IsFn(gs, i) PROVE Separated(d, gs, i)
  <2>1. /\ i \in 1 .. Len(fs) /\ gs[i] = fs[i] /\ IsFn(fs, i) /\ Separated(c, fs, i)
    BY <1>5 DEF Locals, IsFn
  <2>2. ASSUME NEW k \in 1 .. Len(d.active), Owns(gs, i, k) PROVE Owns(fs, i, k)
    <3> SUFFICES ASSUME NEW j \in i + 1 .. Len(fs), IsFn(fs, j) PROVE k <= fs[j].alen
      BY <2>1, <2>2 DEF Owns
    <3>1. j \in 1 .. Len(fs)
      BY <2>1
    <3>2. CASE j \in 1 .. Len(gs) /\ gs[j] = fs[j]
      <4>1. j \in i + 1 .. Len(gs) /\ IsFn(gs, j)
        BY <2>1, <3>1, <3>2 DEF IsFn
      <4> QED  BY <2>2, <3>2, <4>1 DEF Owns
    <3>3. CASE Len(d.active) <= fs[j].alen
      BY <3>1, <3>3
    <3> QED  BY <3>1, <3>2, <3>3
  <2>3. ASSUME NEW k \in 1 .. Len(d.active)
        PROVE  IF gs[i].alen < k THEN Inside(d, gs, i, k) ELSE Around(d, gs, i, k)
    <3>1. IF fs[i].alen < k THEN Inside(c, fs, i, k) ELSE Around(c, fs, i, k)
      BY <1>2, <2>1 DEF Separated
    <3>2. CASE fs[i].alen < k
      <4> DEFINE n == c.active[k]
                 x == c.fnindex[fs[i].fn]
      <4>1. /\ ~Named(c, n) /\ x <= c.lv[n]
            /\ \A v \in VarsIn(c, n) : (v.index = 0 \/ x <= v.index) /\ v.fn # NoFn
            /\ Owns(fs, i, k) => \A v \in VarsIn(c, n) : v.fn = fs[i].fn
        BY <3>1, <3>2 DEF Inside
      <4>2. /\ d.active[k] = n /\ d.lv[n] = c.lv[n] /\ d.fnindex[gs[i].fn] = x
            /\ gs[i].fn = fs[i].fn
            /\ \A w \in VarsIn(d, n) : \E v \in VarsIn(c, n) :
                 w.fn = v.fn /\ (w.index = v.index \/ w.index = 0)
        BY <1>2, <2>1
      <4>3. ~Named(d, n)
        BY <4>1 DEF Named
      <4> HIDE DEF n, x
      <4>4. \A w \in VarsIn(d, n) : (w.index = 0 \/ x <= w.index) /\ w.fn # NoFn
        BY <4>1, <4>2
      <4>5. Owns(gs, i, k) => \A w \in VarsIn(d, n) : w.fn = gs[i].fn
        BY <2>2, <4>1, <4>2
      <4>6. Inside(d, gs, i, k)
        BY <4>1, <4>2, <4>3, <4>4, <4>5 DEF Inside
      <4> QED  BY <2>1, <3>2, <4>6
    <3>3. CASE ~(fs[i].alen < k)
      <4>1. Around(d, gs, i, k)
        <5> SUFFICES ASSUME NEW w \in VarsIn(d, d.active[k]), w.fn # NoFn
                     PROVE  w.index < d.fnindex[gs[i].fn] /\ w.fn # gs[i].fn
          BY DEF Around
        <5>1. PICK v \in VarsIn(c, c.active[k]) :
                w.fn = v.fn /\ (w.index = v.index \/ w.index = 0)
          BY <1>2
        <5>2. v.index < c.fnindex[fs[i].fn] /\ v.fn # fs[i].fn
          BY <3>1, <3>3, <5>1 DEF Around
        <5>3. 0 < c.fnindex[fs[i].fn]
          BY <2>1 DEF Separated
        <5> QED  BY <2>1, <5>1, <5>2, <5>3
      <4> QED  BY <2>1, <3>3, <4>1
    <3> QED  BY <3>2, <3>3
  <2> QED  BY <2>1, <2>3 DEF Separated
<1> QED  BY <1>1, <1>3, <1>4, <1>5 DEF Locals
-----------------------------------------------------------------------------
(***************************************************************************)
(* The functions being parsed.                                             *)
(***************************************************************************)
(* Forms that are functions lie inside each other, and the last of them is *)
(* the current function.                                                   *)
LEMMA FunctionForms ==
  ASSUME IInv, VariablesInv
  PROVE  /\ \A i \in 1 .. Len(open) :
              IsFn(open, i) => open[i].alen \in Nat /\ open[i].alen < Len(ctx.active)
         /\ ~InFunction => \A i \in 1 .. Len(open) : ~IsFn(open, i)
         /\ InFunction =>
              \E i \in 1 .. Len(open) :
                 /\ IsFn(open, i) /\ open[i].fn = CurrentFn(ctx)
                 /\ open[i].kind \in {"fn", "anon_fn"}
                 /\ \A j \in i + 1 .. Len(open) : ~IsFn(open, j)
<1> DEFINE l == Len(open)
<1>1. PICK h : Depths(h, ctx, open)
  BY DEF VariablesInv, ScopesAreForms
<1>2. /\ l \in Nat /\ ctx.scopes \in Seq(Fns) /\ h \in [0 .. l -> Nat]
      /\ h[0] = 0 /\ h[l] = Len(ctx.scopes)
  BY <1>1, Parts, FieldTypes, LenProperties DEF IInv, Depths
<1>3. \A i \in 1 .. l :
        /\ IsFn(open, i) <=> open[i].kind \in {"fn", "anon_fn"}
        /\ IsFn(open, i) => h[i] = h[i - 1] + 1 /\ ctx.scopes[h[i]] = open[i].fn
  BY <1>1 DEF Depths, IsFn
<1>4. ASSUME NEW i \in 1 .. l, IsFn(open, i)
      PROVE  open[i].alen \in Nat /\ open[i].alen < Len(ctx.active)
  <2>1. Activates(open[i].kind)
    BY <1>3, <1>4 DEF Activates, Kinds
  <2>2. open[i].alen + 1 \in 1 .. Len(ctx.active) /\ open[i].alen \in Nat
    BY <2>1, NodeOnStack, FrameFields
  <2>3. Len(ctx.active) \in Nat
    BY Parts DEF IInv
  <2> QED  BY <2>2, <2>3
<1>5. ASSUME ~InFunction, NEW i \in 1 .. l PROVE ~IsFn(open, i)
  <2>1. Len(ctx.scopes) = 0
    BY <1>5 DEF InFunction
  <2>2. i \in 0 .. l /\ i - 1 \in 0 .. l /\ l \in 0 .. l /\ i <= l
    BY <1>2
  <2>3. h[i] <= h[l] /\ h[i - 1] \in Nat /\ h[i] \in Nat
    BY <1>1, <1>2, <2>2 DEF Depths
  <2> QED  BY <1>2, <1>3, <2>1, <2>3
<1>6. ASSUME InFunction
      PROVE  \E i \in 1 .. l :
               /\ IsFn(open, i) /\ open[i].fn = CurrentFn(ctx)
               /\ open[i].kind \in {"fn", "anon_fn"}
               /\ \A j \in i + 1 .. l : ~IsFn(open, j)
  <2> DEFINE T == {i \in 1 .. l : IsFn(open, i)}
  <2>1. Len(ctx.scopes) \in Nat \ {0}
    BY <1>2, <1>6, EmptySeq DEF InFunction
  <2>2. T # {}
    <3> SUFFICES ASSUME T = {} PROVE FALSE
      OBVIOUS
    <3>1. \A k \in 0 + 1 .. l : open[k].fn = NoFn
      BY DEF IsFn
    <3>2. 0 \in 0 .. Len(open) /\ l \in 0 .. Len(open) /\ 0 <= l
      BY <1>2
    <3>3. h[0] = h[l]
      BY <1>1, <3>1, <3>2 DEF Depths
    <3> QED  BY <1>2, <2>1, <3>3
  <2>3. PICK i \in T : \A k \in T : k <= i
    <3>1. T \in SUBSET (1 .. l)
      OBVIOUS
    <3> HIDE DEF T
    <3> QED  BY <1>2, <2>2, <3>1, Greatest
  <2>4. \A j \in i + 1 .. l : ~IsFn(open, j)
    <3> SUFFICES ASSUME NEW j \in i + 1 .. l, IsFn(open, j) PROVE FALSE
      OBVIOUS
    <3>1. j \in T /\ ~(j <= i)
      BY <1>2, <2>3
    <3> QED  BY <2>3, <3>1
  <2>5. h[i] = h[l]
    <3>1. \A k \in i + 1 .. l : open[k].fn = NoFn
      BY <2>4 DEF IsFn
    <3>2. i \in 0 .. Len(open) /\ l \in 0 .. Len(open) /\ i <= l
      BY <1>2, <2>3
    <3> QED  BY <1>1, <3>1, <3>2 DEF Depths
  <2>6. open[i].fn = CurrentFn(ctx)
    BY <1>2, <1>3, <1>6, <2>3, <2>5 DEF CurrentFn, Back, InFunction
  <2> QED  BY <1>3, <2>3, <2>4, <2>6
<1> QED  BY <1>4, <1>5, <1>6

(* What is not Named inside functions is so in particular of the current   *)
(* namespace.                                                              *)
LEMMA CurrentInside ==
  ASSUME IInv, VariablesInv, Locals(ctx, open)
  PROVE  /\ \A i \in 1 .. Len(open) : IsFn(open, i) => Inside(ctx, open, i, Len(ctx.active))
         /\ InFunction => ~Named(ctx, NS(ctx)) /\ CurrentFn(ctx) \in Fns
         /\ ~InFunction => CurrentFn(ctx) = NoFn
         /\ CurrentFn(ctx) < ctx.nextfn
<1>1. WF(ctx) /\ Tree(ctx) /\ ctx.scopes \in Seq(Fns) /\ ctx.nextfn \in Nat \ {0}
  BY Parts, FieldTypes DEF IInv, VariablesInv
<1>2. /\ Len(ctx.active) \in 1 .. Len(ctx.active) /\ NS(ctx) = ctx.active[Len(ctx.active)]
  BY <1>1, Positions
<1>3. ASSUME NEW i \in 1 .. Len(open), IsFn(open, i)
      PROVE  /\ Inside(ctx, open, i, Len(ctx.active)) /\ open[i].fn < ctx.nextfn
  BY <1>2, <1>3, FunctionForms DEF Locals, Separated
<1>4. ASSUME InFunction
      PROVE  /\ ~Named(ctx, NS(ctx)) /\ CurrentFn(ctx) \in Fns /\ CurrentFn(ctx) < ctx.nextfn
  <2>1. PICK i \in 1 .. Len(open) : IsFn(open, i) /\ open[i].fn = CurrentFn(ctx)
    BY <1>4, FunctionForms
  <2>2. CurrentFn(ctx) \in Fns
    <3>1. Len(ctx.scopes) \in Nat \ {0}
      BY <1>1, <1>4, EmptySeq DEF InFunction
    <3> QED  BY <1>1, <1>4, <3>1, ElementOfSeq DEF CurrentFn, InFunction, Back
  <2> QED  BY <1>2, <1>3, <2>1, <2>2 DEF Inside
<1>5. ~InFunction => CurrentFn(ctx) = NoFn
  BY DEF InFunction, CurrentFn
<1> QED  BY <1>1, <1>3, <1>4, <1>5

(* A variable that is declared belongs to the current function and has an  *)
(* index beyond all that are in scope.                                     *)
LEMMA DeclareKeeps ==
  ASSUME IInv, VariablesInv, Locals(ctx, open), NEW d, OneMore(ctx, d)
  PROVE  Locals(d, open)
<1> DEFINE c == ctx
           n == NS(c)
           l == Len(c.active)
           new == {v \in VarsIn(d, n) : /\ v.fn = CurrentFn(c) /\ v.index = d.lv[n]
                                        /\ d.lv[n] = c.lv[n] + 1}
<1>1. /\ WF(c) /\ Tree(c) /\ c.lv \in [Nodes -> Nat] /\ n \in Nodes /\ Len(open) \in Nat
  BY Parts, LenProperties DEF IInv, VariablesInv
<1>2. /\ l \in Nat \ {0} /\ n = c.active[l] /\ l \in 1 .. l
      /\ \A k \in 1 .. l : c.active[k] \in Nodes
      /\ \A k \in 1 .. l : c.active[k] = n => k = l
  BY <1>1, Positions
<1>3. /\ d.active = c.active /\ d.name = c.name /\ d.nextfn = c.nextfn /\ d.fnindex = c.fnindex
      /\ \A m \in Nodes : m # n => d.lv[m] = c.lv[m] /\ VarsIn(d, m) = VarsIn(c, m)
      /\ d.lv[n] \in {c.lv[n], c.lv[n] + 1}
      /\ \A v \in VarsIn(d, n) : v \in VarsIn(c, n) \/ v \in new
  BY DEF OneMore
<1>4. \A v \in new : v.fn = CurrentFn(c) /\ v.index = d.lv[n] /\ d.lv[n] = c.lv[n] + 1
  OBVIOUS
<1> HIDE DEF c, n, l, new
<1>5. /\ \A i \in 1 .. Len(open) : IsFn(open, i) => /\ Inside(c, open, i, l)
                                                    /\ open[i].alen < l /\ open[i].alen \in Nat
      /\ InFunction => ~Named(c, n) /\ CurrentFn(c) \in Fns
      /\ ~InFunction => CurrentFn(c) = NoFn /\ \A i \in 1 .. Len(open) : ~IsFn(open, i)
      /\ CurrentFn(c) < c.nextfn
      /\ Locals(c, open)
  BY CurrentInside, FunctionForms DEF c, n, l
<1>6. \A m \in Nodes : c.lv[m] \in Nat /\ d.lv[m] \in Nat /\ c.lv[m] <= d.lv[m]
  BY <1>1, <1>3
<1>7. Globals(d)
  <2> SUFFICES ASSUME NEW m \in Nodes, Named(d, m), NEW v \in VarsIn(d, m) PROVE v.fn = NoFn
    BY DEF Globals
  <2>1. Named(c, m)
    BY <1>3 DEF Named
  <2>2. CASE v \in VarsIn(c, m)
    BY <1>5, <2>1, <2>2 DEF Locals, Globals
  <2>3. CASE m = n /\ v \in new
    BY <1>4, <1>5, <2>1, <2>3
  <2> QED  BY <1>3, <2>2, <2>3
<1>8. Given(d)
  <2> SUFFICES ASSUME NEW m \in Nodes, NEW v \in VarsIn(d, m) PROVE v.fn < c.nextfn
    BY <1>3 DEF Given
  <2>1. CASE v \in VarsIn(c, m)
    BY <1>5, <2>1 DEF Locals, Given
  <2>2. CASE m = n /\ v \in new
    BY <1>4, <1>5, <2>2
  <2> QED  BY <1>3, <2>1, <2>2
<1>9. Counted(d)
  <2> SUFFICES ASSUME NEW k \in 1 .. l, NEW m \in 1 .. l, k <= m,
                      NEW v \in VarsIn(d, c.active[k])
               PROVE  v.fn = NoFn \/ v.index <= d.lv[c.active[m]]
    BY <1>3 DEF Counted, l
  <2>1. c.active[k] \in Nodes /\ c.active[m] \in Nodes
    BY <1>2
  <2>2. CASE v \in VarsIn(c, c.active[k])
    <3>1. v.fn = NoFn \/ v.index <= c.lv[c.active[m]]
      BY <1>5, <2>2 DEF Locals, Counted, l
    <3>2. CASE v.index <= c.lv[c.active[m]] /\ c.active[m] = n /\ d.lv[n] = c.lv[n] + 1 /\ v.fn # NoFn
      <4>1. v.index \in Nat
        <5>1. c.vars \in [Nodes -> Seq(Variable)]
          BY <1>1, Parts
        <5>2. \A j \in 1 .. Len(c.vars[c.active[k]]) : c.vars[c.active[k]][j] \in Variable
          BY <2>1, <5>1, ElementOfSeq
        <5>3. v \in Variable
          BY <2>2, <5>2 DEF VarsIn
        <5> QED  BY <5>3 DEF Variable
      <4> QED  BY <1>6, <2>1, <3>2, <4>1
    <3> QED  BY <1>3, <2>1, <3>1, <3>2
  <2>3. CASE c.active[k] = n /\ v \in new
    <3>1. k = l /\ m = l
      BY <1>2, <2>3
    <3> QED  BY <1>2, <1>4, <1>6, <2>1, <2>3, <3>1
  <2> QED  BY <1>3, <2>1, <2>2, <2>3
<1>10. Outside(d, open)
  <2>1. \A k \in 1 .. Len(c.active) : Named(d, d.active[k]) <=> Named(c, c.active[k])
    BY <1>3 DEF Named
  <2> QED  BY <1>3, <1>5, <2>1 DEF Locals, Outside
<1>11. ASSUME NEW i \in 1 .. Len(open), IsFn(open, i) PROVE Separated(d, open, i)
  <2>1. Separated(c, open, i) /\ Inside(c, open, i, l) /\ open[i].alen < l
    BY <1>5, <1>11 DEF Locals
  <2>2. ASSUME NEW k \in 1 .. l
        PROVE  IF open[i].alen < k THEN Inside(d, open, i, k) ELSE Around(d, open, i, k)
    <3>1. IF open[i].alen < k THEN Inside(c, open, i, k) ELSE Around(c, open, i, k)
      BY <2>1 DEF Separated, l
    <3>2. CASE k # l
      <4>1. /\ c.active[k] \in Nodes /\ c.active[k] # n
        BY <1>2, <3>2
      <4>2. VarsIn(d, c.active[k]) = VarsIn(c, c.active[k]) /\ d.lv[c.active[k]] = c.lv[c.active[k]]
        BY <1>3, <4>1
      <4> QED  BY <1>3, <3>1, <4>2 DEF Inside, Around, Named
    <3>3. CASE k = l
      <4> DEFINE x == c.fnindex[open[i].fn]
      <4>1. /\ ~Named(c, n) /\ x <= c.lv[n]
            /\ \A v \in VarsIn(c, n) : (v.index = 0 \/ x <= v.index) /\ v.fn # NoFn
            /\ Owns(open, i, l) => \A v \in VarsIn(c, n) : v.fn = open[i].fn
        BY <1>2, <2>1 DEF Inside
      <4>2. x \in Nat
        <5>1. open[i].fn \in Fns
          <6>1. open \in Seq(FrameType)
            BY DEF IInv
          <6>2. open[i] \in FrameType
            BY <6>1, ElementOfSeq
          <6> QED  BY <1>11, <6>2 DEF FrameType, IsFn
        <5>2. c.fnindex \in [Fns -> Nat]
          BY <1>1, Parts, FieldTypes
        <5> QED  BY <5>1, <5>2
      <4> HIDE DEF x
      <4>3. x <= d.lv[n] /\ c.lv[n] \in Nat /\ d.lv[n] \in Nat
        BY <1>1, <1>6, <4>1, <4>2
      <4>4. InFunction
        BY <1>5, <1>11
      <4>5. CurrentFn(c) # NoFn
        BY <1>5, <4>4 DEF Fns
      <4>6. \A v \in VarsIn(d, n) : (v.index = 0 \/ x <= v.index) /\ v.fn # NoFn
        BY <1>3, <1>4, <4>1, <4>3, <4>5
      <4>7. ASSUME Owns(open, i, l) PROVE \A v \in VarsIn(d, n) : v.fn = open[i].fn
        <5>1. PICK j \in 1 .. Len(open) : /\ IsFn(open, j) /\ open[j].fn = CurrentFn(c)
                                          /\ \A m \in j + 1 .. Len(open) : ~IsFn(open, m)
          BY <4>4, FunctionForms DEF c
        <5>2. i = j
          <6>1. ~(i < j)
            <7> SUFFICES ASSUME i < j PROVE FALSE
              OBVIOUS
            <7>1. j \in i + 1 .. Len(open)
              BY <1>1
            <7>2. l <= open[j].alen
              BY <4>7, <5>1, <7>1 DEF Owns
            <7> QED  BY <1>2, <1>5, <5>1, <7>2
          <6>2. ~(j < i)
            <7> SUFFICES ASSUME j < i PROVE FALSE
              OBVIOUS
            <7>1. i \in j + 1 .. Len(open)
              BY <1>1
            <7> QED  BY <1>11, <5>1, <7>1
          <6> QED  BY <1>1, <6>1, <6>2
        <5> QED  BY <1>3, <1>4, <4>1, <4>7, <5>1, <5>2
      <4>8. Inside(d, open, i, l)
        BY <1>2, <1>3, <4>1, <4>3, <4>6, <4>7 DEF Inside, Named, x
      <4> QED  BY <2>1, <3>3, <4>8
    <3> QED  BY <3>2, <3>3
  <2> QED  BY <1>3, <2>1, <2>2 DEF Separated, l
<1> QED  BY <1>7, <1>8, <1>9, <1>10, <1>11 DEF Locals
-----------------------------------------------------------------------------
(***************************************************************************)
(* Forms that are opened.                                                  *)
(***************************************************************************)
(* What appending a frame leaves of the others.                            *)
Appended(fs, gs, fr) ==
  /\ Len(fs) \in Nat /\ Len(gs) = Len(fs) + 1 /\ gs[Len(fs) + 1] = fr
  /\ \A i \in 1 .. Len(fs) : i \in 1 .. Len(gs) /\ gs[i] = fs[i]
  /\ \A i \in 1 .. Len(fs) : IsFn(gs, i) <=> IsFn(fs, i)
  /\ \A i \in 1 .. Len(gs) : i \in 1 .. Len(fs) \/ i = Len(fs) + 1
  /\ \A i \in 1 .. Len(fs) : \A k \in Nat : Owns(gs, i, k) => Owns(fs, i, k)

(* Opening a form.                                                         *)
LEMMA OneFrameMore ==
  ASSUME IInv, NEW fr
  PROVE  Appended(open, Append(open, fr), fr)
<1> DEFINE gs == Append(open, fr)
<1>1. /\ Len(open) \in Nat /\ Len(gs) = Len(open) + 1 /\ gs[Len(open) + 1] = fr
      /\ \A i \in 1 .. Len(open) : gs[i] = open[i]
  BY AppendProperties, LenProperties DEF IInv
<1>2. /\ \A i \in 1 .. Len(open) : i \in 1 .. Len(gs)
      /\ \A i \in 1 .. Len(gs) : i \in 1 .. Len(open) \/ i = Len(open) + 1
  BY <1>1
<1> HIDE DEF gs
<1>3. ASSUME NEW i \in 1 .. Len(open), NEW k \in Nat, Owns(gs, i, k) PROVE Owns(open, i, k)
  <2>1. \A j \in i + 1 .. Len(open) : j \in i + 1 .. Len(gs) /\ gs[j] = open[j]
    BY <1>1
  <2> QED  BY <1>1, <1>3, <2>1 DEF Owns, IsFn
<1>4. Appended(open, gs, fr)
  BY <1>1, <1>2, <1>3 DEF Appended, IsFn
<1> QED  BY <1>4 DEF gs

(* A namespace is entered that a program names, outside functions, or one  *)
(* that is new and that it does not name, inside them.                     *)
Pushes(c, d, n) ==
  /\ n \in Nodes /\ d.active = Append(c.active, n)
  /\ \A k \in 1 .. Len(c.active) : c.active[k] # n
  /\ d.nextfn = c.nextfn /\ d.fnindex = c.fnindex
  /\ \A m \in Nodes : /\ VarsIn(d, m) = VarsIn(c, m)
                      /\ m # n => d.name[m] = c.name[m] /\ d.lv[m] = c.lv[m]
  /\ Named(d, n) => \A v \in VarsIn(d, n) : v.fn = NoFn
  /\ ~Named(d, n) => VarsIn(d, n) = {} /\ d.lv[n] \in Nat /\ c.lv[NS(c)] <= d.lv[n]

(* What a form that opens keeps of the invariant.                          *)
LEMMA PushKeeps ==
  ASSUME IInv, VariablesInv, Locals(ctx, open), NEW fr, fr.fn = NoFn,
         NEW d, NEW n, Pushes(ctx, d, n), InFunction <=> ~Named(d, n)
  PROVE  Locals(d, Append(open, fr))
<1> DEFINE c == ctx
           l == Len(c.active)
           gs == Append(open, fr)
<1>0. /\ n \in Nodes /\ d.active = Append(c.active, n)
      /\ \A k \in 1 .. Len(c.active) : c.active[k] # n
      /\ d.nextfn = c.nextfn /\ d.fnindex = c.fnindex
      /\ \A m \in Nodes : /\ VarsIn(d, m) = VarsIn(c, m)
                          /\ m # n => d.name[m] = c.name[m] /\ d.lv[m] = c.lv[m]
      /\ InFunction <=> ~Named(d, n)
      /\ Named(d, n) => \A v \in VarsIn(d, n) : v.fn = NoFn
      /\ ~Named(d, n) => VarsIn(d, n) = {} /\ d.lv[n] \in Nat /\ c.lv[NS(c)] <= d.lv[n]
  BY DEF Pushes
<1>1. /\ WF(c) /\ Tree(c) /\ c.lv \in [Nodes -> Nat] /\ c.active \in Seq(Nodes)
      /\ c.fnindex \in [Fns -> Nat] /\ c.vars \in [Nodes -> Seq(Variable)]
  BY Parts, FieldTypes DEF IInv, VariablesInv
<1>2. /\ l \in Nat \ {0} /\ NS(c) = c.active[l] /\ l \in 1 .. l
      /\ \A k \in 1 .. l : c.active[k] \in Nodes
  BY <1>1, Positions
<1>3. /\ Len(d.active) = l + 1 /\ d.active[l + 1] = n
      /\ \A k \in 1 .. l : d.active[k] = c.active[k]
      /\ \A k \in 1 .. Len(d.active) : k \in 1 .. l \/ k = l + 1
  BY <1>0, <1>1, <1>2, AppendProperties
<1>4. \A k \in 1 .. l : /\ VarsIn(d, d.active[k]) = VarsIn(c, c.active[k])
                        /\ d.lv[d.active[k]] = c.lv[c.active[k]]
                        /\ Named(d, d.active[k]) <=> Named(c, c.active[k])
  BY <1>0, <1>2, <1>3 DEF Named
<1>5. /\ \A i \in 1 .. Len(open) : IsFn(open, i) => /\ Inside(c, open, i, l) /\ InFunction
                                                    /\ open[i].alen < l /\ open[i].alen \in Nat
      /\ InFunction => \E i \in 1 .. Len(open) : IsFn(open, i)
  BY CurrentInside, FunctionForms
<1>6. Appended(open, gs, fr)
  BY OneFrameMore
<1>6a. \A i \in 1 .. Len(open) : i \in 1 .. Len(gs) /\ gs[i] = open[i] /\ (IsFn(gs, i) <=> IsFn(open, i))
  BY <1>6 DEF Appended
<1>6b. \A i \in 1 .. Len(gs) : IsFn(gs, i) => i \in 1 .. Len(open)
  BY <1>6 DEF Appended, IsFn
<1>7. Locals(c, open)
  OBVIOUS
<1> HIDE DEF c, l, gs
<1>8. Globals(d) /\ Given(d)
  <2>1. \A m \in Nodes : m # n => (Named(d, m) <=> Named(c, m))
    BY <1>0 DEF Named
  <2> QED  BY <1>0, <1>7, <2>1 DEF Locals, Globals, Given
<1>9. Counted(d)
  <2> SUFFICES ASSUME NEW k \in 1 .. Len(d.active), NEW m \in 1 .. Len(d.active), k <= m,
                      NEW v \in VarsIn(d, d.active[k]), v.fn # NoFn
               PROVE  v.index <= d.lv[d.active[m]]
    BY DEF Counted
  <2>1. k \in 1 .. l
    <3>1. VarsIn(d, n) = {} \/ \A w \in VarsIn(d, n) : w.fn = NoFn
      BY <1>0
    <3> QED  BY <1>3, <3>1
  <2>2. v \in VarsIn(c, c.active[k])
    BY <1>4, <2>1
  <2>3. \A j \in 1 .. l : k <= j => v.index <= c.lv[c.active[j]]
    BY <1>7, <2>1, <2>2 DEF Locals, Counted, l
  <2>4. CASE m \in 1 .. l
    BY <1>4, <2>3, <2>4
  <2>5. CASE m = l + 1
    <3>1. v.index <= c.lv[NS(c)]
      BY <1>2, <2>1, <2>3
    <3>2. CASE InFunction
      <4>1. d.lv[n] \in Nat /\ c.lv[NS(c)] <= d.lv[n] /\ c.lv[NS(c)] \in Nat
        BY <1>0, <1>1, <1>2, <3>2
      <4>2. v.index \in Nat
        <5>1. c.active[k] \in Nodes
          BY <1>2, <2>1
        <5>2. \A j \in 1 .. Len(c.vars[c.active[k]]) : c.vars[c.active[k]][j] \in Variable
          BY <1>1, <5>1, ElementOfSeq
        <5>3. v \in Variable
          BY <2>2, <5>2 DEF VarsIn
        <5> QED  BY <5>3 DEF Variable
      <4> QED  BY <1>3, <2>5, <3>1, <4>1, <4>2
    <3>3. CASE ~InFunction
      <4>1. Named(c, c.active[k])
        BY <1>5, <1>7, <2>1, <3>3 DEF Locals, Outside, l
      <4> QED  BY <1>2, <1>7, <2>1, <2>2, <4>1 DEF Locals, Globals
    <3> QED  BY <3>2, <3>3
  <2> QED  BY <1>3, <2>4, <2>5
<1>10. Outside(d, gs)
  <2> SUFFICES ASSUME NEW k \in 1 .. Len(d.active),
                      \A i \in 1 .. Len(gs) : IsFn(gs, i) => k <= gs[i].alen
               PROVE  Named(d, d.active[k])
    BY DEF Outside
  <2>1. \A i \in 1 .. Len(open) : IsFn(open, i) => k <= open[i].alen
    BY <1>6a
  <2>2. CASE k \in 1 .. l
    <3>1. Named(c, c.active[k])
      BY <1>7, <2>1, <2>2 DEF Locals, Outside, l
    <3> QED  BY <1>4, <2>2, <3>1
  <2>3. CASE k = l + 1
    <3>1. ~InFunction
      <4> SUFFICES ASSUME NEW i \in 1 .. Len(open), IsFn(open, i) PROVE FALSE
        BY <1>5
      <4>1. k <= open[i].alen /\ open[i].alen < l /\ open[i].alen \in Nat
        BY <1>5, <2>1
      <4> QED  BY <1>2, <2>3, <4>1
    <3> QED  BY <1>0, <1>3, <2>3, <3>1
  <2> QED  BY <1>3, <2>2, <2>3
<1>11. ASSUME NEW i \in 1 .. Len(gs), IsFn(gs, i) PROVE Separated(d, gs, i)
  <2>1. i \in 1 .. Len(open) /\ gs[i] = open[i] /\ IsFn(open, i)
    BY <1>11, <1>6a, <1>6b
  <2>2. /\ Separated(c, open, i) /\ Inside(c, open, i, l) /\ InFunction
        /\ open[i].alen < l /\ open[i].alen \in Nat
    BY <1>5, <1>7, <2>1 DEF Locals
  <2>3. ASSUME NEW k \in 1 .. Len(d.active)
        PROVE  IF gs[i].alen < k THEN Inside(d, gs, i, k) ELSE Around(d, gs, i, k)
    <3>1. CASE k \in 1 .. l
      <4>1. IF open[i].alen < k THEN Inside(c, open, i, k) ELSE Around(c, open, i, k)
        BY <2>2, <3>1 DEF Separated, l
      <4>2. Owns(gs, i, k) => Owns(open, i, k)
        BY <1>6, <2>1, <3>1 DEF Appended
      <4>3. d.fnindex[gs[i].fn] = c.fnindex[open[i].fn]
        BY <1>0, <2>1
      <4>4. CASE open[i].alen < k
        <5>1. Inside(d, gs, i, k)
          BY <1>4, <2>1, <3>1, <4>1, <4>2, <4>3, <4>4 DEF Inside
        <5> QED  BY <2>1, <4>4, <5>1
      <4>5. CASE ~(open[i].alen < k)
        <5>1. Around(d, gs, i, k)
          BY <1>4, <2>1, <3>1, <4>1, <4>3, <4>5 DEF Around
        <5> QED  BY <2>1, <4>5, <5>1
      <4> QED  BY <4>4, <4>5
    <3>2. CASE k = l + 1
      <4> DEFINE x == c.fnindex[open[i].fn]
      <4>1. x <= c.lv[NS(c)] /\ d.fnindex[gs[i].fn] = x
        BY <1>0, <1>2, <2>1, <2>2 DEF Inside
      <4>2. x \in Nat
        <5>1. open[i] \in FrameType
          BY <2>1, FrameFields
        <5>2. open[i].fn \in Fns
          BY <2>1, <5>1 DEF FrameType, IsFn
        <5> QED  BY <1>1, <5>2
      <4> HIDE DEF x
      <4>3. /\ ~Named(d, n) /\ VarsIn(d, n) = {} /\ d.lv[n] \in Nat
            /\ c.lv[NS(c)] <= d.lv[n]
        BY <1>0, <2>2
      <4>6. c.lv[NS(c)] \in Nat
        BY <1>1, <1>2
      <4>4. x <= d.lv[n]
        <5> DEFINE y == c.lv[NS(c)]
                   z == d.lv[n]
        <5>1. x <= y /\ y <= z /\ x \in Nat /\ y \in Nat /\ z \in Nat
          BY <4>1, <4>2, <4>3, <4>6
        <5> HIDE DEF y, z
        <5>2. x <= z
          BY <5>1
        <5> QED  BY <5>2 DEF z
      <4>5. Inside(d, gs, i, k)
        BY <1>3, <3>2, <4>1, <4>3, <4>4 DEF Inside
      <4>7. gs[i].alen < k
        BY <1>2, <2>1, <2>2, <3>2
      <4> QED  BY <4>5, <4>7
    <3> QED  BY <1>3, <3>1, <3>2
  <2> QED  BY <1>0, <2>1, <2>2, <2>3 DEF Separated
<1>12. Locals(d, gs)
  BY <1>8, <1>9, <1>10, <1>11 DEF Locals
<1> QED  BY <1>12 DEF gs

(* A namespace that is still to be made has no variables.                  *)
LEMMA FutureEmpty ==
  ASSUME IInv, VariablesInv
  PROVE  \A n \in Nodes : n >= ctx.fresh => ctx.vars[n] = <<>> /\ VarsIn(ctx, n) = {}
<1> SUFFICES ASSUME NEW n \in Nodes, n >= ctx.fresh
             PROVE  ctx.vars[n] = <<>> /\ VarsIn(ctx, n) = {}
  OBVIOUS
<1>1. ctx.vars[n] = <<>>
  BY DEF VariablesInv, Indexed
<1>2. Len(ctx.vars[n]) = 0
  BY <1>1
<1> QED  BY <1>1, <1>2 DEF VarsIn

(* What is pushed was not active.                                          *)
PushedOn(c, d, n) == d.active = Append(c.active, n)

(* The namespace that was just entered was not active.                     *)
LEMMA PushedIsNew ==
  ASSUME NEW c, NEW d, WF(c), WF(d), Tree(c), Tree(d), NEW n, PushedOn(c, d, n)
  PROVE  \A k \in 1 .. Len(c.active) : c.active[k] # n
<1> SUFFICES ASSUME NEW k \in 1 .. Len(c.active), c.active[k] = n PROVE FALSE
  OBVIOUS
<1>1. c.active \in Seq(Nodes) /\ Len(c.active) \in Nat
  BY Parts
<1>2. /\ Len(d.active) = Len(c.active) + 1 /\ d.active[Len(c.active) + 1] = n
      /\ d.active[k] = c.active[k]
  BY <1>1, AppendProperties DEF PushedOn
<1>3. /\ k \in 1 .. Len(d.active) /\ Len(c.active) + 1 \in 1 .. Len(d.active)
      /\ k # Len(c.active) + 1
  BY <1>1, <1>2
<1> QED  BY <1>2, <1>3, Positions

(* new-scope, and a branch of an if.                                       *)
LEMMA ScopeKeeps ==
  ASSUME IInv, VariablesInv, Locals(ctx, open), InFunction, NEW fr, fr.fn = NoFn,
         NEW d, ScopeEntered(ctx, d), WF(d), Tree(d)
  PROVE  Locals(d, Append(open, fr))
<1> DEFINE n == ctx.fresh
<1>1. /\ WF(ctx) /\ Tree(ctx) /\ ctx.lv \in [Nodes -> Nat] /\ NS(ctx) \in Nodes
      /\ n \in Nat
  BY Parts DEF IInv, VariablesInv
<1>2. /\ n \in Nodes /\ n # Root /\ d.name[n] \notin NsNames
      /\ d.active = Append(ctx.active, n)
      /\ d.nextfn = ctx.nextfn /\ d.fnindex = ctx.fnindex
      /\ d.lv[n] = ctx.lv[NS(ctx)] + 1
      /\ \A m \in Nodes : /\ VarsIn(d, m) = VarsIn(ctx, m)
                          /\ m # n => d.name[m] = ctx.name[m] /\ d.lv[m] = ctx.lv[m]
  BY <1>1 DEF ScopeEntered, VarsIn
<1>3. VarsIn(d, n) = {}
  <2>1. n >= ctx.fresh
    BY <1>1
  <2> HIDE DEF n
  <2>2. VarsIn(ctx, n) = {}
    BY <1>2, <2>1, FutureEmpty
  <2> QED  BY <1>2, <2>2
<1>4. ~Named(d, n)
  BY <1>2 DEF Named
<1>5. d.lv[n] \in Nat /\ ctx.lv[NS(ctx)] <= d.lv[n]
  BY <1>1, <1>2
<1> HIDE DEF n
<1>6. \A k \in 1 .. Len(ctx.active) : ctx.active[k] # n
  <2>1. PushedOn(ctx, d, n)
    BY <1>2 DEF PushedOn
  <2> QED  BY <1>1, <2>1, PushedIsNew
<1>7. Pushes(ctx, d, n)
  BY <1>2, <1>3, <1>4, <1>5, <1>6 DEF Pushes
<1> QED  BY <1>4, <1>7, PushKeeps

(* What a program names is found, or made with that name.                  *)
LEMMA NamedEnters ==
  ASSUME NEW c, WF(c), c.fresh <= MaxNodes, NEW nm \in NsNames
  PROVE  LET d == ActivateNamespace(c, nm)
         IN  /\ d.vars = c.vars /\ d.nextfn = c.nextfn /\ d.fnindex = c.fnindex
             /\ \E n \in Nodes :
                  /\ d.active = Append(c.active, n) /\ d.name[n] = nm
                  /\ \A m \in Nodes : m # n => d.name[m] = c.name[m] /\ d.lv[m] = c.lv[m]
                  /\ n = c.fresh \/ d.name = c.name
<1> DEFINE d == ActivateNamespace(c, nm)
           n == Child(c, NS(c), nm)
<1>1. /\ c \in ContextType /\ c.fresh \in Nat /\ c.live \subseteq Nodes /\ MaxNodes \in Nat
      /\ c.fresh \in 1 .. MaxNodes + 1
      /\ c.name \in [Nodes -> NodeNames] /\ c.lv \in [Nodes -> Nat]
  BY Parts, FieldTypes, SizeAssumption
<1>2. CASE n = NoNode
  <2>1. d = NewNamespace(c, nm)
    BY <1>2 DEF ActivateNamespace
  <2>2. c.fresh \in Nodes
    BY <1>1 DEF Nodes
  <2>3. /\ d.vars = c.vars /\ d.nextfn = c.nextfn /\ d.fnindex = c.fnindex
        /\ d.active = Append(c.active, c.fresh) /\ d.name = [c.name EXCEPT ![c.fresh] = nm]
        /\ d.lv = [c.lv EXCEPT ![c.fresh] = c.lv[NS(c)] + 1]
    BY <1>1, <2>1 DEF NewNamespace, ContextType
  <2> HIDE DEF d
  <2>4. /\ d.name[c.fresh] = nm
        /\ \A m \in Nodes : m # c.fresh => d.name[m] = c.name[m] /\ d.lv[m] = c.lv[m]
    BY <1>1, <2>2, <2>3
  <2> QED  BY <2>2, <2>3, <2>4 DEF d
<1>3. CASE n # NoNode
  <2>1. n \in c.live /\ c.name[n] = nm
    BY <1>3 DEF Child
  <2>2. d = [c EXCEPT !.active = Append(@, n), !.used = Append(@, n)]
    BY <1>3 DEF ActivateNamespace
  <2> HIDE DEF n
  <2>3. /\ d.vars = c.vars /\ d.nextfn = c.nextfn /\ d.fnindex = c.fnindex
        /\ d.active = Append(c.active, n) /\ d.name = c.name /\ d.lv = c.lv
    BY <1>1, <2>2 DEF ContextType
  <2> HIDE DEF d
  <2>4. n \in Nodes
    BY <1>1, <2>1
  <2> QED  BY <2>1, <2>3, <2>4 DEF d
<1> QED  BY <1>2, <1>3

(* The namespace form.                                                     *)
LEMMA NamedEnterKeeps ==
  ASSUME IInv, VariablesInv, Locals(ctx, open), ~InFunction, NEW fr, fr.fn = NoFn,
         ctx.fresh <= MaxNodes, NEW nm \in NsNames, NEW d, d = ActivateNamespace(ctx, nm),
         WF(d), Tree(d)
  PROVE  Locals(d, Append(open, fr))
<1>1. WF(ctx) /\ Tree(ctx) /\ ctx.fresh \in Nat
  BY Parts DEF IInv, VariablesInv
<1>2. /\ d.vars = ctx.vars /\ d.nextfn = ctx.nextfn /\ d.fnindex = ctx.fnindex
      /\ \E n \in Nodes :
           /\ d.active = Append(ctx.active, n) /\ d.name[n] = nm
           /\ \A m \in Nodes : m # n => d.name[m] = ctx.name[m] /\ d.lv[m] = ctx.lv[m]
           /\ n = ctx.fresh \/ d.name = ctx.name
  BY <1>1, NamedEnters
<1>3. PICK n \in Nodes :
        /\ d.active = Append(ctx.active, n) /\ d.name[n] = nm
        /\ \A m \in Nodes : m # n => d.name[m] = ctx.name[m] /\ d.lv[m] = ctx.lv[m]
        /\ n = ctx.fresh \/ d.name = ctx.name
  BY <1>2
<1>4. \A k \in 1 .. Len(ctx.active) : ctx.active[k] # n
  <2>1. PushedOn(ctx, d, n)
    BY <1>3 DEF PushedOn
  <2> QED  BY <1>1, <2>1, PushedIsNew
<1>5. \A m \in Nodes : VarsIn(d, m) = VarsIn(ctx, m)
  BY <1>2 DEF VarsIn
<1>6. Named(d, n)
  BY <1>3 DEF Named
<1>7. \A v \in VarsIn(d, n) : v.fn = NoFn
  <2>1. CASE n = ctx.fresh
    <3>1. VarsIn(ctx, n) = {}
      BY <1>1, <2>1, FutureEmpty
    <3> QED  BY <1>5, <3>1
  <2>2. CASE d.name = ctx.name
    <3>1. Named(ctx, n)
      BY <1>6, <2>2 DEF Named
    <3> QED  BY <1>5, <3>1 DEF Locals, Globals
  <2> QED  BY <1>3, <2>1, <2>2
<1>8. Pushes(ctx, d, n)
  BY <1>2, <1>3, <1>4, <1>5, <1>6, <1>7 DEF Pushes
<1> QED  BY <1>6, <1>8, PushKeeps

(* The fields of a variable.                                               *)
LEMMA VarFields ==
  ASSUME NEW c, WF(c), NEW n \in Nodes, NEW v \in VarsIn(c, n)
  PROVE  v.index \in Nat /\ v.fn \in Nat
<1>1. c.vars \in [Nodes -> Seq(Variable)]
  BY Parts
<1>2. \A j \in 1 .. Len(c.vars[n]) : c.vars[n][j] \in Variable
  BY <1>1, ElementOfSeq
<1>3. v \in Variable
  BY <1>2 DEF VarsIn
<1> QED  BY <1>3 DEF Variable, Fns

(* A function's body.                                                      *)
LEMMA BodyKeeps ==
  ASSUME IInv, VariablesInv, Locals(ctx, open), ctx.nextfn \in Fns,
         NEW fr, fr.fn = ctx.nextfn, fr.alen = Len(ctx.active),
         NEW d, BodyEntered(ctx, d), WF(d)
  PROVE  Locals(d, Append(open, fr))
<1> DEFINE c == ctx
           t == NS(c)
           l == Len(c.active)
           p == c.fresh
           b == c.fresh + 1
           x == c.lv[t] + 1
           f == c.nextfn
           gs == Append(open, fr)
<1>1. /\ WF(c) /\ Tree(c) /\ c.lv \in [Nodes -> Nat] /\ c.active \in Seq(Nodes)
      /\ c.fnindex \in [Fns -> Nat] /\ t \in Nodes /\ f \in Fns /\ f \in Nat /\ f # NoFn
      /\ \A n \in c.live : n < c.fresh
      /\ c.fresh \in Nat
  BY Parts, FieldTypes DEF IInv, VariablesInv, Fns
<1>2. /\ l \in Nat \ {0} /\ t = c.active[l] /\ l \in 1 .. l
      /\ \A k \in 1 .. l : c.active[k] \in Nodes /\ c.active[k] \in c.live
  BY <1>1, Positions
<1>3. /\ d.active = Append(c.active, b) /\ d.nextfn = f + 1
      /\ p \in Nodes /\ b \in Nodes /\ ~Named(d, p) /\ ~Named(d, b)
      /\ \A m \in Nodes \ {p, b} : /\ Named(d, m) <=> Named(c, m)
                                   /\ VarsIn(d, m) = VarsIn(c, m)
                                   /\ m # t => d.lv[m] = c.lv[m]
      /\ d.lv[t] = x /\ d.fnindex = [c.fnindex EXCEPT ![f] = x]
      /\ \A v \in VarsIn(d, p) : v.fn = CurrentFn(c)
      /\ d.lv[b] \in Nat /\ x <= d.lv[b]
      /\ \A v \in VarsIn(d, b) : v.fn = f /\ x <= v.index /\ v.index <= d.lv[b]
  BY DEF BodyEntered, Named
<1>4. Appended(open, gs, fr)
  BY OneFrameMore
<1>5. /\ fr.fn = f /\ fr.alen = l
      /\ x \in Nat /\ c.lv[t] \in Nat /\ c.lv[t] < x /\ c.lv[t] <= x /\ 1 <= x
  <2>1. c.lv[t] \in Nat
    BY <1>1
  <2>2. \A z \in Nat : z + 1 \in Nat /\ z < z + 1 /\ z <= z + 1 /\ 1 <= z + 1
    OBVIOUS
  <2> QED  BY <2>1, <2>2
<1>6. \A k \in 1 .. l : c.active[k] \notin {p, b}
  <2>1. \A k \in 1 .. l : c.active[k] < c.fresh /\ c.active[k] \in Nat
    BY <1>1, <1>2 DEF Nodes
  <2>2. \A m \in Nat : m < c.fresh => m # p /\ m # b
    BY <1>1
  <2> QED  BY <2>1, <2>2
<1>7. Locals(c, open)
  OBVIOUS
<1>8. /\ \A i \in 1 .. Len(open) : IsFn(open, i) => /\ Inside(c, open, i, l)
                                                    /\ open[i].alen < l /\ open[i].alen \in Nat
      /\ CurrentFn(c) < c.nextfn
  BY CurrentInside, FunctionForms
<1> HIDE DEF c, t, l, p, b, x, f, gs
<1>9. /\ Len(d.active) = l + 1 /\ d.active[l + 1] = b
      /\ \A k \in 1 .. l : d.active[k] = c.active[k]
      /\ \A k \in 1 .. Len(d.active) : k \in 1 .. l \/ k = l + 1
  BY <1>1, <1>2, <1>3, AppendProperties DEF l
<1>10. \A k \in 1 .. l : /\ VarsIn(d, d.active[k]) = VarsIn(c, c.active[k])
                         /\ c.lv[c.active[k]] \in Nat /\ d.lv[d.active[k]] \in Nat
                         /\ c.lv[c.active[k]] <= d.lv[d.active[k]]
                         /\ Named(d, d.active[k]) <=> Named(c, c.active[k])
  <2> SUFFICES ASSUME NEW k \in 1 .. l
               PROVE  /\ VarsIn(d, d.active[k]) = VarsIn(c, c.active[k])
                      /\ c.lv[c.active[k]] \in Nat /\ d.lv[d.active[k]] \in Nat
                      /\ c.lv[c.active[k]] <= d.lv[d.active[k]]
                      /\ Named(d, d.active[k]) <=> Named(c, c.active[k])
    OBVIOUS
  <2>1. c.active[k] \in Nodes \ {p, b} /\ d.active[k] = c.active[k]
    BY <1>2, <1>6, <1>9
  <2>2. c.lv[c.active[k]] \in Nat
    BY <1>1, <2>1
  <2>3. /\ VarsIn(d, d.active[k]) = VarsIn(c, c.active[k])
        /\ Named(d, d.active[k]) <=> Named(c, c.active[k])
        /\ c.active[k] # t => d.lv[c.active[k]] = c.lv[c.active[k]]
    BY <1>3, <2>1
  <2>4. d.lv[c.active[k]] = c.lv[c.active[k]] \/ c.active[k] = t
    BY <2>3
  <2> QED  BY <1>3, <1>5, <2>1, <2>2, <2>3, <2>4
<1>11. Globals(d)
  BY <1>3, <1>7 DEF Locals, Globals
<1>12. Given(d)
  <2> SUFFICES ASSUME NEW m \in Nodes, NEW v \in VarsIn(d, m) PROVE v.fn < f + 1
    BY <1>3 DEF Given
  <2>1. v.fn \in Nat
    BY VarFields
  <2>2. v.fn < f \/ v.fn = f
    <3>1. CASE m \notin {p, b}
      BY <1>3, <1>7, <3>1 DEF Locals, Given, f
    <3>2. CASE m = p
      BY <1>3, <1>8, <3>2 DEF f
    <3>3. CASE m = b
      BY <1>3, <3>3
    <3> QED  BY <3>1, <3>2, <3>3
  <2> QED  BY <1>1, <2>1, <2>2
<1>13. \A k, m \in 1 .. l : k <= m =>
         \A v \in VarsIn(d, d.active[k]) : v.fn = NoFn \/ v.index <= c.lv[c.active[m]]
  BY <1>7, <1>10 DEF Locals, Counted, l
<1>14. \A k \in 1 .. l : \A v \in VarsIn(d, d.active[k]) :
         v.index \in Nat /\ v.fn \in Nat /\ (v.fn = NoFn \/ v.index <= c.lv[t])
  <2>1. \A k \in 1 .. l : k <= l
    BY <1>2
  <2>2. \A k \in 1 .. l : d.active[k] \in Nodes
    BY <1>2, <1>9
  <2> QED  BY <1>2, <1>13, <2>1, <2>2, VarFields
<1>15. Counted(d)
  <2> SUFFICES ASSUME NEW k \in 1 .. Len(d.active), NEW m \in 1 .. Len(d.active), k <= m,
                      NEW v \in VarsIn(d, d.active[k]), v.fn # NoFn
               PROVE  v.index <= d.lv[d.active[m]]
    BY DEF Counted
  <2>1. CASE m \in 1 .. l
    <3>1. k \in 1 .. l
      BY <1>2, <1>9, <2>1
    <3>2. v.index <= c.lv[c.active[m]] /\ v.index \in Nat
      BY <1>13, <1>14, <2>1, <3>1
    <3> DEFINE u == c.lv[c.active[m]]
               w == d.lv[d.active[m]]
    <3>3. v.index <= u /\ u <= w /\ v.index \in Nat /\ u \in Nat /\ w \in Nat
      BY <1>10, <2>1, <3>2
    <3> HIDE DEF u, w
    <3>4. v.index <= w
      BY <3>3
    <3> QED  BY <3>4 DEF w
  <2>2. CASE m = l + 1 /\ k \in 1 .. l
    <3>1. v.index \in Nat /\ v.index <= c.lv[t]
      BY <1>14, <2>2
    <3> QED  BY <1>3, <1>5, <1>9, <2>2, <3>1
  <2>3. CASE m = l + 1 /\ k = l + 1
    BY <1>3, <1>9, <2>3
  <2> QED  BY <1>9, <2>1, <2>2, <2>3
<1>16. Outside(d, gs)
  <2> SUFFICES ASSUME NEW k \in 1 .. Len(d.active),
                      \A i \in 1 .. Len(gs) : IsFn(gs, i) => k <= gs[i].alen
               PROVE  Named(d, d.active[k])
    BY DEF Outside
  <2>1. k \in 1 .. l
    <3>1. k <= l
      <4>1. Len(open) + 1 \in 1 .. Len(gs) /\ gs[Len(open) + 1] = fr
        BY <1>4 DEF Appended
      <4> QED  BY <1>1, <1>5, <4>1 DEF IsFn
    <3> QED  BY <1>2, <1>9, <3>1
  <2>2. \A i \in 1 .. Len(open) : IsFn(open, i) => k <= open[i].alen
    BY <1>4 DEF Appended
  <2> QED  BY <1>7, <1>10, <2>1, <2>2 DEF Locals, Outside, l
<1>17. ASSUME NEW i \in 1 .. Len(open), IsFn(open, i) PROVE Separated(d, gs, i)
  <2> DEFINE y == c.fnindex[open[i].fn]
  <2>1. /\ gs[i] = open[i] /\ i \in 1 .. Len(gs)
        /\ Separated(c, open, i) /\ Inside(c, open, i, l)
        /\ open[i].alen < l /\ open[i].alen \in Nat
    BY <1>4, <1>7, <1>8, <1>17 DEF Locals, Appended
  <2>2. open[i].fn \in Fns
    <3>1. open[i] \in FrameType
      BY FrameFields
    <3> QED  BY <1>17, <3>1 DEF FrameType, IsFn
  <2>3. /\ open[i].fn < f /\ open[i].fn \in Nat /\ 1 <= y /\ y \in Nat /\ y <= c.lv[t]
    <3>1. y \in Nat /\ open[i].fn \in Nat
      <4>1. y \in Nat
        BY <1>1, <2>2
      <4>2. MaxFns \in Nat
        BY SizeAssumption
      <4>3. open[i].fn \in Nat
        BY <2>2, <4>2 DEF Fns
      <4> QED  BY <4>1, <4>3
    <3>2. open[i].fn < f /\ 1 <= y
      BY <2>1 DEF Separated, f
    <3>3. y <= c.lv[t]
      <4>1. y <= c.lv[c.active[l]]
        BY <2>1, Zenon DEF Inside
      <4> QED  BY <1>2, <4>1
    <3> QED  BY <3>1, <3>2, <3>3
  <2>4. d.fnindex[gs[i].fn] = y /\ gs[i].fn < d.nextfn
    BY SMTT(20), <1>1, <1>3, <2>1, <2>2, <2>3
  <2> HIDE DEF y
  <2>5. ASSUME NEW k \in 1 .. Len(d.active)
        PROVE  IF gs[i].alen < k THEN Inside(d, gs, i, k) ELSE Around(d, gs, i, k)
    <3>1. CASE k \in 1 .. l
      <4>1. IF open[i].alen < k THEN Inside(c, open, i, k) ELSE Around(c, open, i, k)
        BY <2>1, <3>1 DEF Separated, l
      <4>2. Owns(gs, i, k) => Owns(open, i, k)
        BY <1>4, <3>1 DEF Appended
      <4>3. CASE open[i].alen < k
        <5> DEFINE u == c.lv[c.active[k]]
                   w == d.lv[d.active[k]]
        <5>1. y <= u /\ u <= w /\ u \in Nat /\ w \in Nat
          BY <1>10, <3>1, <4>1, <4>3 DEF Inside, y
        <5> HIDE DEF u, w
        <5>2. y <= w
          BY <2>3, <5>1
        <5>3. y <= d.lv[d.active[k]]
          BY <5>2 DEF w
        <5>4. Inside(d, gs, i, k)
          BY <1>10, <2>1, <2>4, <3>1, <4>1, <4>2, <4>3, <5>3 DEF Inside, y
        <5> QED  BY <2>1, <4>3, <5>4
      <4>4. CASE ~(open[i].alen < k)
        <5>1. Around(d, gs, i, k)
          BY <1>10, <2>1, <2>4, <3>1, <4>1, <4>4 DEF Around, y
        <5> QED  BY <2>1, <4>4, <5>1
      <4> QED  BY <4>3, <4>4
    <3>2. CASE k = l + 1
      <4>1. ~Owns(gs, i, k)
        <5> DEFINE j == Len(open) + 1
        <5>1. j \in i + 1 .. Len(gs) /\ gs[j] = fr
          BY <1>4 DEF Appended
        <5> HIDE DEF j
        <5>2. IsFn(gs, j) /\ gs[j].alen = l
          BY <1>1, <1>5, <5>1 DEF IsFn
        <5>3. ~(k <= gs[j].alen)
          BY <1>2, <3>2, <5>2
        <5> QED  BY <5>1, <5>2, <5>3 DEF Owns
      <4>2. y <= x /\ y <= d.lv[b]
        BY <1>3, <1>5, <2>3
      <4>3. \A v \in VarsIn(d, b) : y <= v.index /\ v.fn # NoFn
        <5> SUFFICES ASSUME NEW v \in VarsIn(d, b) PROVE y <= v.index /\ v.fn # NoFn
          OBVIOUS
        <5>1. v.index \in Nat /\ x <= v.index /\ v.fn = f
          BY <1>3, VarFields
        <5> QED  BY <1>1, <1>5, <2>3, <4>2, <5>1
      <4>4. Inside(d, gs, i, k)
        BY <1>3, <1>9, <2>4, <3>2, <4>1, <4>2, <4>3 DEF Inside
      <4>5. gs[i].alen < k
        BY <1>2, <2>1, <3>2
      <4> QED  BY <4>4, <4>5
    <3> QED  BY <1>9, <3>1, <3>2
  <2> QED  BY <2>3, <2>4, <2>5 DEF Separated
<1>18. Separated(d, gs, Len(open) + 1)
  <2> DEFINE i == Len(open) + 1
  <2>1. gs[i].fn = f /\ gs[i].alen = l
    BY <1>4, <1>5 DEF Appended
  <2> HIDE DEF i
  <2>2. d.fnindex[gs[i].fn] = x /\ gs[i].fn < d.nextfn
    BY <1>1, <1>3, <2>1
  <2>3. ASSUME NEW k \in 1 .. Len(d.active)
        PROVE  IF gs[i].alen < k THEN Inside(d, gs, i, k) ELSE Around(d, gs, i, k)
    <3>1. CASE k \in 1 .. l
      <4>1. ASSUME NEW v \in VarsIn(d, d.active[k]), v.fn # NoFn
            PROVE  v.index < x /\ v.fn # f
        <5>1. v.index \in Nat /\ v.fn \in Nat /\ v.index <= c.lv[t]
          BY <1>14, <3>1, <4>1
        <5>2. v.fn < f
          <6>1. v \in VarsIn(c, c.active[k]) /\ c.active[k] \in Nodes
            BY <1>2, <1>10, <3>1
          <6> QED  BY <1>7, <6>1 DEF Locals, Given, f
        <5>3. v.fn # f
          BY <1>1, <5>1, <5>2
        <5>4. v.index < x
          BY <1>5, <5>1
        <5> QED  BY <5>3, <5>4
      <4>2. Around(d, gs, i, k)
        BY <2>1, <2>2, <4>1 DEF Around
      <4>3. ~(gs[i].alen < k)
        BY <1>2, <2>1, <3>1
      <4> QED  BY <4>2, <4>3
    <3>2. CASE k = l + 1
      <4>1. Inside(d, gs, i, k)
        BY <1>1, <1>3, <1>9, <2>1, <2>2, <3>2 DEF Inside
      <4>2. gs[i].alen < k
        BY <1>2, <2>1, <3>2
      <4> QED  BY <4>1, <4>2
    <3> QED  BY <1>9, <3>1, <3>2
  <2>4. 1 <= d.fnindex[gs[i].fn]
    BY <1>5, <2>2
  <2> QED  BY <2>2, <2>3, <2>4 DEF Separated, i
<1>19. Locals(d, gs)
  BY <1>4, <1>11, <1>12, <1>15, <1>16, <1>17, <1>18 DEF Locals, Appended
<1> QED  BY <1>19 DEF gs

(* Forms that leave the active namespaces as they are.                     *)
LEMMA StayKeeps ==
  ASSUME IInv, VariablesInv, Locals(ctx, open), NEW fr, fr.fn = NoFn,
         NEW d, d.active = ctx.active, d.vars = ctx.vars, d.lv = ctx.lv, d.name = ctx.name,
         d.nextfn = ctx.nextfn, d.fnindex = ctx.fnindex
  PROVE  Locals(d, Append(open, fr))
<1> DEFINE gs == Append(open, fr)
<1>1. Appended(open, gs, fr)
  BY OneFrameMore
<1>2. WF(ctx) /\ Tree(ctx)
  BY DEF IInv, VariablesInv
<1>3. Len(ctx.active) \in Nat /\ \A k \in 1 .. Len(ctx.active) : ctx.active[k] \in Nodes
  BY <1>2, Positions
<1>4. \A i \in 1 .. Len(open) : open[i].alen \in Nat
  BY FrameFields
<1> HIDE DEF gs
<1>5. /\ \A i \in 1 .. Len(gs) : IsFn(gs, i) => i \in 1 .. Len(open) /\ gs[i] = open[i]
      /\ \A i \in 1 .. Len(open) : IsFn(open, i) => i \in 1 .. Len(gs) /\ gs[i] = open[i]
      /\ Len(open) \in Nat /\ Len(gs) \in Nat
  BY <1>1 DEF Appended, IsFn
<1>6. \A n \in Nodes : Lessened(ctx, d, n)
  BY DEF VarsIn, Lessened
<1>7. Locals(d, gs)
  BY <1>3, <1>4, <1>5, <1>6, IndexTypes, LessKeeps
<1> QED  BY <1>7 DEF gs
-----------------------------------------------------------------------------
(***************************************************************************)
(* Forms that are left.                                                    *)
(***************************************************************************)
LessOf(c, d) ==
  /\ d.lv = c.lv /\ d.name = c.name /\ d.nextfn = c.nextfn /\ d.fnindex = c.fnindex
  /\ \A n \in Nodes : Lessened(c, d, n)

(* Leaving a form pops what it activated.                                  *)
LEMMA LeftKeeps ==
  ASSUME IInv, VariablesInv, Locals(ctx, open), open # <<>>, NEW d, LessOf(ctx, d),
         d.active = IF Activates(Back(open).kind) THEN Pop(ctx.active) ELSE ctx.active
  PROVE  Locals(d, Pop(open))
<1> DEFINE gs == Pop(open)
           l == Len(ctx.active)
           last == Len(open)
<1>1. /\ WF(ctx) /\ Tree(ctx) /\ open \in Seq(FrameType) /\ ctx.active \in Seq(Nodes)
  BY Parts DEF IInv, VariablesInv
<1>2. l \in Nat \ {0} /\ \A k \in 1 .. l : ctx.active[k] \in Nodes
  BY <1>1, Positions
<1>3. /\ last \in Nat \ {0} /\ Len(gs) = last - 1 /\ \A i \in 1 .. last - 1 : gs[i] = open[i]
  BY <1>1, PopType, EmptySeq, LenProperties
<1>4. \A i \in 1 .. last : open[i].alen \in Nat
  BY FrameFields
<1>5. /\ d.lv = ctx.lv /\ d.name = ctx.name /\ d.nextfn = ctx.nextfn /\ d.fnindex = ctx.fnindex
      /\ \A n \in Nodes : Lessened(ctx, d, n)
  BY DEF LessOf
<1>6. /\ Len(d.active) \in Nat /\ Len(d.active) <= l
      /\ \A k \in 1 .. Len(d.active) : d.active[k] = ctx.active[k] /\ ctx.active[k] \in Nodes
  <2>1. CASE Activates(Back(open).kind)
    <3>1. d.active = Pop(ctx.active) /\ ctx.active # <<>>
      BY <1>1, <1>2, <2>1, EmptySeq
    <3>2. /\ Len(d.active) = l - 1 /\ \A k \in 1 .. l - 1 : d.active[k] = ctx.active[k]
      BY <1>1, <3>1, PopType
    <3>3. l - 1 \in Nat /\ l - 1 <= l /\ \A k \in 1 .. l - 1 : k \in 1 .. l
      BY <1>2
    <3> QED  BY <1>2, <3>2, <3>3
  <2>2. CASE ~Activates(Back(open).kind)
    BY <1>2, <2>2
  <2> QED  BY <2>1, <2>2
<1>7. IsFn(open, last) => Len(d.active) <= open[last].alen
  <2> SUFFICES ASSUME IsFn(open, last) PROVE Len(d.active) <= open[last].alen
    OBVIOUS
  <2>1. Activates(Back(open).kind) /\ Back(open) = open[last]
    BY InnermostFn, Innermost DEF IsFn, Activates, Kinds
  <2>2. l = open[last].alen + 1
    <3>1. FrameOK(last) /\ Activates(open[last].kind)
      BY <2>1, Innermost
    <3>2. ActiveHeight(last) = open[last].alen + 1
      BY <3>1 DEF FrameOK
    <3> QED  BY <3>2 DEF ActiveHeight
  <2>3. Len(d.active) = l - 1
    <3>1. d.active = Pop(ctx.active) /\ ctx.active # <<>>
      BY <1>1, <1>2, <2>1, EmptySeq
    <3> QED  BY <1>1, <3>1, PopType
  <2>4. open[last].alen \in Nat
    BY <1>3, <1>4
  <2> QED  BY <2>2, <2>3, <2>4
<1> HIDE DEF gs, last
<1>8. /\ \A i \in 1 .. Len(gs) : i \in 1 .. last /\ gs[i] = open[i]
      /\ \A i \in 1 .. last : (i \in 1 .. Len(gs) /\ gs[i] = open[i]) \/ i = last
      /\ Len(gs) \in Nat /\ Len(open) = last /\ last \in Nat
  BY <1>3 DEF last
<1>9. Locals(d, gs)
  <2>1. \A i \in 1 .. Len(open) : IsFn(open, i) => \/ i \in 1 .. Len(gs) /\ gs[i] = open[i]
                                                   \/ Len(d.active) <= open[i].alen
    BY <1>7, <1>8
  <2>2. \A i \in 1 .. Len(gs) : IsFn(gs, i) => i \in 1 .. Len(open) /\ gs[i] = open[i]
    BY <1>8
  <2>3. \A i \in 1 .. Len(open) : open[i].alen \in Nat
    BY <1>4, <1>8
  <2> QED  BY <1>2, <1>5, <1>6, <1>8, <2>1, <2>2, <2>3, IndexTypes, LessKeeps
<1> QED  BY <1>9 DEF gs

(* What restoring a save point leaves was there.                           *)
LEMMA RestoreLess ==
  ASSUME IInv, VariablesInv, open # <<>>, Back(open).kind = "call"
  PROVE  LET d == RestoreContext(ctx, Back(open).saved)
         IN  LessOf(ctx, d) /\ d.active = ctx.active
<1> DEFINE s == Back(open).saved
           d == RestoreContext(ctx, s)
<1>1. Len(open) \in 1 .. Len(open) /\ Back(open) = open[Len(open)]
  BY Innermost
<1>2. WF(ctx) /\ WF(s) /\ Extends(s, ctx)
  BY <1>1 DEF IInv, SavePointsNest, VariablesInv, Saves
<1>3. ctx.vars \in [Nodes -> Seq(Variable)] /\ s.vars \in [Nodes -> Seq(Variable)]
  BY <1>2, Parts
<1>4. /\ d.active = ctx.active /\ d.lv = ctx.lv /\ d.nextfn = ctx.nextfn
      /\ \A n \in s.live :
           /\ Len(d.vars[n]) <= Len(ctx.vars[n])
           /\ \A k \in 1 .. Len(d.vars[n]) : d.vars[n][k] = ctx.vars[n][k]
      /\ \A n \in Nodes \ s.live : d.vars[n] = ctx.vars[n]
  BY Undone
<1>5. d.name = ctx.name /\ d.fnindex = ctx.fnindex
  BY <1>2 DEF RestoreContext, WF, ContextType
<1>4a. \A n \in s.live : Len(d.vars[n]) = Len(s.vars[n])
  BY Undone
<1> HIDE DEF d, s
<1>6. ASSUME NEW n \in Nodes PROVE Lessened(ctx, d, n)
  <2>1. CASE n \in s.live
    <3>1. /\ \A k \in 1 .. Len(d.vars[n]) : d.vars[n][k] = ctx.vars[n][k]
          /\ \A k \in 1 .. Len(d.vars[n]) : k \in 1 .. Len(ctx.vars[n])
      <4>1. s.vars[n] \in Seq(Variable) /\ ctx.vars[n] \in Seq(Variable)
        BY <1>3
      <4>2. Len(s.vars[n]) \in Nat /\ Len(ctx.vars[n]) \in Nat /\ Len(d.vars[n]) = Len(s.vars[n])
        BY <1>4a, <2>1, <4>1, LenProperties
      <4> QED  BY <1>4, <2>1, <4>2
    <3> QED  BY <3>1 DEF VarsIn, Lessened
  <2>2. CASE n \notin s.live
    BY <1>4, <2>2 DEF VarsIn, Lessened
  <2> QED  BY <2>1, <2>2
<1>7. LessOf(ctx, d)
  BY <1>4, <1>5, <1>6 DEF LessOf
<1> QED  BY <1>4, <1>7 DEF d, s
-----------------------------------------------------------------------------
(***************************************************************************)
(* The specification.                                                      *)
(***************************************************************************)
LEMMA InitLocals == Init => LocalsInv
<1> SUFFICES ASSUME NEW pre \in PreIndices, ctx = EmptyContext(pre), open = <<>>
             PROVE  LocalsInv
  BY DEF Init
<1>1. Root \in Nodes /\ Len(open) = 0 /\ Len(ctx.active) = 1
  BY SizeAssumption DEF Nodes, EmptyContext
<1>2. /\ ctx.live = {Root} /\ ctx.fresh = 2 /\ ctx.active = <<Root>> /\ ctx.anon = 0
      /\ ctx.vars = [n \in Nodes |-> <<>>] /\ ctx.name = [n \in Nodes |-> 0]
  BY DEF EmptyContext
<1>3. \A n \in Nodes : VarsIn(ctx, n) = {}
  <2>1. \A n \in Nodes : ctx.vars[n] = <<>>
    BY <1>2
  <2>2. \A n \in Nodes : Len(ctx.vars[n]) = 0
    BY <2>1
  <2> QED  BY <2>2 DEF VarsIn
<1>4. NamesBelow(ctx)
  BY <1>1, <1>2 DEF NamesBelow
<1>5. \A k \in 1 .. Len(ctx.active) : k = 1 /\ ctx.active[k] = Root
  BY <1>1, <1>2
<1>6. Globals(ctx) /\ Given(ctx) /\ Counted(ctx) /\ Outside(ctx, open)
  BY <1>1, <1>3, <1>5 DEF Globals, Given, Counted, Outside, Named
<1>7. \A i \in 1 .. Len(open) : FALSE
  BY <1>1
<1> QED  BY <1>4, <1>6, <1>7 DEF LocalsInv, Locals

(* Each step keeps the functions' variables apart.                         *)
LEMMA NextLocals ==
  ASSUME MaxNodes < AnonLimit, IInv, VariablesInv, LocalsInv, [Next]_vars
  PROVE  LocalsInv'
<1>1. /\ WF(ctx) /\ Tree(ctx) /\ ctx \in ContextType /\ ctx.fresh \in Nat /\ MaxNodes \in Nat
      /\ NamesBelow(ctx) /\ Locals(ctx, open)
  BY Parts, SizeAssumption DEF IInv, VariablesInv, LocalsInv
<1>2. IInv' /\ VariablesInv' /\ NamesBelow(ctx')
  BY <1>1, NextIInv, NextVariables, NextNamesBelow
<1>3. WF(ctx') /\ Tree(ctx')
  <2>1. WF(ctx')
    BY <1>2 DEF IInv, WF, StackNodes
  <2>2. Tree(ctx')
    BY <1>2 DEF VariablesInv, Tree, Sloped, StackIsPath
  <2> QED  BY <2>1, <2>2
<1> DEFINE Goal == Locals(ctx', open')
<1>4. ASSUME NEW kind, NEW c, NEW fn, Enter(kind, c, fn)
      PROVE  /\ ctx' = c /\ open' = Append(open, Frame(kind, c, fn))
             /\ Frame(kind, c, fn).fn = fn /\ Frame(kind, c, fn).alen = Len(ctx.active)
  BY <1>4 DEF Enter, Frame
<1>5. ASSUME NEW kind, NEW c, Leave(kind, c), LessOf(ctx, c),
             c.active = IF Activates(kind) THEN Pop(ctx.active) ELSE ctx.active
      PROVE  Goal
  <2>1. open # <<>> /\ Back(open).kind = kind /\ ctx' = c /\ open' = Pop(open)
    BY <1>5 DEF Leave
  <2> QED  BY <1>1, <1>5, <2>1, LeftKeeps
<1>6. ASSUME NEW nm \in NsNames, OpenNamespace(nm) PROVE Goal
  <2> DEFINE c == ActivateNamespace(ctx, nm)
             fr == Frame("namespace", c, NoFn)
  <2>1. ctx.fresh <= MaxNodes /\ Enter("namespace", c, NoFn) /\ ~InFunction
    BY <1>1, <1>6 DEF OpenNamespace, Room
  <2>2. ctx' = c /\ open' = Append(open, fr) /\ fr.fn = NoFn
    BY <1>4, <2>1
  <2> HIDE DEF fr
  <2> QED  BY <1>1, <1>3, <2>1, <2>2, NamedEnterKeeps
<1>7. ASSUME NEW nm \in NsNames, OpenUsing(nm) PROVE Goal
  <2>1. PICK n \in ctx.live : Enter("using", UseNamespace(ctx, n), NoFn)
    BY <1>7 DEF OpenUsing
  <2> DEFINE c == UseNamespace(ctx, n)
             fr == Frame("using", c, NoFn)
  <2>2. ctx' = c /\ open' = Append(open, fr) /\ fr.fn = NoFn
    BY <1>4, <2>1
  <2>3. /\ c.active = ctx.active /\ c.vars = ctx.vars /\ c.lv = ctx.lv /\ c.name = ctx.name
        /\ c.nextfn = ctx.nextfn /\ c.fnindex = ctx.fnindex
    BY <1>1 DEF UseNamespace, ContextType
  <2> HIDE DEF c, fr
  <2> QED  BY <1>1, <2>2, <2>3, StayKeeps
<1>8. ASSUME BeginCall PROVE Goal
  <2> DEFINE fr == Frame("call", ctx, NoFn)
  <2>1. Enter("call", ctx, NoFn)
    BY <1>8 DEF BeginCall
  <2>2. ctx' = ctx /\ open' = Append(open, fr) /\ fr.fn = NoFn
    BY <1>4, <2>1
  <2> HIDE DEF fr
  <2> QED  BY <1>1, <2>2, StayKeeps
<1>9. ASSUME NEW kind \in {"new_scope", "branch"}, OpenScope(kind) PROVE Goal
  <2> DEFINE c == ActivateAnonymousNamespace(ctx)
             fr == Frame(kind, c, NoFn)
  <2>1. ctx.fresh <= MaxNodes /\ Enter(kind, c, NoFn) /\ InFunction
    BY <1>1, <1>9 DEF OpenScope, Room
  <2>2. ctx' = c /\ open' = Append(open, fr) /\ fr.fn = NoFn
    BY <1>4, <2>1
  <2>3. ScopeEntered(ctx, c)
    BY <1>1, <2>1, AnonymousOpens
  <2> HIDE DEF c, fr
  <2> QED  BY <1>1, <1>3, <2>1, <2>2, <2>3, ScopeKeeps
<1>10. ASSUME NEW kind, NEW nm \in FunNames \cup Nat, NEW ps \in Parameters,
              ctx.fresh + 2 <= MaxNodes + 1, ctx.nextfn \in Fns,
              Enter(kind, BeginFn(ctx, nm, ps), ctx.nextfn)
       PROVE  Goal
  <2> DEFINE c == BeginFn(ctx, nm, ps)
             fr == Frame(kind, c, ctx.nextfn)
  <2>1. ctx' = c /\ open' = Append(open, fr) /\ fr.fn = ctx.nextfn /\ fr.alen = Len(ctx.active)
    BY <1>4, <1>10
  <2>2. \A m \in Nodes : m >= ctx.fresh => ctx.vars[m] = <<>>
    BY FutureEmpty
  <2>3. BodyEntered(ctx, c)
    BY <1>1, <1>10, <2>2, BeginFnEntersBody
  <2> HIDE DEF c, fr
  <2> QED  BY <1>1, <1>3, <1>10, <2>1, <2>3, BodyKeeps
<1>11. ASSUME NEW nm \in FunNames, NEW ps \in Parameters, BeginFunction(nm, ps) PROVE Goal
  BY <1>10, <1>11 DEF BeginFunction, Room
<1>12. ASSUME NEW ps \in Parameters, BeginAnonFunction(ps) PROVE Goal
  <2>1. ctx.nextfn \in Nat
    BY <1>1, FieldTypes
  <2> QED  BY <1>10, <1>12, <2>1 DEF BeginAnonFunction, Room
<1>13. ASSUME NEW nm \in VarNames, DefineVariable(nm) PROVE Goal
  <2>1. ctx' = AddVariable(ctx, nm) /\ open' = open
    BY <1>13 DEF DefineVariable
  <2>2. OneMore(ctx, ctx')
    BY <1>1, <2>1, AddVariableOne
  <2> QED  BY <1>1, <2>1, <2>2, DeclareKeeps
<1>14. ASSUME NEW c, c.vars = ctx.vars, c.lv = ctx.lv, c.name = ctx.name,
              c.nextfn = ctx.nextfn, c.fnindex = ctx.fnindex
       PROVE  LessOf(ctx, c)
  BY <1>14 DEF LessOf, VarsIn, Lessened
<1>15. ASSUME CloseNamespace \/ CloseNewScope PROVE Goal
  <2> DEFINE c == DeactivateNamespace(ctx, Back(open).name)
  <2>1. PICK kind \in {"namespace", "new_scope"} : Leave(kind, c)
    BY <1>15 DEF CloseNamespace, CloseNewScope
  <2>2. open # <<>> /\ Back(open).kind = kind /\ Activates(kind)
    BY <2>1 DEF Leave, Activates, Kinds
  <2>3. ctx.name[NS(ctx)] = Back(open).name /\ ctx.name[Back(ctx.used)] = Back(open).name
    BY <2>2, Innermost
  <2>4. /\ c.active = Pop(ctx.active) /\ c.vars = ctx.vars /\ c.lv = ctx.lv
        /\ c.name = ctx.name /\ c.nextfn = ctx.nextfn /\ c.fnindex = ctx.fnindex
    BY <1>1, <2>3 DEF DeactivateNamespace, ContextType
  <2> HIDE DEF c
  <2> QED  BY <1>5, <1>14, <2>1, <2>2, <2>4
<1>16. ASSUME CloseUsing PROVE Goal
  <2> DEFINE c == UnuseNamespace(ctx)
  <2>1. Leave("using", c) /\ ~Activates("using")
    BY <1>16 DEF CloseUsing, Activates
  <2>2. /\ c.active = ctx.active /\ c.vars = ctx.vars /\ c.lv = ctx.lv
        /\ c.name = ctx.name /\ c.nextfn = ctx.nextfn /\ c.fnindex = ctx.fnindex
    BY <1>1 DEF UnuseNamespace, ContextType
  <2> HIDE DEF c
  <2> QED  BY <1>5, <1>14, <2>1, <2>2
<1>17. ASSUME CloseBranch PROVE Goal
  <2> DEFINE c == DeactivateAnonymousNamespace(ctx)
  <2>1. Leave("branch", c) /\ Activates("branch")
    BY <1>17 DEF CloseBranch, Activates, Kinds
  <2>2. /\ c.active = Pop(ctx.active) /\ c.vars = ctx.vars /\ c.lv = ctx.lv
        /\ c.name = ctx.name /\ c.nextfn = ctx.nextfn /\ c.fnindex = ctx.fnindex
    BY <1>1 DEF DeactivateAnonymousNamespace, ContextType
  <2> HIDE DEF c
  <2> QED  BY <1>5, <1>14, <2>1, <2>2
<1>18. ASSUME EndCall PROVE Goal
  <2>1. Leave("call", ctx) /\ ~Activates("call")
    BY <1>18 DEF EndCall, Activates
  <2>2. LessOf(ctx, ctx)
    BY <1>14
  <2> QED  BY <1>5, <2>1, <2>2
<1>19. ASSUME RestoreCall PROVE Goal
  <2> DEFINE c == RestoreContext(ctx, Back(open).saved)
  <2>1. Leave("call", c) /\ ~Activates("call") /\ open # <<>> /\ Back(open).kind = "call"
    BY <1>19 DEF RestoreCall, Leave, Activates
  <2>2. LessOf(ctx, c) /\ c.active = ctx.active
    BY <2>1, RestoreLess
  <2> HIDE DEF c
  <2> QED  BY <1>5, <2>1, <2>2
<1>20. ASSUME NEW kind \in {"fn", "anon_fn"}, open # <<>>, Back(open).kind = kind
       PROVE  LET b == LeaveBody(ctx, Back(open).name)
              IN  /\ b.active = Pop(ctx.active) /\ b.vars = ctx.vars /\ b.lv = ctx.lv
                  /\ b.name = ctx.name /\ b.nextfn = ctx.nextfn /\ b.fnindex = ctx.fnindex
                  /\ b.fresh = ctx.fresh /\ Activates(kind) /\ WF(b)
  <2> DEFINE b == LeaveBody(ctx, Back(open).name)
  <2>1. Activates(kind)
    BY DEF Activates, Kinds
  <2>2. /\ Len(ctx.active) > 1 /\ Len(ctx.used) > 1 /\ Back(open).fn # NoFn
        /\ ctx.name[NS(ctx)] = Back(open).name /\ ctx.name[Back(ctx.used)] = Back(open).name
    BY <1>20, <2>1, Innermost, InnermostFn
  <2>3. WF(b)
    BY <1>1, <2>2, LeaveBodyLeaves DEF Left, Grows
  <2>4. /\ b.active = Pop(ctx.active) /\ b.vars = ctx.vars /\ b.lv = ctx.lv
        /\ b.name = ctx.name /\ b.nextfn = ctx.nextfn /\ b.fnindex = ctx.fnindex
        /\ b.fresh = ctx.fresh
    <3> DEFINE a == [ctx EXCEPT !.scopes = Pop(@)]
    <3>1. /\ a.active = ctx.active /\ a.used = ctx.used /\ a.vars = ctx.vars /\ a.lv = ctx.lv
          /\ a.name = ctx.name /\ a.nextfn = ctx.nextfn /\ a.fnindex = ctx.fnindex
          /\ a.fresh = ctx.fresh /\ NS(a) = NS(ctx)
      BY <1>1 DEF ContextType, NS
    <3>2. b = DeactivateNamespace(a, Back(open).name)
      BY DEF LeaveBody
    <3>3. b = [a EXCEPT !.active = Pop(@), !.used = Pop(@)]
      <4> HIDE DEF a, b
      <4> QED  BY <2>2, <3>1, <3>2 DEF DeactivateNamespace
    <3> HIDE DEF b
    <3> QED  BY <1>1, <3>3 DEF ContextType
  <2> QED  BY <2>1, <2>3, <2>4
<1>21. ASSUME EndFunction \/ AbandonAnonFunction PROVE Goal
  <2> DEFINE c == LeaveBody(ctx, Back(open).name)
  <2>1. PICK kind \in {"fn", "anon_fn"} : Leave(kind, c)
    BY <1>21 DEF EndFunction, AbandonAnonFunction
  <2>2. open # <<>> /\ Back(open).kind = kind
    BY <2>1 DEF Leave
  <2>3. /\ c.active = Pop(ctx.active) /\ c.vars = ctx.vars /\ c.lv = ctx.lv
        /\ c.name = ctx.name /\ c.nextfn = ctx.nextfn /\ c.fnindex = ctx.fnindex
        /\ Activates(kind)
    BY <1>20, <2>2
  <2> HIDE DEF c
  <2> QED  BY <1>5, <1>14, <2>1, <2>3
<1>22. ASSUME EndAnonFunction PROVE Goal
  <2> DEFINE b == LeaveBody(ctx, Back(open).name)
             c == ZeroIndices(b, ctx.lv_index)
  <2>1. Leave("anon_fn", c) /\ open # <<>> /\ Back(open).kind = "anon_fn"
    BY <1>22 DEF EndAnonFunction, Leave
  <2>2. /\ b.active = Pop(ctx.active) /\ b.vars = ctx.vars /\ b.lv = ctx.lv
        /\ b.name = ctx.name /\ b.nextfn = ctx.nextfn /\ b.fnindex = ctx.fnindex
        /\ b.fresh = ctx.fresh /\ Activates("anon_fn") /\ WF(b)
    BY <1>20, <2>1
  <2>3. b.lv_index = ctx.lv_index
    BY <1>1 DEF b, LeaveBody, DeactivateNamespace, ContextType
  <2> HIDE DEF b
  <2>4. /\ c.active = b.active /\ c.lv = b.lv /\ c.nextfn = b.nextfn
        /\ c.name = b.name /\ c.fnindex = b.fnindex
        /\ \A n \in Nodes :
             /\ Len(c.vars[n]) = Len(ctx.vars[n])
             /\ \A k \in 1 .. Len(ctx.vars[n]) :
                  SameButIndex(ctx.lv_index, ctx.vars[n][k], c.vars[n][k])
    BY <2>2, <2>3, ZeroKeeps
  <2> HIDE DEF c
  <2>5. ASSUME NEW n \in Nodes PROVE Lessened(ctx, c, n)
    <3> SUFFICES ASSUME NEW k \in 1 .. Len(ctx.vars[n])
                 PROVE  /\ c.vars[n][k].fn = ctx.vars[n][k].fn
                        /\ \/ c.vars[n][k].index = ctx.vars[n][k].index
                           \/ c.vars[n][k].index = 0
      BY <2>4 DEF Lessened, VarsIn
    <3>1. ctx.vars[n][k] \in Variable
      <4>1. ctx.vars[n] \in Seq(Variable)
        BY <1>1, Parts
      <4> QED  BY <4>1, ElementOfSeq
    <3> QED  BY <2>4, <3>1 DEF SameButIndex, Variable
  <2>6. LessOf(ctx, c)
    BY <2>2, <2>4, <2>5 DEF LessOf
  <2> QED  BY <1>5, <2>1, <2>2, <2>4, <2>6
<1>23. ASSUME UNCHANGED vars PROVE Goal
  BY <1>1, <1>23 DEF vars
<1> HIDE DEF Goal
<1>24. Goal
  BY <1>6, <1>7, <1>8, <1>9, <1>11, <1>12, <1>13, <1>15, <1>16, <1>17, <1>18, <1>19,
     <1>21, <1>22, <1>23 DEF Next
<1>25. Locals(ctx', open')
  BY <1>24 DEF Goal
<1> QED  BY <1>2, <1>25 DEF LocalsInv

(* The label-variable indices, and the namespaces around them, keep the    *)
(* variables of the functions being parsed apart.                          *)
THEOREM FunctionsApart == ASSUME MaxNodes < AnonLimit PROVE Spec => []LocalsInv
<1>1. IInv /\ VariablesInv /\ LocalsInv /\ [Next]_vars => LocalsInv'
  BY NextLocals
<1> QED  BY <1>1, InitLocals, Invariance, AddedBelow, PTL DEF Spec
-----------------------------------------------------------------------------
(***************************************************************************)
(* What a return closes, and what a name denotes.                          *)
(***************************************************************************)
(* The variables in scope.                                                 *)
LEMMA InScope ==
  ASSUME IInv, VariablesInv
  PROVE  \A x \in VarsOf(ctx, Chain(ctx, NS(ctx))) :
           \E k \in 1 .. Len(ctx.active) :
              /\ VarAt(ctx, x) \in VarsIn(ctx, ctx.active[k]) /\ VarAt(ctx, x).index \in Nat
              /\ x \in Cleared(ctx) <=> VarAt(ctx, x).index = 0
<1>1. WF(ctx) /\ Tree(ctx)
  BY DEF IInv, VariablesInv
<1>2. /\ Len(ctx.active) \in Nat \ {0} /\ NS(ctx) = ctx.active[Len(ctx.active)]
      /\ \A k \in 1 .. Len(ctx.active) : ctx.active[k] \in Nodes
  BY <1>1, Positions
<1>3. Chain(ctx, NS(ctx)) = {ctx.active[k] : k \in 1 .. Len(ctx.active)}
  <2>1. Sloped(ctx) /\ StackIsPath(ctx)
    BY <1>1 DEF Tree
  <2>2. \A k \in 1 .. Len(ctx.active) :
          Chain(ctx, ctx.active[k]) = {ctx.active[j] : j \in 1 .. k}
    BY <2>1, ChainOfStack
  <2>3. Len(ctx.active) \in 1 .. Len(ctx.active)
    BY <1>2
  <2> QED  BY <1>2, <2>2, <2>3
<1> SUFFICES ASSUME NEW x \in VarsOf(ctx, Chain(ctx, NS(ctx)))
             PROVE  \E k \in 1 .. Len(ctx.active) :
                       /\ VarAt(ctx, x) \in VarsIn(ctx, ctx.active[k])
                       /\ VarAt(ctx, x).index \in Nat
                       /\ x \in Cleared(ctx) <=> VarAt(ctx, x).index = 0
  OBVIOUS
<1>4. PICK n \in Chain(ctx, NS(ctx)) : x \in {n} \X (1 .. Len(ctx.vars[n]))
  BY DEF VarsOf
<1>5. x[1] = n /\ x[2] \in 1 .. Len(ctx.vars[n])
  BY <1>4
<1>6. VarAt(ctx, x) \in VarsIn(ctx, n)
  BY <1>5 DEF VarAt, VarsIn
<1>7. PICK k \in 1 .. Len(ctx.active) : n = ctx.active[k]
  BY <1>3, <1>4
<1>8. VarAt(ctx, x).index \in Nat
  BY <1>1, <1>2, <1>6, <1>7, VarFields
<1>9. x \in Cleared(ctx) <=> VarAt(ctx, x).index = 0
  <2>1. n \in Nodes
    BY <1>2, <1>7
  <2>2. x \in VarsOf(ctx, Nodes)
    BY <1>4, <2>1 DEF VarsOf
  <2>3. VarAt(ctx, x).index = 0 => ctx.lv_index <= ctx.lv[x[1]]
    BY <1>5, <2>1 DEF VariablesInv, Indexed, VarAt
  <2> QED  BY <2>2, <2>3 DEF Cleared
<1> QED  BY <1>6, <1>7, <1>8, <1>9

(* Those that the current function owns.                                   *)
LEMMA CurrentOwns ==
  ASSUME IInv, VariablesInv, LocalsInv, InFunction
  PROVE  \E i \in 1 .. Len(open) :
           /\ open[i].fn = CurrentFn(ctx) /\ Activates(open[i].kind)
           /\ \A j \in i + 1 .. Len(open) : ~IsFn(open, j)
           /\ CurrentFn(ctx) # NoFn /\ ctx.fnindex[CurrentFn(ctx)] \in Nat \ {0}
           /\ \A k \in 1 .. Len(ctx.active) : \A v \in VarsIn(ctx, ctx.active[k]) :
                IF open[i].alen < k
                  THEN v.fn = CurrentFn(ctx)
                       /\ (v.index = 0 \/ ctx.fnindex[CurrentFn(ctx)] <= v.index)
                  ELSE v.fn = NoFn \/ (v.index < ctx.fnindex[CurrentFn(ctx)]
                                       /\ v.fn # CurrentFn(ctx))
<1> DEFINE f == CurrentFn(ctx)
           x == ctx.fnindex[f]
<1>1. PICK i \in 1 .. Len(open) :
        /\ IsFn(open, i) /\ open[i].fn = f /\ open[i].kind \in {"fn", "anon_fn"}
        /\ \A j \in i + 1 .. Len(open) : ~IsFn(open, j)
  BY FunctionForms
<1>2. /\ f \in Fns /\ ctx.fnindex \in [Fns -> Nat]
      /\ Locals(ctx, open)
  <2>1. Locals(ctx, open)
    BY DEF LocalsInv
  <2>2. f \in Fns
    BY <2>1, CurrentInside
  <2>3. ctx.fnindex \in [Fns -> Nat]
    BY FieldTypes DEF IInv, WF
  <2> QED  BY <2>1, <2>2, <2>3
<1>3. x \in Nat /\ f # NoFn
  <2>1. x \in Nat
    BY <1>2
  <2>2. f \in 1 .. MaxFns
    BY <1>2 DEF Fns
  <2> HIDE DEF f
  <2>3. f # 0
    BY <2>2
  <2> QED  BY <2>1, <2>3
<1>4. Separated(ctx, open, i)
  BY <1>1, <1>2 DEF Locals
<1>5. Activates(open[i].kind)
  BY <1>1 DEF Activates, Kinds
<1>6. 1 <= x
  BY <1>1, <1>4 DEF Separated
<1>7. ASSUME NEW k \in 1 .. Len(ctx.active), NEW v \in VarsIn(ctx, ctx.active[k])
      PROVE  IF open[i].alen < k THEN v.fn = f /\ (v.index = 0 \/ x <= v.index)
                                 ELSE v.fn = NoFn \/ (v.index < x /\ v.fn # f)
  <2>1. CASE open[i].alen < k
    <3>1. Inside(ctx, open, i, k)
      BY <1>4, <2>1 DEF Separated
    <3>2. Owns(open, i, k)
      BY <1>1, <2>1 DEF Owns
    <3> QED  BY <1>1, <2>1, <3>1, <3>2 DEF Inside
  <2>2. CASE ~(open[i].alen < k)
    <3>1. Around(ctx, open, i, k)
      BY <1>4, <2>2 DEF Separated
    <3> QED  BY <1>1, <2>2, <3>1 DEF Around
  <2> QED  BY <2>1, <2>2
<1> QED  BY <1>1, <1>3, <1>5, <1>6, <1>7

(* A return destructs, of the local variables of all the functions being   *)
(* parsed, those of the function it is in that are in scope and whose      *)
(* index has not been cleared, whatever the unset lv_index holds, as long  *)
(* as the numbers of anonymous namespaces fit.                             *)
THEOREM ReturnsClose == ASSUME MaxNodes < AnonLimit PROVE Spec => []ReturnClosesLocals
<1>1. ASSUME IInv, VariablesInv, LocalsInv PROVE ReturnClosesLocals
  <2> DEFINE f == CurrentFn(ctx)
             y == ctx.fnindex[f]
             all == VarsOf(ctx, Chain(ctx, NS(ctx)))
  <2> SUFFICES ASSUME InFunction
               PROVE  LocalsClosed = OwnLocals(ctx) \ Cleared(ctx)
    BY DEF ReturnClosesLocals
  <2>1. PICK i \in 1 .. Len(open) :
          /\ f # NoFn /\ y \in Nat \ {0}
          /\ \A k \in 1 .. Len(ctx.active) : \A v \in VarsIn(ctx, ctx.active[k]) :
               IF open[i].alen < k THEN v.fn = f /\ (v.index = 0 \/ y <= v.index)
                                   ELSE v.fn = NoFn \/ (v.index < y /\ v.fn # f)
    BY <1>1, CurrentOwns
  <2> HIDE DEF f, y, all
  <2>2. ASSUME NEW x \in all
        PROVE  VarAt(ctx, x).fn = f /\ x \notin Cleared(ctx) <=>
                 /\ VarAt(ctx, x).index # 0 /\ VarAt(ctx, x).index >= y
                 /\ VarAt(ctx, x).fn # NoFn
    <3> DEFINE v == VarAt(ctx, x)
    <3>1. PICK k \in 1 .. Len(ctx.active) : /\ v \in VarsIn(ctx, ctx.active[k])
                                            /\ v.index \in Nat
                                            /\ x \in Cleared(ctx) <=> v.index = 0
      BY <1>1, InScope DEF all
    <3> HIDE DEF v
    <3>2. IF open[i].alen < k THEN v.fn = f /\ (v.index = 0 \/ y <= v.index)
                              ELSE v.fn = NoFn \/ (v.index < y /\ v.fn # f)
      BY <2>1, <3>1
    <3>3. CASE v.fn = f /\ (v.index = 0 \/ y <= v.index)
      BY <2>1, <3>1, <3>3 DEF v
    <3>4. CASE v.fn = NoFn
      BY <2>1, <3>4 DEF v
    <3>5. CASE v.index < y /\ v.fn # f
      BY <2>1, <3>1, <3>5 DEF v
    <3> QED  BY <3>2, <3>3, <3>4, <3>5
  <2>3. ClosedByReturn(ctx) = {x \in all : VarAt(ctx, x).index # 0 /\ VarAt(ctx, x).index >= y}
    BY DEF ClosedByReturn, VarsAfterIndex, all, y, f
  <2>4. OwnLocals(ctx) = {x \in all : VarAt(ctx, x).fn = f}
    BY DEF OwnLocals, all, f
  <2> QED  BY <2>2, <2>3, <2>4 DEF LocalsClosed
<1> QED  BY <1>1, Invariance, AddedBelow, FunctionsApart, PTL

(* Above a form with no using-namespace form inside it, the two stacks     *)
(* hold the same namespaces.                                               *)
LEMMA SameAbove ==
  ASSUME IInv, NEW i \in 1 .. Len(open), Activates(open[i].kind),
         \A j \in i + 1 .. Len(open) : open[j].kind # "using"
  PROVE  /\ Len(ctx.used) - open[i].ulen = Len(ctx.active) - open[i].alen
         /\ \A k \in open[i].alen + 1 .. Len(ctx.active) :
              ctx.used[open[i].ulen + (k - open[i].alen)] = ctx.active[k]
<1> DEFINE a == open[i].alen
           u == open[i].ulen
           l == Len(open)
           Even(j) == /\ UsedHeight(j) - u = ActiveHeight(j) - a
                      /\ \A k \in a + 1 .. ActiveHeight(j) :
                           ctx.used[u + (k - a)] = ctx.active[k]
           T == {j \in i .. l : ~Even(j)}
<1>1. /\ l \in Nat /\ i \in 1 .. l /\ a \in Nat /\ u \in Nat
      /\ \A j \in i .. l : j \in 1 .. l /\ open[j].alen \in Nat /\ open[j].ulen \in Nat
  <2>1. l \in Nat /\ i \in 1 .. l
    BY LenProperties DEF IInv
  <2>2. \A j \in i .. l : j \in 1 .. l
    BY <2>1
  <2> QED  BY <2>1, <2>2, FrameFields
<1>2. \A j \in i .. l : FrameOK(j) /\ open[j].kind \in Kinds
  BY <1>1, FrameFields DEF IInv, StackDiscipline
<1>3. \A j \in i + 1 .. l : ActiveHeight(j - 1) = open[j].alen /\ UsedHeight(j - 1) = open[j].ulen
  <2> SUFFICES ASSUME NEW j \in i + 1 .. l
               PROVE  ActiveHeight(j - 1) = open[j].alen /\ UsedHeight(j - 1) = open[j].ulen
    OBVIOUS
  <2>1. j - 1 # l /\ (j - 1) + 1 = j
    BY <1>1
  <2> QED  BY <2>1 DEF ActiveHeight, UsedHeight
<1> HIDE DEF a, u, l, Even
<1>4. ASSUME NEW j \in i .. l, Activates(open[j].kind),
             \/ /\ Even(j - 1)
                /\ ActiveHeight(j - 1) = open[j].alen /\ UsedHeight(j - 1) = open[j].ulen
             \/ open[j].alen = a /\ open[j].ulen = u
      PROVE  Even(j)
  <2>0. \/ /\ Even(j - 1)
           /\ ActiveHeight(j - 1) = open[j].alen /\ UsedHeight(j - 1) = open[j].ulen
        \/ open[j].alen = a /\ open[j].ulen = u
    BY <1>4
  <2> DEFINE p == open[j].alen
             q == open[j].ulen
  <2>1. /\ ActiveHeight(j) = p + 1 /\ UsedHeight(j) = q + 1
        /\ ctx.active[p + 1] = ctx.used[q + 1] /\ p \in Nat /\ q \in Nat
    BY <1>1, <1>2, <1>4 DEF FrameOK
  <2>2. q - u = p - a /\ \A k \in a + 1 .. p : ctx.used[u + (k - a)] = ctx.active[k]
    <3>1. CASE Even(j - 1) /\ ActiveHeight(j - 1) = p /\ UsedHeight(j - 1) = q
      BY <3>1 DEF Even
    <3>2. CASE p = a /\ q = u
      <4>1. a + 1 .. p = {}
        BY <1>1, <3>2
      <4> QED  BY <1>1, <3>2, <4>1
    <3> QED  BY <2>0, <3>1, <3>2
  <2> HIDE DEF p, q
  <2>3. (q + 1) - u = (p + 1) - a
    BY <1>1, <2>1, <2>2
  <2>4. ASSUME NEW k \in a + 1 .. p + 1 PROVE ctx.used[u + (k - a)] = ctx.active[k]
    <3>1. CASE k = p + 1
      <4>1. u + (k - a) = q + 1
        BY <1>1, <2>1, <2>2, <3>1
      <4> QED  BY <2>1, <3>1, <4>1
    <3>2. CASE k # p + 1
      <4>1. k \in a + 1 .. p
        BY <1>1, <2>1, <3>2
      <4> QED  BY <2>2, <4>1
    <3> QED  BY <3>1, <3>2
  <2> QED  BY <2>1, <2>3, <2>4 DEF Even
<1>5. T = {}
  <2> SUFFICES ASSUME T # {} PROVE FALSE
    OBVIOUS
  <2>1. PICK j \in T : \A m \in T : j <= m
    <3>1. T \in SUBSET Nat
      BY <1>1
    <3> HIDE DEF T
    <3> QED  BY <3>1, Smallest
  <2>2. j \in i .. l /\ ~Even(j)
    BY <2>1
  <2>3. CASE j = i
    BY <1>1, <1>4, <2>2, <2>3 DEF a, u
  <2>4. CASE j # i
    <3>1. j - 1 \in i .. l /\ j \in i + 1 .. l /\ ~(j <= j - 1)
      BY <1>1, <2>2, <2>4
    <3>2. Even(j - 1)
      BY <2>1, <3>1
    <3>3. ActiveHeight(j - 1) = open[j].alen /\ UsedHeight(j - 1) = open[j].ulen
      BY <1>3, <3>1
    <3>4. CASE Activates(open[j].kind)
      <4> HIDE DEF T
      <4> QED  BY <1>4, <2>2, <3>2, <3>3, <3>4
    <3>5. CASE ~Activates(open[j].kind)
      <4>1. open[j].kind = "call"
        BY <1>2, <2>2, <3>1, <3>5 DEF Activates, l
      <4>2. ActiveHeight(j) = open[j].alen /\ UsedHeight(j) = open[j].ulen
        BY <1>2, <2>2, <4>1 DEF FrameOK
      <4> QED  BY <2>2, <3>2, <3>3, <4>2 DEF Even
    <3> QED  BY <3>4, <3>5
  <2> QED  BY <2>3, <2>4
<1>6. Even(l)
  <2>1. l \in i .. l
    BY <1>1
  <2> QED  BY <1>5, <2>1
<1>7. UsedHeight(l) = Len(ctx.used) /\ ActiveHeight(l) = Len(ctx.active)
  BY DEF UsedHeight, ActiveHeight, l
<1> QED  BY <1>6, <1>7 DEF Even, a, u

(* A plain name that is declared in the current function, in a scope that  *)
(* is open, denotes a variable of it, if no using-namespace form is open   *)
(* inside the function.                                                    *)
THEOREM LocalsVisible == ASSUME MaxNodes < AnonLimit PROVE Spec => []OwnLocalsVisible
<1>1. ASSUME IInv, VariablesInv, LocalsInv PROVE OwnLocalsVisible
  <2> DEFINE f == CurrentFn(ctx)
  <2> SUFFICES ASSUME InFunction, ~UsingInFunction, NEW x \in OwnLocals(ctx)
               PROVE  \E v \in GetVariable(ctx, VarAt(ctx, x).name) : v.var.fn = f
    BY DEF OwnLocalsVisible
  <2>1. PICK i \in 1 .. Len(open) :
          /\ open[i].fn = f /\ Activates(open[i].kind) /\ f # NoFn
          /\ \A k \in 1 .. Len(ctx.active) : \A v \in VarsIn(ctx, ctx.active[k]) :
               IF open[i].alen < k THEN v.fn = f ELSE v.fn # f
    <3>1. PICK i \in 1 .. Len(open) :
            /\ open[i].fn = f /\ Activates(open[i].kind) /\ f # NoFn
            /\ \A k \in 1 .. Len(ctx.active) : \A v \in VarsIn(ctx, ctx.active[k]) :
                 IF open[i].alen < k
                   THEN v.fn = f /\ (v.index = 0 \/ ctx.fnindex[f] <= v.index)
                   ELSE v.fn = NoFn \/ (v.index < ctx.fnindex[f] /\ v.fn # f)
      BY <1>1, CurrentOwns
    <3> HIDE DEF f
    <3>2. \A k \in 1 .. Len(ctx.active) : \A v \in VarsIn(ctx, ctx.active[k]) :
            IF open[i].alen < k THEN v.fn = f ELSE v.fn # f
      BY <3>1
    <3> QED  BY <3>1, <3>2
  <2> DEFINE a == open[i].alen
             u == open[i].ulen
             l == Len(ctx.active)
             nm == VarAt(ctx, x).name
             T == {k \in 1 .. l : a < k /\ nm \in NamesOf(ctx.vars[ctx.active[k]])}
  <2>2. /\ a \in Nat /\ u \in Nat /\ l \in Nat /\ Len(ctx.used) \in Nat
        /\ a + 1 \in 1 .. l /\ u + 1 \in 1 .. Len(ctx.used)
    BY <1>1, <2>1, FrameFields, StackLengths, NodeOnStack DEF IInv
  <2>3. \A j \in i + 1 .. Len(open) : open[j].kind # "using"
    <3> SUFFICES ASSUME NEW j \in i + 1 .. Len(open), open[j].kind = "using" PROVE FALSE
      OBVIOUS
    <3>1. j \in 1 .. Len(open) /\ i < j
      BY LenProperties, <1>1 DEF IInv
    <3> QED  BY <2>1, <3>1 DEF UsingInFunction
  <2>4. /\ Len(ctx.used) - u = l - a
        /\ \A k \in a + 1 .. l : ctx.used[u + (k - a)] = ctx.active[k]
    BY <1>1, <2>1, <2>3, SameAbove
  <2>5. T # {}
    <3>1. x \in VarsOf(ctx, Chain(ctx, NS(ctx))) /\ VarAt(ctx, x).fn = f
      BY DEF OwnLocals
    <3>2. PICK k \in 1 .. l : VarAt(ctx, x) \in VarsIn(ctx, ctx.active[k])
      BY <1>1, <3>1, InScope
    <3>3. a < k
      BY <2>1, <3>1, <3>2
    <3>4. nm \in NamesOf(ctx.vars[ctx.active[k]])
      BY <3>2 DEF VarsIn, NamesOf
    <3> QED  BY <3>2, <3>3, <3>4
  <2>6. PICK k \in T : \A m \in T : m <= k
    <3>1. T \in SUBSET (1 .. l)
      OBVIOUS
    <3> HIDE DEF T, l
    <3> QED  BY <2>2, <2>5, <3>1, Greatest
  <2> DEFINE at == u + (k - a)
             n == ctx.active[k]
  <2>7. k \in 1 .. l /\ a < k /\ nm \in NamesOf(ctx.vars[n])
    BY <2>6
  <2>8. PICK r \in 1 .. Len(ctx.vars[n]) : ctx.vars[n][r].name = nm
    BY <2>7 DEF NamesOf
  <2> HIDE DEF a, u, l, nm
  <2>9. at \in 1 .. Len(ctx.used) /\ ctx.used[at] = n
    <3>1. k \in a + 1 .. l
      BY <2>2, <2>7
    <3>2. at \in 1 .. Len(ctx.used)
      BY <2>2, <2>4, <2>7
    <3> QED  BY <2>4, <3>1, <3>2
  <2>10. \A j \in at + 1 .. Len(ctx.used) : nm \notin NamesOf(ctx.vars[ctx.used[j]])
    <3> SUFFICES ASSUME NEW j \in at + 1 .. Len(ctx.used),
                        nm \in NamesOf(ctx.vars[ctx.used[j]])
                 PROVE  FALSE
      OBVIOUS
    <3> DEFINE m == a + (j - u)
    <3>1. m \in a + 1 .. l /\ m \in 1 .. l /\ a < m /\ ~(m <= k) /\ u + (m - a) = j
      <4>1. a \in Nat /\ u \in Nat /\ l \in Nat /\ Len(ctx.used) \in Nat /\ k \in Nat
            /\ a < k /\ Len(ctx.used) - u = l - a
        BY <2>2, <2>4, <2>7
      <4> DEFINE d == Len(ctx.used)
      <4> HIDE DEF d
      <4>2. d \in Nat /\ d - u = l - a
        BY <4>1 DEF d
      <4>3. j \in at + 1 .. d
        BY DEF d
      <4>4. j \in Int /\ u + (k - a) + 1 <= j /\ j <= d
        BY <4>1, <4>2, <4>3
      <4> QED  BY <4>1, <4>2, <4>4
    <3> HIDE DEF m
    <3>2. ctx.used[j] = ctx.active[m]
      BY <2>4, <3>1
    <3>3. m \in T
      BY <3>1, <3>2
    <3> QED  BY <2>6, <3>1, <3>3
  <2> DEFINE v == [ns |-> ctx.used[at], at |-> at, var |-> ctx.vars[ctx.used[at]][r]]
  <2>11. v.var.fn = f /\ v.var.name = nm /\ v.at = at
    <3>1. ctx.vars[n][r] \in VarsIn(ctx, n)
      BY <2>8 DEF VarsIn
    <3>2. ctx.vars[n][r].fn = f
      BY <2>1, <2>7, <3>1 DEF a, l
    <3> QED  BY <2>8, <2>9, <3>2
  <2>12. r \in 1 .. Len(ctx.vars[ctx.used[at]])
    BY <2>8, <2>9
  <2>13. v \in GetVariable(ctx, nm)
    <3>1. v \in UNION {{[ns |-> ctx.used[m], at |-> m, var |-> ctx.vars[ctx.used[m]][s]] :
                          s \in 1 .. Len(ctx.vars[ctx.used[m]])} : m \in 1 .. Len(ctx.used)}
      <4> HIDE DEF at
      <4> QED  BY <2>9, <2>12
    <3> HIDE DEF v, at
    <3>2. v \in GetVariableInner(ctx, nm)
      BY <2>10, <2>11, <3>1 DEF GetVariableInner
    <3> QED  BY <2>11, <3>2 DEF GetVariable
  <2> HIDE DEF v
  <2> QED  BY <2>11, <2>13 DEF nm
<1> QED  BY <1>1, Invariance, AddedBelow, FunctionsApart, PTL
=============================================================================
