--------------------------- MODULE ProcBodyProofs ---------------------------
(***************************************************************************)
(* Proofs about ProcBody for every value of its constants: while forms are *)
(* parsed no path is lost, and what the arguments of a call put into the   *)
(* function is undone without remainder when the call is a macro's.        *)
(*                                                                         *)
(* Both are about who writes to which block.  Blocks only ever get longer, *)
(* but for RestoreCall; so it is enough to know that from the beginning of *)
(* a call on, of the blocks there were then only the current one is        *)
(* written to.  The context is not looked at.                              *)
(***************************************************************************)
EXTENDS ProcBody, SequenceTheorems, TLAPS

(* A sequence of whatever it holds.                                        *)
IsList(s) == s \in Seq({s[k] : k \in 1 .. Len(s)})
IsCode(bs) == IsList(bs) /\ \A b \in 1 .. Len(bs) : IsList(bs[b])

StartsWith(s, old) ==
  Len(old) <= Len(s) /\ \A k \in 1 .. Len(old) : s[k] = old[k]

(* Blocks bs were old before, and since then instructions have been added  *)
(* to those in W and to new ones.                                          *)
Longer(bs, old, W) ==
  /\ Len(old) <= Len(bs)
  /\ \A b \in 1 .. Len(old) : StartsWith(bs[b], old[b])
  /\ \A b \in 1 .. Len(old) : b \notin W => bs[b] = old[b]

(* The blocks that closing a form, or going on after it, writes to.        *)
Writes(fr) ==
  {fr.entry, fr.cond, fr.then.block}
    \cup (IF fr.kind = "then" THEN {fr.entry + 1} ELSE {})

FrameOK(bs, fr) ==
  /\ fr.kind \in {"scope", "call", "then", "else"}
  /\ fr.kind # "call" => fr.saved = {}
  /\ \A s, t \in fr.saved : s = t
  /\ Writes(fr) \subseteq 1 .. Len(bs)
  /\ fr.kind = "else" /\ fr.then.term => EndsPath(bs[fr.then.block])

(* Block b is none that a call among the first n forms found and will have *)
(* to leave as it was.                                                     *)
MayWrite(b, fs, n) ==
  \A i \in 1 .. n : \A s \in fs[i].saved :
    b = fs[i].entry \/ b > Len(s.blocks)

(* The first n forms are open, and code is added to block cur.             *)
Placed(bs, cur, fs, n) ==
  /\ IsCode(bs) /\ cur \in 1 .. Len(bs) /\ MayWrite(cur, fs, n)
  /\ \A i \in 1 .. n :
       /\ FrameOK(bs, fs[i])
       /\ \A b \in Writes(fs[i]) : MayWrite(b, fs, i - 1)
       /\ \A s \in fs[i].saved :
            /\ IsCode(s.blocks) /\ fs[i].entry \in 1 .. Len(s.blocks)
            /\ Longer(bs, s.blocks, {fs[i].entry})

NoneLost(bs, cur, fs, n) ==
  \A b \in 1 .. Len(bs) :
    EndsPath(bs[b]) \/ b = cur \/ \E i \in 1 .. n : b \in Waiting(fs[i])

SavedOK(fs, i) ==
  \A s \in fs[i].saved :
    Placed(s.blocks, fs[i].entry, fs, i - 1)
    /\ NoneLost(s.blocks, fs[i].entry, fs, i - 1)

Sound(bs, r, fs) ==
  /\ IsList(fs)
  /\ Placed(bs, r.block, fs, Len(fs))
  /\ r.term => EndsPath(bs[r.block])
  /\ r.type = "error" => \E i \in 1 .. Len(fs) : fs[i].kind = "call"
  /\ r.type # "error" => NoneLost(bs, r.block, fs, Len(fs))
  /\ \A i \in 1 .. Len(fs) : SavedOK(fs, i)

IInv == "phase" \in DOMAIN run /\ (Parsing => Sound(blocks, pr, forms))
-----------------------------------------------------------------------------
(***************************************************************************)
(* Lists.                                                                  *)
(***************************************************************************)
(* Every sequence is a list, and so is a function from 1 .. n.             *)
LEMMA SeqIsList == ASSUME NEW S, NEW s \in Seq(S) PROVE IsList(s)
<1>1. Len(s) \in Nat /\ DOMAIN s = 1 .. Len(s) /\ s = [k \in 1 .. Len(s) |-> s[k]]
  BY LenProperties
<1>2. \A k \in 1 .. Len(s) : s[k] \in {s[j] : j \in 1 .. Len(s)}
  OBVIOUS
<1> QED  BY <1>1, <1>2, IsASeq DEF IsList

LEMMA FunctionIsList ==
  ASSUME NEW n \in Nat, NEW f, f = [k \in 1 .. n |-> f[k]]
  PROVE  IsList(f) /\ Len(f) = n
<1> DEFINE S == {f[k] : k \in 1 .. n}
<1>1. [k \in 1 .. n |-> f[k]] \in Seq(S)
  <2>1. \A k \in 1 .. n : f[k] \in S
    OBVIOUS
  <2> HIDE DEF S
  <2> QED  BY <2>1, IsASeq
<1>2. f \in Seq(S)
  BY <1>1
<1>3. DOMAIN f = 1 .. n
  OBVIOUS
<1> HIDE DEF S
<1>4. Len(f) = n
  BY <1>2, <1>3, LenProperties
<1> QED  BY <1>2, <1>4, SeqIsList

(* Two lists, and an element, in one set.                                  *)
LEMMA ListsInOneSet ==
  ASSUME NEW s, NEW t, NEW e, IsList(s), IsList(t)
  PROVE  \E S : s \in Seq(S) /\ t \in Seq(S) /\ e \in S
<1> DEFINE S == {s[k] : k \in 1 .. Len(s)}
           T == {t[k] : k \in 1 .. Len(t)}
           U == S \cup T \cup {e}
<1>1. s \in Seq(S) /\ t \in Seq(T)
  BY DEF IsList
<1>2. S \subseteq U /\ T \subseteq U /\ e \in U
  OBVIOUS
<1> HIDE DEF S, T, U
<1>3. s \in Seq(U) /\ t \in Seq(U)
  BY <1>1, <1>2
<1> QED  BY <1>2, <1>3

(* What the operators on lists return.                                     *)
LEMMA ListLen == ASSUME NEW s, IsList(s) PROVE Len(s) \in Nat
BY LenProperties DEF IsList

LEMMA ListConcat ==
  ASSUME NEW s, NEW t, IsList(s), IsList(t)
  PROVE  /\ IsList(s \o t) /\ Len(s \o t) = Len(s) + Len(t)
         /\ \A k \in 1 .. Len(s) : (s \o t)[k] = s[k]
         /\ \A k \in 1 .. Len(t) : (s \o t)[Len(s) + k] = t[k]
<1>1. PICK S : s \in Seq(S) /\ t \in Seq(S) /\ 0 \in S
  BY ListsInOneSet
<1>2. Len(s) \in Nat /\ Len(t) \in Nat
  BY ListLen
<1>3. /\ s \o t \in Seq(S) /\ Len(s \o t) = Len(s) + Len(t)
      /\ \A k \in 1 .. Len(s) + Len(t) :
           (s \o t)[k] = IF k <= Len(s) THEN s[k] ELSE t[k - Len(s)]
  BY <1>1, ConcatProperties
<1>4. ASSUME NEW k \in 1 .. Len(t) PROVE (s \o t)[Len(s) + k] = t[k]
  <2>1. Len(s) + k \in 1 .. Len(s) + Len(t) /\ ~(Len(s) + k <= Len(s))
        /\ (Len(s) + k) - Len(s) = k
    BY <1>2
  <2> QED  BY <1>3, <2>1
<1>5. ASSUME NEW k \in 1 .. Len(s) PROVE (s \o t)[k] = s[k]
  <2>1. k \in 1 .. Len(s) + Len(t) /\ k <= Len(s)
    BY <1>2
  <2> QED  BY <1>3, <2>1
<1>6. IsList(s \o t)
  BY <1>3, SeqIsList
<1> QED  BY <1>3, <1>4, <1>5, <1>6

LEMMA ListAppend ==
  ASSUME NEW s, NEW e, IsList(s)
  PROVE  /\ IsList(Append(s, e)) /\ Len(Append(s, e)) = Len(s) + 1
         /\ \A k \in 1 .. Len(s) : Append(s, e)[k] = s[k]
         /\ Append(s, e)[Len(s) + 1] = e
<1>1. PICK S : s \in Seq(S) /\ e \in S
  BY ListsInOneSet
<1>2. /\ Append(s, e) \in Seq(S) /\ Len(Append(s, e)) = Len(s) + 1
      /\ \A k \in 1 .. Len(s) : Append(s, e)[k] = s[k]
      /\ Append(s, e)[Len(s) + 1] = e
  BY <1>1, AppendProperties
<1> QED  BY <1>2, SeqIsList

LEMMA ListPrefix ==
  ASSUME NEW s, IsList(s), NEW n \in Nat, n <= Len(s)
  PROVE  /\ IsList(SubSeq(s, 1, n)) /\ Len(SubSeq(s, 1, n)) = n
         /\ \A k \in 1 .. n : SubSeq(s, 1, n)[k] = s[k]
<1>1. PICK S : s \in Seq(S)
  BY ListsInOneSet
<1>2. Len(s) \in Nat /\ \A k \in 1 .. n : s[k] \in S
  BY <1>1, ListLen, ElementOfSeq
<1>3. /\ SubSeq(s, 1, n) \in Seq(S)
      /\ Len(SubSeq(s, 1, n)) = IF 1 <= n THEN n - 1 + 1 ELSE 0
      /\ \A k \in 1 .. n - 1 + 1 : SubSeq(s, 1, n)[k] = s[1 + k - 1]
  BY <1>2, SubSeqProperties
<1>4. /\ Len(SubSeq(s, 1, n)) = n
      /\ \A k \in 1 .. n : SubSeq(s, 1, n)[k] = s[k]
  BY <1>3
<1> QED  BY <1>3, <1>4, SeqIsList

LEMMA ListPop ==
  ASSUME NEW s, IsList(s), s # <<>>
  PROVE  /\ Len(s) \in Nat \ {0} /\ Back(s) = s[Len(s)]
         /\ IsList(Pop(s)) /\ Len(Pop(s)) = Len(s) - 1
         /\ \A k \in 1 .. Len(s) - 1 : Pop(s)[k] = s[k]
<1>1. PICK S : s \in Seq(S)
  BY ListsInOneSet
<1>2. Len(s) \in Nat \ {0}
  BY <1>1, EmptySeq
<1>3. Len(s) - 1 \in Nat /\ Len(s) - 1 <= Len(s)
  BY <1>2
<1> QED  BY <1>2, <1>3, ListPrefix DEF Back, Pop

LEMMA ListEqual ==
  ASSUME NEW s, NEW t, IsList(s), IsList(t), Len(s) = Len(t),
         \A k \in 1 .. Len(s) : s[k] = t[k]
  PROVE  s = t
<1>1. PICK S : s \in Seq(S) /\ t \in Seq(S)
  BY ListsInOneSet
<1> QED  BY <1>1, SeqEqual

LEMMA ListReplace ==
  ASSUME NEW s, IsList(s), NEW i \in 1 .. Len(s), NEW e
  PROVE  /\ IsList([s EXCEPT ![i] = e]) /\ Len([s EXCEPT ![i] = e]) = Len(s)
         /\ [s EXCEPT ![i] = e][i] = e
         /\ \A k \in 1 .. Len(s) : k # i => [s EXCEPT ![i] = e][k] = s[k]
<1>1. PICK S : s \in Seq(S) /\ e \in S
  BY ListsInOneSet
<1>2. /\ [s EXCEPT ![i] = e] \in Seq(S) /\ Len([s EXCEPT ![i] = e]) = Len(s)
      /\ \A j \in 1 .. Len(s) : [s EXCEPT ![i] = e][j] = IF j = i THEN e ELSE s[j]
  BY <1>1, ExceptSeq
<1> QED  BY <1>2, SeqIsList

(* The short lists of instructions.                                        *)
LEMMA ShortLists ==
  /\ IsList(<<>>) /\ Len(<<>>) = 0
  /\ \A e : IsList(<<e>>) /\ Len(<<e>>) = 1 /\ <<e>>[1] = e
  /\ \A e, f : IsList(<<e, f>>) /\ Len(<<e, f>>) = 2
               /\ <<e, f>>[1] = e /\ <<e, f>>[2] = f
<1>1. <<>> \in Seq({}) /\ Len(<<>>) = 0
  OBVIOUS
<1>2. \A e : <<e>> \in Seq({e}) /\ Len(<<e>>) = 1 /\ <<e>>[1] = e
  OBVIOUS
<1>3. \A e, f : <<e, f>> \in Seq({e, f}) /\ Len(<<e, f>>) = 2
                /\ <<e, f>>[1] = e /\ <<e, f>>[2] = f
  OBVIOUS
<1> QED  BY <1>1, <1>2, <1>3, SeqIsList

LEMMA CallsList == ASSUME NEW op, NEW objs PROVE IsList(Calls(op, objs))
BY ShortLists DEF Calls
-----------------------------------------------------------------------------
(***************************************************************************)
(* Blocks.                                                                 *)
(***************************************************************************)
(* A block that ends keeps doing so when it is added to.                   *)
LEMMA EndsStill ==
  ASSUME NEW s, NEW old, Len(s) \in Nat, Len(old) \in Nat,
         StartsWith(s, old), EndsPath(old)
  PROVE  EndsPath(s)
<1>1. PICK k \in 1 .. Len(old) : IsTerminator(old[k]) \/ old[k].op = "goto"
  BY DEF EndsPath
<1>2. k \in 1 .. Len(s) /\ s[k] = old[k]
  BY DEF StartsWith
<1> QED  BY <1>1, <1>2 DEF EndsPath

LEMMA TerminatedEnds ==
  ASSUME NEW b, IsList(b), Terminated(b) PROVE EndsPath(b)
<1>1. Len(b) \in Nat \ {0} /\ IsTerminator(b[Len(b)])
  BY ListPop DEF Terminated
<1> QED  BY <1>1 DEF EndsPath

LEMMA LongerSelf == ASSUME NEW bs, IsCode(bs), NEW W PROVE Longer(bs, bs, W)
<1>1. Len(bs) \in Nat /\ \A b \in 1 .. Len(bs) : Len(bs[b]) \in Nat
  BY ListLen DEF IsCode
<1> QED  BY <1>1 DEF Longer, StartsWith

(* Growth adds up.                                                         *)
LEMMA LongerAgain ==
  ASSUME NEW new, NEW bs, NEW old, IsCode(new), IsCode(bs), IsCode(old),
         NEW W, NEW V, NEW U, Longer(new, bs, W), Longer(bs, old, V),
         \A b \in 1 .. Len(old) : b \in W \cup V => b \in U
  PROVE  Longer(new, old, U)
<1>1. Len(new) \in Nat /\ Len(bs) \in Nat /\ Len(old) \in Nat
  BY ListLen DEF IsCode
<1>2. Len(old) <= Len(bs) /\ Len(bs) <= Len(new)
  BY DEF Longer
<1>3. ASSUME NEW b \in 1 .. Len(old)
      PROVE  StartsWith(new[b], old[b]) /\ (b \notin U => new[b] = old[b])
  <2>1. b \in 1 .. Len(bs) /\ b \in 1 .. Len(new)
    BY <1>1, <1>2
  <2>2. Len(new[b]) \in Nat /\ Len(bs[b]) \in Nat /\ Len(old[b]) \in Nat
    BY <2>1, ListLen DEF IsCode
  <2>3. StartsWith(new[b], bs[b]) /\ StartsWith(bs[b], old[b])
    BY <2>1 DEF Longer
  <2>4. StartsWith(new[b], old[b])
    BY <2>2, <2>3 DEF StartsWith
  <2>5. ASSUME b \notin U PROVE new[b] = old[b]
    BY <2>1, <2>5 DEF Longer
  <2> QED  BY <2>4, <2>5
<1> QED  BY <1>1, <1>2, <1>3 DEF Longer

LEMMA EmitLonger ==
  ASSUME NEW bs, NEW b, NEW code, IsCode(bs), b \in 1 .. Len(bs), IsList(code)
  PROVE  /\ IsCode(Emit(bs, b, code)) /\ Len(Emit(bs, b, code)) = Len(bs)
         /\ Longer(Emit(bs, b, code), bs, {b})
         /\ EndsPath(code) => EndsPath(Emit(bs, b, code)[b])
<1> DEFINE new == Emit(bs, b, code)
<1>1. IsList(bs) /\ Len(bs) \in Nat /\ IsList(bs[b])
      /\ \A a \in 1 .. Len(bs) : Len(bs[a]) \in Nat
  BY ListLen DEF IsCode
<1>2. /\ IsList(bs[b] \o code) /\ Len(bs[b] \o code) = Len(bs[b]) + Len(code)
      /\ \A k \in 1 .. Len(bs[b]) : (bs[b] \o code)[k] = bs[b][k]
      /\ \A k \in 1 .. Len(code) : (bs[b] \o code)[Len(bs[b]) + k] = code[k]
  BY <1>1, ListConcat
<1>3. new = [bs EXCEPT ![b] = bs[b] \o code]
  BY DEF Emit
<1> HIDE DEF new
<1>4. /\ IsList(new) /\ Len(new) = Len(bs) /\ new[b] = bs[b] \o code
      /\ \A k \in 1 .. Len(bs) : k # b => new[k] = bs[k]
  <2> DEFINE x == bs[b] \o code
             r == [bs EXCEPT ![b] = x]
  <2>1. new = r
    BY <1>3
  <2> HIDE DEF x
  <2>2. IsList(bs) /\ b \in 1 .. Len(bs)
    BY <1>1
  <2>3. /\ IsList(r) /\ Len(r) = Len(bs) /\ r[b] = x
        /\ \A k \in 1 .. Len(bs) : k # b => r[k] = bs[k]
    BY ONLY <2>2, ListReplace
  <2> HIDE DEF r
  <2> QED  BY <2>1, <2>3 DEF x
<1>5. IsCode(new)
  BY <1>2, <1>4 DEF IsCode
<1>6. Len(code) \in Nat
  BY ListLen
<1>7. Longer(new, bs, {b})
  BY <1>1, <1>2, <1>4, <1>6 DEF Longer, StartsWith
<1>8. ASSUME EndsPath(code) PROVE EndsPath(new[b])
  <2>1. PICK k \in 1 .. Len(code) : IsTerminator(code[k]) \/ code[k].op = "goto"
    BY <1>8 DEF EndsPath
  <2>2. Len(bs[b]) + k \in 1 .. Len(new[b]) /\ new[b][Len(bs[b]) + k] = code[k]
    BY <1>1, <1>2, <1>4, <1>6
  <2> QED  BY <2>1, <2>2 DEF EndsPath
<1> QED  BY <1>4, <1>5, <1>7, <1>8 DEF new

LEMMA NewBlockLonger ==
  ASSUME NEW bs, NEW code, IsCode(bs), IsList(code)
  PROVE  /\ IsCode(Append(bs, code)) /\ Len(Append(bs, code)) = Len(bs) + 1
         /\ Longer(Append(bs, code), bs, {})
<1> DEFINE new == Append(bs, code)
<1>1. IsList(bs) /\ Len(bs) \in Nat /\ \A b \in 1 .. Len(bs) : Len(bs[b]) \in Nat
  BY ListLen DEF IsCode
<1>2. /\ IsList(new) /\ Len(new) = Len(bs) + 1 /\ new[Len(bs) + 1] = code
      /\ \A k \in 1 .. Len(bs) : new[k] = bs[k]
  BY <1>1, ListAppend
<1> HIDE DEF new
<1>3. IsCode(new)
  BY <1>1, <1>2 DEF IsCode
<1>4. Longer(new, bs, {})
  BY <1>1, <1>2 DEF Longer, StartsWith
<1> QED  BY <1>2, <1>3, <1>4 DEF new

LEMMA TwoBlocksLonger ==
  ASSUME NEW bs, IsCode(bs)
  PROVE  /\ IsCode(bs \o <<<<>>, <<>>>>) /\ Len(bs \o <<<<>>, <<>>>>) = Len(bs) + 2
         /\ Longer(bs \o <<<<>>, <<>>>>, bs, {})
<1> DEFINE two == <<<<>>, <<>>>>
           new == bs \o two
<1>1. IsList(bs) /\ Len(bs) \in Nat /\ \A b \in 1 .. Len(bs) : Len(bs[b]) \in Nat
  BY ListLen DEF IsCode
<1>2. IsList(two) /\ Len(two) = 2 /\ two[1] = <<>> /\ two[2] = <<>> /\ IsList(<<>>)
  BY ShortLists
<1> HIDE DEF two
<1>3. /\ IsList(new) /\ Len(new) = Len(bs) + 2
      /\ \A k \in 1 .. Len(bs) : new[k] = bs[k]
      /\ \A k \in 1 .. 2 : new[Len(bs) + k] = two[k]
  <2>1. /\ IsList(new) /\ Len(new) = Len(bs) + Len(two)
        /\ \A k \in 1 .. Len(bs) : new[k] = bs[k]
        /\ \A k \in 1 .. Len(two) : new[Len(bs) + k] = two[k]
    <3>1. IsList(bs) /\ IsList(two)
      BY <1>1, <1>2
    <3> QED  BY ONLY <3>1, ListConcat
  <2> HIDE DEF new
  <2> QED  BY <1>2, <2>1
<1> HIDE DEF new
<1>4. ASSUME NEW b \in 1 .. Len(new) PROVE IsList(new[b])
  <2>1. CASE b \in 1 .. Len(bs)
    BY <1>3, <2>1 DEF IsCode
  <2>2. CASE b = Len(bs) + 1
    BY <1>2, <1>3, <2>2
  <2>3. CASE b = Len(bs) + 2
    BY <1>2, <1>3, <2>3
  <2> QED  BY <1>1, <1>3, <2>1, <2>2, <2>3
<1>5. IsCode(new)
  BY <1>3, <1>4 DEF IsCode
<1>6. Longer(new, bs, {})
  BY <1>1, <1>3 DEF Longer, StartsWith
<1> QED  BY <1>3, <1>5, <1>6 DEF new, two

LEMMA JoinLonger ==
  ASSUME NEW bs, NEW ends, NEW code, IsCode(bs), IsList(code)
  PROVE  /\ IsCode(Join(bs, ends, code)) /\ Len(Join(bs, ends, code)) = Len(bs) + 1
         /\ Longer(Join(bs, ends, code), bs, ends)
         /\ \A b \in 1 .. Len(bs) : b \in ends => EndsPath(Join(bs, ends, code)[b])
<1> DEFINE br  == Br(Len(bs) + 1)
           old == [b \in 1 .. Len(bs) |->
                     IF b \in ends THEN Append(bs[b], br) ELSE bs[b]]
<1>1. Len(bs) \in Nat /\ \A b \in 1 .. Len(bs) : IsList(bs[b]) /\ Len(bs[b]) \in Nat
  BY ListLen DEF IsCode
<1>2. IsTerminator(br)
  BY DEF Br, Instr, IsTerminator
<1> HIDE DEF br
<1>3. ASSUME NEW b \in 1 .. Len(bs)
      PROVE  /\ IsList(old[b]) /\ StartsWith(old[b], bs[b])
             /\ b \notin ends => old[b] = bs[b]
             /\ b \in ends => EndsPath(old[b])
  <2>1. CASE b \in ends
    <3>1. /\ IsList(Append(bs[b], br)) /\ Len(Append(bs[b], br)) = Len(bs[b]) + 1
          /\ \A k \in 1 .. Len(bs[b]) : Append(bs[b], br)[k] = bs[b][k]
          /\ Append(bs[b], br)[Len(bs[b]) + 1] = br
      BY <1>1, ListAppend
    <3>2. old[b] = Append(bs[b], br)
      BY <2>1
    <3> HIDE DEF old
    <3>3. Len(bs[b]) + 1 \in 1 .. Len(old[b]) /\ IsTerminator(old[b][Len(bs[b]) + 1])
      BY <1>1, <1>2, <3>1, <3>2
    <3>4. EndsPath(old[b])
      BY <3>3 DEF EndsPath
    <3>5. StartsWith(old[b], bs[b])
      BY <1>1, <3>1, <3>2 DEF StartsWith
    <3> QED  BY <2>1, <3>1, <3>2, <3>4, <3>5
  <2>2. CASE b \notin ends
    BY <1>1, <2>2 DEF StartsWith
  <2> QED  BY <2>1, <2>2
<1>4. IsList(old) /\ Len(old) = Len(bs)
  <2>1. old = [b \in 1 .. Len(bs) |-> old[b]]
    OBVIOUS
  <2> HIDE DEF old
  <2> QED  BY <1>1, <2>1, FunctionIsList
<1>5. Join(bs, ends, code) = Append(old, code)
  BY DEF Join, br
<1> HIDE DEF old
<1>6. IsCode(old) /\ Longer(old, bs, ends)
  BY <1>1, <1>3, <1>4 DEF IsCode, Longer
<1>7. /\ IsCode(Append(old, code)) /\ Len(Append(old, code)) = Len(bs) + 1
      /\ Longer(Append(old, code), old, {})
  BY <1>4, <1>6, NewBlockLonger
<1>8. Longer(Append(old, code), bs, ends)
  BY <1>6, <1>7, LongerAgain
<1>9. ASSUME NEW b \in 1 .. Len(bs), b \in ends PROVE EndsPath(Append(old, code)[b])
  <2>1. Append(old, code)[b] = old[b]
    BY <1>4, <1>7 DEF Longer
  <2> QED  BY <1>3, <1>9, <2>1
<1> QED  BY <1>5, <1>7, <1>8, <1>9

(* SavePoint::restore is the inverse of what was added since.              *)
LEMMA RestoreUndoesGrowth ==
  ASSUME NEW bs, NEW old, NEW e, IsCode(bs), IsCode(old), e \in 1 .. Len(old),
         Longer(bs, old, {e})
  PROVE  RestoreBlocks(bs, old, e) = old
<1> DEFINE s == SubSeq(bs, 1, Len(old))
           t == SubSeq(s[e], 1, Len(old[e]))
<1>1. IsList(bs) /\ IsList(old) /\ Len(bs) \in Nat /\ Len(old) \in Nat
      /\ Len(old) <= Len(bs)
  BY ListLen DEF IsCode, Longer
<1>2. IsList(s) /\ Len(s) = Len(old) /\ \A k \in 1 .. Len(old) : s[k] = bs[k]
  BY <1>1, ListPrefix
<1>3. RestoreBlocks(bs, old, e) = [s EXCEPT ![e] = t]
  BY DEF RestoreBlocks
<1> HIDE DEF s
<1>4. s[e] = bs[e] /\ IsList(s[e]) /\ StartsWith(s[e], old[e])
      /\ IsList(old[e]) /\ Len(old[e]) \in Nat /\ Len(s[e]) \in Nat
  BY <1>1, <1>2, ListLen DEF IsCode, Longer
<1>5. t = old[e]
  <2>1. IsList(t) /\ Len(t) = Len(old[e])
        /\ \A k \in 1 .. Len(old[e]) : t[k] = s[e][k]
    BY <1>4, ListPrefix DEF StartsWith
  <2> HIDE DEF t
  <2>2. \A k \in 1 .. Len(t) : t[k] = old[e][k]
    BY <1>4, <2>1 DEF StartsWith
  <2> QED  BY <1>4, <2>1, <2>2, ListEqual
<1> HIDE DEF t
<1>6. /\ IsList([s EXCEPT ![e] = t]) /\ Len([s EXCEPT ![e] = t]) = Len(old)
      /\ [s EXCEPT ![e] = t][e] = t
      /\ \A k \in 1 .. Len(old) : k # e => [s EXCEPT ![e] = t][k] = s[k]
  <2>1. IsList(s) /\ e \in 1 .. Len(s)
    BY <1>2
  <2>2. /\ IsList([s EXCEPT ![e] = t]) /\ Len([s EXCEPT ![e] = t]) = Len(s)
        /\ [s EXCEPT ![e] = t][e] = t
        /\ \A k \in 1 .. Len(s) : k # e => [s EXCEPT ![e] = t][k] = s[k]
    BY ONLY <2>1, ListReplace
  <2> QED  BY <1>2, <2>2
<1>7. \A k \in 1 .. Len(old) : [s EXCEPT ![e] = t][k] = old[k]
  BY <1>1, <1>2, <1>5, <1>6 DEF Longer
<1> QED  BY <1>1, <1>3, <1>6, <1>7, ListEqual
-----------------------------------------------------------------------------
(***************************************************************************)
(* Frames.                                                                 *)
(***************************************************************************)
(* Only the frames that are open matter.                                   *)
LEMMA SameFrames ==
  ASSUME NEW fs, NEW gs, NEW n \in Nat, \A i \in 1 .. n : gs[i] = fs[i]
  PROVE  /\ \A b : MayWrite(b, fs, n) => MayWrite(b, gs, n)
         /\ \A bs, cur : Placed(bs, cur, fs, n) => Placed(bs, cur, gs, n)
         /\ \A bs, cur : NoneLost(bs, cur, fs, n) => NoneLost(bs, cur, gs, n)
<1>1. ASSUME NEW m \in 0 .. n, NEW b, MayWrite(b, fs, m) PROVE MayWrite(b, gs, m)
  <2>1. \A i \in 1 .. m : i \in 1 .. n
    OBVIOUS
  <2> QED  BY <1>1, <2>1 DEF MayWrite
<1>2. ASSUME NEW bs, NEW cur, Placed(bs, cur, fs, n) PROVE Placed(bs, cur, gs, n)
  <2>1. IsCode(bs) /\ cur \in 1 .. Len(bs) /\ MayWrite(cur, gs, n)
    BY <1>1, <1>2 DEF Placed
  <2>2. ASSUME NEW i \in 1 .. n, NEW b \in Writes(gs[i]) PROVE MayWrite(b, gs, i - 1)
    <3>1. i - 1 \in 0 .. n
      BY <2>2
    <3>2. b \in Writes(fs[i])
      BY <2>2
    <3>3. MayWrite(b, fs, i - 1)
      BY <1>2, <3>2 DEF Placed
    <3> QED  BY <1>1, <3>1, <3>3
  <2> QED  BY <1>2, <2>1, <2>2 DEF Placed
<1>3. ASSUME NEW bs, NEW cur, NoneLost(bs, cur, fs, n) PROVE NoneLost(bs, cur, gs, n)
  BY <1>3 DEF NoneLost
<1> QED  BY <1>1, <1>2, <1>3

LEMMA SameSaved ==
  ASSUME NEW fs, NEW gs, NEW n \in Nat, \A i \in 1 .. n : gs[i] = fs[i],
         \A i \in 1 .. n : SavedOK(fs, i)
  PROVE  \A i \in 1 .. n : SavedOK(gs, i)
<1> SUFFICES ASSUME NEW i \in 1 .. n, NEW s \in gs[i].saved
             PROVE  /\ Placed(s.blocks, gs[i].entry, gs, i - 1)
                    /\ NoneLost(s.blocks, gs[i].entry, gs, i - 1)
  BY DEF SavedOK
<1>1. i - 1 \in Nat /\ (\A j \in 1 .. i - 1 : gs[j] = fs[j]) /\ gs[i] = fs[i]
  OBVIOUS
<1>2. Placed(s.blocks, gs[i].entry, fs, i - 1) /\ NoneLost(s.blocks, gs[i].entry, fs, i - 1)
  BY <1>1 DEF SavedOK
<1> QED  BY <1>1, <1>2, SameFrames

LEMMA OuterFrames ==
  ASSUME NEW bs, NEW cur, NEW fs, NEW n \in Nat, NEW m \in 0 .. n,
         Placed(bs, cur, fs, n)
  PROVE  Placed(bs, cur, fs, m)
<1>1. \A i \in 1 .. m : i \in 1 .. n
  OBVIOUS
<1>2. MayWrite(cur, fs, m)
  BY <1>1 DEF Placed, MayWrite
<1> QED  BY <1>1, <1>2 DEF Placed

LEMMA MayWriteNew ==
  ASSUME NEW bs, NEW cur, NEW fs, NEW n \in Nat, Placed(bs, cur, fs, n),
         NEW b \in Nat, b > Len(bs)
  PROVE  MayWrite(b, fs, n)
<1> SUFFICES ASSUME NEW i \in 1 .. n, NEW s \in fs[i].saved PROVE b > Len(s.blocks)
  BY DEF MayWrite
<1>1. IsCode(bs) /\ IsCode(s.blocks) /\ Len(s.blocks) <= Len(bs)
  BY DEF Placed, Longer
<1>2. Len(bs) \in Nat /\ Len(s.blocks) \in Nat
  BY <1>1, ListLen DEF IsCode
<1> QED  BY <1>1, <1>2

(* Adding code to blocks that may be written to, and going on in one.      *)
LEMMA PlacedWrite ==
  ASSUME NEW bs, NEW cur, NEW fs, NEW n \in Nat, Placed(bs, cur, fs, n),
         NEW new, NEW W, IsCode(new), Longer(new, bs, W),
         \A b \in W : MayWrite(b, fs, n),
         NEW to, to \in 1 .. Len(new), MayWrite(to, fs, n)
  PROVE  Placed(new, to, fs, n)
<1>1. IsCode(bs) /\ Len(bs) \in Nat /\ Len(new) \in Nat /\ Len(bs) <= Len(new)
  BY ListLen DEF Placed, IsCode, Longer
<1>2. ASSUME NEW i \in 1 .. n PROVE FrameOK(new, fs[i])
  <2>1. FrameOK(bs, fs[i])
    BY DEF Placed
  <2>2. Writes(fs[i]) \subseteq 1 .. Len(new)
    BY <1>1, <2>1 DEF FrameOK
  <2>3. ASSUME fs[i].kind = "else", fs[i].then.term
        PROVE  EndsPath(new[fs[i].then.block])
    <3> DEFINE b == fs[i].then.block
    <3>1. b \in 1 .. Len(bs) /\ b \in 1 .. Len(new) /\ EndsPath(bs[b])
      BY <2>1, <2>2, <2>3 DEF FrameOK, Writes
    <3> HIDE DEF b
    <3>2. Len(bs[b]) \in Nat /\ Len(new[b]) \in Nat /\ StartsWith(new[b], bs[b])
      BY <1>1, <3>1, ListLen DEF IsCode, Longer
    <3>3. EndsPath(new[b])
      BY <3>1, <3>2, EndsStill
    <3> QED  BY <3>3 DEF b
  <2> QED  BY <2>1, <2>2, <2>3 DEF FrameOK
<1>3. ASSUME NEW i \in 1 .. n, NEW s \in fs[i].saved
      PROVE  Longer(new, s.blocks, {fs[i].entry})
  <2>1. IsCode(s.blocks) /\ Longer(bs, s.blocks, {fs[i].entry})
    BY DEF Placed
  <2>2. Len(s.blocks) \in Nat
    BY <2>1, ListLen DEF IsCode
  <2>3. \A b \in 1 .. Len(s.blocks) : b \in W \cup {fs[i].entry} => b \in {fs[i].entry}
    BY <2>2 DEF MayWrite
  <2> QED  BY <1>1, <2>1, <2>3, LongerAgain
<1> QED  BY <1>2, <1>3 DEF Placed

LEMMA PlacedPush ==
  ASSUME NEW bs, NEW cur, NEW fs, NEW n \in Nat, Placed(bs, cur, fs, n),
         NEW gs, \A i \in 1 .. n : gs[i] = fs[i], FrameOK(bs, gs[n + 1]),
         \A b \in Writes(gs[n + 1]) : MayWrite(b, fs, n),
         \A s \in gs[n + 1].saved : s.blocks = bs /\ gs[n + 1].entry = cur
  PROVE  Placed(bs, cur, gs, n + 1)
<1>1. Placed(bs, cur, gs, n) /\ \A b \in Writes(gs[n + 1]) : MayWrite(b, gs, n)
  BY SameFrames
<1>2. \A i \in 1 .. n + 1 : i \in 1 .. n \/ i = n + 1
  OBVIOUS
<1>3. MayWrite(cur, gs, n + 1)
  BY <1>1, <1>2 DEF Placed, MayWrite
<1>4. IsCode(bs) /\ cur \in 1 .. Len(bs)
  BY DEF Placed
<1>5. \A s \in gs[n + 1].saved : Longer(bs, s.blocks, {gs[n + 1].entry})
  BY <1>4, LongerSelf
<1>6. ASSUME NEW i \in 1 .. n + 1
      PROVE  /\ FrameOK(bs, gs[i])
             /\ \A b \in Writes(gs[i]) : MayWrite(b, gs, i - 1)
             /\ \A s \in gs[i].saved :
                  /\ IsCode(s.blocks) /\ gs[i].entry \in 1 .. Len(s.blocks)
                  /\ Longer(bs, s.blocks, {gs[i].entry})
  <2>1. CASE i \in 1 .. n
    BY <1>1, <2>1 DEF Placed
  <2>2. CASE i = n + 1
    <3>1. i - 1 = n
      BY <2>2
    <3> QED  BY <1>1, <1>4, <1>5, <2>2, <3>1
  <2> QED  BY <1>2, <2>1, <2>2
<1> QED  BY <1>3, <1>4, <1>6 DEF Placed

(* A path that ended still does; what is left to show is where the others  *)
(* go.                                                                     *)
LEMMA NoneLostWrite ==
  ASSUME NEW bs, NEW cur, NEW fs, NEW n \in Nat, NoneLost(bs, cur, fs, n), IsCode(bs),
         NEW new, NEW W, IsCode(new), Longer(new, bs, W), NEW to, NEW gs, NEW m \in Nat,
         \A b \in 1 .. Len(new) :
           b = cur \/ b > Len(bs) \/ (\E i \in 1 .. n : b \in Waiting(fs[i])) =>
             EndsPath(new[b]) \/ b = to \/ \E i \in 1 .. m : b \in Waiting(gs[i])
  PROVE  NoneLost(new, to, gs, m)
<1> SUFFICES ASSUME NEW b \in 1 .. Len(new)
             PROVE  EndsPath(new[b]) \/ b = to \/ \E i \in 1 .. m : b \in Waiting(gs[i])
  BY DEF NoneLost
<1>1. Len(bs) \in Nat /\ Len(new) \in Nat
  BY ListLen DEF IsCode
<1>2. CASE b = cur \/ b > Len(bs) \/ \E i \in 1 .. n : b \in Waiting(fs[i])
  BY <1>2
<1>3. CASE b \in 1 .. Len(bs) /\ EndsPath(bs[b])
  <2>1. Len(bs[b]) \in Nat /\ Len(new[b]) \in Nat /\ StartsWith(new[b], bs[b])
    BY <1>3, ListLen DEF IsCode, Longer
  <2> QED  BY <1>3, <2>1, EndsStill
<1> QED  BY <1>1, <1>2, <1>3 DEF NoneLost
-----------------------------------------------------------------------------
(***************************************************************************)
(* What the actions have in common: adding to the block that is current,   *)
(* opening a form, leaving one.                                            *)
(***************************************************************************)
LEMMA StraightSound ==
  ASSUME NEW bs, NEW r, NEW fs, Sound(bs, r, fs), r.type # "error",
         NEW new, NEW q, IsCode(new), Len(new) = Len(bs), Longer(new, bs, {r.block}),
         q.block = r.block, q.term => EndsPath(new[q.block]),
         q.type = "error" => \E i \in 1 .. Len(fs) : fs[i].kind = "call"
  PROVE  Sound(new, q, fs)
<1> DEFINE n == Len(fs)
<1>1. n \in Nat /\ Placed(bs, r.block, fs, n) /\ NoneLost(bs, r.block, fs, n)
  BY ListLen DEF Sound
<1>2. IsCode(bs) /\ r.block \in 1 .. Len(new) /\ MayWrite(r.block, fs, n)
  BY <1>1 DEF Placed
<1> HIDE DEF n
<1>3. Placed(new, q.block, fs, n)
  BY <1>1, <1>2, PlacedWrite
<1>4. NoneLost(new, q.block, fs, n)
  <2>1. Len(bs) \in Nat
    BY <1>2, ListLen DEF IsCode
  <2>2. ASSUME NEW b \in 1 .. Len(new),
               b = r.block \/ b > Len(bs) \/ \E i \in 1 .. n : b \in Waiting(fs[i])
        PROVE  EndsPath(new[b]) \/ b = q.block \/ \E i \in 1 .. n : b \in Waiting(fs[i])
    BY <2>1, <2>2
  <2> QED  BY <1>1, <1>2, <2>2, NoneLostWrite
<1> QED  BY <1>3, <1>4 DEF Sound, n

LEMMA PushSound ==
  ASSUME NEW bs, NEW fs, NEW fr, NEW r, IsList(fs), r.type # "error", ~r.term,
         Placed(bs, r.block, fs, Len(fs)), \A i \in 1 .. Len(fs) : SavedOK(fs, i),
         FrameOK(bs, fr), \A b \in Writes(fr) : MayWrite(b, fs, Len(fs)),
         \A s \in fr.saved : /\ s.blocks = bs /\ fr.entry = r.block
                             /\ NoneLost(bs, r.block, fs, Len(fs)),
         NoneLost(bs, r.block, Append(fs, fr), Len(fs) + 1)
  PROVE  Sound(bs, r, Append(fs, fr))
<1> DEFINE n  == Len(fs)
           gs == Append(fs, fr)
<1>1. /\ n \in Nat /\ IsList(gs) /\ Len(gs) = n + 1 /\ gs[n + 1] = fr
      /\ \A i \in 1 .. n : gs[i] = fs[i]
  BY ListLen, ListAppend
<1>2. NoneLost(bs, r.block, gs, n + 1) /\ Placed(bs, r.block, fs, n)
  OBVIOUS
<1>3. \A b \in Writes(gs[n + 1]) : MayWrite(b, fs, n)
  BY <1>1
<1>4. \A s \in gs[n + 1].saved : s.blocks = bs /\ gs[n + 1].entry = r.block
                                 /\ NoneLost(bs, r.block, fs, n)
  BY <1>1
<1>5. \A i \in 1 .. n : SavedOK(fs, i)
  OBVIOUS
<1> HIDE DEF n, gs
<1>6. Placed(bs, r.block, gs, n + 1)
  BY <1>1, <1>2, <1>3, <1>4, PlacedPush
<1>7. \A i \in 1 .. n : SavedOK(gs, i)
  BY <1>1, <1>5, SameSaved
<1>8. SavedOK(gs, n + 1)
  <2>1. \A cs, cur : /\ Placed(cs, cur, fs, n) => Placed(cs, cur, gs, n)
                     /\ NoneLost(cs, cur, fs, n) => NoneLost(cs, cur, gs, n)
    BY <1>1, SameFrames
  <2>2. (n + 1) - 1 = n
    BY <1>1
  <2>3. ASSUME NEW s \in gs[n + 1].saved
        PROVE  /\ Placed(s.blocks, gs[n + 1].entry, gs, n)
               /\ NoneLost(s.blocks, gs[n + 1].entry, gs, n)
    BY <1>2, <1>4, <2>1
  <2> QED  BY <2>2, <2>3 DEF SavedOK
<1>9. \A i \in 1 .. n + 1 : SavedOK(gs, i)
  <2>1. \A i \in 1 .. n + 1 : i \in 1 .. n \/ i = n + 1
    BY <1>1
  <2> QED  BY <1>7, <1>8, <2>1
<1>10. Sound(bs, r, gs)
  BY <1>1, <1>2, <1>6, <1>9 DEF Sound
<1> QED  BY <1>10 DEF gs

(* The innermost form, and what is known without it.                       *)
LEMMA Popped ==
  ASSUME NEW bs, NEW r, NEW fs, Sound(bs, r, fs), fs # <<>>
  PROVE  /\ Len(fs) - 1 \in Nat /\ Back(fs) = fs[Len(fs)]
         /\ IsList(Pop(fs)) /\ Len(Pop(fs)) = Len(fs) - 1
         /\ \A i \in 1 .. Len(fs) - 1 : Pop(fs)[i] = fs[i]
         /\ \A i \in 1 .. Len(fs) - 1 : SavedOK(Pop(fs), i)
         /\ Placed(bs, r.block, Pop(fs), Len(fs) - 1)
         /\ FrameOK(bs, Back(fs))
         /\ \A b \in Writes(Back(fs)) : MayWrite(b, Pop(fs), Len(fs) - 1)
         /\ \A s \in Back(fs).saved :
              /\ Placed(s.blocks, Back(fs).entry, Pop(fs), Len(fs) - 1)
              /\ NoneLost(s.blocks, Back(fs).entry, Pop(fs), Len(fs) - 1)
              /\ Back(fs).entry \in 1 .. Len(s.blocks)
              /\ Longer(bs, s.blocks, {Back(fs).entry})
<1> DEFINE n  == Len(fs) - 1
           gs == Pop(fs)
           fr == Back(fs)
<1>1. /\ Len(fs) \in Nat /\ n \in Nat /\ n + 1 = Len(fs) /\ fr = fs[n + 1]
      /\ IsList(gs) /\ Len(gs) = n /\ \A i \in 1 .. n : gs[i] = fs[i]
  <2>1. IsList(fs)
    BY DEF Sound
  <2>2. /\ Len(fs) \in Nat \ {0} /\ Back(fs) = fs[Len(fs)]
        /\ IsList(Pop(fs)) /\ Len(Pop(fs)) = Len(fs) - 1
        /\ \A k \in 1 .. Len(fs) - 1 : Pop(fs)[k] = fs[k]
    BY <2>1, ListPop
  <2> QED  BY <2>2
<1>2. Placed(bs, r.block, fs, n + 1) /\ \A i \in 1 .. n + 1 : SavedOK(fs, i)
  BY <1>1 DEF Sound
<1> HIDE DEF n, gs, fr
<1>3. n + 1 \in 1 .. n + 1 /\ (n + 1) - 1 = n /\ n \in 0 .. n + 1 /\ n + 1 \in Nat
      /\ \A i \in 1 .. n : i \in 1 .. n + 1
  BY <1>1
<1>4. /\ \A b : MayWrite(b, fs, n) => MayWrite(b, gs, n)
      /\ \A cs, cur : Placed(cs, cur, fs, n) => Placed(cs, cur, gs, n)
      /\ \A cs, cur : NoneLost(cs, cur, fs, n) => NoneLost(cs, cur, gs, n)
  BY <1>1, SameFrames
<1>5. Placed(bs, r.block, gs, n)
  BY <1>2, <1>3, <1>4, OuterFrames
<1>6. \A i \in 1 .. n : SavedOK(gs, i)
  BY <1>1, <1>2, <1>3, SameSaved
<1>7. FrameOK(bs, fr) /\ \A b \in Writes(fr) : MayWrite(b, gs, n)
  <2>1. FrameOK(bs, fs[n + 1]) /\ \A b \in Writes(fs[n + 1]) : MayWrite(b, fs, (n + 1) - 1)
    BY <1>2, <1>3 DEF Placed
  <2> QED  BY <1>1, <1>3, <1>4, <2>1
<1>8. ASSUME NEW s \in fr.saved
      PROVE  /\ Placed(s.blocks, fr.entry, gs, n) /\ NoneLost(s.blocks, fr.entry, gs, n)
             /\ fr.entry \in 1 .. Len(s.blocks) /\ Longer(bs, s.blocks, {fr.entry})
  <2>1. s \in fs[n + 1].saved
    BY <1>1
  <2>2. Placed(s.blocks, fs[n + 1].entry, fs, (n + 1) - 1)
        /\ NoneLost(s.blocks, fs[n + 1].entry, fs, (n + 1) - 1)
    BY <1>2, <1>3, <2>1 DEF SavedOK
  <2>3. fs[n + 1].entry \in 1 .. Len(s.blocks) /\ Longer(bs, s.blocks, {fs[n + 1].entry})
    BY <1>2, <1>3, <2>1 DEF Placed
  <2> QED  BY <1>1, <1>3, <1>4, <2>2, <2>3
<1>9. fr = fs[Len(fs)]
  BY <1>1
<1> QED  BY <1>1, <1>5, <1>6, <1>7, <1>8, <1>9 DEF n, gs, fr

(* Leaving a form, after destructors have been added where it began.       *)
LEMMA LeaveSound ==
  ASSUME NEW bs, NEW r, NEW fs, Sound(bs, r, fs), fs # <<>>,
         NEW new, NEW q, IsCode(new), Len(new) = Len(bs),
         Longer(new, bs, {Back(fs).entry}),
         q.block = r.block, q.term => r.term,
         q.type = "error" => \E i \in 1 .. Len(fs) - 1 : fs[i].kind = "call",
         q.type # "error" => r.type # "error" /\ Back(fs).kind \in {"scope", "call"}
  PROVE  Sound(new, q, Pop(fs))
<1> DEFINE n  == Len(fs) - 1
           gs == Pop(fs)
           fr == Back(fs)
<1>1. /\ n \in Nat /\ IsList(gs) /\ Len(gs) = n
      /\ \A i \in 1 .. n : gs[i] = fs[i] /\ SavedOK(gs, i)
      /\ Placed(bs, r.block, gs, n) /\ MayWrite(fr.entry, gs, n)
      /\ fr = fs[Len(fs)]
  BY Popped DEF Writes
<1>2. /\ q.type = "error" => \E i \in 1 .. n : fs[i].kind = "call"
      /\ q.type # "error" => r.type # "error" /\ fr.kind \in {"scope", "call"}
      /\ Longer(new, bs, {fr.entry})
  OBVIOUS
<1>3. n + 1 = Len(fs)
  BY ListLen DEF Sound
<1> HIDE DEF n, gs, fr
<1>4. IsCode(bs) /\ r.block \in 1 .. Len(new) /\ MayWrite(r.block, gs, n)
      /\ Len(bs) \in Nat
  BY <1>1, ListLen DEF Placed, IsCode
<1>5. Placed(new, q.block, gs, n)
  BY <1>1, <1>2, <1>4, PlacedWrite
<1>6. ASSUME q.term PROVE EndsPath(new[q.block])
  <2>1. EndsPath(bs[r.block])
    BY <1>6 DEF Sound
  <2>2. r.block \in 1 .. Len(bs) /\ StartsWith(new[r.block], bs[r.block])
    BY <1>4 DEF Longer
  <2>3. Len(new[r.block]) \in Nat /\ Len(bs[r.block]) \in Nat
    BY <1>4, <2>2, ListLen DEF IsCode
  <2> QED  BY <2>1, <2>2, <2>3, EndsStill
<1>7. ASSUME q.type # "error" PROVE NoneLost(new, q.block, gs, n)
  <2>1. NoneLost(bs, r.block, fs, n + 1)
    BY <1>2, <1>3, <1>7 DEF Sound
  <2>2. Waiting(fr) = {}
    BY <1>2, <1>7 DEF Waiting
  <2>3. NoneLost(bs, r.block, gs, n)
    <3>1. \A i \in 1 .. n + 1 : i \in 1 .. n \/ i = n + 1
      BY <1>1
    <3>2. \A b, i : i \in 1 .. n + 1 /\ b \in Waiting(fs[i]) =>
                      i \in 1 .. n /\ b \in Waiting(gs[i])
      BY <1>1, <1>3, <2>2, <3>1
    <3> QED  BY <2>1, <3>2 DEF NoneLost
  <2>4. ASSUME NEW b \in 1 .. Len(new),
               b = r.block \/ b > Len(bs) \/ \E i \in 1 .. n : b \in Waiting(gs[i])
        PROVE  EndsPath(new[b]) \/ b = q.block \/ \E i \in 1 .. n : b \in Waiting(gs[i])
    BY <1>4, <2>4
  <2> QED  BY SMTT(20), <1>1, <1>2, <1>4, <2>3, <2>4, NoneLostWrite
<1>8. (\E i \in 1 .. n : fs[i].kind = "call") => \E i \in 1 .. n : gs[i].kind = "call"
  BY <1>1
<1>9. Sound(new, q, gs)
  BY <1>1, <1>2, <1>5, <1>6, <1>7, <1>8 DEF Sound
<1> QED  BY <1>9 DEF gs
-----------------------------------------------------------------------------
(***************************************************************************)
(* The actions.                                                            *)
(***************************************************************************)
LEMMA SoundTypes ==
  ASSUME Sound(blocks, pr, forms)
  PROVE  /\ IsCode(blocks) /\ Len(blocks) \in Nat /\ pr.block \in 1 .. Len(blocks)
         /\ IsList(blocks[pr.block]) /\ IsList(forms) /\ Len(forms) \in Nat
         /\ Placed(blocks, pr.block, forms, Len(forms))
         /\ MayWrite(pr.block, forms, Len(forms))
BY ListLen DEF Sound, Placed, IsCode

LEMMA EndsConcat ==
  ASSUME NEW s, NEW t, IsList(s), IsList(t), EndsPath(t) PROVE EndsPath(s \o t)
<1>1. /\ Len(s \o t) = Len(s) + Len(t) /\ Len(s) \in Nat /\ Len(t) \in Nat
      /\ \A k \in 1 .. Len(t) : (s \o t)[Len(s) + k] = t[k]
  BY ListConcat, ListLen
<1>2. PICK k \in 1 .. Len(t) : IsTerminator(t[k]) \/ t[k].op = "goto"
  BY DEF EndsPath
<1>3. Len(s) + k \in 1 .. Len(s \o t) /\ (s \o t)[Len(s) + k] = t[k]
  BY <1>1
<1> QED  BY <1>2, <1>3 DEF EndsPath

(* A branch, a return or a deferred goto ends a path.                      *)
LEMMA OneInstruction ==
  ASSUME NEW i
  PROVE  /\ IsList(<<i>>)
         /\ i.op \in {"br", "cbr", "ret", "goto"} => EndsPath(<<i>>)
<1>1. IsList(<<i>>) /\ Len(<<i>>) = 1 /\ <<i>>[1] = i
  BY ShortLists
<1>2. ASSUME i.op \in {"br", "cbr", "ret", "goto"} PROVE EndsPath(<<i>>)
  BY <1>1, <1>2 DEF EndsPath, IsTerminator
<1> QED  BY <1>1, <1>2

LEMMA EmitSound ==
  ASSUME Sound(blocks, pr, forms), pr.type # "error", NEW code, IsList(code),
         blocks' = Emit(blocks, pr.block, code), forms' = forms,
         pr'.block = pr.block, pr'.type # "error", pr'.term => EndsPath(code)
  PROVE  Sound(blocks', pr', forms')
<1>1. /\ IsCode(blocks') /\ Len(blocks') = Len(blocks)
      /\ Longer(blocks', blocks, {pr.block})
      /\ EndsPath(code) => EndsPath(blocks'[pr.block])
  BY SoundTypes, EmitLonger
<1> QED  BY <1>1, StraightSound

(* Forms whose code goes into the current block.                           *)
LEMMA DefineSound ==
  ASSUME Sound(blocks, pr, forms), Define PROVE Sound(blocks', pr', forms')
<1> DEFINE code == <<InitOf({<<NS(ctx), Len(ctx.vars[NS(ctx)]) + 1>>})>>
<1>1. /\ blocks' = Emit(blocks, pr.block, code) /\ pr' = Result(pr.block, "int", FALSE)
      /\ forms' = forms /\ pr.type # "error"
  BY DEF Define, Parse
<1>2. IsList(code)
  BY ShortLists
<1> HIDE DEF code
<1>3. pr'.block = pr.block /\ pr'.type # "error" /\ ~pr'.term
  BY <1>1 DEF Result
<1> QED  BY <1>1, <1>2, <1>3, EmitSound

LEMMA UnchangedSound ==
  ASSUME Sound(blocks, pr, forms), Value \/ Fail PROVE Sound(blocks', pr', forms')
<1>1. blocks' = blocks /\ forms' = forms /\ pr.type # "error"
  BY DEF Value, Fail, Parse
<1>2. /\ pr'.block = pr.block /\ ~pr'.term
      /\ pr'.type = "error" => \E i \in 1 .. Len(forms) : forms[i].kind = "call"
  BY DEF Value, Fail, Parse, Result
<1>3. IsCode(blocks) /\ Longer(blocks, blocks, {pr.block})
  BY SoundTypes, LongerSelf
<1> QED  BY <1>1, <1>2, <1>3, StraightSound

(* The calls a form makes, and the instruction after them.                 *)
LEMMA AppendCalls ==
  ASSUME NEW b, IsList(b), NEW op, NEW objs, NEW i
  PROVE  Append(b \o Calls(op, objs), i) = b \o (Calls(op, objs) \o <<i>>)
<1> DEFINE c == Calls(op, objs)
           x == b \o c
<1>1. PICK S : b \in Seq(S) /\ c \in Seq(S) /\ i \in S
  <2>1. IsList(c)
    BY CallsList
  <2> HIDE DEF c
  <2> QED  BY <2>1, ListsInOneSet
<1> HIDE DEF c
<1>2. x \in Seq(S) /\ <<i>> \in Seq(S)
  BY <1>1, ConcatProperties
<1>3. x \o <<i>> = b \o (c \o <<i>>)
  BY <1>1, <1>2, ConcatAssociative
<1> HIDE DEF x
<1>4. Append(x, i) = x \o <<i>>
  BY <1>1, <1>2, AppendIsConcat
<1> QED  BY <1>3, <1>4 DEF x, c

LEMMA ReturnSound ==
  ASSUME Sound(blocks, pr, forms), Return PROVE Sound(blocks', pr', forms')
<1> DEFINE close == Calls("destroy", ClosedByReturn(ctx))
           code  == close \o <<Ret>>
           b     == blocks[pr.block]
<1>1. /\ blocks' = [blocks EXCEPT ![pr.block] = Append(b \o close, Ret)]
      /\ pr' = Result(pr.block, "void", TRUE) /\ forms' = forms /\ pr.type # "error"
  BY DEF Return, Parse, CloseFunction
<1>2. IsList(close) /\ IsList(<<Ret>>) /\ EndsPath(<<Ret>>) /\ IsList(b)
  BY CallsList, OneInstruction, SoundTypes DEF Ret, Instr
<1> HIDE DEF close, b
<1>3. IsList(code) /\ EndsPath(code)
  BY <1>2, ListConcat, EndsConcat
<1>4. Append(b \o close, Ret) = b \o code
  <2> HIDE DEF code
  <2>1. \A op, objs, i : Append(b \o Calls(op, objs), i) = b \o (Calls(op, objs) \o <<i>>)
    BY <1>2, AppendCalls
  <2> DEFINE objs == ClosedByReturn(ctx)
             op   == "destroy"
  <2>2. close = Calls(op, objs) /\ code = close \o <<Ret>>
    BY DEF close, code
  <2> HIDE DEF objs, op
  <2> QED  BY <2>1, <2>2
<1>5. blocks' = Emit(blocks, pr.block, code)
  BY <1>1, <1>4 DEF Emit, b
<1> HIDE DEF code
<1>6. pr'.block = pr.block /\ pr'.type # "error"
  BY <1>1 DEF Result
<1> QED  BY <1>1, <1>3, <1>5, <1>6, EmitSound

LEMMA GotoSound ==
  ASSUME Sound(blocks, pr, forms), NEW l, GotoKnown(l) \/ GotoDeferred(l)
  PROVE  Sound(blocks', pr', forms')
<1>1. forms' = forms /\ pr.type # "error"
  BY DEF GotoKnown, GotoDeferred, Parse
<1>2. CASE GotoKnown(l)
  <2>1. PICK lab \in LabelNamed(l) :
          /\ blocks' = Emit(blocks, pr.block,
                            Calls("destroy", VarsAfterIndex(ctx, lab.index))
                              \o <<Br(lab.block)>>)
          /\ pr' = Result(pr.block, "int", FALSE)
    BY <1>2 DEF GotoKnown, Parse
  <2> DEFINE close == Calls("destroy", VarsAfterIndex(ctx, lab.index))
             code  == close \o <<Br(lab.block)>>
  <2>2. IsList(close) /\ IsList(<<Br(lab.block)>>) /\ blocks' = Emit(blocks, pr.block, code)
    BY <2>1, CallsList, ShortLists
  <2> HIDE DEF close
  <2>3. IsList(code)
    BY <2>2, ListConcat
  <2> HIDE DEF code
  <2>4. pr'.block = pr.block /\ pr'.type # "error" /\ ~pr'.term
    BY <2>1 DEF Result
  <2> QED  BY <1>1, <2>2, <2>3, <2>4, EmitSound
<1>3. CASE GotoDeferred(l)
  <2> DEFINE code == <<Deferred(l)>>
  <2>1. blocks' = Emit(blocks, pr.block, code) /\ pr' = Result(pr.block, "int", TRUE)
    BY <1>3 DEF GotoDeferred, Parse
  <2>2. IsList(code) /\ EndsPath(code)
    BY OneInstruction DEF Deferred
  <2> HIDE DEF code
  <2>3. pr'.block = pr.block /\ pr'.type # "error"
    BY <2>1 DEF Result
  <2> QED  BY <1>1, <2>1, <2>2, <2>3, EmitSound
<1> QED  BY <1>2, <1>3

(* A label ends the current block and begins a new one.                    *)
LEMMA LabelSound ==
  ASSUME Sound(blocks, pr, forms), NEW l, Label(l) PROVE Sound(blocks', pr', forms')
<1> DEFINE new  == Len(blocks) + 1
           code == IF Terminated(blocks[pr.block]) THEN <<>> ELSE <<Br(new)>>
           mid  == Emit(blocks, pr.block, code)
           n    == Len(forms)
<1>1. /\ blocks' = Append(mid, <<>>) /\ pr' = Result(new, "int", FALSE)
      /\ forms' = forms /\ pr.type # "error"
  BY DEF Label, Parse
<1>2. /\ IsCode(blocks) /\ Len(blocks) \in Nat /\ pr.block \in 1 .. Len(blocks)
      /\ IsList(blocks[pr.block]) /\ n \in Nat
      /\ Placed(blocks, pr.block, forms, n) /\ MayWrite(pr.block, forms, n)
  BY SoundTypes
<1>3. IsList(code) /\ (EndsPath(blocks[pr.block]) \/ EndsPath(code))
  <2>1. IsList(<<>>) /\ IsList(<<Br(new)>>) /\ EndsPath(<<Br(new)>>)
    BY ShortLists, OneInstruction DEF Br, Instr
  <2>2. Terminated(blocks[pr.block]) => EndsPath(blocks[pr.block])
    BY <1>2, TerminatedEnds
  <2> QED  BY <2>1, <2>2
<1> HIDE DEF code
<1>4. /\ IsCode(mid) /\ Len(mid) = Len(blocks) /\ Longer(mid, blocks, {pr.block})
      /\ EndsPath(code) => EndsPath(mid[pr.block])
  BY <1>2, <1>3, EmitLonger
<1> HIDE DEF mid, n
<1>5. IsCode(blocks') /\ Len(blocks') = new /\ Longer(blocks', mid, {})
  BY <1>1, <1>4, ShortLists, NewBlockLonger
<1>6. Longer(blocks', blocks, {pr.block})
  BY <1>2, <1>4, <1>5, LongerAgain
<1>7. EndsPath(blocks'[pr.block])
  <2>1. pr.block \in 1 .. Len(mid) /\ pr.block \in 1 .. Len(blocks')
    BY <1>2, <1>4, <1>5
  <2>2. /\ Len(mid[pr.block]) \in Nat /\ Len(blocks[pr.block]) \in Nat
        /\ Len(blocks'[pr.block]) \in Nat
        /\ StartsWith(mid[pr.block], blocks[pr.block])
        /\ StartsWith(blocks'[pr.block], mid[pr.block])
    BY <1>2, <1>4, <1>5, <2>1, ListLen DEF IsCode, Longer
  <2>3. EndsPath(mid[pr.block])
    BY <1>3, <1>4, <2>2, EndsStill
  <2> QED  BY <2>2, <2>3, EndsStill
<1>8. pr'.block = new /\ pr'.type # "error" /\ ~pr'.term
  BY <1>1 DEF Result
<1>9. new \in Nat /\ new > Len(blocks) /\ new \in 1 .. Len(blocks')
  BY <1>2, <1>5
<1>10. MayWrite(new, forms, n)
  BY <1>2, <1>9, MayWriteNew
<1>11. Placed(blocks', new, forms, n)
  BY <1>2, <1>5, <1>6, <1>9, <1>10, PlacedWrite
<1>12. NoneLost(blocks', new, forms, n)
  <2>1. NoneLost(blocks, pr.block, forms, n)
    BY <1>1 DEF Sound, n
  <2>2. ASSUME NEW b \in 1 .. Len(blocks'), b = pr.block \/ b > Len(blocks)
                 \/ \E i \in 1 .. n : b \in Waiting(forms[i])
        PROVE  EndsPath(blocks'[b]) \/ b = new \/ \E i \in 1 .. n : b \in Waiting(forms[i])
    BY <1>2, <1>5, <1>7, <2>2
  <2> QED  BY <1>2, <1>5, <1>6, <2>1, <2>2, NoneLostWrite
<1> QED  BY <1>1, <1>8, <1>11, <1>12 DEF Sound, n
(* new-scope, if and calls.                                                *)
LEMMA OpenSound ==
  ASSUME Sound(blocks, pr, forms), OpenNewScope \/ BeginCall
  PROVE  Sound(blocks', pr', forms')
<1> DEFINE n == Len(forms)
<1>1. /\ blocks' = blocks /\ pr' = Result(pr.block, "void", FALSE) /\ pr.type # "error"
      /\ \E kind \in {"scope", "call"} :
           forms' = Append(forms, Frame(kind, pr.block, pr.block, pr))
  BY DEF OpenNewScope, BeginCall, Parse
<1>2. PICK kind \in {"scope", "call"} :
        forms' = Append(forms, Frame(kind, pr.block, pr.block, pr))
  BY <1>1
<1> DEFINE fr == Frame(kind, pr.block, pr.block, pr)
<1>3. /\ pr.block \in 1 .. Len(blocks) /\ IsList(forms) /\ n \in Nat
      /\ Placed(blocks, pr.block, forms, n) /\ MayWrite(pr.block, forms, n)
      /\ NoneLost(blocks, pr.block, forms, n) /\ \A i \in 1 .. n : SavedOK(forms, i)
  BY <1>1, SoundTypes DEF Sound
<1>4. /\ fr.kind = kind /\ fr.entry = pr.block /\ Writes(fr) = {pr.block}
      /\ kind # "call" => fr.saved = {}
      /\ \A s, t \in fr.saved : s.blocks = blocks /\ s = t
  <2>1. fr.kind = kind /\ fr.entry = pr.block /\ fr.cond = pr.block /\ fr.then = pr
    BY DEF Frame
  <2>2. fr.saved = IF kind = "call"
                     THEN {[ctx |-> ctx, blocks |-> blocks, labels |-> labels]} ELSE {}
    BY DEF Frame
  <2> HIDE DEF fr
  <2> QED  BY <2>1, <2>2 DEF Writes
<1> HIDE DEF fr
<1>5. FrameOK(blocks, fr)
  BY <1>3, <1>4 DEF FrameOK
<1>6. \A b \in Writes(fr) : MayWrite(b, forms, n)
  BY <1>3, <1>4
<1>7. NoneLost(blocks, pr.block, Append(forms, fr), n + 1)
  <2>1. \A i \in 1 .. n : i \in 1 .. n + 1 /\ Append(forms, fr)[i] = forms[i]
    BY <1>3, ListAppend
  <2> QED  BY <1>3, <2>1 DEF NoneLost
<1>8. pr'.block = pr.block /\ pr'.type # "error" /\ ~pr'.term
  BY <1>1 DEF Result
<1>9. \A s \in fr.saved : /\ s.blocks = blocks /\ fr.entry = pr'.block
                          /\ NoneLost(blocks, pr'.block, forms, n)
  BY <1>3, <1>4, <1>8
<1>10. Sound(blocks, pr', Append(forms, fr))
  BY <1>3, <1>5, <1>6, <1>7, <1>8, <1>9, PushSound
<1> QED  BY <1>1, <1>2, <1>10 DEF fr

LEMMA OpenIfSound ==
  ASSUME Sound(blocks, pr, forms), OpenIf PROVE Sound(blocks', pr', forms')
<1> DEFINE n    == Len(forms)
           then == Len(blocks) + 1
           code == <<Instr("cbr", {}, {then, then + 1})>>
           mid  == Emit(blocks, pr.block, code)
           fr   == Frame("then", then, pr.block, pr)
<1>1. /\ blocks' = mid \o <<<<>>, <<>>>> /\ pr' = Result(then, "void", FALSE)
      /\ pr.type # "error" /\ forms' = Append(forms, fr)
  BY DEF OpenIf, Parse
<1>2. /\ IsCode(blocks) /\ Len(blocks) \in Nat /\ pr.block \in 1 .. Len(blocks)
      /\ IsList(forms) /\ n \in Nat
      /\ Placed(blocks, pr.block, forms, n) /\ MayWrite(pr.block, forms, n)
      /\ NoneLost(blocks, pr.block, forms, n) /\ \A i \in 1 .. n : SavedOK(forms, i)
  BY <1>1, SoundTypes DEF Sound
<1>3. IsList(code) /\ EndsPath(code)
  BY OneInstruction DEF Instr
<1> HIDE DEF code
<1>4. /\ IsCode(mid) /\ Len(mid) = Len(blocks) /\ Longer(mid, blocks, {pr.block})
      /\ EndsPath(mid[pr.block])
  BY <1>2, <1>3, EmitLonger
<1> HIDE DEF mid
<1>5. IsCode(blocks') /\ Len(blocks') = then + 1 /\ Longer(blocks', mid, {})
  <2>1. Len(blocks') = Len(mid) + 2 /\ IsCode(blocks') /\ Longer(blocks', mid, {})
    BY <1>1, <1>4, TwoBlocksLonger
  <2> QED  BY <1>2, <1>4, <2>1
<1>6. Longer(blocks', blocks, {pr.block})
  BY <1>2, <1>4, <1>5, LongerAgain
<1>7. EndsPath(blocks'[pr.block])
  <2>1. blocks'[pr.block] = mid[pr.block]
    BY <1>2, <1>4, <1>5 DEF Longer
  <2> QED  BY <1>4, <2>1
<1>8. MayWrite(then, forms, n) /\ MayWrite(then + 1, forms, n)
  <2>1. then \in Nat /\ then > Len(blocks) /\ then + 1 \in Nat /\ then + 1 > Len(blocks)
    BY <1>2
  <2> QED  BY <1>2, <2>1, MayWriteNew
<1>9. /\ fr.kind = "then" /\ fr.saved = {} /\ fr.entry = then
      /\ Writes(fr) = {then, pr.block, then + 1}
  <2>1. /\ fr.kind = "then" /\ fr.saved = {} /\ fr.entry = then /\ fr.cond = pr.block
        /\ fr.then = pr
    BY DEF Frame
  <2> HIDE DEF fr, then
  <2> QED  BY <2>1 DEF Writes
<1> HIDE DEF fr
<1>10. then \in 1 .. Len(blocks') /\ then + 1 \in 1 .. Len(blocks')
       /\ pr.block \in 1 .. Len(blocks')
  BY <1>2, <1>5
<1>11. FrameOK(blocks', fr)
  BY <1>9, <1>10 DEF FrameOK
<1>12. Placed(blocks', then, forms, n)
  BY <1>2, <1>5, <1>6, <1>8, <1>10, PlacedWrite
<1>13. NoneLost(blocks', then, Append(forms, fr), n + 1)
  <2> DEFINE gs == Append(forms, fr)
  <2>1. /\ \A i \in 1 .. n : i \in 1 .. n + 1 /\ gs[i] = forms[i]
        /\ gs[n + 1] = fr /\ n + 1 \in 1 .. n + 1
    BY <1>2, ListAppend
  <2>2. Waiting(fr) = {then + 1}
    BY <1>9 DEF Waiting
  <2> HIDE DEF gs
  <2>3. ASSUME NEW b \in 1 .. Len(blocks'), b = pr.block \/ b > Len(blocks)
                 \/ \E i \in 1 .. n : b \in Waiting(forms[i])
        PROVE  EndsPath(blocks'[b]) \/ b = then \/ \E i \in 1 .. n + 1 : b \in Waiting(gs[i])
    <3>1. CASE b = pr.block
      BY <1>7, <3>1
    <3>2. CASE b > Len(blocks)
      <4>1. b = then \/ b = then + 1
        BY <1>2, <1>5, <3>2
      <4> QED  BY <2>1, <2>2, <4>1
    <3>3. CASE \E i \in 1 .. n : b \in Waiting(forms[i])
      BY <2>1, <3>3
    <3> QED  BY <2>3, <3>1, <3>2, <3>3
  <2>4. n + 1 \in Nat
    BY <1>2
  <2>5. NoneLost(blocks', then, gs, n + 1)
    BY <1>2, <1>5, <1>6, <2>3, <2>4, NoneLostWrite
  <2> QED  BY <2>5 DEF gs
<1>14. \A b \in Writes(fr) : MayWrite(b, forms, n)
  BY <1>2, <1>8, <1>9
<1>15. pr'.block = then /\ pr'.type # "error" /\ ~pr'.term
  BY <1>1 DEF Result
<1>16. \A s \in fr.saved : /\ s.blocks = blocks' /\ fr.entry = pr'.block
                           /\ NoneLost(blocks', pr'.block, forms, n)
  BY <1>9
<1>17. Sound(blocks', pr', Append(forms, fr))
  BY <1>2, <1>11, <1>12, <1>13, <1>14, <1>15, <1>16, PushSound
<1> QED  BY <1>1, <1>17

(* CloseScope.                                                             *)
LEMMA CloseLonger ==
  ASSUME NEW e, IsCode(blocks), e \in 1 .. Len(blocks)
  PROVE  LET new == CloseScope(blocks, e)
         IN  IsCode(new) /\ Len(new) = Len(blocks) /\ Longer(new, blocks, {e})
BY CallsList, EmitLonger DEF CloseScope

LEMMA CloseSound ==
  ASSUME Sound(blocks, pr, forms), CloseNewScope \/ Abandon \/ EndCall
  PROVE  Sound(blocks', pr', forms')
<1>1. forms # <<>>
  <2>1. CASE Abandon
    <3>1. \E i \in 1 .. Len(forms) : forms[i].kind = "call"
      BY <2>1 DEF Abandon, Sound
    <3> QED  BY <3>1, ShortLists
  <2> QED  BY <2>1 DEF CloseNewScope, EndCall, Inner
<1> DEFINE fr == Back(forms)
<1>2. /\ IsCode(blocks) /\ Len(blocks) \in Nat /\ fr.entry \in 1 .. Len(blocks)
      /\ fr = forms[Len(forms)] /\ Len(forms) - 1 \in Nat /\ Len(forms) \in Nat
  BY <1>1, SoundTypes, Popped DEF FrameOK, Writes
<1>3. forms' = Pop(forms)
  BY DEF CloseNewScope, Abandon, EndCall
<1>4. CASE CloseNewScope
  <2>1. blocks' = CloseScope(blocks, fr.entry) /\ pr' = pr /\ fr.kind = "scope"
        /\ pr.type # "error"
    BY <1>4 DEF CloseNewScope, MayClose, Inner
  <2> HIDE DEF fr
  <2>2. IsCode(blocks') /\ Len(blocks') = Len(blocks) /\ Longer(blocks', blocks, {fr.entry})
    BY <1>2, <2>1, CloseLonger
  <2> QED  BY <1>1, <1>3, <2>1, <2>2, LeaveSound DEF fr
<1>5. CASE Abandon
  <2>1. blocks' = CloseScope(blocks, fr.entry) /\ pr' = pr /\ fr.kind # "call"
        /\ pr.type = "error"
    BY <1>5 DEF Abandon
  <2> HIDE DEF fr
  <2>2. IsCode(blocks') /\ Len(blocks') = Len(blocks) /\ Longer(blocks', blocks, {fr.entry})
    BY <1>2, <2>1, CloseLonger
  <2>3. \E i \in 1 .. Len(forms) - 1 : forms[i].kind = "call"
    <3>1. PICK i \in 1 .. Len(forms) : forms[i].kind = "call"
      BY <2>1 DEF Sound
    <3>2. i # Len(forms)
      BY <1>2, <2>1, <3>1
    <3>3. i \in 1 .. Len(forms) - 1
      BY <1>2, <3>2
    <3> QED  BY <3>1, <3>3
  <2> QED  BY <1>1, <1>3, <2>1, <2>2, <2>3, LeaveSound DEF fr
<1>6. CASE EndCall
  <2>1. blocks' = blocks /\ pr' = Result(pr.block, "int", FALSE) /\ fr.kind = "call"
        /\ pr.type # "error"
    BY <1>6 DEF EndCall, Inner
  <2> HIDE DEF fr
  <2>2. Longer(blocks', blocks, {fr.entry})
    BY <1>2, <2>1, LongerSelf
  <2>3. pr'.block = pr.block /\ pr'.type # "error" /\ ~pr'.term
    BY <2>1 DEF Result
  <2> QED  BY <1>1, <1>2, <1>3, <2>1, <2>2, <2>3, LeaveSound DEF fr
<1> QED  BY <1>4, <1>5, <1>6

(* SavePoint::restore: everything is as it was when the call began.        *)
LEMMA RestoreSound ==
  ASSUME Sound(blocks, pr, forms), RestoreCall
  PROVE  /\ Sound(blocks', pr', forms')
         /\ \A s \in Back(forms).saved : blocks' = s.blocks /\ labels' = s.labels
<1> DEFINE fr == Back(forms)
           n  == Len(forms) - 1
           gs == Pop(forms)
<1>1. forms # <<>> /\ forms' = gs /\ fr.kind = "call"
      /\ pr' = Result(fr.entry, "void", FALSE)
  BY DEF RestoreCall, Inner
<1>2. PICK s \in fr.saved :
        blocks' = RestoreBlocks(blocks, s.blocks, fr.entry) /\ labels' = s.labels
  BY DEF RestoreCall
<1>3. /\ n \in Nat /\ IsList(gs) /\ Len(gs) = n /\ \A i \in 1 .. n : SavedOK(gs, i)
      /\ IsCode(blocks)
      /\ \A t \in fr.saved :
           /\ Placed(t.blocks, fr.entry, gs, n) /\ NoneLost(t.blocks, fr.entry, gs, n)
           /\ fr.entry \in 1 .. Len(t.blocks) /\ Longer(blocks, t.blocks, {fr.entry})
  BY <1>1, Popped, SoundTypes
<1> HIDE DEF fr, n, gs
<1>4. IsCode(s.blocks)
  BY <1>3 DEF Placed
<1>5. blocks' = s.blocks
  BY <1>2, <1>3, <1>4, RestoreUndoesGrowth
<1>6. pr'.block = fr.entry /\ pr'.type # "error" /\ ~pr'.term
  BY <1>1 DEF Result
<1>7. Sound(blocks', pr', gs)
  BY <1>3, <1>5, <1>6 DEF Sound
<1>8. \A t \in fr.saved : t = s
  BY <1>1, Popped DEF FrameOK, fr
<1> QED  BY <1>1, <1>2, <1>5, <1>7, <1>8 DEF fr
(* The first branch of an if ends; its last block waits.                   *)
LEMMA ElseSound ==
  ASSUME Sound(blocks, pr, forms), ElseBranch PROVE Sound(blocks', pr', forms')
<1> DEFINE fr  == Back(forms)
           gs  == Pop(forms)
           n   == Len(forms) - 1
           alt == Frame("else", fr.entry + 1, fr.cond, pr)
<1>1. /\ forms # <<>> /\ fr.kind = "then" /\ pr.type # "error"
      /\ blocks' = CloseScope(blocks, fr.entry) /\ forms' = Append(gs, alt)
      /\ pr' = Result(fr.entry + 1, "void", FALSE)
  BY DEF ElseBranch, Inner, MayClose
<1>2. /\ n \in Nat /\ IsList(gs) /\ Len(gs) = n /\ fr = forms[n + 1] /\ n + 1 = Len(forms)
      /\ \A i \in 1 .. n : gs[i] = forms[i]
      /\ \A i \in 1 .. n : SavedOK(gs, i)
      /\ Placed(blocks, pr.block, gs, n) /\ FrameOK(blocks, fr)
      /\ \A b \in Writes(fr) : MayWrite(b, gs, n)
  <2>1. /\ Len(forms) \in Nat /\ n \in Nat /\ IsList(gs) /\ Len(gs) = n
        /\ fr = forms[Len(forms)]
        /\ \A i \in 1 .. n : gs[i] = forms[i]
        /\ \A i \in 1 .. n : SavedOK(gs, i)
        /\ Placed(blocks, pr.block, gs, n) /\ FrameOK(blocks, fr)
        /\ \A b \in Writes(fr) : MayWrite(b, gs, n)
    BY <1>1, Popped, SoundTypes
  <2>2. n + 1 = Len(forms)
    BY <2>1
  <2> HIDE DEF n, gs, fr
  <2> QED  BY <2>1, <2>2
<1>3. /\ IsCode(blocks) /\ Len(blocks) \in Nat /\ pr.block \in 1 .. Len(blocks)
      /\ MayWrite(pr.block, gs, n) /\ NoneLost(blocks, pr.block, forms, n + 1)
      /\ pr.term => EndsPath(blocks[pr.block])
  BY <1>1, <1>2, SoundTypes DEF Sound, Placed
<1>4. /\ alt.kind = "else" /\ alt.saved = {} /\ alt.then = pr /\ alt.entry = fr.entry + 1
      /\ Writes(alt) = {fr.entry + 1, fr.cond, pr.block}
  <2>1. /\ alt.kind = "else" /\ alt.saved = {} /\ alt.entry = fr.entry + 1
        /\ alt.cond = fr.cond /\ alt.then = pr
    BY DEF Frame
  <2> HIDE DEF fr, alt
  <2> QED  BY <2>1 DEF Writes
<1> HIDE DEF fr, gs, n, alt
<1>5. {fr.entry, fr.entry + 1, fr.cond} \subseteq Writes(fr)
  BY <1>1 DEF Writes
<1>6. fr.entry \in 1 .. Len(blocks) /\ fr.entry + 1 \in 1 .. Len(blocks)
      /\ fr.cond \in 1 .. Len(blocks)
  BY <1>2, <1>5 DEF FrameOK
<1>7. /\ IsCode(blocks') /\ Len(blocks') = Len(blocks)
      /\ Longer(blocks', blocks, {fr.entry})
  BY <1>1, <1>3, <1>6, CloseLonger
<1>8. Placed(blocks', fr.entry + 1, gs, n)
  BY <1>2, <1>5, <1>6, <1>7, PlacedWrite
<1>9. pr.term => EndsPath(blocks'[pr.block])
  <2>1. /\ Len(blocks[pr.block]) \in Nat /\ Len(blocks'[pr.block]) \in Nat
        /\ StartsWith(blocks'[pr.block], blocks[pr.block])
    BY <1>3, <1>7, ListLen DEF IsCode, Longer
  <2> QED  BY <1>3, <2>1, EndsStill
<1>10. FrameOK(blocks', alt)
  BY <1>3, <1>4, <1>6, <1>7, <1>9 DEF FrameOK
<1>11. NoneLost(blocks', fr.entry + 1, Append(gs, alt), n + 1)
  <2> DEFINE hs == Append(gs, alt)
  <2>1. /\ \A i \in 1 .. n : i \in 1 .. n + 1 /\ hs[i] = forms[i]
        /\ hs[n + 1] = alt /\ n + 1 \in 1 .. n + 1
        /\ \A i \in 1 .. n + 1 : i \in 1 .. n \/ i = n + 1
    BY <1>2, ListAppend
  <2>2. Waiting(fr) = {fr.entry + 1} /\ Waiting(alt) = {pr.block}
    BY <1>1, <1>4 DEF Waiting
  <2> HIDE DEF hs
  <2>3. ASSUME NEW b \in 1 .. Len(blocks'), b = pr.block \/ b > Len(blocks)
                 \/ \E i \in 1 .. n + 1 : b \in Waiting(forms[i])
        PROVE  EndsPath(blocks'[b]) \/ b = fr.entry + 1
               \/ \E i \in 1 .. n + 1 : b \in Waiting(hs[i])
    <3>1. CASE b = pr.block
      BY <2>1, <2>2, <3>1
    <3>2. CASE b > Len(blocks)
      BY <1>3, <1>7, <3>2
    <3>3. ASSUME NEW i \in 1 .. n + 1, b \in Waiting(forms[i])
          PROVE  b = fr.entry + 1 \/ \E j \in 1 .. n + 1 : b \in Waiting(hs[j])
      <4>1. CASE i \in 1 .. n
        BY <2>1, <3>3, <4>1
      <4>2. CASE i = n + 1
        BY <1>2, <2>2, <3>3, <4>2
      <4> QED  BY <2>1, <4>1, <4>2
    <3> QED  BY <2>3, <3>1, <3>2, <3>3
  <2>4. n + 1 \in Nat
    BY <1>2
  <2>5. NoneLost(blocks', fr.entry + 1, hs, n + 1)
    BY <1>3, <1>7, <2>3, <2>4, NoneLostWrite
  <2> QED  BY <2>5 DEF hs
<1>12. \A b \in Writes(alt) : MayWrite(b, gs, n)
  BY <1>2, <1>3, <1>4, <1>5
<1>13. pr'.block = fr.entry + 1 /\ pr'.type # "error" /\ ~pr'.term
  BY <1>1 DEF Result
<1>14. \A s \in alt.saved : /\ s.blocks = blocks' /\ alt.entry = pr'.block
                            /\ NoneLost(blocks', pr'.block, gs, n)
  BY <1>4
<1>15. Sound(blocks', pr', Append(gs, alt))
  BY <1>2, <1>8, <1>10, <1>11, <1>12, <1>13, <1>14, PushSound
<1> QED  BY <1>1, <1>15

(* What the end of an if needs to know of the two branches.                *)
LEMMA EndIfSound ==
  ASSUME Sound(blocks, pr, forms), EndIf PROVE Sound(blocks', pr', forms')
<1> DEFINE fr   == Back(forms)
           gs   == Pop(forms)
           n    == Len(forms) - 1
           bs   == CloseScope(blocks, fr.entry)
           both == {fr.then, pr}
           goOn == {r \in both : GoesOn(bs, r)}
           type == IF \A r \in goOn : r.type = "int" THEN "int" ELSE "void"
           ends == {r.block : r \in goOn}
           phi  == IF goOn = both /\ type = "int" THEN <<Instr("phi", {}, ends)>> ELSE <<>>
<1>1. /\ forms # <<>> /\ fr.kind = "else" /\ pr.type # "error" /\ forms' = gs
      /\ \/ goOn = {} /\ blocks' = bs /\ pr' = Result(fr.cond, "void", FALSE)
         \/ /\ goOn # {} /\ blocks' = Join(bs, ends, phi)
            /\ pr' = Result(Len(bs) + 1, type, FALSE)
  BY DEF EndIf, Inner, MayClose
<1>2. /\ n \in Nat /\ IsList(gs) /\ Len(gs) = n /\ fr = forms[n + 1] /\ n + 1 = Len(forms)
      /\ \A i \in 1 .. n : gs[i] = forms[i]
      /\ \A i \in 1 .. n : SavedOK(gs, i)
      /\ Placed(blocks, pr.block, gs, n) /\ FrameOK(blocks, fr)
      /\ \A b \in Writes(fr) : MayWrite(b, gs, n)
  <2>1. /\ Len(forms) \in Nat /\ n \in Nat /\ IsList(gs) /\ Len(gs) = n
        /\ fr = forms[Len(forms)]
        /\ \A i \in 1 .. n : gs[i] = forms[i]
        /\ \A i \in 1 .. n : SavedOK(gs, i)
        /\ Placed(blocks, pr.block, gs, n) /\ FrameOK(blocks, fr)
        /\ \A b \in Writes(fr) : MayWrite(b, gs, n)
    BY <1>1, Popped, SoundTypes
  <2>2. n + 1 = Len(forms)
    BY <2>1
  <2> HIDE DEF n, gs, fr
  <2> QED  BY <2>1, <2>2
<1>3. /\ IsCode(blocks) /\ Len(blocks) \in Nat /\ pr.block \in 1 .. Len(blocks)
      /\ MayWrite(pr.block, gs, n) /\ NoneLost(blocks, pr.block, forms, n + 1)
      /\ pr.term => EndsPath(blocks[pr.block])
  BY <1>1, <1>2, SoundTypes DEF Sound, Placed
<1>4. goOn \subseteq both /\ \A r \in both : r \notin goOn => r.term \/ Terminated(bs[r.block])
  BY DEF GoesOn
<1>5. ends = {r.block : r \in goOn} /\ IsList(phi) /\ type # "error"
  BY ShortLists
<1> HIDE DEF fr, gs, n, bs, goOn, phi, ends, type
<1>6. {fr.entry, fr.cond, fr.then.block} \subseteq Writes(fr)
  BY DEF Writes
<1>7. /\ fr.entry \in 1 .. Len(blocks) /\ fr.cond \in 1 .. Len(blocks)
      /\ fr.then.block \in 1 .. Len(blocks)
      /\ fr.then.term => EndsPath(blocks[fr.then.block])
  BY <1>1, <1>2, <1>6 DEF FrameOK
<1>8. IsCode(bs) /\ Len(bs) = Len(blocks) /\ Longer(bs, blocks, {fr.entry})
  BY <1>3, <1>7, CloseLonger DEF bs
<1>9. \A r \in both : /\ r.block \in 1 .. Len(bs) /\ MayWrite(r.block, gs, n)
                      /\ r.term => EndsPath(blocks[r.block])
  BY <1>2, <1>3, <1>6, <1>7, <1>8
<1>10. ASSUME NEW r \in both, r \notin goOn PROVE EndsPath(bs[r.block])
  <2>1. CASE r.term
    <3>1. /\ Len(blocks[r.block]) \in Nat /\ Len(bs[r.block]) \in Nat
          /\ StartsWith(bs[r.block], blocks[r.block]) /\ EndsPath(blocks[r.block])
      BY <1>3, <1>8, <1>9, <2>1, ListLen DEF IsCode, Longer
    <3> QED  BY <3>1, EndsStill
  <2>2. CASE Terminated(bs[r.block])
    BY <1>8, <1>9, <2>2, TerminatedEnds DEF IsCode
  <2> QED  BY <1>4, <1>10, <2>1, <2>2
<1>11. Placed(bs, fr.cond, gs, n)
  BY <1>2, <1>6, <1>7, <1>8, PlacedWrite
<1>12. Waiting(fr) = {fr.then.block}
  BY <1>1 DEF Waiting
\* The blocks that were open in the if are the last ones of its branches.
<1>13. ASSUME NEW b, b = pr.block \/ \E i \in 1 .. n + 1 : b \in Waiting(forms[i])
       PROVE  (\E r \in both : b = r.block) \/ \E i \in 1 .. n : b \in Waiting(gs[i])
  <2>1. CASE b = pr.block
    BY <2>1
  <2>2. ASSUME NEW i \in 1 .. n + 1, b \in Waiting(forms[i])
        PROVE  b = fr.then.block \/ \E j \in 1 .. n : b \in Waiting(gs[j])
    <3>1. i \in 1 .. n \/ i = n + 1
      BY <1>2
    <3>2. CASE i = n + 1
      BY <1>2, <1>12, <2>2, <3>2
    <3>3. CASE i \in 1 .. n
      BY <1>2, <2>2, <3>3
    <3> QED  BY <3>1, <3>2, <3>3
  <2> QED  BY <1>13, <2>1, <2>2
<1>14. CASE goOn = {} /\ blocks' = bs /\ pr' = Result(fr.cond, "void", FALSE)
  <2>1. pr'.block = fr.cond /\ pr'.type # "error" /\ ~pr'.term
    BY <1>14 DEF Result
  <2>2. ASSUME NEW b \in 1 .. Len(bs), b = pr.block \/ b > Len(blocks)
                 \/ \E i \in 1 .. n + 1 : b \in Waiting(forms[i])
        PROVE  EndsPath(bs[b]) \/ b = fr.cond \/ \E i \in 1 .. n : b \in Waiting(gs[i])
    <3>1. ~(b > Len(blocks))
      BY <1>3, <1>8
    <3>2. (\E r \in both : b = r.block) \/ \E i \in 1 .. n : b \in Waiting(gs[i])
      BY <1>13, <2>2, <3>1
    <3> QED  BY <1>10, <1>14, <3>2
  <2>3. n + 1 \in Nat
    BY <1>2
  <2>4. NoneLost(bs, fr.cond, gs, n)
    BY SMTT(20), <1>2, <1>3, <1>8, <2>2, <2>3, NoneLostWrite
  <2> QED  BY <1>1, <1>2, <1>11, <1>14, <2>1, <2>4 DEF Sound
<1>15. CASE /\ goOn # {} /\ blocks' = Join(bs, ends, phi)
            /\ pr' = Result(Len(bs) + 1, type, FALSE)
  <2> DEFINE new == Len(bs) + 1
  <2>1. pr'.block = new /\ pr'.type # "error" /\ ~pr'.term
    BY <1>5, <1>15 DEF Result
  <2>2. /\ IsCode(blocks') /\ Len(blocks') = new /\ Longer(blocks', bs, ends)
        /\ \A b \in 1 .. Len(bs) : b \in ends => EndsPath(blocks'[b])
    BY <1>5, <1>8, <1>15, JoinLonger
  <2>3. new \in Nat /\ new > Len(bs) /\ new \in 1 .. new
    BY <1>3, <1>8
  <2>4. MayWrite(new, gs, n)
    BY <1>2, <1>11, <2>3, MayWriteNew
  <2>5. \A b \in ends : MayWrite(b, gs, n)
    BY <1>4, <1>5, <1>9
  <2> HIDE DEF new
  <2>6. Placed(blocks', new, gs, n)
    BY <1>2, <1>11, <2>2, <2>3, <2>4, <2>5, PlacedWrite
  <2>7. ASSUME NEW r \in both PROVE EndsPath(blocks'[r.block])
    <3>1. CASE r \in goOn
      BY <1>5, <1>9, <2>2, <3>1
    <3>2. CASE r \notin goOn
      <4>1. EndsPath(bs[r.block]) /\ r.block \in 1 .. Len(bs) /\ r.block \in 1 .. Len(blocks')
        BY <1>3, <1>8, <1>9, <1>10, <2>2, <3>2 DEF new
      <4>2. /\ Len(bs[r.block]) \in Nat /\ Len(blocks'[r.block]) \in Nat
            /\ StartsWith(blocks'[r.block], bs[r.block])
        BY <1>8, <2>2, <4>1, ListLen DEF IsCode, Longer
      <4> QED  BY <4>1, <4>2, EndsStill
    <3> QED  BY <3>1, <3>2
  <2>8. ASSUME NEW b \in 1 .. Len(blocks'), b = pr.block \/ b > Len(blocks)
                 \/ \E i \in 1 .. n + 1 : b \in Waiting(forms[i])
        PROVE  EndsPath(blocks'[b]) \/ b = new \/ \E i \in 1 .. n : b \in Waiting(gs[i])
    <3>1. CASE b > Len(blocks)
      BY <1>3, <1>8, <2>2, <3>1 DEF new
    <3>2. CASE ~(b > Len(blocks))
      <4>1. (\E r \in both : b = r.block) \/ \E i \in 1 .. n : b \in Waiting(gs[i])
        BY <1>13, <2>8, <3>2
      <4> QED  BY <2>7, <4>1
    <3> QED  BY <3>1, <3>2
  <2> DEFINE W == ends \cup {fr.entry}
  <2>9. n + 1 \in Nat /\ Longer(blocks', blocks, W)
    BY <1>2, <1>3, <1>8, <2>2, LongerAgain
  <2> HIDE DEF W
  <2>10. NoneLost(blocks', new, gs, n)
    <3>1. /\ n \in Nat /\ n + 1 \in Nat /\ NoneLost(blocks, pr.block, forms, n + 1)
          /\ IsCode(blocks) /\ IsCode(blocks') /\ Longer(blocks', blocks, W)
      BY <1>2, <1>3, <2>2, <2>9
    <3> QED  BY ONLY <2>8, <3>1, NoneLostWrite
  <2> QED  BY <1>1, <1>2, <2>1, <2>6, <2>10 DEF Sound
<1> QED  BY <1>1, <1>14, <1>15
-----------------------------------------------------------------------------
LEMMA InitSound == ASSUME Init PROVE IInv
<1>1. /\ forms = <<>> /\ pr = Result(1, "void", FALSE)
      /\ run = [phase |-> "parse", block |-> 1, at |-> 1, values |-> NoValues]
      /\ \E objs : blocks = <<Calls("init", objs)>>
  BY SMTT(20), ZenonT(30) DEF Init
<1>2. PICK objs : blocks = <<Calls("init", objs)>>
  BY <1>1
<1> DEFINE code == Calls("init", objs)
<1>3. IsList(code) /\ IsList(<<code>>) /\ Len(<<code>>) = 1 /\ <<code>>[1] = code
  BY CallsList, ShortLists
<1>4. blocks = <<code>>
  BY <1>2
<1> HIDE DEF code
<1>5. IsCode(blocks) /\ Len(blocks) = 1
  <2>1. \A b \in 1 .. Len(blocks) : b = 1
    BY <1>3, <1>4
  <2> QED  BY <1>3, <1>4, <2>1 DEF IsCode
<1>6. pr.block = 1 /\ pr.type = "void" /\ ~pr.term
  BY <1>1 DEF Result
<1>7. IsList(forms) /\ Len(forms) = 0 /\ \A i : i \notin 1 .. Len(forms)
  <2>1. IsList(forms) /\ Len(forms) = 0
    BY <1>1, ShortLists
  <2> QED  BY <2>1
<1>8. Placed(blocks, pr.block, forms, Len(forms))
  BY <1>5, <1>6, <1>7 DEF Placed, MayWrite
<1>9. NoneLost(blocks, pr.block, forms, Len(forms))
  BY <1>5, <1>6 DEF NoneLost
<1>10. "phase" \in DOMAIN run
  BY <1>1
<1> QED  BY <1>6, <1>7, <1>8, <1>9, <1>10 DEF IInv, Sound

(* What each step of the machine does with the code under construction.    *)
LEMMA NextSound == ASSUME IInv, [Next]_vars PROVE IInv'
<1>1. "phase" \in DOMAIN run'
  <2>1. run' = run \/ \E p : \/ run' = [run EXCEPT !.phase = p]
                             \/ DOMAIN run' = DOMAIN run
    <3>1. CASE Next /\ ~Step /\ ~Finish /\ ~Reject
      BY <3>1 DEF Next, Define, Value, Return, Label, GotoKnown, GotoDeferred, OpenNewScope,
                  CloseNewScope, OpenIf, ElseBranch, EndIf, BeginCall, Fail, Abandon,
                  EndCall, RestoreCall, Parse
    <3>2. CASE Finish \/ Reject
      BY <3>2 DEF Finish, Reject
    <3>3. CASE Step
      BY <3>3 DEF Step, StepCall, StepBranch, StepReturn
    <3>4. CASE UNCHANGED vars
      BY <3>4 DEF vars
    <3> QED  BY <3>1, <3>2, <3>3, <3>4
  <2> QED  BY <2>1 DEF IInv
<1>2. ASSUME Parsing' PROVE Sound(blocks', pr', forms')
  <2> DEFINE Goal == Sound(blocks', pr', forms')
  <2> SUFFICES Goal
    OBVIOUS
  <2>1. CASE UNCHANGED vars
    BY <1>2, <2>1 DEF vars, IInv, Parsing
  <2>2. CASE Finish \/ Reject
    <3>1. run'.phase \in {"run", "rejected"}
      BY <2>2 DEF Finish, Reject, IInv
    <3> QED  BY <1>2, <3>1 DEF Parsing
  <2>3. CASE Step
    <3>1. run'.phase \in {"run", "returned"}
      BY <2>3 DEF Step, StepCall, StepBranch, StepReturn, Running, IInv
    <3> QED  BY <1>2, <3>1 DEF Parsing
  <2>4. CASE ~Step /\ ~Finish /\ ~Reject /\ Next
    <3>1. Parsing
      BY <2>4 DEF Next, Define, Value, Return, Label, GotoKnown, GotoDeferred, OpenNewScope,
                  CloseNewScope, OpenIf, ElseBranch, EndIf, BeginCall, Fail, Abandon,
                  EndCall, RestoreCall, Parse
    <3>2. Sound(blocks, pr, forms)
      BY <3>1 DEF IInv
    <3> HIDE DEF Goal
    <3>3. ASSUME Define \/ Value \/ Return \/ Fail PROVE Goal
      BY <3>2, <3>3, DefineSound, UnchangedSound, ReturnSound DEF Goal
    <3>4. ASSUME NEW l, Label(l) \/ GotoKnown(l) \/ GotoDeferred(l) PROVE Goal
      BY <3>2, <3>4, LabelSound, GotoSound DEF Goal
    <3>5. ASSUME OpenNewScope \/ BeginCall \/ OpenIf PROVE Goal
      BY <3>2, <3>5, OpenSound, OpenIfSound DEF Goal
    <3>6. ASSUME CloseNewScope \/ Abandon \/ EndCall PROVE Goal
      BY <3>2, <3>6, CloseSound DEF Goal
    <3>7. ASSUME ElseBranch \/ EndIf \/ RestoreCall PROVE Goal
      BY <3>2, <3>7, ElseSound, EndIfSound, RestoreSound DEF Goal
    <3> QED  BY <2>4, <3>3, <3>4, <3>5, <3>6, <3>7 DEF Next
  <2> QED  BY <2>1, <2>2, <2>3, <2>4
<1> QED  BY <1>1, <1>2 DEF IInv, Parsing

(* The invariant of the proofs: who may write to which block, and what was *)
(* true of the code when each call began.                                  *)
THEOREM CodeInvariant == Spec => []IInv
<1>1. Init => IInv
  BY InitSound
<1>2. IInv /\ [Next]_vars => IInv'
  BY NextSound
<1> QED  BY <1>1, <1>2, PTL DEF Spec

(* No path runs into whatever block comes next: while forms are parsed,    *)
(* every block ends, is the current one, or waits for the end of an if     *)
(* (terminateBlocks has nothing to mend but the last block).               *)
THEOREM NoPathIsLost == Spec => []NoPathLost
<1>1. IInv => NoPathLost
  <2> SUFFICES ASSUME IInv, Parsing, pr.type # "error", NEW b \in Blocks
               PROVE  \/ EndsPath(blocks[b])
                      \/ b \in {pr.block} \cup UNION {Waiting(forms[i]) : i \in 1 .. Len(forms)}
    BY DEF NoPathLost
  <2>1. EndsPath(blocks[b]) \/ b = pr.block \/ \E i \in 1 .. Len(forms) : b \in Waiting(forms[i])
    BY DEF IInv, Sound, NoneLost, Blocks
  <2> QED  BY <2>1
<1> QED  BY <1>1, CodeInvariant, PTL

(* When the arguments of a call are undone because they are a macro's, the *)
(* function's blocks are what they were when the call began, and so are    *)
(* its labels (the deferred gotos are instructions of the blocks).         *)
THEOREM RestoreUndoesCode ==
  Spec => [][RestoreCall => \A saved \in Back(forms).saved :
                              blocks' = saved.blocks /\ labels' = saved.labels]_vars
<1>1. IInv /\ [Next]_vars =>
        [RestoreCall => \A saved \in Back(forms).saved :
                          blocks' = saved.blocks /\ labels' = saved.labels]_vars
  <2> SUFFICES ASSUME IInv, RestoreCall
               PROVE  \A saved \in Back(forms).saved :
                        blocks' = saved.blocks /\ labels' = saved.labels
    OBVIOUS
  <2>1. Sound(blocks, pr, forms)
    BY DEF IInv, RestoreCall
  <2> QED  BY <2>1, RestoreSound
<1> QED  BY <1>1, CodeInvariant, PTL DEF Spec
-----------------------------------------------------------------------------
(***************************************************************************)
(* The rest of RestoreUndoesForms: no label or deferred goto refers to a   *)
(* namespace that is no more.  The code is as it was; what remains is that *)
(* every namespace there was is still allocated, and that the current one  *)
(* always is.  For that, the stack of active namespaces must never be      *)
(* popped below where it was when a call began: every form that is open,   *)
(* and not a call, has one namespace on it.                                *)
(***************************************************************************)
InUse(c) ==
  /\ {"live", "active"} \subseteq DOMAIN c
  /\ IsList(c.active) /\ Len(c.active) >= 1
  /\ \A k \in 1 .. Len(c.active) : c.active[k] \in c.live

(* What the first n forms found is still there.                            *)
Outlived(c, fs, n) ==
  \A i \in 1 .. n : \A s \in fs[i].saved :
    s.ctx.live \subseteq c.live /\ StartsWith(c.active, s.ctx.active)

(* h[i] is how many namespaces are active, at least, while form i is open. *)
Heights(h, c, fs, n) ==
  /\ h \in [0 .. n -> Nat] /\ h[0] >= 1 /\ h[n] <= Len(c.active)
  /\ \A i, j \in 0 .. n :
       i < j => /\ h[i] <= h[j]
                /\ fs[j].kind # "call" => h[i] + 1 <= h[j]
  /\ \A i \in 1 .. n : \A s \in fs[i].saved : Len(s.ctx.active) = h[i]

GotosIn(code, L) ==
  \A k \in 1 .. Len(code) : code[k].op = "goto" => code[k].ns \in L

RefersTo(bs, labs, L) ==
  /\ \A lab \in labs : lab.ns \in L
  /\ \A b \in 1 .. Len(bs) : GotosIn(bs[b], L)

FoundOK(fs, i) ==
  \A s \in fs[i].saved :
    InUse(s.ctx) /\ Outlived(s.ctx, fs, i - 1) /\ RefersTo(s.blocks, s.labels, s.ctx.live)

Kept(c, fs) ==
  /\ InUse(c) /\ Outlived(c, fs, Len(fs)) /\ \E h : Heights(h, c, fs, Len(fs))
  /\ \A i \in 1 .. Len(fs) : FoundOK(fs, i)

LiveInv ==
  Parsing => Kept(ctx, forms) /\ RefersTo(blocks, labels, ctx.live)
-----------------------------------------------------------------------------
(***************************************************************************)
(* Steps of the context.                                                   *)
(***************************************************************************)
Stays(c, d) == InUse(d) /\ c.live \subseteq d.live /\ d.active = c.active

Enters(c, d) ==
  /\ InUse(d) /\ c.live \subseteq d.live
  /\ StartsWith(d.active, c.active) /\ Len(d.active) = Len(c.active) + 1

Leaves(c, d) ==
  /\ DOMAIN d = DOMAIN c /\ d.live = c.live
  /\ d.active = c.active \/ d.active = Pop(c.active)

LEMMA StaysStays ==
  ASSUME NEW c, InUse(c)
  PROVE  Stays(c, c) /\ \A nm : Stays(c, AddVariable(c, nm))
BY DEF Stays, InUse, AddVariable

LEMMA PushActive ==
  ASSUME NEW c, NEW d, NEW x, InUse(c), DOMAIN d = DOMAIN c,
         c.live \subseteq d.live, x \in d.live, d.active = Append(c.active, x)
  PROVE  Enters(c, d)
<1>1. /\ IsList(c.active) /\ Len(c.active) \in Nat
      /\ \A k \in 1 .. Len(c.active) : c.active[k] \in c.live
  BY ListLen DEF InUse
<1>2. /\ IsList(d.active) /\ Len(d.active) = Len(c.active) + 1
      /\ \A k \in 1 .. Len(c.active) : d.active[k] = c.active[k]
      /\ d.active[Len(c.active) + 1] = x
  BY <1>1, ListAppend
<1>3. \A k \in 1 .. Len(d.active) : k \in 1 .. Len(c.active) \/ k = Len(c.active) + 1
  BY <1>1, <1>2
<1>4. \A k \in 1 .. Len(d.active) : d.active[k] \in d.live
  BY <1>1, <1>2, <1>3
<1>5. StartsWith(d.active, c.active) /\ Len(d.active) >= 1
  BY <1>1, <1>2 DEF StartsWith
<1> QED  BY <1>2, <1>4, <1>5 DEF Enters, InUse

LEMMA ActivateEnters ==
  ASSUME NEW c, InUse(c), NEW nm PROVE Enters(c, ActivateNamespace(c, nm))
<1> DEFINE child == Child(c, NS(c), nm)
<1>1. CASE child # NoNode
  <2> DEFINE d == [c EXCEPT !.active = Append(@, child), !.used = Append(@, child)]
  <2>1. ActivateNamespace(c, nm) = d
    BY <1>1 DEF ActivateNamespace
  <2>2. child \in c.live
    BY <1>1 DEF Child
  <2>3. DOMAIN d = DOMAIN c /\ d.live = c.live /\ d.active = Append(c.active, child)
    BY DEF InUse
  <2> HIDE DEF d, child
  <2> QED  BY <2>1, <2>2, <2>3, PushActive
<1>2. CASE child = NoNode
  <2> DEFINE d == NewNamespace(c, nm)
  <2>1. ActivateNamespace(c, nm) = d
    BY <1>2 DEF ActivateNamespace
  <2>2. /\ DOMAIN d = DOMAIN c /\ d.live = c.live \cup {c.fresh}
        /\ d.active = Append(c.active, c.fresh)
    BY DEF NewNamespace, InUse
  <2> HIDE DEF d, child
  <2>3. c.live \subseteq d.live /\ c.fresh \in d.live
    BY <2>2
  <2> QED  BY <2>1, <2>2, <2>3, PushActive
<1> QED  BY <1>1, <1>2

LEMMA AnonymousEnters ==
  ASSUME NEW c, InUse(c) PROVE Enters(c, ActivateAnonymousNamespace(c))
<1> DEFINE a == [c EXCEPT !.anon = @ + 1]
<1>1. InUse(a) /\ a.live = c.live /\ a.active = c.active
  BY DEF InUse
<1>2. ActivateAnonymousNamespace(c) = ActivateNamespace(a, AnonName(c.anon + 1))
  BY DEF ActivateAnonymousNamespace
<1> HIDE DEF a
<1>3. Enters(a, ActivateNamespace(a, AnonName(c.anon + 1)))
  BY <1>1, ActivateEnters
<1> QED  BY <1>1, <1>2, <1>3 DEF Enters

LEMMA DeactivateLeaves ==
  ASSUME NEW c, InUse(c)
  PROVE  /\ Leaves(c, DeactivateAnonymousNamespace(c))
         /\ \A nm : Leaves(c, DeactivateNamespace(c, nm))
BY DEF InUse, Leaves, DeactivateAnonymousNamespace, DeactivateNamespace

(* What is left of the stack when it was not the last namespace.           *)
LEMMA LeavesPrefix ==
  ASSUME NEW c, NEW d, InUse(c), Leaves(c, d)
  PROVE  /\ Len(c.active) \in Nat /\ Len(d.active) \in Nat
         /\ Len(d.active) <= Len(c.active) /\ Len(c.active) <= Len(d.active) + 1
         /\ \A k \in 1 .. Len(d.active) : d.active[k] = c.active[k]
         /\ Len(c.active) >= 2 => InUse(d)
<1>1. /\ IsList(c.active) /\ Len(c.active) \in Nat /\ Len(c.active) >= 1
      /\ \A k \in 1 .. Len(c.active) : c.active[k] \in c.live
  BY ListLen DEF InUse
<1>2. CASE d.active = c.active
  BY <1>1, <1>2 DEF InUse, Leaves
<1>3. CASE d.active = Pop(c.active)
  <2>1. c.active # <<>>
    BY <1>1, ShortLists
  <2>2. /\ IsList(d.active) /\ Len(d.active) = Len(c.active) - 1
        /\ \A k \in 1 .. Len(c.active) - 1 : d.active[k] = c.active[k]
    BY <1>1, <1>3, <2>1, ListPop
  <2>3. \A k \in 1 .. Len(d.active) : k \in 1 .. Len(c.active) /\ d.active[k] = c.active[k]
    BY <1>1, <2>2
  <2>4. \A k \in 1 .. Len(d.active) : d.active[k] \in d.live
    BY <1>1, <2>3 DEF Leaves
  <2> QED  BY <1>1, <2>2, <2>3, <2>4 DEF InUse, Leaves
<1> QED  BY <1>2, <1>3 DEF Leaves
-----------------------------------------------------------------------------
(***************************************************************************)
(* Steps of the context and of the open forms.                             *)
(***************************************************************************)
LEMMA SameKept ==
  ASSUME NEW fs, NEW gs, NEW n \in Nat, \A i \in 1 .. n : gs[i] = fs[i]
  PROVE  /\ \A c : Outlived(c, fs, n) => Outlived(c, gs, n)
         /\ \A i \in 1 .. n : FoundOK(fs, i) => FoundOK(gs, i)
<1>1. ASSUME NEW m \in 0 .. n, NEW c, Outlived(c, fs, m) PROVE Outlived(c, gs, m)
  <2>1. \A i \in 1 .. m : i \in 1 .. n
    OBVIOUS
  <2> QED  BY <1>1, <2>1 DEF Outlived
<1>2. ASSUME NEW i \in 1 .. n, FoundOK(fs, i) PROVE FoundOK(gs, i)
  <2>1. i - 1 \in 0 .. n
    OBVIOUS
  <2> QED  BY <1>1, <1>2, <2>1 DEF FoundOK
<1>3. n \in 0 .. n
  OBVIOUS
<1> QED  BY <1>1, <1>2, <1>3

LEMMA OutlivedStill ==
  ASSUME NEW c, NEW d, NEW fs, NEW n, Outlived(c, fs, n), InUse(c), InUse(d),
         c.live \subseteq d.live, StartsWith(d.active, c.active),
         \A i \in 1 .. n : \A s \in fs[i].saved : InUse(s.ctx)
  PROVE  Outlived(d, fs, n)
<1> SUFFICES ASSUME NEW i \in 1 .. n, NEW s \in fs[i].saved
             PROVE  s.ctx.live \subseteq d.live /\ StartsWith(d.active, s.ctx.active)
  BY DEF Outlived
<1>1. Len(c.active) \in Nat /\ Len(d.active) \in Nat /\ Len(s.ctx.active) \in Nat
  BY ListLen DEF InUse
<1>2. s.ctx.live \subseteq c.live /\ StartsWith(c.active, s.ctx.active)
  BY DEF Outlived
<1>3. StartsWith(d.active, s.ctx.active)
  BY <1>1, <1>2 DEF StartsWith
<1> QED  BY <1>2, <1>3

LEMMA KeptStays ==
  ASSUME NEW c, NEW d, NEW fs, Kept(c, fs), Stays(c, d)
  PROVE  Kept(d, fs)
<1>1. PICK h : Heights(h, c, fs, Len(fs))
  BY DEF Kept
<1>2. Heights(h, d, fs, Len(fs))
  BY <1>1 DEF Heights, Stays
<1>3. Outlived(d, fs, Len(fs))
  BY DEF Kept, Stays, Outlived
<1> QED  BY <1>2, <1>3 DEF Kept, Stays

(* A form that is opened: a call, or one that enters a namespace.          *)
LEMMA KeptPush ==
  ASSUME NEW c, NEW d, NEW fs, NEW fr, IsList(fs), Kept(c, fs),
         \/ fr.kind # "call" /\ fr.saved = {} /\ Enters(c, d)
         \/ /\ d = c /\ \A s \in fr.saved : s.ctx = c /\ RefersTo(s.blocks, s.labels, c.live)
            /\ fr.kind = "call"
  PROVE  Kept(d, Append(fs, fr))
<1> DEFINE n  == Len(fs)
           gs == Append(fs, fr)
<1>1. /\ n \in Nat /\ Len(gs) = n + 1 /\ gs[n + 1] = fr /\ \A i \in 1 .. n : gs[i] = fs[i]
  BY ListLen, ListAppend
<1>2. InUse(c) /\ Outlived(c, fs, n) /\ \A i \in 1 .. n : FoundOK(fs, i)
  BY DEF Kept
<1>3. PICK h : Heights(h, c, fs, n)
  BY DEF Kept
<1> HIDE DEF n, gs
<1>4. \A i \in 1 .. n + 1 : i \in 1 .. n \/ i = n + 1
  BY <1>1
<1>5. Len(c.active) \in Nat
  BY <1>2, ListLen DEF InUse
<1>6. InUse(d) /\ c.live \subseteq d.live /\ StartsWith(d.active, c.active)
      /\ Len(c.active) <= Len(d.active) /\ Len(d.active) \in Nat
      /\ (fr.kind # "call" => Len(c.active) + 1 <= Len(d.active))
  <2>1. CASE Enters(c, d) /\ fr.kind # "call"
    <3>1. InUse(d) /\ Len(d.active) = Len(c.active) + 1
      BY <2>1 DEF Enters
    <3> QED  BY <1>5, <2>1, <3>1 DEF Enters
  <2>2. CASE d = c /\ fr.kind = "call"
    BY <1>2, <1>5, <2>2 DEF StartsWith
  <2> QED  BY <2>1, <2>2
<1>7. \A i \in 1 .. n : \A s \in fs[i].saved : InUse(s.ctx)
  BY <1>2 DEF FoundOK
<1>8. Outlived(d, gs, n)
  BY <1>1, <1>2, <1>6, <1>7, OutlivedStill, SameKept
<1>9. \A s \in fr.saved : s.ctx = c /\ d = c /\ RefersTo(s.blocks, s.labels, c.live)
  OBVIOUS
<1>10. Outlived(d, gs, n + 1)
  <2>1. ASSUME NEW s \in fr.saved
        PROVE  s.ctx.live \subseteq d.live /\ StartsWith(d.active, s.ctx.active)
    BY <1>6, <1>9
  <2> QED  BY <1>1, <1>4, <1>8, <2>1 DEF Outlived
<1>11. \A i \in 1 .. n + 1 : FoundOK(gs, i)
  <2>1. \A i \in 1 .. n : FoundOK(gs, i)
    BY <1>1, <1>2, SameKept
  <2>2. FoundOK(gs, n + 1)
    <3>1. (n + 1) - 1 = n
      BY <1>1
    <3>2. ASSUME NEW s \in gs[n + 1].saved
          PROVE  InUse(s.ctx) /\ Outlived(s.ctx, gs, n) /\ RefersTo(s.blocks, s.labels, s.ctx.live)
      BY <1>1, <1>2, <1>8, <1>9
    <3> QED  BY <3>1, <3>2 DEF FoundOK
  <2> QED  BY <1>4, <2>1, <2>2
<1>12. \E g : Heights(g, d, gs, n + 1)
  <2> DEFINE g == [i \in 0 .. n + 1 |-> IF i <= n THEN h[i] ELSE Len(d.active)]
  <2>1. /\ h \in [0 .. n -> Nat] /\ h[0] >= 1 /\ h[n] <= Len(c.active)
        /\ \A i, j \in 0 .. n :
             i < j => h[i] <= h[j] /\ (fs[j].kind # "call" => h[i] + 1 <= h[j])
        /\ \A i \in 1 .. n : \A s \in fs[i].saved : Len(s.ctx.active) = h[i]
    BY <1>3 DEF Heights
  <2>2. /\ g \in [0 .. n + 1 -> Nat] /\ \A i \in 0 .. n : g[i] = h[i]
        /\ g[n + 1] = Len(d.active)
    BY <1>1, <1>6, <2>1
  <2> HIDE DEF g
  <2>3. \A i \in 0 .. n : h[i] \in Nat /\ h[i] <= h[n]
    BY <1>1, <2>1
  <2>4. \A i \in 0 .. n : /\ g[i] <= g[n + 1]
                          /\ fr.kind # "call" => g[i] + 1 <= g[n + 1]
    BY <1>1, <1>5, <1>6, <2>1, <2>2, <2>3
  <2>5. ASSUME NEW i \in 0 .. n + 1, NEW j \in 0 .. n + 1, i < j
        PROVE  g[i] <= g[j] /\ (gs[j].kind # "call" => g[i] + 1 <= g[j])
    <3>1. i \in 0 .. n
      BY <1>1, <2>5
    <3>2. CASE j = n + 1
      BY <1>1, <2>4, <3>1, <3>2
    <3>3. CASE j \in 1 .. n
      <4>1. j \in 0 .. n /\ gs[j] = fs[j]
        BY <1>1, <3>3
      <4> QED  BY <2>1, <2>2, <2>5, <3>1, <4>1
    <3> QED  BY <1>1, <2>5, <3>2, <3>3
  <2>6. ASSUME NEW i \in 1 .. n + 1, NEW s \in gs[i].saved PROVE Len(s.ctx.active) = g[i]
    <3>1. CASE i \in 1 .. n
      <4>1. i \in 0 .. n /\ gs[i] = fs[i]
        BY <1>1, <3>1
      <4> QED  BY <2>1, <2>2, <2>6, <3>1, <4>1
    <3>2. CASE i = n + 1
      BY <1>1, <1>9, <2>2, <2>6, <3>2
    <3> QED  BY <1>4, <3>1, <3>2
  <2>7. g[0] >= 1 /\ g[n + 1] <= Len(d.active)
    BY <1>1, <1>6, <2>1, <2>2
  <2> QED  BY <2>2, <2>5, <2>6, <2>7 DEF Heights
<1>13. Kept(d, gs)
  BY <1>1, <1>6, <1>10, <1>11, <1>12 DEF Kept
<1> QED  BY <1>13 DEF gs

LEMMA LowerHeights ==
  ASSUME NEW c, NEW d, NEW fs, NEW gs, NEW n \in Nat, \A i \in 1 .. n : gs[i] = fs[i],
         NEW h, Heights(h, c, fs, n + 1), h[n] <= Len(d.active)
  PROVE  \E g : Heights(g, d, gs, n)
<1> DEFINE g == [i \in 0 .. n |-> h[i]]
<1>1. /\ h \in [0 .. n + 1 -> Nat] /\ h[0] >= 1
      /\ \A i, j \in 0 .. n + 1 :
           i < j => h[i] <= h[j] /\ (fs[j].kind # "call" => h[i] + 1 <= h[j])
      /\ \A i \in 1 .. n + 1 : \A s \in fs[i].saved : Len(s.ctx.active) = h[i]
  BY DEF Heights
<1>2. /\ \A i \in 0 .. n : i \in 0 .. n + 1 /\ h[i] \in Nat
      /\ \A i \in 1 .. n : i \in 0 .. n /\ i \in 1 .. n + 1
  BY <1>1
<1>3. g \in [0 .. n -> Nat] /\ \A i \in 0 .. n : g[i] = h[i]
  BY <1>2
<1> HIDE DEF g
<1>4. g[0] >= 1 /\ g[n] <= Len(d.active)
  BY <1>1, <1>3
<1>5. ASSUME NEW i \in 0 .. n, NEW j \in 0 .. n, i < j
      PROVE  g[i] <= g[j] /\ (gs[j].kind # "call" => g[i] + 1 <= g[j])
  <2>1. j \in 1 .. n
    BY <1>5
  <2> QED  BY <1>1, <1>2, <1>3, <1>5, <2>1
<1>6. \A i \in 1 .. n : \A s \in gs[i].saved : Len(s.ctx.active) = g[i]
  BY <1>1, <1>2, <1>3
<1> QED  BY <1>3, <1>4, <1>5, <1>6 DEF Heights

(* A form that is left.                                                    *)
LEMMA KeptPop ==
  ASSUME NEW c, NEW d, NEW fs, IsList(fs), fs # <<>>, Kept(c, fs),
         \/ Back(fs).kind # "call" /\ Leaves(c, d)
         \/ d = c
  PROVE  Kept(d, Pop(fs))
<1> DEFINE n  == Len(fs) - 1
           gs == Pop(fs)
<1>1. /\ n \in Nat /\ Len(gs) = n /\ n + 1 = Len(fs) /\ Back(fs) = fs[n + 1]
      /\ \A i \in 1 .. n : gs[i] = fs[i]
  <2>1. /\ Len(fs) \in Nat \ {0} /\ Back(fs) = fs[Len(fs)] /\ Len(gs) = n
        /\ \A i \in 1 .. n : gs[i] = fs[i]
    BY ListPop
  <2>2. n \in Nat /\ n + 1 = Len(fs)
    BY <2>1
  <2> HIDE DEF n, gs
  <2> QED  BY <2>1, <2>2
<1> HIDE DEF n, gs
<1>2. InUse(c) /\ Outlived(c, fs, n + 1) /\ \A i \in 1 .. n + 1 : FoundOK(fs, i)
  BY <1>1 DEF Kept
<1>3. PICK h : Heights(h, c, fs, n + 1)
  BY <1>1 DEF Kept
<1>4. /\ h \in [0 .. n + 1 -> Nat] /\ h[0] >= 1 /\ h[n + 1] <= Len(c.active)
      /\ \A i, j \in 0 .. n + 1 :
           i < j => h[i] <= h[j] /\ (fs[j].kind # "call" => h[i] + 1 <= h[j])
      /\ \A i \in 1 .. n + 1 : \A s \in fs[i].saved : Len(s.ctx.active) = h[i]
  BY <1>3 DEF Heights
<1>5. /\ \A i \in 0 .. n : i \in 0 .. n + 1 /\ h[i] \in Nat /\ h[i] <= h[n]
      /\ n \in 0 .. n + 1 /\ n + 1 \in 0 .. n + 1 /\ n < n + 1 /\ h[n + 1] \in Nat
      /\ \A i \in 1 .. n : i \in 0 .. n /\ i \in 1 .. n + 1
  BY <1>1, <1>4
<1>6. h[n] <= h[n + 1] /\ (Back(fs).kind # "call" => h[n] + 1 <= h[n + 1]) /\ h[n] >= 1
  <2>1. h[0] \in Nat /\ h[0] <= h[n]
    BY <1>1, <1>5
  <2>2. h[n] >= 1
    BY <1>1, <1>4, <1>5, <2>1
  <2> QED  BY <1>1, <1>4, <1>5, <2>2
<1>7. /\ InUse(d) /\ d.live = c.live /\ h[n] <= Len(d.active) /\ Len(d.active) \in Nat
      /\ \A k \in 1 .. Len(d.active) : d.active[k] = c.active[k]
  <2>1. Len(c.active) \in Nat
    BY <1>2, ListLen DEF InUse
  <2>2. CASE Back(fs).kind # "call" /\ Leaves(c, d)
    <3>1. /\ Len(d.active) \in Nat /\ Len(c.active) <= Len(d.active) + 1
          /\ \A k \in 1 .. Len(d.active) : d.active[k] = c.active[k]
          /\ Len(c.active) >= 2 => InUse(d)
      BY <1>2, <2>2, LeavesPrefix
    <3>2. Len(c.active) >= 2 /\ h[n] <= Len(d.active)
      BY <1>4, <1>5, <1>6, <2>1, <2>2, <3>1
    <3> QED  BY <2>2, <3>1, <3>2 DEF Leaves
  <2>3. CASE d = c
    BY <1>2, <1>4, <1>5, <1>6, <2>1, <2>3
  <2> QED  BY <2>2, <2>3
<1>8. Outlived(d, gs, n)
  <2> SUFFICES ASSUME NEW i \in 1 .. n, NEW s \in fs[i].saved
               PROVE  s.ctx.live \subseteq d.live /\ StartsWith(d.active, s.ctx.active)
    BY <1>1 DEF Outlived
  <2>1. Len(s.ctx.active) = h[i] /\ h[i] <= h[n] /\ h[i] \in Nat /\ h[n] \in Nat
    BY <1>1, <1>4, <1>5
  <2>2. s.ctx.live \subseteq c.live /\ StartsWith(c.active, s.ctx.active)
    BY <1>2, <1>5 DEF Outlived
  <2>3. Len(s.ctx.active) <= Len(d.active)
    BY <1>7, <2>1
  <2>4. \A k \in 1 .. Len(s.ctx.active) : k \in 1 .. Len(d.active)
    BY <1>7, <2>1, <2>3
  <2> QED  BY <1>7, <2>2, <2>3, <2>4 DEF StartsWith
<1>9. \A i \in 1 .. n : FoundOK(gs, i)
  BY <1>1, <1>2, <1>5, SameKept
<1>10. \E g : Heights(g, d, gs, n)
  BY <1>1, <1>3, <1>7, LowerHeights
<1>11. Kept(d, gs)
  BY <1>1, <1>7, <1>8, <1>9, <1>10 DEF Kept
<1> QED  BY <1>11 DEF gs
(* SavePoint::restore: the namespaces of the save point are active again,  *)
(* and none of those there were then has been removed.                     *)
LEMMA KeptRestore ==
  ASSUME NEW c, NEW fs, IsList(fs), fs # <<>>, Kept(c, fs),
         NEW s \in Back(fs).saved
  PROVE  /\ Kept(RestoreContext(c, s.ctx), Pop(fs))
         /\ s.ctx.live \subseteq RestoreContext(c, s.ctx).live
<1> DEFINE n  == Len(fs) - 1
           gs == Pop(fs)
           d  == RestoreContext(c, s.ctx)
<1>1. /\ n \in Nat /\ Len(gs) = n /\ n + 1 = Len(fs) /\ Back(fs) = fs[n + 1]
      /\ \A i \in 1 .. n : gs[i] = fs[i]
  <2>1. /\ Len(fs) \in Nat \ {0} /\ Back(fs) = fs[Len(fs)] /\ Len(gs) = n
        /\ \A i \in 1 .. n : gs[i] = fs[i]
    BY ListPop
  <2>2. n \in Nat /\ n + 1 = Len(fs)
    BY <2>1
  <2> HIDE DEF n, gs, d
  <2> QED  BY <2>1, <2>2
<1>2. /\ d.active = SubSeq(c.active, 1, Len(s.ctx.active)) /\ DOMAIN d = DOMAIN c
      /\ \E created : d.live = c.live \ (created \cap (c.live \ s.ctx.live))
  <2> DEFINE created == {m \in c.live \ s.ctx.live : NS(s.ctx) \in Chain(c, m)}
  <2>1. d.live = c.live \ created /\ d.active = SubSeq(c.active, 1, Len(s.ctx.active))
        /\ DOMAIN d = DOMAIN c
    BY DEF RestoreContext, Kept, InUse
  <2>2. created = created \cap (c.live \ s.ctx.live)
    OBVIOUS
  <2> HIDE DEF created, d
  <2> QED  BY <2>1, <2>2
<1> HIDE DEF n, gs, d
<1>3. InUse(c) /\ Outlived(c, fs, n + 1) /\ \A i \in 1 .. n + 1 : FoundOK(fs, i)
  BY <1>1 DEF Kept
<1>4. PICK h : Heights(h, c, fs, n + 1)
  BY <1>1 DEF Kept
<1>5. n + 1 \in 1 .. n + 1 /\ (n + 1) - 1 = n /\ s \in fs[n + 1].saved
  BY <1>1
<1>6. /\ InUse(s.ctx) /\ Outlived(s.ctx, fs, n)
      /\ s.ctx.live \subseteq c.live /\ StartsWith(c.active, s.ctx.active)
  BY <1>3, <1>5 DEF FoundOK, Outlived
<1>7. d.active = s.ctx.active
  <2> DEFINE m == Len(s.ctx.active)
             t == SubSeq(c.active, 1, m)
  <2>1. /\ IsList(c.active) /\ IsList(s.ctx.active) /\ m \in Nat /\ m <= Len(c.active)
        /\ \A k \in 1 .. m : c.active[k] = s.ctx.active[k]
    BY <1>3, <1>6, ListLen DEF InUse, StartsWith
  <2> HIDE DEF m
  <2>2. IsList(t) /\ Len(t) = m /\ \A k \in 1 .. m : t[k] = c.active[k]
    BY <2>1, ListPrefix
  <2> HIDE DEF t
  <2>3. t = s.ctx.active
    BY <2>1, <2>2, ListEqual DEF m
  <2> QED  BY <1>2, <2>3 DEF t, m
<1>8. s.ctx.live \subseteq d.live
  BY <1>2, <1>6
<1>9. Stays(s.ctx, d)
  BY <1>2, <1>3, <1>6, <1>7, <1>8 DEF Stays, InUse
<1>10. Outlived(s.ctx, gs, n) /\ \A i \in 1 .. n : FoundOK(gs, i)
  <2>1. \A i \in 1 .. n : i \in 1 .. n + 1
    BY <1>1
  <2> QED  BY <1>1, <1>3, <1>6, <2>1, SameKept
<1>11. \E g : Heights(g, s.ctx, gs, n)
  <2>1. h[n] <= h[n + 1] /\ Len(s.ctx.active) = h[n + 1]
    <3>1. n \in 0 .. n + 1 /\ n + 1 \in 0 .. n + 1 /\ n < n + 1
      BY <1>1
    <3> QED  BY <1>4, <1>5, <3>1 DEF Heights
  <2>2. h[n] <= Len(s.ctx.active)
    BY <2>1
  <2> QED  BY <1>1, <1>4, <2>2, LowerHeights
<1>12. Kept(s.ctx, gs)
  BY <1>1, <1>6, <1>10, <1>11 DEF Kept
<1>13. Kept(d, gs)
  BY <1>9, <1>12, KeptStays
<1> QED  BY <1>8, <1>13 DEF d, gs
-----------------------------------------------------------------------------
(***************************************************************************)
(* Which namespaces the code refers to.                                    *)
(***************************************************************************)
LEMMA RefersStill ==
  ASSUME NEW bs, NEW labs, NEW L, NEW M, RefersTo(bs, labs, L), L \subseteq M
  PROVE  RefersTo(bs, labs, M)
BY DEF RefersTo, GotosIn

LEMMA GotosConcat ==
  ASSUME NEW s, NEW t, NEW L, IsList(s), IsList(t), GotosIn(s, L), GotosIn(t, L)
  PROVE  GotosIn(s \o t, L)
<1>1. /\ Len(s \o t) = Len(s) + Len(t) /\ Len(s) \in Nat /\ Len(t) \in Nat
      /\ \A k \in 1 .. Len(s) : (s \o t)[k] = s[k]
      /\ \A k \in 1 .. Len(t) : (s \o t)[Len(s) + k] = t[k]
  BY ListConcat, ListLen
<1> SUFFICES ASSUME NEW k \in 1 .. Len(s \o t), (s \o t)[k].op = "goto"
             PROVE  (s \o t)[k].ns \in L
  BY DEF GotosIn
<1>2. CASE k \in 1 .. Len(s)
  BY <1>1, <1>2 DEF GotosIn
<1>3. CASE k \notin 1 .. Len(s)
  <2>1. k - Len(s) \in 1 .. Len(t) /\ Len(s) + (k - Len(s)) = k
    BY <1>1, <1>3
  <2>2. (s \o t)[k] = t[k - Len(s)]
    BY <1>1, <2>1
  <2> QED  BY <2>1, <2>2 DEF GotosIn
<1> QED  BY <1>2, <1>3

(* Only a deferred goto refers to a namespace.                             *)
LEMMA GotosShort ==
  /\ \A L : GotosIn(<<>>, L)
  /\ \A i, L : i.op # "goto" \/ i.ns \in L => GotosIn(<<i>>, L)
  /\ \A objs, L : GotosIn(Calls("destroy", objs), L) /\ GotosIn(Calls("init", objs), L)
<1>1. \A L : GotosIn(<<>>, L)
  BY ShortLists DEF GotosIn
<1>2. ASSUME NEW i, NEW L, i.op # "goto" \/ i.ns \in L PROVE GotosIn(<<i>>, L)
  <2>1. Len(<<i>>) = 1 /\ <<i>>[1] = i
    BY ShortLists
  <2> QED  BY <1>2, <2>1 DEF GotosIn
<1>3. \A objs : Instr("destroy", objs, {}).op # "goto" /\ Instr("init", objs, {}).op # "goto"
  BY DEF Instr
<1>4. \A objs, L : GotosIn(Calls("destroy", objs), L) /\ GotosIn(Calls("init", objs), L)
  BY <1>1, <1>2, <1>3 DEF Calls
<1> QED  BY <1>1, <1>2, <1>4

LEMMA EmitRefers ==
  ASSUME NEW bs, NEW b, NEW code, NEW labs, NEW L, IsCode(bs), b \in 1 .. Len(bs),
         IsList(code), RefersTo(bs, labs, L), GotosIn(code, L)
  PROVE  RefersTo(Emit(bs, b, code), labs, L)
<1> DEFINE x == bs[b] \o code
           r == [bs EXCEPT ![b] = x]
<1>1. IsList(bs) /\ IsList(bs[b]) /\ GotosIn(bs[b], L)
  BY DEF IsCode, RefersTo
<1>2. GotosIn(x, L)
  BY <1>1, GotosConcat
<1>3. Emit(bs, b, code) = r
  BY DEF Emit
<1> HIDE DEF x
<1>4. IsList(bs) /\ b \in 1 .. Len(bs)
  BY <1>1
<1>5. Len(r) = Len(bs) /\ r[b] = x /\ \A k \in 1 .. Len(bs) : k # b => r[k] = bs[k]
  BY ONLY <1>4, ListReplace
<1> HIDE DEF r
<1> QED  BY <1>2, <1>3, <1>5 DEF RefersTo

LEMMA NewBlockRefers ==
  ASSUME NEW bs, NEW code, NEW labs, NEW L, IsCode(bs), RefersTo(bs, labs, L),
         GotosIn(code, L)
  PROVE  RefersTo(Append(bs, code), labs, L)
<1>1. /\ Len(Append(bs, code)) = Len(bs) + 1 /\ Len(bs) \in Nat
      /\ \A k \in 1 .. Len(bs) : Append(bs, code)[k] = bs[k]
      /\ Append(bs, code)[Len(bs) + 1] = code
  BY ListAppend, ListLen DEF IsCode
<1> DEFINE new == Append(bs, code)
<1> HIDE DEF new
<1>2. \A b \in 1 .. Len(new) : b \in 1 .. Len(bs) \/ b = Len(bs) + 1
  BY <1>1 DEF new
<1>3. \A b \in 1 .. Len(new) : GotosIn(new[b], L)
  BY <1>1, <1>2 DEF RefersTo, new
<1> QED  BY <1>3 DEF RefersTo, new

LEMMA TwoBlocksRefers ==
  ASSUME NEW bs, NEW labs, NEW L, IsCode(bs), RefersTo(bs, labs, L)
  PROVE  RefersTo(bs \o <<<<>>, <<>>>>, labs, L)
<1> DEFINE two == <<<<>>, <<>>>>
           new == bs \o two
<1>1. IsList(two) /\ Len(two) = 2 /\ two[1] = <<>> /\ two[2] = <<>>
  BY ShortLists
<1>2. IsList(bs) /\ Len(bs) \in Nat
  BY ListLen DEF IsCode
<1> HIDE DEF two
<1>3. /\ Len(new) = Len(bs) + Len(two)
      /\ \A k \in 1 .. Len(bs) : new[k] = bs[k]
      /\ \A k \in 1 .. Len(two) : new[Len(bs) + k] = two[k]
  <2>1. IsList(bs) /\ IsList(two)
    BY <1>1, <1>2
  <2> QED  BY ONLY <2>1, ListConcat
<1> HIDE DEF new
<1>4. ASSUME NEW b \in 1 .. Len(new) PROVE new[b] = <<>> \/ b \in 1 .. Len(bs)
  <2>1. b \in 1 .. Len(bs) \/ b = Len(bs) + 1 \/ b = Len(bs) + 2
    BY <1>1, <1>2, <1>3
  <2>2. 1 \in 1 .. Len(two) /\ 2 \in 1 .. Len(two)
    BY <1>1
  <2> QED  BY <1>1, <1>3, <2>1, <2>2
<1>5. \A b \in 1 .. Len(new) : GotosIn(new[b], L)
  BY <1>3, <1>4, GotosShort DEF RefersTo
<1>6. RefersTo(new, labs, L)
  BY <1>5 DEF RefersTo
<1> QED  BY <1>6 DEF new, two

LEMMA JoinRefers ==
  ASSUME NEW bs, NEW ends, NEW code, NEW labs, NEW L, IsCode(bs), IsList(code),
         RefersTo(bs, labs, L), GotosIn(code, L)
  PROVE  RefersTo(Join(bs, ends, code), labs, L)
<1> DEFINE br  == Br(Len(bs) + 1)
           old == [b \in 1 .. Len(bs) |->
                     IF b \in ends THEN Append(bs[b], br) ELSE bs[b]]
<1>1. Len(bs) \in Nat /\ \A b \in 1 .. Len(bs) : IsList(bs[b]) /\ Len(bs[b]) \in Nat
  BY ListLen DEF IsCode
<1>2. br.op # "goto"
  BY DEF Br, Instr
<1> HIDE DEF br
<1>3. ASSUME NEW b \in 1 .. Len(bs) PROVE IsList(old[b]) /\ GotosIn(old[b], L)
  <2>1. GotosIn(bs[b], L) /\ IsList(bs[b]) /\ Len(bs[b]) \in Nat
    BY <1>1 DEF RefersTo
  <2>2. GotosIn(Append(bs[b], br), L) /\ IsList(Append(bs[b], br))
    <3> DEFINE s == bs[b]
               t == Append(s, br)
    <3>1. IsList(s) /\ Len(s) \in Nat /\ GotosIn(s, L)
      BY <2>1
    <3> HIDE DEF s
    <3>2. /\ IsList(t) /\ Len(t) = Len(s) + 1 /\ t[Len(s) + 1] = br
          /\ \A k \in 1 .. Len(s) : t[k] = s[k]
      BY <3>1, ListAppend
    <3> HIDE DEF t
    <3>3. \A k \in 1 .. Len(t) : k \in 1 .. Len(s) \/ k = Len(s) + 1
      BY <3>1, <3>2
    <3>4. GotosIn(t, L)
      BY <1>2, <3>1, <3>2, <3>3 DEF GotosIn
    <3> QED  BY <3>2, <3>4 DEF s, t
  <2> QED  BY <2>1, <2>2
<1>4. IsList(old) /\ Len(old) = Len(bs)
  <2>1. old = [b \in 1 .. Len(bs) |-> old[b]]
    OBVIOUS
  <2> HIDE DEF old
  <2> QED  BY <1>1, <2>1, FunctionIsList
<1>5. Join(bs, ends, code) = Append(old, code)
  BY DEF Join, br
<1> HIDE DEF old
<1>6. IsCode(old) /\ RefersTo(old, labs, L)
  BY <1>3, <1>4 DEF IsCode, RefersTo
<1> QED  BY <1>5, <1>6, NewBlockRefers
-----------------------------------------------------------------------------
(***************************************************************************)
(* The actions.                                                            *)
(***************************************************************************)
Refs == RefersTo(blocks, labels, ctx.live)

LEMMA CurrentIsLive ==
  ASSUME NEW c, InUse(c) PROVE NS(c) \in c.live
<1>1. Len(c.active) \in Nat /\ Len(c.active) \in 1 .. Len(c.active)
  BY ListLen DEF InUse
<1> QED  BY <1>1 DEF NS, Back, InUse

(* Code without new gotos, put into a block, while the context keeps its   *)
(* namespaces.                                                             *)
LEMMA EmitKeeps ==
  ASSUME Sound(blocks, pr, forms), Refs, NEW b \in 1 .. Len(blocks), NEW code,
         IsList(code), NEW L, ctx.live \subseteq L, GotosIn(code, L)
  PROVE  RefersTo(Emit(blocks, b, code), labels, L)
<1>1. RefersTo(blocks, labels, L)
  BY RefersStill DEF Refs
<1> QED  BY <1>1, SoundTypes, EmitRefers

LEMMA StraightKept ==
  ASSUME Sound(blocks, pr, forms), Kept(ctx, forms), Refs,
         Define \/ Value \/ Return \/ Fail
  PROVE  Kept(ctx', forms') /\ RefersTo(blocks', labels', ctx'.live)
<1>1. InUse(ctx) /\ pr.block \in 1 .. Len(blocks) /\ IsList(blocks[pr.block])
  BY SoundTypes DEF Kept
<1>2. forms' = forms /\ labels' = labels
  BY DEF Define, Value, Return, Fail
<1>3. Stays(ctx, ctx')
  <2>1. ctx' = ctx \/ \E nm : ctx' = AddVariable(ctx, nm)
    BY DEF Define, Value, Return, Fail, Parse
  <2> QED  BY <1>1, <2>1, StaysStays
<1>4. Kept(ctx', forms')
  BY <1>2, <1>3, KeptStays
<1>5. RefersTo(blocks', labels, ctx'.live)
  <2>1. CASE Define
    <3> DEFINE i == InitOf({<<NS(ctx), Len(ctx.vars[NS(ctx)]) + 1>>})
    <3>1. blocks' = Emit(blocks, pr.block, <<i>>)
      BY <2>1 DEF Define, Parse
    <3>2. i.op # "goto"
      BY DEF InitOf, Instr
    <3> HIDE DEF i
    <3>3. IsList(<<i>>) /\ GotosIn(<<i>>, ctx'.live)
      BY <3>2, ShortLists, GotosShort
    <3> QED  BY <1>1, <1>3, <3>1, <3>3, EmitKeeps DEF Stays
  <2>2. CASE Value \/ Fail
    <3>1. blocks' = blocks
      BY <2>2 DEF Value, Fail, Parse
    <3> QED  BY <1>3, <3>1, RefersStill DEF Stays, Refs
  <2>3. CASE Return
    <3> DEFINE close == Calls("destroy", ClosedByReturn(ctx))
               b     == blocks[pr.block]
               x     == b \o close
               t     == Append(x, Ret)
               r     == [blocks EXCEPT ![pr.block] = t]
    <3>1. blocks' = r
      BY <2>3 DEF Return, Parse, CloseFunction
    <3>2. /\ IsList(blocks) /\ IsList(b) /\ IsList(close) /\ GotosIn(close, ctx.live)
          /\ GotosIn(b, ctx.live) /\ Ret.op # "goto"
      BY <1>1, SoundTypes, CallsList, GotosShort DEF IsCode, Refs, RefersTo, Ret, Instr
    <3> HIDE DEF b, close
    <3>3. IsList(x) /\ GotosIn(x, ctx.live) /\ Len(x) \in Nat
      BY <3>2, GotosConcat, ListConcat, ListLen
    <3> HIDE DEF x
    <3>4. Len(t) = Len(x) + 1 /\ t[Len(x) + 1] = Ret /\ \A k \in 1 .. Len(x) : t[k] = x[k]
      BY <3>3, ListAppend
    <3> HIDE DEF t
    <3>5. \A k \in 1 .. Len(t) : k \in 1 .. Len(x) \/ k = Len(x) + 1
      BY <3>3, <3>4
    <3>6. GotosIn(t, ctx.live)
      BY <3>2, <3>3, <3>4, <3>5 DEF GotosIn
    <3>7. Len(r) = Len(blocks) /\ r[pr.block] = t
          /\ \A k \in 1 .. Len(blocks) : k # pr.block => r[k] = blocks[k]
      <4>1. IsList(blocks) /\ pr.block \in 1 .. Len(blocks)
        BY <1>1, <3>2
      <4> QED  BY ONLY <4>1, ListReplace
    <3> HIDE DEF r
    <3>8. RefersTo(blocks', labels, ctx.live)
      BY <3>1, <3>6, <3>7 DEF RefersTo, Refs
    <3> QED  BY <1>3, <3>8, RefersStill DEF Stays
  <2> QED  BY <2>1, <2>2, <2>3
<1> QED  BY <1>2, <1>4, <1>5

LEMMA GotoKept ==
  ASSUME Sound(blocks, pr, forms), Kept(ctx, forms), Refs,
         NEW l, GotoKnown(l) \/ GotoDeferred(l)
  PROVE  Kept(ctx', forms') /\ RefersTo(blocks', labels', ctx'.live)
<1>1. /\ forms' = forms /\ labels' = labels /\ ctx' = ctx /\ InUse(ctx)
      /\ pr.block \in 1 .. Len(blocks)
  BY SoundTypes DEF GotoKnown, GotoDeferred, Parse, Kept
<1>2. CASE GotoKnown(l)
  <2>1. PICK lab \in LabelNamed(l) :
          blocks' = Emit(blocks, pr.block,
                         Calls("destroy", VarsAfterIndex(ctx, lab.index))
                           \o <<Br(lab.block)>>)
    BY <1>2 DEF GotoKnown, Parse
  <2> DEFINE close == Calls("destroy", VarsAfterIndex(ctx, lab.index))
             i     == Br(lab.block)
             code  == close \o <<i>>
  <2>2. IsList(close) /\ GotosIn(close, ctx.live) /\ i.op # "goto"
    BY CallsList, GotosShort DEF Br, Instr
  <2>3. blocks' = Emit(blocks, pr.block, code)
    BY <2>1
  <2> HIDE DEF close, i
  <2>4. IsList(<<i>>) /\ GotosIn(<<i>>, ctx.live)
    BY <2>2, ShortLists, GotosShort
  <2>5. IsList(code) /\ GotosIn(code, ctx.live)
    BY <2>2, <2>4, ListConcat, GotosConcat
  <2> HIDE DEF code
  <2> QED  BY <1>1, <2>3, <2>5, EmitKeeps
<1>3. CASE GotoDeferred(l)
  <2> DEFINE i == Deferred(l)
  <2>1. blocks' = Emit(blocks, pr.block, <<i>>)
    BY <1>3 DEF GotoDeferred, Parse
  <2>2. i.ns \in ctx.live
    BY <1>1, CurrentIsLive DEF Deferred
  <2> HIDE DEF i
  <2>3. IsList(<<i>>) /\ GotosIn(<<i>>, ctx.live)
    BY <2>2, ShortLists, GotosShort
  <2> QED  BY <1>1, <2>1, <2>3, EmitKeeps
<1> QED  BY <1>1, <1>2, <1>3

LEMMA LabelKept ==
  ASSUME Sound(blocks, pr, forms), Kept(ctx, forms), Refs, NEW l, Label(l)
  PROVE  Kept(ctx', forms') /\ RefersTo(blocks', labels', ctx'.live)
<1> DEFINE new  == Len(blocks) + 1
           code == IF Terminated(blocks[pr.block]) THEN <<>> ELSE <<Br(new)>>
           mid  == Emit(blocks, pr.block, code)
           lab  == [name |-> l, block |-> new, ns |-> NS(ctx),
                    index |-> [ctx EXCEPT !.lv[NS(ctx)] = @ + 1].lv[NS(ctx)]]
<1>1. /\ blocks' = Append(mid, <<>>) /\ forms' = forms
      /\ ctx' = [ctx EXCEPT !.lv[NS(ctx)] = @ + 1]
      /\ labels' = labels \cup {lab}
  BY DEF Label, Parse
<1>2. InUse(ctx) /\ IsCode(blocks) /\ pr.block \in 1 .. Len(blocks)
  BY SoundTypes DEF Kept
<1>3. Stays(ctx, ctx') /\ lab.ns = NS(ctx)
  BY <1>1, <1>2 DEF Stays, InUse
<1> HIDE DEF lab
<1>4. IsList(code) /\ GotosIn(code, ctx'.live)
  <2> DEFINE i == Br(new)
  <2>1. i.op # "goto"
    BY DEF Br, Instr
  <2> HIDE DEF i
  <2>2. /\ IsList(<<>>) /\ IsList(<<i>>)
        /\ GotosIn(<<>>, ctx'.live) /\ GotosIn(<<i>>, ctx'.live)
    BY <2>1, ShortLists, GotosShort
  <2>3. code = <<>> \/ code = <<i>>
    BY DEF i
  <2> QED  BY <2>2, <2>3
<1> HIDE DEF code
<1>5. IsCode(mid) /\ RefersTo(mid, labels, ctx'.live)
  BY <1>2, <1>3, <1>4, EmitLonger, EmitKeeps DEF Stays
<1> HIDE DEF mid
<1>6. RefersTo(blocks', labels, ctx'.live)
  BY <1>1, <1>5, GotosShort, NewBlockRefers
<1>7. NS(ctx) \in ctx'.live
  BY <1>2, <1>3, CurrentIsLive DEF Stays
<1>8. RefersTo(blocks', labels', ctx'.live)
  BY <1>1, <1>3, <1>6, <1>7 DEF RefersTo
<1> QED  BY <1>1, <1>3, <1>8, KeptStays
LEMMA FrameKind ==
  ASSUME NEW kind, NEW entry, NEW cond, NEW then
  PROVE  LET fr == Frame(kind, entry, cond, then)
         IN  /\ fr.kind = kind /\ (kind # "call" => fr.saved = {})
             /\ \A s \in fr.saved : s.ctx = ctx /\ s.blocks = blocks /\ s.labels = labels
<1> DEFINE fr == Frame(kind, entry, cond, then)
<1>1. /\ fr.kind = kind
      /\ fr.saved = IF kind = "call"
                      THEN {[ctx |-> ctx, blocks |-> blocks, labels |-> labels]} ELSE {}
  BY DEF Frame
<1> HIDE DEF fr
<1> QED  BY <1>1 DEF fr

LEMMA OpenKept ==
  ASSUME Sound(blocks, pr, forms), Kept(ctx, forms), Refs,
         OpenNewScope \/ BeginCall \/ OpenIf
  PROVE  Kept(ctx', forms') /\ RefersTo(blocks', labels', ctx'.live)
<1>1. labels' = labels /\ InUse(ctx) /\ IsList(forms) /\ IsCode(blocks)
      /\ pr.block \in 1 .. Len(blocks)
  BY SoundTypes DEF OpenNewScope, BeginCall, OpenIf, Kept
<1>2. CASE OpenNewScope
  <2> DEFINE fr == Frame("scope", pr.block, pr.block, pr)
  <2>1. /\ ctx' = ActivateAnonymousNamespace(ctx) /\ blocks' = blocks
        /\ forms' = Append(forms, fr)
    BY <1>2 DEF OpenNewScope, Parse
  <2>2. fr.kind # "call" /\ fr.saved = {}
    BY FrameKind
  <2> HIDE DEF fr
  <2>3. Enters(ctx, ctx')
    BY <1>1, <2>1, AnonymousEnters
  <2>4. Kept(ctx', forms')
    BY <1>1, <2>1, <2>2, <2>3, KeptPush
  <2> QED  BY <1>1, <2>1, <2>3, <2>4, RefersStill DEF Enters, Refs
<1>3. CASE BeginCall
  <2> DEFINE fr == Frame("call", pr.block, pr.block, pr)
  <2>1. ctx' = ctx /\ blocks' = blocks /\ forms' = Append(forms, fr)
    BY <1>3 DEF BeginCall, Parse
  <2>2. /\ fr.kind = "call"
        /\ \A s \in fr.saved : s.ctx = ctx /\ s.blocks = blocks /\ s.labels = labels
    BY FrameKind
  <2> HIDE DEF fr
  <2>3. \A s \in fr.saved : s.ctx = ctx /\ RefersTo(s.blocks, s.labels, ctx.live)
    BY <2>2 DEF Refs
  <2>4. Kept(ctx', forms')
    BY <1>1, <2>1, <2>2, <2>3, KeptPush
  <2> QED  BY <1>1, <2>1, <2>4 DEF Refs
<1>4. CASE OpenIf
  <2> DEFINE then == Len(blocks) + 1
             fr   == Frame("then", then, pr.block, pr)
             i    == Instr("cbr", {}, {then, then + 1})
             mid  == Emit(blocks, pr.block, <<i>>)
  <2>1. /\ ctx' = ActivateAnonymousNamespace(ctx) /\ forms' = Append(forms, fr)
        /\ blocks' = mid \o <<<<>>, <<>>>>
    BY <1>4 DEF OpenIf, Parse
  <2>2. fr.kind # "call" /\ fr.saved = {} /\ i.op # "goto"
    BY FrameKind DEF Instr
  <2> HIDE DEF fr, i
  <2>3. Enters(ctx, ctx')
    BY <1>1, <2>1, AnonymousEnters
  <2>4. Kept(ctx', forms')
    BY <1>1, <2>1, <2>2, <2>3, KeptPush
  <2>5. IsList(<<i>>) /\ GotosIn(<<i>>, ctx'.live)
    BY <2>2, ShortLists, GotosShort
  <2>6. IsCode(mid) /\ RefersTo(mid, labels, ctx'.live)
    BY <1>1, <2>3, <2>5, EmitLonger, EmitKeeps DEF Enters
  <2> HIDE DEF mid
  <2> QED  BY <1>1, <2>1, <2>4, <2>6, TwoBlocksRefers
<1> QED  BY <1>2, <1>3, <1>4

LEMMA CloseScopeKeeps ==
  ASSUME Sound(blocks, pr, forms), forms # <<>>, Refs
  PROVE  LET bs == CloseScope(blocks, Back(forms).entry)
         IN  IsCode(bs) /\ RefersTo(bs, labels, ctx.live)
<1>1. Back(forms).entry \in 1 .. Len(blocks) /\ IsCode(blocks)
  BY Popped, SoundTypes DEF FrameOK, Writes
<1> QED  BY <1>1, CallsList, GotosShort, EmitLonger, EmitKeeps DEF CloseScope

LEMMA CloseKept ==
  ASSUME Sound(blocks, pr, forms), Kept(ctx, forms), Refs,
         CloseNewScope \/ Abandon \/ EndCall \/ EndIf
  PROVE  Kept(ctx', forms') /\ RefersTo(blocks', labels', ctx'.live)
<1> DEFINE bs == CloseScope(blocks, Back(forms).entry)
<1>1. forms # <<>>
  <2>1. CASE Abandon
    <3>1. \E i \in 1 .. Len(forms) : forms[i].kind = "call"
      BY <2>1 DEF Abandon, Sound
    <3> QED  BY <3>1, ShortLists
  <2> QED  BY <2>1 DEF CloseNewScope, EndCall, EndIf, Inner
<1>2. InUse(ctx) /\ IsList(forms) /\ IsCode(bs) /\ RefersTo(bs, labels, ctx.live)
  BY <1>1, SoundTypes, CloseScopeKeeps DEF Kept
<1>3. forms' = Pop(forms) /\ labels' = labels
  BY DEF CloseNewScope, Abandon, EndCall, EndIf
<1>4. \/ Back(forms).kind # "call" /\ Leaves(ctx, ctx')
      \/ ctx' = ctx
  <2>1. CASE CloseNewScope
    <3>1. ctx' = DeactivateNamespace(ctx, ctx.name[NS(ctx)]) /\ Back(forms).kind # "call"
      BY <2>1 DEF CloseNewScope, Inner
    <3> QED  BY <1>2, <3>1, DeactivateLeaves
  <2>2. CASE Abandon \/ EndIf
    <3>1. ctx' = DeactivateAnonymousNamespace(ctx) /\ Back(forms).kind # "call"
      BY <2>2 DEF Abandon, EndIf, Inner
    <3> QED  BY <1>2, <3>1, DeactivateLeaves
  <2>3. CASE EndCall
    BY <2>3 DEF EndCall
  <2> QED  BY <2>1, <2>2, <2>3
<1>5. Kept(ctx', forms')
  BY <1>1, <1>2, <1>3, <1>4, KeptPop
<1>6. ctx'.live = ctx.live
  BY <1>4 DEF Leaves
<1>7. RefersTo(blocks', labels, ctx.live)
  <2>1. CASE CloseNewScope \/ Abandon
    BY <1>2, <2>1 DEF CloseNewScope, Abandon
  <2>2. CASE EndCall
    BY <2>2 DEF EndCall, Refs
  <2>3. CASE EndIf
    <3> HIDE DEF bs
    <3>1. PICK ends : \/ blocks' = bs
                      \/ blocks' = Join(bs, ends, <<>>)
                      \/ blocks' = Join(bs, ends, <<Instr("phi", {}, ends)>>)
      BY <2>3 DEF EndIf, bs
    <3> DEFINE i == Instr("phi", {}, ends)
    <3>2. i.op # "goto"
      BY DEF Instr
    <3>3. blocks' = bs \/ blocks' = Join(bs, ends, <<>>) \/ blocks' = Join(bs, ends, <<i>>)
      BY <3>1
    <3> HIDE DEF i
    <3>4. /\ IsList(<<>>) /\ GotosIn(<<>>, ctx.live)
          /\ IsList(<<i>>) /\ GotosIn(<<i>>, ctx.live)
      BY <3>2, ShortLists, GotosShort
    <3> QED  BY <1>2, <3>3, <3>4, JoinRefers
  <2> QED  BY <2>1, <2>2, <2>3
<1> QED  BY <1>3, <1>5, <1>6, <1>7

LEMMA ElseKept ==
  ASSUME Sound(blocks, pr, forms), Kept(ctx, forms), Refs, ElseBranch
  PROVE  Kept(ctx', forms') /\ RefersTo(blocks', labels', ctx'.live)
<1> DEFINE d   == DeactivateAnonymousNamespace(ctx)
           gs  == Pop(forms)
           alt == Frame("else", Back(forms).entry + 1, Back(forms).cond, pr)
<1>1. /\ forms # <<>> /\ Back(forms).kind # "call" /\ labels' = labels
      /\ ctx' = ActivateAnonymousNamespace(d) /\ forms' = Append(gs, alt)
      /\ blocks' = CloseScope(blocks, Back(forms).entry)
  BY DEF ElseBranch, Inner
<1>2. alt.kind # "call" /\ alt.saved = {}
  BY FrameKind
<1>3. InUse(ctx) /\ IsList(forms) /\ IsList(gs) /\ Leaves(ctx, d)
  BY <1>1, SoundTypes, Popped, DeactivateLeaves DEF Kept
<1> HIDE DEF d, alt
<1>4. Kept(d, gs)
  BY <1>1, <1>3, KeptPop
<1> HIDE DEF gs
<1>5. InUse(d)
  BY <1>4 DEF Kept
<1>6. Enters(d, ctx')
  BY <1>1, <1>5, AnonymousEnters
<1>7. Kept(ctx', forms')
  BY <1>1, <1>2, <1>3, <1>4, <1>6, KeptPush
<1>8. RefersTo(blocks', labels, ctx.live)
  BY <1>1, CloseScopeKeeps
<1>9. ctx.live \subseteq ctx'.live
  BY <1>3, <1>6 DEF Leaves, Enters
<1> QED  BY <1>1, <1>7, <1>8, <1>9, RefersStill

LEMMA RestoreKept ==
  ASSUME Sound(blocks, pr, forms), Kept(ctx, forms), Refs, RestoreCall
  PROVE  Kept(ctx', forms') /\ RefersTo(blocks', labels', ctx'.live)
<1>1. PICK s \in Back(forms).saved : ctx' = RestoreContext(ctx, s.ctx)
  BY DEF RestoreCall
<1>2. forms # <<>> /\ forms' = Pop(forms) /\ IsList(forms)
  BY SoundTypes DEF RestoreCall, Inner
<1>3. Kept(ctx', forms') /\ s.ctx.live \subseteq ctx'.live
  BY <1>1, <1>2, KeptRestore
<1>4. blocks' = s.blocks /\ labels' = s.labels
  BY RestoreSound
<1>5. RefersTo(s.blocks, s.labels, s.ctx.live)
  <2>1. Len(forms) \in 1 .. Len(forms) /\ Back(forms) = forms[Len(forms)]
    <3>1. Len(forms) \in Nat \ {0} /\ Back(forms) = forms[Len(forms)]
      BY <1>2, ListPop
    <3> QED  BY <3>1
  <2> QED  BY <2>1 DEF Kept, FoundOK
<1> QED  BY <1>3, <1>4, <1>5, RefersStill
(* The context in the body's scope.                                        *)
LEMMA BeginFnInUse ==
  ASSUME NEW c, InUse(c), NEW nm, NEW ps PROVE InUse(BeginFn(c, nm, ps))
<1>1. \A d : InUse(d) => InUse(AddParameters(d, ps))
                         /\ AddParameters(d, ps).active = d.active
  BY StaysStays DEF AddParameters, Stays
<1>2. InUse(ParseReturnType(c, ps))
  <2> DEFINE a == ActivateAnonymousNamespace(c)
             b == AddParameters(a, ps)
             d == DeactivateNamespace(b, a.name[NS(a)])
  <2>1. InUse(a) /\ Len(a.active) = Len(c.active) + 1
    BY AnonymousEnters DEF Enters
  <2> HIDE DEF a
  <2>2. InUse(b) /\ b.active = a.active
    BY <1>1, <2>1
  <2> HIDE DEF b
  <2>3. Leaves(b, d)
    BY <2>2, DeactivateLeaves
  <2>4. Len(b.active) >= 2
    <3>1. Len(c.active) \in Nat /\ Len(c.active) >= 1
      BY ListLen DEF InUse
    <3> QED  BY <2>1, <2>2, <3>1
  <2> HIDE DEF d
  <2>5. InUse(d)
    BY <2>2, <2>3, <2>4, LeavesPrefix
  <2> QED  BY <2>5 DEF ParseReturnType, a, b, d
<1> DEFINE r == ParseReturnType(c, ps)
           e == [AddFunction(r, nm, c.nextfn) EXCEPT !.nextfn = @ + 1]
           a == ActivateAnonymousNamespace(e)
           g == [a EXCEPT !.scopes = Append(@, c.nextfn)]
<1>3. BeginFn(c, nm, ps) = AddParameters(g, ps)
  BY DEF BeginFn, EnterBody
<1>4. InUse(e)
  <2> HIDE DEF r
  <2>1. InUse(AddFunction(r, nm, c.nextfn))
    BY <1>2 DEF AddFunction, InUse, r
  <2> QED  BY <2>1 DEF InUse
<1> HIDE DEF e
<1>5. InUse(a)
  BY <1>4, AnonymousEnters DEF Enters
<1> HIDE DEF a
<1>6. InUse(g)
  BY <1>5 DEF InUse
<1> HIDE DEF g
<1> QED  BY <1>1, <1>3, <1>6

LEMMA InitLive == ASSUME Init PROVE LiveInv
<1>1. InUse(EmptyContext(1000))
  <2>1. EmptyContext(1000).active = <<Root>> /\ EmptyContext(1000).live = {Root}
        /\ {"live", "active"} \subseteq DOMAIN EmptyContext(1000)
    BY DEF EmptyContext
  <2>2. /\ IsList(<<Root>>) /\ Len(<<Root>>) = 1 /\ <<Root>>[1] = Root
    BY ShortLists
  <2> QED  BY <2>1, <2>2 DEF InUse
<1>2. PICK ps \in Parameters, inner \in {{}} \cup {{nm} : nm \in NsNames} :
        /\ "namespace" \in Uses \/ inner = {}
        /\ ctx = LET c == EmptyContext(1000)
                     d == IF inner = {} THEN c
                          ELSE ActivateNamespace(c, CHOOSE nm \in inner : TRUE)
                 IN  BeginFn(d, CHOOSE nm \in FunNames : TRUE, ps)
        /\ blocks = <<Calls("init", VarsOf(ctx, {NS(ctx)}))>>
        /\ labels = {} /\ forms = <<>> /\ count = 0
        /\ pr = Result(1, "void", FALSE)
        /\ run = [phase |-> "parse", block |-> 1, at |-> 1, values |-> NoValues]
  BY Zenon DEF Init
<1>3. InUse(ctx)
  <2> DEFINE c == EmptyContext(1000)
             d == IF inner = {} THEN c ELSE ActivateNamespace(c, CHOOSE nm \in inner : TRUE)
  <2>1. ctx = BeginFn(d, CHOOSE nm \in FunNames : TRUE, ps)
    BY <1>2
  <2> HIDE DEF c
  <2>2. InUse(d)
    BY <1>1, ActivateEnters DEF Enters, c
  <2> HIDE DEF d
  <2> QED  BY <2>1, <2>2, BeginFnInUse
<1>4. RefersTo(blocks, labels, ctx.live)
  <2> DEFINE code == Calls("init", VarsOf(ctx, {NS(ctx)}))
             L == ctx.live
  <2>1. GotosIn(code, L)
    BY GotosShort
  <2>2. blocks = <<code>> /\ labels = {}
    BY <1>2
  <2> HIDE DEF code, L
  <2>3. Len(<<code>>) = 1 /\ <<code>>[1] = code
    BY ShortLists
  <2>4. ASSUME NEW b \in 1 .. Len(blocks) PROVE GotosIn(blocks[b], L)
    <3>1. b = 1
      BY <2>2, <2>3
    <3> QED  BY <3>1, <2>1, <2>2, <2>3
  <2>5. RefersTo(blocks, labels, L)
    BY <2>2, <2>4 DEF RefersTo
  <2> QED  BY <2>5 DEF L
<1>5. Kept(ctx, forms)
  <2>1. Len(forms) = 0
    BY <1>2, ShortLists
  <2>2. Outlived(ctx, forms, Len(forms)) /\ \A i \in 1 .. Len(forms) : FoundOK(forms, i)
    BY <2>1 DEF Outlived
  <2>3. \E h : Heights(h, ctx, forms, 0)
    <3> DEFINE h == [i \in 0 .. 0 |-> 1]
    <3>1. h \in [0 .. 0 -> Nat] /\ h[0] = 1
      OBVIOUS
    <3> HIDE DEF h
    <3>2. 1 <= Len(ctx.active)
      BY <1>3, ListLen DEF InUse
    <3>3. Heights(h, ctx, forms, 0)
      BY <3>1, <3>2 DEF Heights
    <3> QED  BY <3>3
  <2> QED  BY <1>3, <2>1, <2>2, <2>3 DEF Kept
<1> QED  BY <1>4, <1>5 DEF LiveInv

LEMMA NextLive == ASSUME IInv, LiveInv, [Next]_vars PROVE LiveInv'
<1> DEFINE Goal == Kept(ctx', forms') /\ RefersTo(blocks', labels', ctx'.live)
<1> SUFFICES ASSUME Parsing' PROVE Goal
  BY DEF LiveInv, Parsing
<1>1. CASE UNCHANGED vars
  BY <1>1 DEF vars, LiveInv, Parsing
<1>2. CASE Finish \/ Reject
  <2>1. run'.phase \in {"run", "rejected"}
    BY <1>2 DEF Finish, Reject, IInv
  <2> QED  BY <2>1 DEF Parsing
<1>3. CASE Step
  <2>1. run'.phase \in {"run", "returned"}
    BY <1>3 DEF Step, StepCall, StepBranch, StepReturn, Running, IInv
  <2> QED  BY <2>1 DEF Parsing
<1>4. CASE ~Step /\ ~Finish /\ ~Reject /\ Next
  <2>1. Parsing
    BY <1>4 DEF Next, Define, Value, Return, Label, GotoKnown, GotoDeferred, OpenNewScope,
                CloseNewScope, OpenIf, ElseBranch, EndIf, BeginCall, Fail, Abandon,
                EndCall, RestoreCall, Parse
  <2>2. Sound(blocks, pr, forms) /\ Kept(ctx, forms) /\ Refs
    BY <2>1 DEF IInv, LiveInv, Refs
  <2> HIDE DEF Goal
  <2>3. ASSUME Define \/ Value \/ Return \/ Fail PROVE Goal
    BY <2>2, <2>3, StraightKept DEF Goal
  <2>4. ASSUME NEW l, Label(l) \/ GotoKnown(l) \/ GotoDeferred(l) PROVE Goal
    BY <2>2, <2>4, LabelKept, GotoKept DEF Goal
  <2>5. ASSUME OpenNewScope \/ BeginCall \/ OpenIf PROVE Goal
    BY <2>2, <2>5, OpenKept DEF Goal
  <2>6. ASSUME CloseNewScope \/ Abandon \/ EndCall \/ EndIf PROVE Goal
    BY <2>2, <2>6, CloseKept DEF Goal
  <2>7. ASSUME ElseBranch \/ RestoreCall PROVE Goal
    BY <2>2, <2>7, ElseKept, RestoreKept DEF Goal
  <2> QED  BY <1>4, <2>3, <2>4, <2>5, <2>6, <2>7 DEF Next
<1> QED  BY <1>1, <1>2, <1>3, <1>4

(* Every namespace that a label or a deferred goto refers to is allocated, *)
(* and so is every one that is active.                                     *)
THEOREM NamespacesOutlive == Spec => []LiveInv
<1>1. Init => LiveInv
  BY InitLive
<1>2. IInv /\ LiveInv /\ [Next]_vars => LiveInv'
  BY NextLive
<1> QED  BY <1>1, <1>2, CodeInvariant, PTL DEF Spec

(* When an argument list turns out to belong to a macro, nothing of what   *)
(* its forms put into the function remains, and what is left refers to no  *)
(* namespace that was removed.                                             *)
THEOREM RestoreUndoes == Spec => RestoreUndoesForms
<1> DEFINE Undone == RestoreCall =>
             /\ \A saved \in Back(forms).saved :
                  blocks' = saved.blocks /\ labels' = saved.labels
             /\ \A i \in labels' \cup Gotos' : i.ns \in ctx'.live
<1>1. IInv /\ LiveInv /\ LiveInv' /\ [Next]_vars => [Undone]_vars
  <2> SUFFICES ASSUME IInv, LiveInv', RestoreCall
               PROVE  /\ \A saved \in Back(forms).saved :
                           blocks' = saved.blocks /\ labels' = saved.labels
                      /\ \A i \in labels' \cup Gotos' : i.ns \in ctx'.live
    OBVIOUS
  <2>1. Sound(blocks, pr, forms)
    BY DEF IInv, RestoreCall
  <2>2. \A saved \in Back(forms).saved : blocks' = saved.blocks /\ labels' = saved.labels
    BY <2>1, RestoreSound
  <2>3. RefersTo(blocks', labels', ctx'.live)
    BY DEF LiveInv, RestoreCall, Parsing
  <2>4. \A i \in Gotos' : i.ns \in ctx'.live
    BY <2>3 DEF Gotos, RefersTo, GotosIn
  <2>5. \A i \in labels' : i.ns \in ctx'.live
    BY <2>3 DEF RefersTo
  <2> QED  BY <2>2, <2>4, <2>5
<1> QED  BY <1>1, CodeInvariant, NamespacesOutlive, PTL DEF Spec, RestoreUndoesForms
=============================================================================
