---------------------------- MODULE CallsProofs ----------------------------
(***************************************************************************)
(* That errors are handed on as Calls says, and that values are evaluated  *)
(* in order, whatever forms are nested and whichever procedures there are. *)
(***************************************************************************)
EXTENDS Calls, SequenceTheorems, TLAPS

CONSTANTS
  AllForms, \* the forms to parse, and those that are met when they are parsed
  ValuesIn  \* the numbers of the values in each of them

(* A sequence of whatever it holds.                                        *)
IsList(s) == s \in Seq({s[k] : k \in 1 .. Len(s)})

StartsWith(s, old) ==
  Len(old) <= Len(s) /\ \A k \in 1 .. Len(old) : s[k] = old[k]

(***************************************************************************)
(* Lists.                                                                  *)
(***************************************************************************)
(* Every sequence is a list.                                               *)
LEMMA SeqIsList == ASSUME NEW S, NEW s \in Seq(S) PROVE IsList(s)
<1>1. Len(s) \in Nat /\ DOMAIN s = 1 .. Len(s) /\ s = [k \in 1 .. Len(s) |-> s[k]]
  BY LenProperties
<1>2. \A k \in 1 .. Len(s) : s[k] \in {s[j] : j \in 1 .. Len(s)}
  OBVIOUS
<1> QED  BY <1>1, <1>2, IsASeq DEF IsList

LEMMA ListsInOneSet ==
  ASSUME NEW s, NEW t, NEW e, IsList(s), IsList(t)
  PROVE  \E S : s \in Seq(S) /\ t \in Seq(S) /\ e \in S
<1> DEFINE S == {s[k] : k \in 1 .. Len(s)}
           T == {t[k] : k \in 1 .. Len(t)}
           U == S \cup T \cup {e}
<1>1. s \in Seq(S) /\ t \in Seq(T)
  BY DEF IsList
<1>2. S \subseteq U /\ T \subseteq U /\ e \in U
  OBVIOUS
<1> HIDE DEF S, T, U
<1>3. s \in Seq(U) /\ t \in Seq(U)
  BY <1>1, <1>2
<1> QED  BY <1>2, <1>3

(* What the operators on lists return.                                     *)
LEMMA ListLen == ASSUME NEW s, IsList(s) PROVE Len(s) \in Nat
BY LenProperties DEF IsList

LEMMA ListConcat ==
  ASSUME NEW s, NEW t, IsList(s), IsList(t)
  PROVE  /\ IsList(s \o t) /\ Len(s \o t) = Len(s) + Len(t)
         /\ \A k \in 1 .. Len(s) : (s \o t)[k] = s[k]
         /\ \A k \in 1 .. Len(t) : (s \o t)[Len(s) + k] = t[k]
<1>1. PICK S : s \in Seq(S) /\ t \in Seq(S) /\ 0 \in S
  BY ListsInOneSet
<1>2. Len(s) \in Nat /\ Len(t) \in Nat
  BY ListLen
<1>3. /\ s \o t \in Seq(S) /\ Len(s \o t) = Len(s) + Len(t)
      /\ \A k \in 1 .. Len(s) + Len(t) :
           (s \o t)[k] = IF k <= Len(s) THEN s[k] ELSE t[k - Len(s)]
  BY <1>1, ConcatProperties
<1>4. ASSUME NEW k \in 1 .. Len(t) PROVE (s \o t)[Len(s) + k] = t[k]
  <2>1. Len(s) + k \in 1 .. Len(s) + Len(t) /\ ~(Len(s) + k <= Len(s))
        /\ (Len(s) + k) - Len(s) = k
    BY <1>2
  <2> QED  BY <1>3, <2>1
<1>5. ASSUME NEW k \in 1 .. Len(s) PROVE (s \o t)[k] = s[k]
  <2>1. k \in 1 .. Len(s) + Len(t) /\ k <= Len(s)
    BY <1>2
  <2> QED  BY <1>3, <2>1
<1>6. IsList(s \o t)
  BY <1>3, SeqIsList
<1> QED  BY <1>3, <1>4, <1>5, <1>6

LEMMA ListAppend ==
  ASSUME NEW s, NEW e, IsList(s)
  PROVE  /\ IsList(Append(s, e)) /\ Len(Append(s, e)) = Len(s) + 1
         /\ \A k \in 1 .. Len(s) : Append(s, e)[k] = s[k]
         /\ Append(s, e)[Len(s) + 1] = e
<1>1. PICK S : s \in Seq(S) /\ e \in S
  BY ListsInOneSet
<1>2. /\ Append(s, e) \in Seq(S) /\ Len(Append(s, e)) = Len(s) + 1
      /\ \A k \in 1 .. Len(s) : Append(s, e)[k] = s[k]
      /\ Append(s, e)[Len(s) + 1] = e
  BY <1>1, AppendProperties
<1> QED  BY <1>2, SeqIsList

LEMMA ListPrefix ==
  ASSUME NEW s, IsList(s), NEW n \in Nat, n <= Len(s)
  PROVE  /\ IsList(SubSeq(s, 1, n)) /\ Len(SubSeq(s, 1, n)) = n
         /\ \A k \in 1 .. n : SubSeq(s, 1, n)[k] = s[k]
<1>1. PICK S : s \in Seq(S)
  BY ListsInOneSet
<1>2. Len(s) \in Nat /\ \A k \in 1 .. n : s[k] \in S
  BY <1>1, ListLen, ElementOfSeq
<1>3. /\ SubSeq(s, 1, n) \in Seq(S)
      /\ Len(SubSeq(s, 1, n)) = IF 1 <= n THEN n - 1 + 1 ELSE 0
      /\ \A k \in 1 .. n - 1 + 1 : SubSeq(s, 1, n)[k] = s[1 + k - 1]
  BY <1>2, SubSeqProperties
<1>4. /\ Len(SubSeq(s, 1, n)) = n
      /\ \A k \in 1 .. n : SubSeq(s, 1, n)[k] = s[k]
  BY <1>3
<1> QED  BY <1>3, <1>4, SeqIsList

LEMMA ListEqual ==
  ASSUME NEW s, NEW t, IsList(s), IsList(t), Len(s) = Len(t),
         \A k \in 1 .. Len(s) : s[k] = t[k]
  PROVE  s = t
<1>1. PICK S : s \in Seq(S) /\ t \in Seq(S)
  BY ListsInOneSet
<1> QED  BY <1>1, SeqEqual


LEMMA ListFront ==
  ASSUME NEW s, IsList(s), s # <<>>
  PROVE  /\ Len(s) \in Nat \ {0} /\ Last(s) = s[Len(s)]
         /\ IsList(Front(s)) /\ Len(Front(s)) = Len(s) - 1
         /\ \A k \in 1 .. Len(s) - 1 : Front(s)[k] = s[k]
<1>1. PICK S : s \in Seq(S)
  BY ListsInOneSet
<1>2. Len(s) \in Nat \ {0}
  BY <1>1, EmptySeq
<1>3. Len(s) - 1 \in Nat /\ Len(s) - 1 <= Len(s)
  BY <1>2
<1> QED  BY <1>2, <1>3, ListPrefix DEF Last, Front

LEMMA EmptyList == IsList(<<>>) /\ Len(<<>>) = 0
<1>1. <<>> \in Seq({}) /\ Len(<<>>) = 0
  BY EmptySeq
<1> QED  BY <1>1, SeqIsList

-----------------------------------------------------------------------------
(***************************************************************************)
(* The invariant about errors.  While a body is parsed, es are the errors  *)
(* there were before it, and met what has been met in it.                  *)
(***************************************************************************)
IsState(s) ==
  /\ s = [errors |-> s.errors, flushed |-> s.flushed, code |-> s.code, cto |-> s.cto]
  /\ IsList(s.errors) /\ s.flushed \in Nat /\ IsList(s.code)

(* A call that waits for one of its forms began with the errors es, and    *)
(* has set aside some if an argument had none to show for itself.          *)
Waiting(c, es, met) ==
  /\ c = [kind |-> c.kind, name |-> c.name, args |-> c.args, types |-> c.types,
          aside |-> c.aside, null |-> c.null, code |-> c.code, begin |-> c.begin,
          count |-> c.count]
  /\ c.begin = Len(es) /\ c.count = Len(es)
  /\ IsList(c.aside) /\ IsList(c.types) /\ IsList(c.code)
  /\ c.null => c.kind = "proc" /\ (c.aside # <<>> \/ "null" \in met)

(* A state and the calls that may wait for what comes of it.               *)
Ready(s, cs, es, met) ==
  /\ IsState(s) /\ StartsWith(s.errors, es)
  /\ s.flushed <= Len(es) \/ "include" \in met
  /\ IsList(cs) /\ \A i \in 1 .. Len(cs) : Waiting(cs[i], es, met)

(* A form is only begun with the errors there were; it adds some if it     *)
(* fails.                                                                  *)
Fine(s, n, es, met) ==
  /\ n.step \in {"parse", "next", "return", "crashed"}
  /\ n.step \in {"parse", "next"} => s.errors = es
  /\ n.step = "return" =>
       IF n.ok THEN s.errors = es ELSE s.errors # es \/ "null" \in met
  /\ n.step = "crashed" => met \cap {"include", "null"} # {}

Resting == /\ now = Rest /\ calls = <<>> /\ last = None
           /\ IsState(st) /\ st.code = <<>> /\ st.flushed <= Len(st.errors)

InBody == /\ Ready(st, calls, last.errors, last.met)
          /\ Fine(st, now, last.errors, last.met)
          /\ now.step = "next" => calls # <<>>

IInv == /\ last = [errors |-> last.errors, met |-> last.met] /\ IsList(last.errors)
        /\ Resting \/ InBody

(***************************************************************************)
(* What each kind of step does to it.                                      *)
(***************************************************************************)
LEMMA MetMore ==
  ASSUME NEW s, NEW cs, NEW es, NEW met, NEW more, Ready(s, cs, es, met)
  PROVE  Ready(s, cs, es, met \cup more)
BY DEF Ready, Waiting

LEMMA GoesKeeps ==
  ASSUME IInv, NEW s, NEW cs, NEW n, NEW met, Goes(s, cs, n, met),
         Ready(s, cs, last.errors, last.met), Fine(s, n, last.errors, last.met \cup met),
         n.step = "next" => cs # <<>>
  PROVE  IInv'
<1>1. /\ st' = s /\ calls' = cs /\ now' = n
      /\ last' = [last EXCEPT !.met = @ \cup met]
  BY DEF Goes
<1>2. /\ last = [errors |-> last.errors, met |-> last.met] /\ IsList(last.errors)
  BY DEF IInv
<1>3. /\ last'.errors = last.errors /\ last'.met = last.met \cup met
      /\ last' = [errors |-> last'.errors, met |-> last'.met]
  BY <1>1, <1>2
<1>4. Ready(s, cs, last.errors, last.met \cup met)
  BY MetMore
<1>5. InBody'
  BY <1>1, <1>3, <1>4 DEF InBody
<1> QED  BY <1>2, <1>3, <1>5 DEF IInv

LEMMA ErrorIsLater ==
  ASSUME NEW s, NEW kind, NEW cs, NEW es, NEW met, Ready(s, cs, es, met), IsList(es)
  PROVE  /\ Ready(Error(s, kind), cs, es, met) /\ Error(s, kind).errors # es
         /\ Error(s, kind).code = s.code
         /\ Error(s, kind).flushed = s.flushed
         /\ Len(Error(s, kind).errors) = Len(s.errors) + 1
<1> DEFINE t == Error(s, kind)
<1>1. IsState(s) /\ IsList(s.errors) /\ StartsWith(s.errors, es)
  BY DEF Ready, IsState
<1>2. /\ IsList(Append(s.errors, kind)) /\ Len(Append(s.errors, kind)) = Len(s.errors) + 1
      /\ \A k \in 1 .. Len(s.errors) : Append(s.errors, kind)[k] = s.errors[k]
  BY <1>1, ListAppend
<1>3. t = [errors |-> Append(s.errors, kind), flushed |-> s.flushed, code |-> s.code,
           cto |-> s.cto]
  <2>1. PICK e, f, c, o : s = [errors |-> e, flushed |-> f, code |-> c, cto |-> o]
    BY <1>1 DEF IsState
  <2>2. t = [errors |-> Append(e, kind), flushed |-> f, code |-> c, cto |-> o]
    BY <2>1 DEF Error
  <2> QED  BY <2>1, <2>2
<1>4. Len(s.errors) \in Nat /\ Len(es) \in Nat
  BY <1>1, ListLen
<1>5. IsState(t)
  BY <1>1, <1>2, <1>3 DEF IsState
<1>6. StartsWith(t.errors, es) /\ Len(t.errors) = Len(s.errors) + 1 /\ t.errors # es
  <2>1. t.errors = Append(s.errors, kind)
    BY <1>3
  <2>2. Len(es) <= Len(s.errors) /\ \A k \in 1 .. Len(es) : s.errors[k] = es[k]
    BY <1>1 DEF StartsWith
  <2>3. \A k \in 1 .. Len(es) : k \in 1 .. Len(s.errors)
    BY <2>2, <1>4
  <2>4. Len(es) <= Len(t.errors) /\ Len(es) # Len(t.errors)
    BY <2>1, <2>2, <1>2, <1>4
  <2> QED  BY <2>1, <2>2, <2>3, <2>4, <1>2 DEF StartsWith
<1>7. t.flushed = s.flushed /\ t.code = s.code
  BY <1>3
<1> QED  BY <1>5, <1>6, <1>7 DEF Ready

LEMMA YesKeeps ==
  ASSUME IInv, NEW s, NEW cs, NEW type, Ready(s, cs, last.errors, last.met),
         s.errors = last.errors, Yes(s, cs, type)
  PROVE  IInv'
<1> DEFINE n == [step |-> "return", ok |-> TRUE, type |-> type]
<1>1. Goes(s, cs, n, {})
  BY DEF Yes
<1>2. Fine(s, n, last.errors, last.met \cup {})
  BY DEF Fine
<1>3. n.step # "next"
  OBVIOUS
<1> HIDE DEF n
<1> QED  BY <1>1, <1>2, <1>3, GoesKeeps

LEMMA NoKeeps ==
  ASSUME IInv, NEW s, NEW cs, NEW met, Ready(s, cs, last.errors, last.met),
         s.errors # last.errors \/ "null" \in last.met \cup met, No(s, cs, met)
  PROVE  IInv'
<1> DEFINE n == [step |-> "return", ok |-> FALSE, type |-> "none"]
<1>1. Goes(s, cs, n, met)
  BY DEF No
<1>2. Fine(s, n, last.errors, last.met \cup met)
  BY DEF Fine
<1>3. n.step # "next"
  OBVIOUS
<1> HIDE DEF n
<1> QED  BY <1>1, <1>2, <1>3, GoesKeeps

LEMMA ErrorKeeps ==
  ASSUME IInv, NEW s, NEW kind, NEW cs, NEW met, Ready(s, cs, last.errors, last.met),
         No(Error(s, kind), cs, met)
  PROVE  IInv'
<1>1. IsList(last.errors)
  BY DEF IInv
<1>2. /\ Ready(Error(s, kind), cs, last.errors, last.met)
      /\ Error(s, kind).errors # last.errors
  BY <1>1, ErrorIsLater
<1> QED  BY <1>2, NoKeeps

LEMMA CallWaits ==
  ASSUME NEW s, NEW kind, NEW name, NEW args, NEW es, NEW met, IsState(s), s.errors = es
  PROVE  Waiting(Call(s, kind, name, args), es, met)
BY EmptyList DEF Call, Waiting, IsState

LEMMA PushReady ==
  ASSUME NEW s, NEW cs, NEW es, NEW met, NEW c, Ready(s, cs, es, met), Waiting(c, es, met)
  PROVE  Ready(s, Append(cs, c), es, met)
<1>1. IsList(cs) /\ \A i \in 1 .. Len(cs) : Waiting(cs[i], es, met)
  BY DEF Ready
<1>2. /\ IsList(Append(cs, c)) /\ Len(Append(cs, c)) = Len(cs) + 1
      /\ \A k \in 1 .. Len(cs) : Append(cs, c)[k] = cs[k]
      /\ Append(cs, c)[Len(cs) + 1] = c
  BY <1>1, ListAppend
<1>3. ASSUME NEW i \in 1 .. Len(Append(cs, c)) PROVE Waiting(Append(cs, c)[i], es, met)
  <2>1. i \in 1 .. Len(cs) \/ i = Len(cs) + 1
    BY <1>1, <1>2, ListLen
  <2> QED  BY <2>1, <1>1, <1>2
<1> QED  BY <1>2, <1>3 DEF Ready

LEMMA WaitsKeeps ==
  ASSUME IInv, NEW s, NEW cs, NEW c, NEW met, Ready(s, cs, last.errors, last.met),
         s.errors = last.errors, Waiting(c, last.errors, last.met), Waits(s, cs, c, met)
  PROVE  IInv'
<1>1. Goes(s, Append(cs, c), Argument, met)
  BY DEF Waits
<1>2. Ready(s, Append(cs, c), last.errors, last.met)
  BY PushReady
<1>3. Fine(s, Argument, last.errors, last.met \cup met)
  BY DEF Fine, Argument
<1>4. IsList(cs)
  BY DEF Ready
<1>5. Len(Append(cs, c)) # 0
  BY <1>4, ListAppend, ListLen
<1>6. Append(cs, c) # <<>>
  BY <1>5, EmptyList
<1> QED  BY <1>1, <1>2, <1>3, <1>6, GoesKeeps

LEMMA ParsingKeeps ==
  ASSUME IInv, NEW s, NEW cs, NEW form, Ready(s, cs, last.errors, last.met),
         s.errors = last.errors, Goes(s, cs, Parsing(form), {})
  PROVE  IInv'
<1>1. Fine(s, Parsing(form), last.errors, last.met \cup {})
  BY DEF Fine, Parsing
<1>2. Parsing(form).step # "next"
  BY DEF Parsing
<1> QED  BY <1>1, <1>2, GoesKeeps

LEMMA CrashKeeps ==
  ASSUME IInv, InBody, NEW met, Crash(met),
         (last.met \cup met) \cap {"include", "null"} # {}
  PROVE  IInv'
<1> DEFINE n == [step |-> "crashed"]
<1>1. Goes(st, calls, n, met)
  BY DEF Crash
<1>2. Fine(st, n, last.errors, last.met \cup met)
  BY DEF Fine
<1>3. Ready(st, calls, last.errors, last.met)
  BY DEF InBody
<1>4. n.step # "next"
  OBVIOUS
<1> HIDE DEF n
<1> QED  BY <1>1, <1>2, <1>3, <1>4, GoesKeeps

LEMMA CallWithKeeps ==
  ASSUME IInv, NEW s, NEW cs, NEW kind, NEW name, NEW args, NEW params, NEW met,
         Ready(s, cs, last.errors, last.met), s.errors = last.errors,
         CallWith(s, cs, kind, name, args, params, met)
  PROVE  IInv'
<1>1. CASE Len(args) # Len(params)
  BY <1>1, ErrorKeeps DEF CallWith
<1>2. CASE Len(args) = Len(params)
  <2>1. Waits(s, cs, Call(s, kind, name, args), met)
    BY <1>2 DEF CallWith
  <2>2. Waiting(Call(s, kind, name, args), last.errors, last.met)
    BY CallWaits DEF Ready
  <2> QED  BY <2>1, <2>2, WaitsKeeps
<1> QED  BY <1>1, <1>2

LEMMA NotProcKeeps ==
  ASSUME IInv, NEW s, NEW cs, NEW name, NEW args, NEW tried,
         Ready(s, cs, last.errors, last.met), s.errors = last.errors,
         NotProc(s, cs, name, args, tried)
  PROVE  IInv'
<1>1. CASE name \in DOMAIN CoreForms
  <2> DEFINE met == IF tried THEN {"again"} ELSE {}
             params == CoreForms[name].params
  <2>1. CallWith(s, cs, "core", name, args, params, met)
    BY <1>1 DEF NotProc
  <2> HIDE DEF met, params
  <2> QED  BY <2>1, CallWithKeeps
<1>2. CASE name \notin DOMAIN CoreForms /\ Yes(s, cs, "void")
  BY <1>2, YesKeeps
<1>3. CASE No(Error(s, NotFound), cs, {})
  BY <1>3, ErrorKeeps
<1>4. CASE VariableCall(s, cs, name, args)
  <2>1. CASE No(Error(s, "NotInScope"), cs, {})
    BY <2>1, ErrorKeeps
  <2>2. CASE CallWith(s, cs, "pointer", name, args, Pointed.params, {})
    BY <2>2, CallWithKeeps
  <2>3. CASE Goes(s, Append(cs, Call(s, "invoke", name, args)),
                  Parsing(Invoke(name, args)), {})
    <3>1. Waiting(Call(s, "invoke", name, args), last.errors, last.met)
      BY CallWaits DEF Ready
    <3>2. Ready(s, Append(cs, Call(s, "invoke", name, args)), last.errors, last.met)
      BY <3>1, PushReady
    <3> QED  BY <2>3, <3>2, ParsingKeeps
  <2> QED  BY <1>4, <2>1, <2>2, <2>3 DEF VariableCall
<1> QED  BY <1>1, <1>2, <1>3, <1>4 DEF NotProc

(* Popping all but the errors there were.                                  *)
LEMMA PopIsEarlier ==
  ASSUME NEW s, NEW cs, NEW es, NEW met, NEW count, Ready(s, cs, es, met), IsList(es),
         count = Len(es)
  PROVE  /\ Ready(PopErrors(s, count), cs, es, met) /\ PopErrors(s, count).errors = es
         /\ PopErrors(s, count).code = s.code
<1> DEFINE t == PopErrors(s, count)
<1>1. IsState(s) /\ IsList(s.errors) /\ StartsWith(s.errors, es)
  BY DEF Ready, IsState
<1>2. Len(es) \in Nat /\ Len(es) <= Len(s.errors)
  BY <1>1, ListLen DEF StartsWith
<1>3. /\ IsList(SubSeq(s.errors, 1, count)) /\ Len(SubSeq(s.errors, 1, count)) = Len(es)
      /\ \A k \in 1 .. Len(es) : SubSeq(s.errors, 1, count)[k] = s.errors[k]
  BY <1>1, <1>2, ListPrefix
<1>4. SubSeq(s.errors, 1, count) = es
  BY <1>1, <1>3, ListEqual DEF StartsWith
<1>5. t = [errors |-> es, flushed |-> s.flushed, code |-> s.code, cto |-> s.cto]
  <2>1. PICK e, f, c, o : s = [errors |-> e, flushed |-> f, code |-> c, cto |-> o]
    BY <1>1 DEF IsState
  <2>2. t = [errors |-> SubSeq(e, 1, count), flushed |-> f, code |-> c, cto |-> o]
    BY <2>1 DEF PopErrors
  <2> QED  BY <2>1, <2>2, <1>4
<1>6. IsState(t) /\ StartsWith(t.errors, es)
  BY <1>1, <1>2, <1>5 DEF IsState, StartsWith
<1>7. t.flushed = s.flushed /\ t.errors = es /\ t.code = s.code
  BY <1>5
<1> QED  BY <1>6, <1>7 DEF Ready

LEMMA TriedKeeps ==
  ASSUME IInv, NEW s, NEW cs, NEW c, Ready(s, cs, last.errors, last.met),
         s.errors # last.errors, Waiting(c, last.errors, last.met), Tried(s, cs, c)
  PROVE  IInv'
<1>1. CASE No(s, cs, {})
  BY <1>1, NoKeeps
<1>2. CASE /\ Len(s.errors) = c.begin + 1
           /\ NotProc(PopErrors(s, Len(s.errors) - 1), cs, c.name, c.args, TRUE)
  <2>1. IsList(last.errors) /\ c.begin = Len(last.errors)
    BY DEF IInv, Waiting
  <2> DEFINE count == Len(s.errors) - 1
  <2>2. count = Len(last.errors)
    BY <1>2, <2>1, ListLen
  <2>3. NotProc(PopErrors(s, count), cs, c.name, c.args, TRUE)
    BY <1>2
  <2> HIDE DEF count
  <2>4. /\ Ready(PopErrors(s, count), cs, last.errors, last.met)
        /\ PopErrors(s, count).errors = last.errors
    BY <2>1, <2>2, PopIsEarlier
  <2> QED  BY <2>3, <2>4, NotProcKeeps
<1> QED  BY <1>1, <1>2 DEF Tried

LEMMA ExpandKeeps ==
  ASSUME IInv, NEW s, NEW cs, NEW f, NEW args, Ready(s, cs, last.errors, last.met),
         s.errors = last.errors, Expand(s, cs, f, args)
  PROVE  IInv'
<1>1. \A kind : No(Error(Error(s, kind), "MacroExpansionError"), cs, {}) => IInv'
  <2>1. IsList(last.errors)
    BY DEF IInv
  <2>2. \A kind : Ready(Error(s, kind), cs, last.errors, last.met)
    BY <2>1, ErrorIsLater
  <2> QED  BY <2>2, ErrorKeeps
<1>2. No(s, cs, {"null"}) => IInv'
  BY NoKeeps
<1>3. \A form : Goes(s, cs, Parsing(form), {}) => IInv'
  BY ParsingKeeps
<1> QED  BY <1>1, <1>2, <1>3 DEF Expand

(***************************************************************************)
(* The actions.                                                            *)
(***************************************************************************)
(* Emitting code changes nothing else.                                     *)
LEMMA CodeReady ==
  ASSUME NEW s, NEW e, NEW cs, NEW es, NEW met, Ready(s, cs, es, met)
  PROVE  LET t == [s EXCEPT !.code = Append(@, e)]
         IN  /\ Ready(t, cs, es, met) /\ t.errors = s.errors
             /\ t.code = Append(s.code, e)
<1> DEFINE t == [s EXCEPT !.code = Append(@, e)]
<1>1. PICK er, f, c, o : s = [errors |-> er, flushed |-> f, code |-> c, cto |-> o]
  BY DEF Ready, IsState
<1>2. t = [errors |-> er, flushed |-> f, code |-> Append(c, e), cto |-> o]
  BY <1>1, SMTT(30)
<1>3. /\ t.errors = s.errors /\ t.flushed = s.flushed /\ t.code = Append(s.code, e)
      /\ t = [errors |-> t.errors, flushed |-> t.flushed, code |-> t.code, cto |-> t.cto]
  BY <1>1, <1>2
<1> HIDE DEF t
<1>4. IsState(s) /\ IsList(s.code)
  BY DEF Ready, IsState
<1>5. IsList(t.code)
  BY <1>3, <1>4, ListAppend
<1>6. IsState(t)
  BY <1>3, <1>4, <1>5 DEF IsState
<1>7. Ready(t, cs, es, met)
  BY <1>3, <1>6 DEF Ready
<1> QED  BY <1>3, <1>7 DEF t

LEMMA TokenKeeps ==
  ASSUME IInv, InBody, now.step = "parse", NEW form, Token(form) PROVE IInv'
<1>1. Ready(st, calls, last.errors, last.met) /\ st.errors = last.errors
  BY DEF InBody, Fine
<1>2. CASE Yes([st EXCEPT !.code = Append(@, <<"value", form.n>>)], calls, form.type)
  <2> DEFINE e == <<"value", form.n>>
             t == [st EXCEPT !.code = Append(@, e)]
  <2>1. Ready(t, calls, last.errors, last.met) /\ t.errors = last.errors
    BY <1>1, CodeReady
  <2>2. Yes(t, calls, form.type)
    BY <1>2
  <2> HIDE DEF t
  <2> QED  BY <2>1, <2>2, YesKeeps
<1>3. CASE Yes(st, calls, form.type)
  BY <1>1, <1>3, YesKeeps
<1>4. CASE No(Error(st, "VariableNotInScope"), calls, {})
  BY <1>1, <1>4, ErrorKeeps
<1> QED  BY <1>2, <1>3, <1>4 DEF Token

LEMMA IncludeKeeps ==
  ASSUME IInv, InBody, NEW form, Include(form) PROVE IInv'
<1> DEFINE s == Error(st, "MissingRightParen")
           t == [s EXCEPT !.flushed = Len(s.errors)]
           met == last.met \cup {"include"}
<1>1. IsList(last.errors) /\ Ready(st, calls, last.errors, last.met)
  BY DEF InBody, IInv
<1>2. /\ Ready(s, calls, last.errors, last.met) /\ s.errors # last.errors
  BY <1>1, ErrorIsLater
<1>3. Crash({"include"}) \/ No(t, calls, {"include"})
  BY DEF Include
<1>4. CASE Crash({"include"})
  BY <1>4, CrashKeeps
<1>5. CASE No(t, calls, {"include"})
  <2> DEFINE n == [step |-> "return", ok |-> FALSE, type |-> "none"]
  <2> HIDE DEF s
  <2>1. PICK er, f, c, o : s = [errors |-> er, flushed |-> f, code |-> c, cto |-> o]
    BY <1>2 DEF Ready, IsState
  <2>2. t = [errors |-> er, flushed |-> Len(er), code |-> c, cto |-> o]
    BY <2>1
  <2>3. /\ t.errors = s.errors /\ t.flushed = Len(s.errors) /\ t.code = s.code
        /\ t = [errors |-> t.errors, flushed |-> t.flushed, code |-> t.code, cto |-> t.cto]
    BY <2>1, <2>2
  <2>4. IsState(s) /\ Len(s.errors) \in Nat
    BY <1>2, ListLen DEF Ready, IsState
  <2> HIDE DEF t
  <2>5. IsState(t)
    BY <2>3, <2>4 DEF IsState
  <2>6. Ready(s, calls, last.errors, met)
    BY <1>2, MetMore
  <2> HIDE DEF met
  <2>7. "include" \in met
    BY DEF met
  <2>8. Ready(t, calls, last.errors, met)
    BY <2>3, <2>5, <2>6, <2>7 DEF Ready
  <2>9. Fine(t, n, last.errors, met)
    BY <1>2, <2>3 DEF Fine
  <2>10. /\ st' = t /\ calls' = calls /\ now' = n
         /\ last' = [last EXCEPT !.met = @ \cup {"include"}]
    BY <1>5 DEF No, Goes
  <2>11. last = [errors |-> last.errors, met |-> last.met]
    BY DEF IInv
  <2>12. /\ last'.errors = last.errors /\ last'.met = met
         /\ last' = [errors |-> last'.errors, met |-> last'.met]
    BY <2>10, <2>11 DEF met
  <2>13. InBody'
    BY <2>8, <2>9, <2>10, <2>12 DEF InBody
  <2> QED  BY <1>1, <2>12, <2>13 DEF IInv
<1> QED  BY <1>3, <1>4, <1>5

LEMMA ListNodeKeeps ==
  ASSUME IInv, InBody, now.step = "parse", NEW form, ListNode(form) PROVE IInv'
<1>1. Ready(st, calls, last.errors, last.met) /\ st.errors = last.errors
  BY DEF InBody, Fine
<1>2. CASE NotProc(st, calls, form.head, form.args, FALSE)
  BY <1>1, <1>2, NotProcKeeps
<1>3. CASE \E f : Expand(st, calls, f, form.args)
  BY <1>1, <1>3, ExpandKeeps
<1>4. CASE Waits(st, calls, Call(st, "proc", form.head, form.args), {})
  <2>1. Waiting(Call(st, "proc", form.head, form.args), last.errors, last.met)
    BY <1>1, CallWaits DEF Ready
  <2> QED  BY <1>1, <1>4, <2>1, WaitsKeeps
<1> QED  BY <1>2, <1>3, <1>4 DEF ListNode

(* The innermost call, and those around it.                                *)
LEMMA CallerWaits ==
  ASSUME InBody, calls # <<>>
  PROVE  /\ Waiting(Caller, last.errors, last.met)
         /\ Ready(st, Front(calls), last.errors, last.met)
<1>1. /\ IsList(calls) /\ \A i \in 1 .. Len(calls) : Waiting(calls[i], last.errors, last.met)
  BY DEF InBody, Ready
<1>2. /\ Len(calls) \in Nat \ {0} /\ Last(calls) = calls[Len(calls)]
      /\ IsList(Front(calls)) /\ Len(Front(calls)) = Len(calls) - 1
      /\ \A k \in 1 .. Len(calls) - 1 : Front(calls)[k] = calls[k]
  BY <1>1, ListFront
<1>3. Waiting(Caller, last.errors, last.met)
  BY <1>1, <1>2 DEF Caller
<1>4. \A i \in 1 .. Len(Front(calls)) : Waiting(Front(calls)[i], last.errors, last.met)
  BY <1>1, <1>2
<1> QED  BY <1>2, <1>3, <1>4 DEF InBody, Ready

LEMMA NextArgumentKeeps == ASSUME IInv, InBody, NextArgument PROVE IInv'
<1> DEFINE c == [Caller EXCEPT !.count = Len(st.errors)]
           form == Caller.args[Len(Caller.types) + 1]
<1>1. /\ Waiting(Caller, last.errors, last.met)
      /\ Ready(st, Front(calls), last.errors, last.met) /\ st.errors = last.errors
  BY CallerWaits DEF InBody, Fine, NextArgument
<1>2. Waiting(c, last.errors, last.met)
  BY <1>1 DEF Waiting
<1>3. Goes(st, Append(Front(calls), c), Parsing(form), {})
  BY DEF NextArgument
<1> HIDE DEF c, form
<1>4. Ready(st, Append(Front(calls), c), last.errors, last.met)
  BY <1>1, <1>2, PushReady
<1> QED  BY <1>1, <1>3, <1>4, ParsingKeeps

(* The errors that were added since.                                       *)
LEMMA NoneMore ==
  ASSUME NEW s, NEW t, IsList(s), IsList(t), StartsWith(s, t),
         SubSeq(s, Len(t) + 1, Len(s)) = <<>>
  PROVE  s = t
<1>1. PICK S : s \in Seq(S) /\ t \in Seq(S)
  BY ListsInOneSet
<1>2. Len(s) \in Nat /\ Len(t) \in Nat /\ Len(t) <= Len(s)
  BY ListLen DEF StartsWith
<1>3. \A i \in Len(t) + 1 .. Len(s) : s[i] \in S
  BY <1>1, <1>2, ElementOfSeq
<1>4. Len(SubSeq(s, Len(t) + 1, Len(s)))
        = IF Len(t) + 1 <= Len(s) THEN Len(s) - (Len(t) + 1) + 1 ELSE 0
  BY <1>2, <1>3, SubSeqProperties
<1>5. Len(s) = Len(t)
  <2>1. Len(SubSeq(s, Len(t) + 1, Len(s))) = 0
    BY EmptyList
  <2> DEFINE m == Len(s)
             n == Len(t)
             k == Len(SubSeq(s, n + 1, m))
  <2>2. k = 0 /\ m \in Nat /\ n \in Nat /\ n <= m
        /\ k = IF n + 1 <= m THEN m - (n + 1) + 1 ELSE 0
    BY <1>2, <1>4, <2>1
  <2> HIDE DEF k, m, n
  <2>3. m = n
    BY <2>2
  <2> QED  BY <2>3 DEF m, n
<1> QED  BY <1>5, ListEqual DEF StartsWith

(* An argument more.                                                       *)
LEMMA TypedWaits ==
  ASSUME NEW c, NEW es, NEW met, Waiting(c, es, met), NEW type
  PROVE  LET d == [c EXCEPT !.types = Append(@, type)]
         IN  /\ Waiting(d, es, met) /\ d.types = Append(c.types, type)
             /\ d.kind = c.kind /\ d.args = c.args /\ d.code = c.code
<1> DEFINE d == [c EXCEPT !.types = Append(@, type)]
<1>1. PICK k, n, a, t, x, u, e, b, m :
        c = [kind |-> k, name |-> n, args |-> a, types |-> t, aside |-> x,
             null |-> u, code |-> e, begin |-> b, count |-> m]
  BY DEF Waiting
<1>2. d = [kind |-> k, name |-> n, args |-> a, types |-> Append(t, type), aside |-> x,
           null |-> u, code |-> e, begin |-> b, count |-> m]
  BY <1>1
<1> HIDE DEF d
<1>3. /\ d.kind = c.kind /\ d.args = c.args /\ d.code = c.code /\ d.aside = c.aside
      /\ d.null = c.null /\ d.begin = c.begin /\ d.count = c.count
      /\ d.types = Append(c.types, type)
      /\ d = [kind |-> d.kind, name |-> d.name, args |-> d.args, types |-> d.types,
              aside |-> d.aside, null |-> d.null, code |-> d.code, begin |-> d.begin,
              count |-> d.count]
  BY <1>1, <1>2
<1>4. IsList(d.types)
  BY <1>3, ListAppend DEF Waiting
<1>5. Waiting(d, es, met)
  BY <1>3, <1>4 DEF Waiting
<1> QED  BY <1>3, <1>5 DEF d

LEMMA AsideWaits ==
  ASSUME NEW c, NEW es, NEW met, Waiting(c, es, met), c.kind = "proc",
         NEW more, IsList(more), more # <<>> \/ "null" \in met
  PROVE  LET d == [c EXCEPT !.types = Append(@, PDNode), !.aside = @ \o more, !.null = TRUE]
         IN  /\ Waiting(d, es, met) /\ d.types = Append(c.types, PDNode)
             /\ d.kind = c.kind /\ d.args = c.args /\ d.code = c.code
<1> DEFINE d1 == [c EXCEPT !.types = Append(@, PDNode)]
           d2 == [d1 EXCEPT !.aside = @ \o more]
           d  == [d2 EXCEPT !.null = TRUE]
<1>1. PICK k, n, a, t, x, u, e, b, m :
        c = [kind |-> k, name |-> n, args |-> a, types |-> t, aside |-> x,
             null |-> u, code |-> e, begin |-> b, count |-> m]
  BY DEF Waiting
<1>2. d1 = [kind |-> k, name |-> n, args |-> a, types |-> Append(t, PDNode), aside |-> x,
            null |-> u, code |-> e, begin |-> b, count |-> m]
  BY ONLY <1>1
<1> HIDE DEF d1
<1> DEFINE y == x \o more
<1>3. d2 = [d1 EXCEPT !.aside = y]
  <2>1. d1.aside = x
    BY ONLY <1>2
  <2> QED  BY <2>1
<1> HIDE DEF d2, y
<1>3a. d2 = [kind |-> k, name |-> n, args |-> a, types |-> Append(t, PDNode),
            aside |-> y, null |-> u, code |-> e, begin |-> b, count |-> m]
  BY ONLY <1>2, <1>3
<1> DEFINE w == TRUE
<1>3b. d = [d2 EXCEPT !.null = w]
  OBVIOUS
<1> HIDE DEF d, w
<1>4. d = [kind |-> k, name |-> n, args |-> a, types |-> Append(t, PDNode),
           aside |-> y, null |-> w, code |-> e, begin |-> b, count |-> m]
  BY ONLY <1>3a, <1>3b
<1>5. /\ d.kind = c.kind /\ d.args = c.args /\ d.code = c.code
      /\ d.aside = c.aside \o more /\ d.begin = c.begin /\ d.count = c.count
      /\ d.types = Append(c.types, PDNode)
      /\ d = [kind |-> d.kind, name |-> d.name, args |-> d.args, types |-> d.types,
              aside |-> d.aside, null |-> d.null, code |-> d.code, begin |-> d.begin,
              count |-> d.count]
  BY <1>1, <1>4 DEF y
<1>6. IsList(d.types)
  BY <1>5, ListAppend DEF Waiting
<1>7. IsList(c.aside)
  BY DEF Waiting
<1>8. IsList(d.aside) /\ Len(d.aside) = Len(c.aside) + Len(more)
  BY <1>5, <1>7, ListConcat
<1>9. d.aside # <<>> \/ "null" \in met
  <2>1. Len(c.aside) \in Nat /\ Len(more) \in Nat
    BY <1>7, ListLen
  <2>2. more # <<>> => Len(more) # 0
    BY ListEqual, EmptyList
  <2> QED  BY <1>8, <2>1, <2>2, EmptyList
<1>10. Waiting(d, es, met)
  BY <1>5, <1>6, <1>8, <1>9 DEF Waiting
<1>11. d = [c EXCEPT !.types = Append(@, PDNode), !.aside = @ \o more, !.null = TRUE]
  BY DEF d, d1, d2
<1> QED  BY <1>5, <1>10, <1>11

LEMMA ProcArgumentKeeps == ASSUME IInv, InBody, ProcArgument PROVE IInv'
<1> DEFINE more == SubSeq(st.errors, Caller.count + 1, Len(st.errors))
           c1 == [Caller EXCEPT !.types = Append(@, now.type)]
           c2 == [Caller EXCEPT !.types = Append(@, PDNode), !.aside = @ \o more, !.null = TRUE]
           s2 == Stash(st, Caller.count)
<1>1. /\ Waiting(Caller, last.errors, last.met)
      /\ Ready(st, Front(calls), last.errors, last.met)
      /\ IsList(last.errors) /\ Caller.count = Len(last.errors)
  BY CallerWaits DEF ProcArgument, IInv, Waiting
<1>2. /\ now.ok => st.errors = last.errors
      /\ ~now.ok => st.errors # last.errors \/ "null" \in last.met
      /\ IsList(st.errors) /\ StartsWith(st.errors, last.errors)
  BY DEF InBody, Fine, ProcArgument, Ready, IsState
<1>3. CASE now.ok /\ Waits(st, Front(calls), c1, {})
  <2>2. Waiting(c1, last.errors, last.met)
    BY <1>1, TypedWaits
  <2> HIDE DEF c1
  <2> QED  BY <1>1, <1>2, <1>3, <2>2, WaitsKeeps
<1>4. CASE ~(now.ok /\ more = <<>>) /\ Waits(s2, Front(calls), c2, {})
  <2>2. more # <<>> \/ "null" \in last.met
    <3>1. more = <<>> => st.errors = last.errors
      BY <1>1, <1>2, NoneMore
    <3> QED  BY <1>2, <1>4, <3>1
  <2>3. IsList(more)
    <3>1. PICK S : st.errors \in Seq(S)
      BY <1>2, ListsInOneSet
    <3>2. Len(st.errors) \in Nat /\ Len(last.errors) \in Nat
      BY <1>1, <1>2, ListLen
    <3>3. \A i \in Len(last.errors) + 1 .. Len(st.errors) : st.errors[i] \in S
      BY <3>1, <3>2, ElementOfSeq
    <3>4. SubSeq(st.errors, Len(last.errors) + 1, Len(st.errors)) \in Seq(S)
      BY <3>2, <3>3, SubSeqProperties
    <3>5. more \in Seq(S)
      BY <3>4, <1>1
    <3> QED  BY <3>5, SeqIsList
  <2>4. s2 = PopErrors(st, Caller.count)
    BY DEF Stash, PopErrors
  <2> HIDE DEF more, s2
  <2>1. /\ Ready(s2, Front(calls), last.errors, last.met) /\ s2.errors = last.errors
    BY <1>1, <2>4, PopIsEarlier
  <2>7. Waiting(c2, last.errors, last.met)
    BY <1>1, <2>2, <2>3, AsideWaits DEF ProcArgument
  <2> HIDE DEF c2
  <2> QED  BY <1>4, <2>1, <2>7, WaitsKeeps
<1> QED  BY <1>3, <1>4 DEF ProcArgument

LEMMA CoreArgumentKeeps == ASSUME IInv, InBody, CoreArgument PROVE IInv'
<1> DEFINE c == [Caller EXCEPT !.types = Append(@, now.type)]
<1>1. /\ Waiting(Caller, last.errors, last.met)
      /\ Ready(st, Front(calls), last.errors, last.met)
  BY CallerWaits DEF CoreArgument
<1>2. /\ now.ok => st.errors = last.errors
      /\ ~now.ok => st.errors # last.errors \/ "null" \in last.met
  BY DEF InBody, Fine, CoreArgument
<1>3. CASE now.ok /\ Waits(st, Front(calls), c, {})
  <2>2. Waiting(c, last.errors, last.met)
    BY <1>1, TypedWaits
  <2> HIDE DEF c
  <2> QED  BY <1>1, <1>2, <1>3, <2>2, WaitsKeeps
<1>4. CASE ~now.ok /\ No(st, Front(calls), {})
  BY <1>1, <1>2, <1>4, NoKeeps
<1>5. CASE No(Error(st, "IncorrectArgType"), Front(calls), {})
  BY <1>1, <1>5, ErrorKeeps
<1> QED  BY <1>3, <1>4, <1>5 DEF CoreArgument

LEMMA InvokedKeeps == ASSUME IInv, InBody, Invoked PROVE IInv'
<1>1. /\ Waiting(Caller, last.errors, last.met)
      /\ Ready(st, Front(calls), last.errors, last.met)
      /\ IsList(last.errors) /\ Caller.count = Len(last.errors)
  BY CallerWaits DEF Invoked, IInv, Waiting
<1>2. /\ now.ok => st.errors = last.errors
      /\ ~now.ok => st.errors # last.errors \/ "null" \in last.met
      /\ IsList(st.errors) /\ StartsWith(st.errors, last.errors)
  BY DEF InBody, Fine, Invoked, Ready, IsState
<1>3. CASE now.ok /\ Yes(st, Front(calls), now.type)
  BY <1>1, <1>2, <1>3, YesKeeps
<1>4. CASE ~now.ok /\ No(st, Front(calls), {})
  BY <1>1, <1>2, <1>4, NoKeeps
<1>5. CASE No(Error(PopErrors(st, Caller.count), "NotInScope"), Front(calls), {})
  BY <1>1, <1>5, PopIsEarlier, ErrorKeeps
<1>6. CASE ~now.ok /\ Len(st.errors) <= Len(last.errors) /\ Crash({})
  <2>1. Len(st.errors) = Len(last.errors)
    BY <1>1, <1>2, <1>6, ListLen DEF StartsWith
  <2>2. st.errors = last.errors
    BY <1>1, <1>2, <2>1, ListEqual DEF StartsWith
  <2> QED  BY <1>2, <1>6, <2>2, CrashKeeps
<1>7. Len(st.errors) \in Nat /\ Len(last.errors) \in Nat
  BY <1>1, <1>2, ListLen
<1>8. st.errors = <<>> => Len(st.errors) <= Len(last.errors)
  BY <1>7, EmptyList
<1>9. Len(st.errors) - 1 < Caller.count => Len(st.errors) <= Len(last.errors)
  BY <1>1, <1>7
<1> QED  BY <1>3, <1>4, <1>5, <1>6, <1>8, <1>9 DEF Invoked

LEMMA EmitKeeps ==
  ASSUME IInv, InBody, now.step = "next", NEW type, Emit(Caller, type),
         Caller.null => "null" \in last.met
  PROVE  IInv'
<1>1. /\ Ready(st, Front(calls), last.errors, last.met) /\ st.errors = last.errors
  BY CallerWaits DEF InBody, Fine
<1>2. CASE Caller.null
  BY <1>2, CrashKeeps DEF Emit
<1>3. CASE ~Caller.null
  <2> DEFINE e == <<"call", Caller.name>>
             t == [st EXCEPT !.code = Append(@, e)]
  <2>1. Ready(t, Front(calls), last.errors, last.met) /\ t.errors = last.errors
    BY <1>1, CodeReady
  <2>2. Yes(t, Front(calls), type)
    BY <1>3 DEF Emit
  <2> HIDE DEF t
  <2> QED  BY <2>1, <2>2, YesKeeps
<1> QED  BY <1>2, <1>3

(* The errors that were set aside come after those there were.             *)
LEMMA PutBackIsLater ==
  ASSUME NEW s, NEW cs, NEW es, NEW met, Ready(s, cs, es, met), s.errors = es,
         NEW c, IsList(c.aside), c.aside # <<>>
  PROVE  /\ Ready(PutBack(s, c), cs, es, met) /\ PutBack(s, c).errors # es
         /\ PutBack(s, c).code = s.code
<1> DEFINE t == PutBack(s, c)
           y == s.errors \o c.aside
<1>1. IsState(s) /\ IsList(s.errors)
  BY DEF Ready, IsState
<1>2. /\ IsList(y) /\ Len(y) = Len(s.errors) + Len(c.aside)
      /\ \A k \in 1 .. Len(s.errors) : y[k] = s.errors[k]
  BY <1>1, ListConcat
<1>3. Len(s.errors) \in Nat /\ Len(c.aside) \in Nat /\ Len(c.aside) # 0
  BY <1>1, ListLen, ListEqual, EmptyList
<1>4. t = [s EXCEPT !.errors = y]
  BY DEF PutBack
<1> HIDE DEF t, y
<1>5. /\ t.errors = y /\ t.flushed = s.flushed /\ t.code = s.code
      /\ t = [errors |-> t.errors, flushed |-> t.flushed, code |-> t.code, cto |-> t.cto]
  <2>1. PICK e, f, d, o : s = [errors |-> e, flushed |-> f, code |-> d, cto |-> o]
    BY <1>1 DEF IsState
  <2>2. t = [errors |-> y, flushed |-> f, code |-> d, cto |-> o]
    BY <2>1, <1>4
  <2> QED  BY <2>1, <2>2
<1>6. IsState(t)
  BY <1>1, <1>2, <1>5 DEF IsState
<1>7. StartsWith(t.errors, es) /\ t.errors # es
  BY <1>2, <1>3, <1>5 DEF StartsWith
<1> QED  BY <1>5, <1>6, <1>7 DEF Ready, t

LEMMA TriedErrorKeeps ==
  ASSUME IInv, InBody, now.step = "next", NEW kind,
         Tried(Error(st, kind), Front(calls), Caller)
  PROVE  IInv'
<1>1. /\ Ready(st, Front(calls), last.errors, last.met) /\ IsList(last.errors)
      /\ Waiting(Caller, last.errors, last.met)
  BY CallerWaits DEF InBody, IInv
<1>2. /\ Ready(Error(st, kind), Front(calls), last.errors, last.met)
      /\ Error(st, kind).errors # last.errors
  BY <1>1, ErrorIsLater
<1> QED  BY <1>1, <1>2, TriedKeeps

LEMMA CallFunctionKeeps ==
  ASSUME IInv, InBody, now.step = "next", NEW f, CallFunction(Caller, f),
         Caller.null => "null" \in last.met
  PROVE  IInv'
BY TriedErrorKeeps, EmitKeeps DEF CallFunction

LEMMA ProcCallKeeps == ASSUME IInv, InBody, ProcCall PROVE IInv'
<1> DEFINE cs == Front(calls)
           externs == {f \in Fns(Caller.name) : f.kind = "extern_c"}
<1>1. /\ now.step = "next"
      /\ Waiting(Caller, last.errors, last.met) /\ IsList(Caller.aside)
      /\ Ready(st, cs, last.errors, last.met) /\ st.errors = last.errors
  BY CallerWaits DEF ProcCall, Complete, InBody, Fine, Waiting
<1>2. CASE \E f : Expand(RestoreMacro(st, Caller), cs, f, Caller.args)
  <2> DEFINE t == RestoreMacro(st, Caller)
  <2>1. IsState(st) /\ IsList(Caller.code)
    BY <1>1 DEF Ready, Waiting
  <2>2. PICK e, w, c, o : st = [errors |-> e, flushed |-> w, code |-> c, cto |-> o]
    BY <2>1 DEF IsState
  <2>3. t = [errors |-> e, flushed |-> w, code |-> Caller.code, cto |-> o]
    BY <2>2 DEF RestoreMacro
  <2>4. /\ t.errors = st.errors /\ t.flushed = st.flushed /\ t.code = Caller.code
        /\ t = [errors |-> t.errors, flushed |-> t.flushed, code |-> t.code, cto |-> t.cto]
    BY <2>2, <2>3
  <2> HIDE DEF t
  <2>5. Ready(t, cs, last.errors, last.met)
    BY <1>1, <2>1, <2>4 DEF Ready, IsState
  <2>6. \E f : Expand(t, cs, f, Caller.args)
    BY <1>2 DEF t
  <2> QED  BY <1>1, <2>4, <2>5, <2>6, ExpandKeeps
<1>3. CASE Failed(st, Caller) /\ Tried(PutBack(st, Caller), cs, Caller)
  <2>1. Caller.aside # <<>>
    BY <1>3 DEF Failed
  <2> HIDE DEF cs, externs
  <2>2. /\ Ready(PutBack(st, Caller), cs, last.errors, last.met)
        /\ PutBack(st, Caller).errors # last.errors
    <3>1. /\ Ready(st, cs, last.errors, last.met) /\ st.errors = last.errors
          /\ IsList(Caller.aside) /\ Caller.aside # <<>>
      BY <1>1, <2>1
    <3> QED  BY ONLY <3>1, PutBackIsLater
  <2> QED  BY <1>1, <1>3, <2>2, TriedKeeps
<1>4. ASSUME ~Failed(st, Caller) PROVE Caller.null => "null" \in last.met
  BY <1>1, <1>4 DEF Failed, Waiting
<1>5. CASE ~Failed(st, Caller) /\ \E f : CallFunction(Caller, f)
  BY <1>1, <1>4, <1>5, CallFunctionKeeps
<1>6. CASE ~Failed(st, Caller) /\ NotFoundCall(Caller, externs)
  <2>1. CASE \E f : CallExternC(Caller, f)
    <3>1. PICK f : CallExternC(Caller, f)
      BY <2>1
    <3>2. CASE CallFunction(Caller, f)
      BY <1>1, <1>4, <1>6, <3>2, CallFunctionKeeps
    <3>3. CASE Tried(Error(st, "FunctionNotInScope"), cs, Caller)
      BY <1>1, <3>3, TriedErrorKeeps
    <3> QED  BY <3>1, <3>2, <3>3 DEF CallExternC
  <2>2. CASE Yes(st, cs, "void")
    BY <1>1, <2>2, YesKeeps
  <2>3. CASE Tried(Error(st, NotFoundError(Caller.name, Caller.types)), cs, Caller)
    BY <1>1, <2>3, TriedErrorKeeps
  <2> QED  BY <1>6, <2>1, <2>2, <2>3 DEF NotFoundCall
<1> QED  BY <1>2, <1>3, <1>5, <1>6 DEF ProcCall

LEMMA CoreCallKeeps == ASSUME IInv, InBody, CoreCall PROVE IInv'
<1> DEFINE form == IF Caller.kind = "core" THEN CoreForms[Caller.name] ELSE Pointed
<1>1. /\ now.step = "next" /\ Caller.kind \in {"core", "pointer"}
      /\ Waiting(Caller, last.errors, last.met)
      /\ Ready(st, Front(calls), last.errors, last.met)
  BY CallerWaits DEF CoreCall, Complete, InBody
<1>2. CASE No(Error(st, "IncorrectArgType"), Front(calls), {})
  BY <1>1, <1>2, ErrorKeeps
<1>3. CASE Emit(Caller, form.result)
  <2>1. ~Caller.null
    BY <1>1 DEF Waiting
  <2> HIDE DEF form
  <2> QED  BY <1>1, <1>3, <2>1, EmitKeeps
<1> QED  BY <1>2, <1>3 DEF CoreCall

(* Between bodies.                                                         *)
LEMMA EndBodyKeeps == ASSUME IInv, InBody, EndBody PROVE IInv'
<1>1. Ready(st, calls, last.errors, last.met) /\ IsList(last.errors)
  BY DEF InBody, IInv
<1>2. IsState(st) /\ IsList(st.errors) /\ StartsWith(st.errors, last.errors)
  BY <1>1 DEF Ready, IsState
<1>3. Len(st.errors) \in Nat /\ Len(last.errors) \in Nat /\ Len(last.errors) <= Len(st.errors)
  BY <1>1, <1>2, ListLen DEF StartsWith
<1>4. CASE st.flushed > Len(st.errors) /\ Crash({})
  <2>1. st.flushed \in Nat /\ (st.flushed <= Len(last.errors) \/ "include" \in last.met)
    BY <1>1, <1>2 DEF Ready, IsState
  <2>2. "include" \in last.met
    BY <1>3, <1>4, <2>1
  <2> QED  BY <1>4, <2>2, CrashKeeps
<1>5. CASE /\ st' = [st EXCEPT !.code = <<>>, !.cto = FALSE, !.flushed = Len(st.errors)]
           /\ now' = Rest /\ last' = None /\ UNCHANGED <<calls, left>>
  <2> DEFINE w == FALSE
             k == <<>>
  <2>1. PICK e, f, c, o : st = [errors |-> e, flushed |-> f, code |-> c, cto |-> o]
    BY <1>2 DEF IsState
  <2>2. st' = [errors |-> e, flushed |-> Len(e), code |-> k, cto |-> w]
    <3>1. st' = [st EXCEPT !.code = k, !.cto = w, !.flushed = Len(st.errors)]
      BY <1>5
    <3>2. st.errors = e
      BY <2>1
    <3> HIDE DEF w, k
    <3> QED  BY <2>1, <3>1, <3>2
  <2>3. /\ st'.errors = st.errors /\ st'.flushed = Len(st.errors) /\ st'.code = <<>>
        /\ st' = [errors |-> st'.errors, flushed |-> st'.flushed, code |-> st'.code,
                  cto |-> st'.cto]
    <3> HIDE DEF w
    <3> QED  BY <2>1, <2>2
  <2>4. IsState(st') /\ st'.flushed <= Len(st'.errors)
    BY <1>2, <1>3, <2>3, EmptyList DEF IsState
  <2>5. calls = <<>>
    BY DEF EndBody
  <2>6. Resting'
    BY <1>5, <2>4, <2>5 DEF Resting
  <2> QED  BY <1>5, <2>6, EmptyList DEF IInv, None
<1> QED  BY <1>4, <1>5 DEF EndBody

LEMMA ParseBodyKeeps ==
  ASSUME IInv, Resting, NEW form, NEW cto, ParseBody(form, cto) PROVE IInv'
<1>1. /\ IsState(st) /\ IsList(st.errors) /\ st.flushed <= Len(st.errors) /\ calls = <<>>
  BY DEF Resting, IsState
<1>2. PICK e, f, c, o : st = [errors |-> e, flushed |-> f, code |-> c, cto |-> o]
  BY <1>1 DEF IsState
<1>3. st' = [errors |-> e, flushed |-> f, code |-> c, cto |-> cto]
  BY <1>2 DEF ParseBody
<1>4. /\ st'.errors = st.errors /\ st'.flushed = st.flushed /\ st'.code = st.code
      /\ st' = [errors |-> st'.errors, flushed |-> st'.flushed, code |-> st'.code,
                cto |-> st'.cto]
  BY <1>2, <1>3
<1>5. IsState(st')
  BY <1>1, <1>4 DEF IsState
<1>6. /\ last'.errors = st.errors /\ last'.met = {} /\ calls' = <<>> /\ now' = Parsing(form)
      /\ last' = [errors |-> last'.errors, met |-> last'.met]
  BY <1>1 DEF ParseBody
<1>7. StartsWith(st.errors, st.errors)
  BY <1>1, ListLen DEF StartsWith
<1>8. Ready(st', calls', last'.errors, last'.met)
  BY <1>1, <1>4, <1>5, <1>6, <1>7, EmptyList DEF Ready
<1>9. Fine(st', now', last'.errors, last'.met) /\ now'.step # "next"
  BY <1>4, <1>6 DEF Fine, Parsing
<1>10. InBody'
  BY <1>8, <1>9 DEF InBody
<1> QED  BY <1>1, <1>6, <1>10 DEF IInv

LEMMA Initially == Init => IInv
<1> SUFFICES ASSUME Init PROVE IInv
  OBVIOUS
<1>1. IsState(st) /\ st.code = <<>> /\ st.flushed <= Len(st.errors)
  BY EmptyList DEF Init, IsState
<1>2. IsList(last.errors) /\ last = [errors |-> last.errors, met |-> last.met]
  BY EmptyList DEF Init, None
<1> QED  BY <1>1, <1>2 DEF Init, IInv, Resting

LEMMA StepKeeps == IInv /\ [Next]_vars => IInv'
<1> SUFFICES ASSUME IInv, [Next]_vars PROVE IInv'
  OBVIOUS
<1>1. CASE UNCHANGED vars
  BY <1>1 DEF vars, IInv, Resting, InBody
<1>2. CASE Next /\ Resting
  <2>1. now = Rest
    BY <1>2 DEF Resting
  <2>2. now.step = "rest" /\ calls = <<>>
    BY <1>2, <2>1 DEF Rest, Resting
  <2>3. PICK form \in Forms, cto \in BOOLEAN : ParseBody(form, cto)
    BY <1>2, <2>2 DEF Next, ParseNode, NextArgument, ProcArgument, CoreArgument, Invoked,
                      ProcCall, CoreCall, EndBody, Complete
  <2> QED  BY <1>2, <2>3, ParseBodyKeeps
<1>3. CASE Next /\ InBody
  <2>1. now.step # "rest"
    BY <1>3 DEF InBody, Fine
  <2>2. CASE ParseNode
    BY <1>3, <2>2, TokenKeeps, IncludeKeeps, ListNodeKeeps DEF ParseNode
  <2>3. CASE NextArgument
    BY <1>3, <2>3, NextArgumentKeeps
  <2>4. CASE ProcArgument
    BY <1>3, <2>4, ProcArgumentKeeps
  <2>5. CASE CoreArgument
    BY <1>3, <2>5, CoreArgumentKeeps
  <2>6. CASE Invoked
    BY <1>3, <2>6, InvokedKeeps
  <2>7. CASE ProcCall
    BY <1>3, <2>7, ProcCallKeeps
  <2>8. CASE CoreCall
    BY <1>3, <2>8, CoreCallKeeps
  <2>9. CASE EndBody
    BY <1>3, <2>9, EndBodyKeeps
  <2> QED  BY <1>3, <2>1, <2>2, <2>3, <2>4, <2>5, <2>6, <2>7, <2>8, <2>9 DEF Next
<1> QED  BY <1>1, <1>2, <1>3 DEF IInv

(* The invariant of the errors: whatever is set aside, put back, popped or *)
(* written out, a form is only begun with the errors there were before the *)
(* body, and leaves them as they were unless it fails.                     *)
THEOREM ErrorsKept == Spec => []IInv
<1>1. Init => IInv
  BY Initially
<1>2. IInv /\ [Next]_vars => IInv'
  BY StepKeeps
<1> QED  BY <1>1, <1>2, PTL DEF Spec

LEMMA StartIsPrefix ==
  ASSUME NEW s, NEW old, IsList(s), IsList(old), StartsWith(s, old)
  PROVE  IsPrefix(old, s)
<1> DEFINE start == SubSeq(s, 1, Len(old))
<1>1. Len(old) \in Nat /\ Len(old) <= Len(s)
  BY ListLen DEF StartsWith
<1>2. IsList(start) /\ Len(start) = Len(old) /\ \A k \in 1 .. Len(old) : start[k] = s[k]
  BY <1>1, ListPrefix
<1>3. \A k \in 1 .. Len(old) : start[k] = old[k]
  BY <1>2 DEF StartsWith
<1>4. start = old
  <2> HIDE DEF start
  <2> QED  BY <1>2, <1>3, ListEqual
<1> QED  BY <1>1, <1>4 DEF IsPrefix

LEMMA InvKeepsEarlier == IInv => EarlierKept
<1> SUFFICES ASSUME IInv PROVE EarlierKept
  OBVIOUS
<1>1. CASE Resting
  <2>1. last.errors = <<>> /\ IsList(st.errors) /\ Len(st.errors) \in Nat
    BY <1>1, ListLen DEF Resting, None, IsState
  <2>2. StartsWith(st.errors, last.errors)
    BY <2>1, EmptyList DEF StartsWith
  <2> QED  BY <2>1, <2>2, EmptyList, StartIsPrefix DEF EarlierKept
<1>2. CASE InBody
  <2>1. IsList(last.errors) /\ IsList(st.errors) /\ StartsWith(st.errors, last.errors)
    BY <1>2 DEF IInv, InBody, Ready, IsState
  <2> QED  BY <2>1, StartIsPrefix DEF EarlierKept
<1> QED  BY <1>1, <1>2 DEF IInv

(* The errors of earlier forms stay, whatever is set aside and popped.     *)
THEOREM EarlierErrorsKept == Spec => []EarlierKept
BY ErrorsKept, InvKeepsEarlier, PTL

(* A form leaves an error exactly if it fails, macros that return nothing  *)
(* aside.                                                                  *)
THEOREM FailuresReported == Spec => []FailureReported
<1>1. IInv => FailureReported
  BY DEF IInv, Resting, Rest, InBody, Fine, FailureReported, Met
<1> QED  BY <1>1, ErrorsKept, PTL

(* Only an included file that is broken, or a macro that returns nothing,  *)
(* stops the compiler.                                                     *)
THEOREM CompilerGoesOn == Spec => []GoesOn
<1>1. IInv => GoesOn
  <2> SUFFICES ASSUME IInv PROVE GoesOn
    OBVIOUS
  <2>1. CASE Resting
    BY <2>1 DEF Resting, Rest, GoesOn, Met
  <2>2. CASE InBody
    <3>1. /\ IsState(st) /\ IsList(last.errors) /\ StartsWith(st.errors, last.errors)
          /\ st.flushed <= Len(last.errors) \/ "include" \in last.met
      BY <2>2 DEF IInv, InBody, Ready
    <3>2. st.flushed <= Len(st.errors) \/ "include" \in last.met
      BY <3>1, ListLen DEF IsState, StartsWith
    <3>3. now.step = "crashed" => "include" \in last.met \/ "null" \in last.met
      BY <2>2 DEF InBody, Fine
    <3> QED  BY <3>2, <3>3 DEF GoesOn, Met
  <2> QED  BY <2>1, <2>2 DEF IInv
<1> QED  BY <1>1, ErrorsKept, PTL

-----------------------------------------------------------------------------
(***************************************************************************)
(* The invariant about the order of values.                                *)
(***************************************************************************)
Valued(args) == ValuesOf(args, ValuesIn)
InTurn(args) == InOrder(args, AllForms, ValuesIn)

Values(code) == {code[k][2] : k \in {j \in 1 .. Len(code) : code[j][1] = "value"}}
Sorted(code) ==
  \A j, k \in 1 .. Len(code) :
    j < k /\ code[j][1] = "value" /\ code[k][1] = "value" => code[j][2] < code[k][2]

(* What can have been evaluated when the next argument of a call is begun, *)
(* and what parsing that argument can add.                                 *)
Evaluated(c) == Values(c.code) \cup UNION {ValuesIn[c.args[k]] : k \in 1 .. Len(c.types)}
Lacks(c) == c.kind = "invoke" \/ Len(c.types) < Len(c.args)
Added(c) == IF c.kind = "invoke" THEN Valued(c.args)
            ELSE ValuesIn[c.args[Len(c.types) + 1]]

(* Something that has values more to evaluate, inside a call.              *)
Within(code, more, c) ==
  Lacks(c) /\ Values(code) \subseteq Evaluated(c) /\ more \subseteq Added(c)
Under(code, more, cs) == cs # <<>> => Within(code, more, Last(cs))

(* A call whose save point comes before its arguments, and calls that are  *)
(* nested.                                                                 *)
Frame(c) == /\ Sorted(c.code) /\ InTurn(c.args) /\ Len(c.types) <= Len(c.args)
            /\ Before(Values(c.code), Valued(c.args))
Nested(cs) ==
  \A i \in 1 .. Len(cs) :
    Frame(cs[i]) /\ (i # 1 => Within(cs[i].code, Valued(cs[i].args), cs[i - 1]))

(* Something with these values may be begun; it has ended.                 *)
MayBegin(code, more, cs) ==
  Sorted(code) /\ Nested(cs) /\ Before(Values(code), more) /\ Under(code, more, cs)
Ended(code, cs) ==
  /\ Sorted(code) /\ Nested(cs)
  /\ cs # <<>> => /\ Lacks(Last(cs))
                  /\ Values(code) \subseteq Evaluated(Last(cs)) \cup Added(Last(cs))

Ordered(s, cs, n) ==
  /\ n.step = "parse" => n.form \in AllForms /\ MayBegin(s.code, ValuesIn[n.form], cs)
  /\ n.step = "next" => /\ Sorted(s.code) /\ Nested(cs)
                        /\ cs # <<>> /\ Last(cs).kind # "invoke"
                        /\ Values(s.code) \subseteq Evaluated(Last(cs))
  /\ n.step = "return" => Ended(s.code, cs)
  /\ n.step = "crashed" => Sorted(s.code)
OInv == now.step # "rest" /\ ~Met("again") => Ordered(st, calls, now)

(***************************************************************************)
(* Code and calls.                                                         *)
(***************************************************************************)
LEMMA AppendValue ==
  ASSUME NEW code, IsList(code), NEW n, Sorted(code), Before(Values(code), {n})
  PROVE  LET more == Append(code, <<"value", n>>)
         IN  Sorted(more) /\ Values(more) \subseteq Values(code) \cup {n}
<1> DEFINE e == <<"value", n>>
           more == Append(code, e)
<1>1. /\ Len(code) \in Nat /\ Len(more) = Len(code) + 1
      /\ \A k \in 1 .. Len(code) : more[k] = code[k]
      /\ more[Len(code) + 1] = e
  BY ListLen, ListAppend
<1>2. e[1] = "value" /\ e[2] = n
  OBVIOUS
<1> HIDE DEF more, e
<1>3. \A k \in 1 .. Len(more) : k \in 1 .. Len(code) \/ k = Len(code) + 1
  BY <1>1
<1>4. \A k \in 1 .. Len(code) : code[k][1] = "value" => code[k][2] < n
  BY DEF Before, Values
<1>5. Sorted(more)
  <2> SUFFICES ASSUME NEW j \in 1 .. Len(more), NEW k \in 1 .. Len(more), j < k,
                      more[j][1] = "value", more[k][1] = "value"
               PROVE  more[j][2] < more[k][2]
    BY DEF Sorted
  <2>1. j \in 1 .. Len(code)
    BY <1>1
  <2>2. CASE k \in 1 .. Len(code)
    BY <1>1, <2>1, <2>2 DEF Sorted
  <2>3. CASE k = Len(code) + 1
    BY <1>1, <1>2, <1>4, <2>1, <2>3
  <2> QED  BY <1>3, <2>2, <2>3
<1>6. Values(more) \subseteq Values(code) \cup {n}
  <2> SUFFICES ASSUME NEW k \in 1 .. Len(more), more[k][1] = "value"
               PROVE  more[k][2] \in Values(code) \cup {n}
    BY DEF Values
  <2>1. CASE k \in 1 .. Len(code)
    BY <1>1, <2>1 DEF Values
  <2>2. CASE k = Len(code) + 1
    BY <1>1, <1>2, <2>2
  <2> QED  BY <1>3, <2>1, <2>2
<1> QED  BY <1>5, <1>6 DEF more, e

LEMMA AppendCall ==
  ASSUME NEW code, IsList(code), NEW n, Sorted(code)
  PROVE  LET more == Append(code, <<"call", n>>)
         IN  Sorted(more) /\ Values(more) \subseteq Values(code)
<1> DEFINE e == <<"call", n>>
           more == Append(code, e)
<1>1. /\ Len(code) \in Nat /\ Len(more) = Len(code) + 1
      /\ \A k \in 1 .. Len(code) : more[k] = code[k]
      /\ more[Len(code) + 1] = e
  BY ListLen, ListAppend
<1>2. e[1] # "value"
  OBVIOUS
<1> HIDE DEF more, e
<1>3. \A k \in 1 .. Len(more) : k \in 1 .. Len(code) \/ k = Len(code) + 1
  BY <1>1
<1>4. \A k \in 1 .. Len(more) : more[k][1] = "value" => k \in 1 .. Len(code)
  BY <1>1, <1>2, <1>3
<1>5. Sorted(more)
  BY <1>1, <1>4 DEF Sorted
<1>6. Values(more) \subseteq Values(code)
  BY <1>1, <1>4 DEF Values
<1> QED  BY <1>5, <1>6 DEF more, e

LEMMA PushNested ==
  ASSUME NEW cs, NEW c, IsList(cs), Nested(cs), Frame(c), Under(c.code, Valued(c.args), cs)
  PROVE  /\ Nested(Append(cs, c)) /\ Append(cs, c) # <<>> /\ Last(Append(cs, c)) = c
<1> DEFINE more == Append(cs, c)
<1>1. /\ Len(cs) \in Nat /\ IsList(more) /\ Len(more) = Len(cs) + 1
      /\ \A k \in 1 .. Len(cs) : more[k] = cs[k]
      /\ more[Len(cs) + 1] = c
  BY ListLen, ListAppend
<1> HIDE DEF more
<1>2. more # <<>> /\ Last(more) = c
  <2>1. more # <<>>
    BY <1>1, EmptyList
  <2>2. Last(more) = more[Len(more)]
    BY <1>1, <2>1, ListFront
  <2> QED  BY <1>1, <2>1, <2>2
<1>3. ASSUME NEW i \in 1 .. Len(more)
      PROVE  Frame(more[i]) /\ (i # 1 => Within(more[i].code, Valued(more[i].args), more[i - 1]))
  <2>1. CASE i \in 1 .. Len(cs)
    <3>1. more[i] = cs[i] /\ (i # 1 => i - 1 \in 1 .. Len(cs))
      BY <1>1, <2>1
    <3> QED  BY <1>1, <2>1, <3>1 DEF Nested
  <2>2. CASE i = Len(cs) + 1
    <3>1. ASSUME i # 1 PROVE more[i - 1] = Last(cs) /\ cs # <<>>
      <4>1. i - 1 = Len(cs) /\ Len(cs) \in 1 .. Len(cs)
        BY <1>1, <2>2, <3>1
      <4>2. cs # <<>>
        BY <4>1, EmptyList
      <4> QED  BY <1>1, <4>1, <4>2, ListFront
    <3>2. more[i] = c
      BY <1>1, <2>2
    <3> QED  BY <3>1, <3>2 DEF Under
  <2> QED  BY <1>1, <2>1, <2>2
<1> QED  BY <1>2, <1>3 DEF Nested, more

LEMMA PopNested ==
  ASSUME NEW cs, IsList(cs), cs # <<>>, Nested(cs)
  PROVE  /\ Nested(Front(cs)) /\ Frame(Last(cs))
         /\ Under(Last(cs).code, Valued(Last(cs).args), Front(cs))
<1> DEFINE less == Front(cs)
<1>1. /\ Len(cs) \in Nat \ {0} /\ Last(cs) = cs[Len(cs)]
      /\ IsList(less) /\ Len(less) = Len(cs) - 1
      /\ \A k \in 1 .. Len(cs) - 1 : less[k] = cs[k]
  BY ListFront
<1> HIDE DEF less
<1>2. Nested(less)
  <2> SUFFICES ASSUME NEW i \in 1 .. Len(less)
               PROVE  /\ Frame(less[i])
                      /\ i # 1 => Within(less[i].code, Valued(less[i].args), less[i - 1])
    BY DEF Nested
  <2>1. i \in 1 .. Len(cs) /\ less[i] = cs[i] /\ (i # 1 => less[i - 1] = cs[i - 1])
    BY <1>1
  <2> QED  BY <2>1 DEF Nested
<1>3. Frame(Last(cs))
  BY <1>1 DEF Nested
<1>4. ASSUME less # <<>> PROVE Within(Last(cs).code, Valued(Last(cs).args), Last(less))
  <2>1. Len(less) # 0 /\ Last(less) = less[Len(less)]
    BY <1>1, <1>4, ListFront
  <2>2. Len(cs) # 1 /\ Len(cs) \in 1 .. Len(cs) /\ Last(less) = cs[Len(cs) - 1]
    BY <1>1, <2>1
  <2> QED  BY <1>1, <2>2 DEF Nested
<1> QED  BY <1>2, <1>3, <1>4 DEF Under, less

(* What a call's arguments have evaluated and add is among their values.   *)
LEMMA CallValues ==
  ASSUME NEW c, Frame(c), IsList(c.types)
  PROVE  /\ Evaluated(c) \subseteq Values(c.code) \cup Valued(c.args)
         /\ Lacks(c) => Added(c) \subseteq Valued(c.args)
<1>1. Len(c.types) \in Nat /\ Len(c.types) <= Len(c.args) /\ Len(c.args) \in Nat
  <2>1. c.args \in Seq(AllForms)
    BY DEF Frame, InTurn, InOrder
  <2> QED  BY <2>1, ListLen, LenProperties DEF Frame
<1>2. \A k \in 1 .. Len(c.args) : ValuesIn[c.args[k]] \subseteq Valued(c.args)
  BY DEF Valued, ValuesOf
<1>3. 1 .. Len(c.types) \subseteq 1 .. Len(c.args)
  BY <1>1
<1>4. Evaluated(c) \subseteq Values(c.code) \cup Valued(c.args)
  BY <1>2, <1>3 DEF Evaluated
<1>5. ASSUME Lacks(c), c.kind # "invoke" PROVE Len(c.types) + 1 \in 1 .. Len(c.args)
  BY <1>1, <1>5 DEF Lacks
<1>6. Lacks(c) => Added(c) \subseteq Valued(c.args)
  BY <1>2, <1>5 DEF Added
<1> QED  BY <1>4, <1>6

(* When a call has ended, so has what it was an argument of, but for the   *)
(* other arguments.                                                        *)
LEMMA EndedBelow ==
  ASSUME NEW cs, NEW c, Frame(c), Under(c.code, Valued(c.args), cs), Nested(cs),
         NEW code, Sorted(code), Values(code) \subseteq Values(c.code) \cup Valued(c.args)
  PROVE  Ended(code, cs)
BY DEF Ended, Under, Within

LEMMA BegunIsEnded ==
  ASSUME NEW code, NEW more, NEW cs, MayBegin(code, more, cs) PROVE Ended(code, cs)
BY DEF MayBegin, Ended, Under, Within

LEMMA MayBeginLess ==
  ASSUME NEW code, NEW more, NEW less, NEW cs, MayBegin(code, more, cs), less \subseteq more
  PROVE  MayBegin(code, less, cs)
BY DEF MayBegin, Under, Within, Before

LEMMA NewCall ==
  ASSUME NEW s, NEW kind, NEW name, NEW args, NEW cs, InTurn(args),
         MayBegin(s.code, Valued(args), cs)
  PROVE  LET c == Call(s, kind, name, args)
         IN  /\ Frame(c) /\ Under(c.code, Valued(c.args), cs)
             /\ Evaluated(c) = Values(s.code) /\ c.kind = kind /\ c.args = args
<1> DEFINE c == Call(s, kind, name, args)
<1>1. c.code = s.code /\ c.args = args /\ c.types = <<>> /\ c.kind = kind
  BY DEF Call
<1> HIDE DEF c
<1>2. Len(c.types) = 0 /\ Len(c.args) \in Nat
  BY <1>1, EmptyList, LenProperties DEF InTurn, InOrder
<1>3. Frame(c)
  BY <1>1, <1>2 DEF Frame, MayBegin
<1>4. Under(c.code, Valued(c.args), cs)
  BY <1>1 DEF MayBegin
<1>5. Evaluated(c) = Values(s.code)
  BY <1>1, <1>2 DEF Evaluated
<1> QED  BY <1>1, <1>3, <1>4, <1>5 DEF c

(***************************************************************************)
(* Steps.                                                                  *)
(***************************************************************************)
LEMMA GoesOrder ==
  ASSUME NEW s, NEW cs, NEW n, NEW met, Goes(s, cs, n, met), Ordered(s, cs, n)
  PROVE  OInv'
BY DEF Goes, OInv

LEMMA GoesAgain ==
  ASSUME IInv, NEW s, NEW cs, NEW n, NEW met, Goes(s, cs, n, met),
         "again" \in last.met \cup met
  PROVE  OInv'
<1>1. last' = [last EXCEPT !.met = @ \cup met]
  BY DEF Goes
<1>2. last = [errors |-> last.errors, met |-> last.met]
  BY DEF IInv
<1>3. last'.met = last.met \cup met
  BY <1>1, <1>2
<1> QED  BY <1>3 DEF OInv, Met

LEMMA YesOrder ==
  ASSUME NEW s, NEW cs, NEW type, Yes(s, cs, type), Ended(s.code, cs) PROVE OInv'
<1> DEFINE n == [step |-> "return", ok |-> TRUE, type |-> type]
<1>1. Goes(s, cs, n, {})
  BY DEF Yes
<1>2. n.step = "return"
  OBVIOUS
<1> HIDE DEF n
<1>3. Ordered(s, cs, n)
  BY <1>2 DEF Ordered
<1> QED  BY <1>1, <1>3, GoesOrder

LEMMA NoOrder ==
  ASSUME NEW s, NEW cs, NEW met, No(s, cs, met), Ended(s.code, cs) PROVE OInv'
<1> DEFINE n == [step |-> "return", ok |-> FALSE, type |-> "none"]
<1>1. Goes(s, cs, n, met)
  BY DEF No
<1>2. n.step = "return"
  OBVIOUS
<1> HIDE DEF n
<1>3. Ordered(s, cs, n)
  BY <1>2 DEF Ordered
<1> QED  BY <1>1, <1>3, GoesOrder

LEMMA ErrorOrder ==
  ASSUME IInv, NEW s, NEW kind, NEW cs, NEW met, Ready(s, cs, last.errors, last.met),
         No(Error(s, kind), cs, met), Ended(s.code, cs)
  PROVE  OInv'
<1>1. Error(s, kind).code = s.code
  BY ErrorIsLater DEF IInv
<1> QED  BY <1>1, NoOrder

LEMMA CrashOrder == ASSUME NEW met, Crash(met), Sorted(st.code) PROVE OInv'
<1> DEFINE n == [step |-> "crashed"]
<1>1. Goes(st, calls, n, met)
  BY DEF Crash
<1>2. n.step = "crashed"
  OBVIOUS
<1> HIDE DEF n
<1>3. Ordered(st, calls, n)
  BY <1>2 DEF Ordered
<1> QED  BY <1>1, <1>3, GoesOrder

LEMMA ParsingOrder ==
  ASSUME NEW s, NEW cs, NEW form \in AllForms, NEW met, Goes(s, cs, Parsing(form), met),
         MayBegin(s.code, ValuesIn[form], cs)
  PROVE  OInv'
<1> DEFINE n == Parsing(form)
<1>1. Goes(s, cs, n, met)
  OBVIOUS
<1>2. n.step = "parse" /\ n.form = form
  BY DEF Parsing
<1> HIDE DEF n
<1>3. Ordered(s, cs, n)
  BY <1>2 DEF Ordered
<1> QED  BY <1>1, <1>3, GoesOrder

LEMMA WaitsOrder ==
  ASSUME NEW s, NEW cs, NEW c, NEW met, Waits(s, cs, c, met), IsList(cs), Nested(cs),
         Frame(c), Under(c.code, Valued(c.args), cs), c.kind # "invoke",
         Sorted(s.code), Values(s.code) \subseteq Evaluated(c)
  PROVE  OInv'
<1> DEFINE n == Argument
           more == Append(cs, c)
<1>1. Goes(s, more, n, met)
  BY DEF Waits
<1>2. n.step = "next"
  BY DEF Argument
<1>3. Nested(more) /\ more # <<>> /\ Last(more) = c
  BY PushNested
<1> HIDE DEF n, more
<1>4. Ordered(s, more, n)
  BY <1>2, <1>3 DEF Ordered
<1> QED  BY <1>1, <1>4, GoesOrder

LEMMA NewCallOrder ==
  ASSUME NEW s, NEW cs, NEW kind, NEW name, NEW args, NEW met, kind # "invoke",
         Waits(s, cs, Call(s, kind, name, args), met), IsList(cs),
         InTurn(args), MayBegin(s.code, Valued(args), cs)
  PROVE  OInv'
<1> DEFINE c == Call(s, kind, name, args)
<1>1. /\ Frame(c) /\ Under(c.code, Valued(c.args), cs)
      /\ Evaluated(c) = Values(s.code) /\ c.kind = kind
  BY NewCall
<1>2. Waits(s, cs, c, met)
  OBVIOUS
<1> HIDE DEF c
<1> QED  BY <1>1, <1>2, WaitsOrder DEF MayBegin

LEMMA CallWithOrder ==
  ASSUME IInv, NEW s, NEW cs, NEW kind, NEW name, NEW args, NEW params, NEW met,
         Ready(s, cs, last.errors, last.met), kind # "invoke",
         CallWith(s, cs, kind, name, args, params, met),
         InTurn(args), MayBegin(s.code, Valued(args), cs)
  PROVE  OInv'
<1>1. CASE No(Error(s, "IncorrectNumberOfArgs"), cs, met)
  BY <1>1, ErrorOrder, BegunIsEnded
<1>2. CASE Waits(s, cs, Call(s, kind, name, args), met)
  BY <1>2, NewCallOrder DEF Ready
<1> QED  BY <1>1, <1>2 DEF CallWith

LEMMA CallWithAgain ==
  ASSUME IInv, NEW s, NEW cs, NEW kind, NEW name, NEW args, NEW params,
         CallWith(s, cs, kind, name, args, params, {"again"})
  PROVE  OInv'
BY GoesAgain DEF CallWith, No, Waits

LEMMA VariableCallOrder ==
  ASSUME IInv, NEW s, NEW cs, NEW name, NEW args, Ready(s, cs, last.errors, last.met),
         VariableCall(s, cs, name, args),
         InTurn(args), MayBegin(s.code, Valued(args), cs),
         name \in DOMAIN Variables =>
           /\ Invoke(name, args) \in AllForms
           /\ ValuesIn[Invoke(name, args)] \subseteq Valued(args)
  PROVE  OInv'
<1>1. CASE No(Error(s, "NotInScope"), cs, {})
  BY <1>1, ErrorOrder, BegunIsEnded
<1>2. CASE CallWith(s, cs, "pointer", name, args, Pointed.params, {})
  BY <1>2, CallWithOrder
<1>3. CASE /\ name \in DOMAIN Variables
           /\ Goes(s, Append(cs, Call(s, "invoke", name, args)), Parsing(Invoke(name, args)), {})
  <2> DEFINE c == Call(s, "invoke", name, args)
             more == Append(cs, c)
             form == Invoke(name, args)
  <2>1. /\ Frame(c) /\ Under(c.code, Valued(c.args), cs)
        /\ Evaluated(c) = Values(s.code) /\ c.kind = "invoke" /\ c.args = args
    BY NewCall
  <2>2. Goes(s, more, Parsing(form), {}) /\ form \in AllForms
        /\ ValuesIn[form] \subseteq Valued(args)
    BY <1>3
  <2> HIDE DEF c, form
  <2>3. Nested(more) /\ more # <<>> /\ Last(more) = c
    BY <2>1, PushNested DEF MayBegin, Ready
  <2> HIDE DEF more
  <2>4. Within(s.code, ValuesIn[form], c)
    BY <2>1, <2>2 DEF Within, Lacks, Added
  <2>5. Sorted(s.code) /\ Before(Values(s.code), ValuesIn[form])
    BY <2>2 DEF MayBegin, Before
  <2>6. MayBegin(s.code, ValuesIn[form], more)
    BY <2>3, <2>4, <2>5 DEF MayBegin, Under
  <2> QED  BY <2>2, <2>6, ParsingOrder
<1> QED  BY <1>1, <1>2, <1>3 DEF VariableCall

LEMMA NotProcOrder ==
  ASSUME IInv, NEW s, NEW cs, NEW name, NEW args, NEW tried \in BOOLEAN,
         Ready(s, cs, last.errors, last.met), NotProc(s, cs, name, args, tried),
         Ended(s.code, cs),
         ~tried => /\ InTurn(args) /\ MayBegin(s.code, Valued(args), cs)
                   /\ name \in DOMAIN Variables =>
                        /\ Invoke(name, args) \in AllForms
                        /\ ValuesIn[Invoke(name, args)] \subseteq Valued(args)
  PROVE  OInv'
<1>1. CASE name \in DOMAIN CoreForms /\ tried
  <2> DEFINE params == CoreForms[name].params
  <2>1. CallWith(s, cs, "core", name, args, params, {"again"})
    BY <1>1 DEF NotProc
  <2> HIDE DEF params
  <2> QED  BY <2>1, CallWithAgain
<1>2. CASE name \in DOMAIN CoreForms /\ ~tried
  <2> DEFINE params == CoreForms[name].params
             met == {}
  <2>1. CallWith(s, cs, "core", name, args, params, met)
    BY <1>2 DEF NotProc
  <2> HIDE DEF params, met
  <2> QED  BY <1>2, <2>1, CallWithOrder
<1>3. CASE name \notin DOMAIN CoreForms /\ Yes(s, cs, "void")
  BY <1>3, YesOrder
<1>4. CASE No(Error(s, NotFound), cs, {})
  BY <1>4, ErrorOrder
<1>5. CASE ~tried /\ VariableCall(s, cs, name, args)
  BY <1>5, VariableCallOrder
<1> QED  BY <1>1, <1>2, <1>3, <1>4, <1>5 DEF NotProc

LEMMA TriedOrder ==
  ASSUME IInv, NEW s, NEW cs, NEW c, Ready(s, cs, last.errors, last.met),
         Waiting(c, last.errors, last.met), Tried(s, cs, c), Ended(s.code, cs)
  PROVE  OInv'
<1>1. CASE No(s, cs, {})
  BY <1>1, NoOrder
<1>2. CASE /\ Len(s.errors) = c.begin + 1
           /\ NotProc(PopErrors(s, Len(s.errors) - 1), cs, c.name, c.args, TRUE)
  <2>1. IsList(last.errors) /\ c.begin = Len(last.errors)
    BY DEF IInv, Waiting
  <2> DEFINE count == Len(s.errors) - 1
             tried == TRUE
  <2>2. count = Len(last.errors)
    BY <1>2, <2>1, ListLen
  <2>3. NotProc(PopErrors(s, count), cs, c.name, c.args, tried) /\ tried \in BOOLEAN /\ tried
    BY <1>2
  <2> HIDE DEF count, tried
  <2>4. /\ Ready(PopErrors(s, count), cs, last.errors, last.met)
        /\ PopErrors(s, count).code = s.code
    <3>1. Ready(s, cs, last.errors, last.met) /\ IsList(last.errors) /\ count = Len(last.errors)
      BY <2>1, <2>2
    <3> QED  BY ONLY <3>1, PopIsEarlier
  <2> QED  BY <2>3, <2>4, NotProcOrder
<1> QED  BY <1>1, <1>2 DEF Tried

LEMMA ExpandOrder ==
  ASSUME Numbered(AllForms, ValuesIn), IInv, NEW s, NEW cs, NEW name,
         NEW f \in ProcsOf(name), f.kind = "macro", NEW args, InTurn(args),
         Ready(s, cs, last.errors, last.met), Expand(s, cs, f, args),
         MayBegin(s.code, Valued(args), cs)
  PROVE  OInv'
<1>1. Ended(s.code, cs)
  BY BegunIsEnded
<1>2. \A kind : No(Error(Error(s, kind), "MacroExpansionError"), cs, {}) => OInv'
  <2>1. IsList(last.errors)
    BY DEF IInv
  <2>2. \A kind : Ready(Error(s, kind), cs, last.errors, last.met)
                  /\ Error(s, kind).code = s.code
    BY <2>1, ErrorIsLater
  <2> QED  BY <1>1, <2>2, ErrorOrder
<1>3. No(s, cs, {"null"}) => OInv'
  BY <1>1, NoOrder
<1>4. IF f.expansion.kind = "first" THEN Len(f.params) > 0
      ELSE f.expansion.kind \notin {"report", "null"} =>
             f.expansion \in AllForms /\ ValuesIn[f.expansion] = {}
  BY DEF Numbered, ProcsOf
<1>5. CASE /\ f.expansion.kind = "first" /\ Len(args) = Len(f.params)
           /\ Goes(s, cs, Parsing(args[1]), {})
  <2>1. Len(args) \in Nat /\ 1 \in 1 .. Len(args)
    BY <1>4, <1>5, LenProperties DEF InTurn, InOrder
  <2>2. args[1] \in AllForms
    BY <2>1, ElementOfSeq DEF InTurn, InOrder
  <2>3. ValuesIn[args[1]] \subseteq Valued(args)
    BY <2>1 DEF Valued, ValuesOf
  <2>4. MayBegin(s.code, ValuesIn[args[1]], cs)
    BY <2>3, MayBeginLess
  <2> QED  BY <1>5, <2>2, <2>4, ParsingOrder
<1>6. CASE /\ f.expansion.kind \notin {"first", "report", "null"}
           /\ Goes(s, cs, Parsing(f.expansion), {})
  <2>1. f.expansion \in AllForms /\ ValuesIn[f.expansion] \subseteq Valued(args)
    BY <1>4, <1>6
  <2>2. MayBegin(s.code, ValuesIn[f.expansion], cs)
    BY <2>1, MayBeginLess
  <2> QED  BY <1>6, <2>1, <2>2, ParsingOrder
<1> QED  BY <1>2, <1>3, <1>5, <1>6 DEF Expand

LEMMA TokenOrder ==
  ASSUME Numbered(AllForms, ValuesIn), IInv, InBody, NEW form \in AllForms, Token(form),
         MayBegin(st.code, ValuesIn[form], calls)
  PROVE  OInv'
<1>1. Ready(st, calls, last.errors, last.met) /\ IsList(st.code)
  BY DEF InBody, Ready, IsState
<1>2. Ended(st.code, calls)
  BY BegunIsEnded
<1>3. CASE /\ form.kind = "value"
           /\ Yes([st EXCEPT !.code = Append(@, <<"value", form.n>>)], calls, form.type)
  <2> DEFINE e == <<"value", form.n>>
             more == Append(st.code, e)
             t == [st EXCEPT !.code = Append(@, e)]
  <2>1. form.n \in ValuesIn[form]
    BY <1>3 DEF Numbered
  <2>2. Sorted(st.code) /\ Before(Values(st.code), {form.n})
    BY <2>1 DEF MayBegin, Before
  <2>3. Sorted(more) /\ Values(more) \subseteq Values(st.code) \cup {form.n}
    BY <1>1, <2>2, AppendValue
  <2>4. t.code = more /\ Yes(t, calls, form.type)
    BY <1>1, <1>3, CodeReady
  <2> HIDE DEF more, t
  <2>5. Ended(more, calls)
    BY <2>1, <2>3 DEF Ended, MayBegin, Under, Within
  <2> QED  BY <2>4, <2>5, YesOrder
<1>4. CASE Yes(st, calls, form.type)
  BY <1>2, <1>4, YesOrder
<1>5. CASE No(Error(st, "VariableNotInScope"), calls, {})
  BY <1>1, <1>2, <1>5, ErrorOrder
<1> QED  BY <1>3, <1>4, <1>5 DEF Token

LEMMA IncludeOrder ==
  ASSUME IInv, InBody, NEW form, Include(form), Ended(st.code, calls)
  PROVE  OInv'
<1> DEFINE s == Error(st, "MissingRightParen")
           t == [s EXCEPT !.flushed = Len(s.errors)]
<1>1. IsList(last.errors) /\ Ready(st, calls, last.errors, last.met)
  BY DEF InBody, IInv
<1>2. Ready(s, calls, last.errors, last.met) /\ s.code = st.code
  BY <1>1, ErrorIsLater
<1>3. CASE Crash({"include"})
  BY <1>3, CrashOrder DEF Ended
<1>4. CASE No(t, calls, {"include"})
  <2> HIDE DEF s
  <2>1. PICK er, f, c, o : s = [errors |-> er, flushed |-> f, code |-> c, cto |-> o]
    BY <1>2 DEF Ready, IsState
  <2>2. t.code = s.code
    BY <2>1
  <2> HIDE DEF t
  <2> QED  BY <1>2, <1>4, <2>2, NoOrder
<1> QED  BY <1>3, <1>4 DEF Include

LEMMA ListNodeOrder ==
  ASSUME Numbered(AllForms, ValuesIn), IInv, InBody, NEW form \in AllForms, ListNode(form),
         MayBegin(st.code, ValuesIn[form], calls)
  PROVE  OInv'
<1>1. Ready(st, calls, last.errors, last.met) /\ IsList(calls)
  BY DEF InBody, Ready
<1>2. /\ InTurn(form.args) /\ Valued(form.args) \subseteq ValuesIn[form]
      /\ form.head \in DOMAIN Variables =>
           /\ Invoke(form.head, form.args) \in AllForms
           /\ ValuesIn[Invoke(form.head, form.args)] \subseteq Valued(form.args)
  BY DEF Numbered, ListNode, InTurn, Valued
<1>3. MayBegin(st.code, Valued(form.args), calls)
  BY <1>2, MayBeginLess
<1>4. CASE NotProc(st, calls, form.head, form.args, FALSE)
  <2> DEFINE tried == FALSE
  <2>1. NotProc(st, calls, form.head, form.args, tried) /\ tried \in BOOLEAN /\ ~tried
    BY <1>4
  <2> HIDE DEF tried
  <2> QED  BY <1>1, <1>2, <1>3, <2>1, NotProcOrder, BegunIsEnded
<1>5. CASE \E f \in UnoverloadedMacro(form.head, form.args) : Expand(st, calls, f, form.args)
  BY <1>1, <1>2, <1>3, <1>5, ExpandOrder DEF UnoverloadedMacro
<1>6. CASE Waits(st, calls, Call(st, "proc", form.head, form.args), {})
  BY <1>1, <1>2, <1>3, <1>6, NewCallOrder
<1> QED  BY <1>4, <1>5, <1>6 DEF ListNode

(***************************************************************************)
(* The innermost call.                                                     *)
(***************************************************************************)
LEMMA CallerNested ==
  ASSUME InBody, calls # <<>>, Nested(calls)
  PROVE  /\ Nested(Front(calls)) /\ IsList(Front(calls))
         /\ Frame(Caller) /\ IsList(Caller.types)
         /\ Under(Caller.code, Valued(Caller.args), Front(calls))
<1>1. IsList(calls) /\ IsList(Caller.types) /\ IsList(Front(calls))
  BY CallerWaits DEF InBody, Ready, Waiting
<1> QED  BY <1>1, PopNested DEF Caller

(* It ends, and so does what it evaluated.                                 *)
LEMMA CallerEnds ==
  ASSUME InBody, calls # <<>>, Nested(calls), NEW code, Sorted(code),
         \/ Values(code) \subseteq Evaluated(Caller)
         \/ Lacks(Caller) /\ Values(code) \subseteq Evaluated(Caller) \cup Added(Caller)
  PROVE  Ended(code, Front(calls))
<1>1. /\ Nested(Front(calls)) /\ Frame(Caller) /\ IsList(Caller.types)
      /\ Under(Caller.code, Valued(Caller.args), Front(calls))
  BY CallerNested
<1>2. Values(code) \subseteq Values(Caller.code) \cup Valued(Caller.args)
  BY <1>1, CallValues
<1> QED  BY <1>1, <1>2, EndedBelow

LEMMA NextArgumentOrder ==
  ASSUME Numbered(AllForms, ValuesIn), IInv, InBody, NextArgument, Ordered(st, calls, now)
  PROVE  OInv'
<1> DEFINE c == [Caller EXCEPT !.count = Len(st.errors)]
           k == Len(Caller.types) + 1
           form == Caller.args[k]
           cs == Front(calls)
           more == Append(cs, c)
<1>1. /\ Sorted(st.code) /\ Nested(calls) /\ calls # <<>> /\ Caller.kind # "invoke"
      /\ Values(st.code) \subseteq Evaluated(Caller)
  BY DEF Ordered, NextArgument, Caller
<1>2. /\ Nested(cs) /\ IsList(cs) /\ Frame(Caller) /\ IsList(Caller.types)
      /\ Under(Caller.code, Valued(Caller.args), cs)
      /\ Waiting(Caller, last.errors, last.met)
  BY <1>1, CallerNested, CallerWaits
<1>3. /\ c.kind = Caller.kind /\ c.args = Caller.args /\ c.types = Caller.types
      /\ c.code = Caller.code
  BY <1>2 DEF Waiting
<1>4. Goes(st, more, Parsing(form), {})
  BY DEF NextArgument
<1>5. /\ Len(Caller.args) \in Nat /\ Len(Caller.types) \in Nat
      /\ Len(Caller.types) < Len(Caller.args) /\ k \in 1 .. Len(Caller.args)
      /\ Caller.args \in Seq(AllForms)
  BY <1>2, ListLen, LenProperties DEF NextArgument, Frame, InTurn, InOrder
<1>6. form \in AllForms
  BY <1>5, ElementOfSeq
<1>7. Before(Values(st.code), ValuesIn[form])
  <2>1. Before(Values(Caller.code), Valued(Caller.args))
    BY <1>2 DEF Frame
  <2>2. ValuesIn[form] \subseteq Valued(Caller.args)
    BY <1>5 DEF Valued, ValuesOf
  <2>3. Before(Values(Caller.code), ValuesIn[form])
    BY <2>1, <2>2 DEF Before
  <2>4. ASSUME NEW j \in 1 .. Len(Caller.types)
        PROVE  Before(ValuesIn[Caller.args[j]], ValuesIn[form])
    <3>1. j \in 1 .. Len(Caller.args) /\ j < k
      BY <1>5
    <3> QED  BY <1>2, <1>5, <3>1 DEF Frame, InTurn, InOrder
  <2> QED  BY <1>1, <2>3, <2>4 DEF Evaluated, Before
<1> HIDE DEF c, cs
<1>8. Frame(c) /\ Under(c.code, Valued(c.args), cs)
  BY <1>2, <1>3 DEF Frame
<1>9. Nested(more) /\ more # <<>> /\ Last(more) = c
  BY <1>2, <1>8, PushNested
<1>10. Within(st.code, ValuesIn[form], c)
  BY <1>1, <1>3, <1>5 DEF Within, Lacks, Evaluated, Added
<1> HIDE DEF more, form
<1>11. MayBegin(st.code, ValuesIn[form], more)
  BY <1>1, <1>7, <1>9, <1>10 DEF MayBegin, Under
<1> QED  BY <1>4, <1>6, <1>11, ParsingOrder

(* An argument more has been evaluated.                                    *)
LEMMA TypedOrder ==
  ASSUME NEW c, NEW d, NEW type, Frame(c), IsList(c.types), Lacks(c), c.kind # "invoke",
         d.kind = c.kind, d.args = c.args, d.code = c.code, d.types = Append(c.types, type)
  PROVE  Frame(d) /\ Evaluated(c) \cup Added(c) \subseteq Evaluated(d)
<1>1. /\ Len(c.types) \in Nat /\ Len(c.args) \in Nat /\ Len(c.types) < Len(c.args)
      /\ Len(d.types) = Len(c.types) + 1
  BY ListLen, ListAppend, LenProperties DEF Frame, InTurn, InOrder, Lacks
<1>2. Frame(d)
  BY <1>1 DEF Frame
<1>3. 1 .. Len(c.types) \subseteq 1 .. Len(d.types) /\ Len(c.types) + 1 \in 1 .. Len(d.types)
  BY <1>1
<1>4. Evaluated(c) \cup Added(c) \subseteq Evaluated(d)
  BY <1>3 DEF Evaluated, Added
<1> QED  BY <1>2, <1>4

LEMMA ReturnedWaits ==
  ASSUME IInv, InBody, calls # <<>>, Caller.kind # "invoke", Ended(st.code, calls),
         NEW s, s.code = st.code, NEW type, NEW d,
         d.types = Append(Caller.types, type), d.kind = Caller.kind,
         d.args = Caller.args, d.code = Caller.code, Waits(s, Front(calls), d, {})
  PROVE  OInv'
<1>1. /\ Sorted(st.code) /\ Nested(calls) /\ Lacks(Caller)
      /\ Values(st.code) \subseteq Evaluated(Caller) \cup Added(Caller)
  BY DEF Ended, Caller
<1>2. /\ Nested(Front(calls)) /\ IsList(Front(calls)) /\ Frame(Caller)
      /\ IsList(Caller.types) /\ Under(Caller.code, Valued(Caller.args), Front(calls))
  BY <1>1, CallerNested
<1>3. Frame(d) /\ Evaluated(Caller) \cup Added(Caller) \subseteq Evaluated(d)
  BY <1>1, <1>2, TypedOrder
<1>4. Under(d.code, Valued(d.args), Front(calls))
  BY <1>2
<1>5. Values(s.code) \subseteq Evaluated(d) /\ Sorted(s.code)
  BY <1>1, <1>3
<1> QED  BY <1>2, <1>3, <1>4, <1>5, WaitsOrder

LEMMA StashCode ==
  ASSUME NEW s, NEW cs, NEW es, NEW met, NEW count, Ready(s, cs, es, met), IsList(es),
         count = Len(es)
  PROVE  Stash(s, count).code = s.code
<1>1. PopErrors(s, count).code = s.code
  BY PopIsEarlier
<1> QED  BY <1>1 DEF Stash, PopErrors

LEMMA ProcArgumentOrder ==
  ASSUME IInv, InBody, ProcArgument, Ordered(st, calls, now) PROVE OInv'
<1> DEFINE more == SubSeq(st.errors, Caller.count + 1, Len(st.errors))
           c1 == [Caller EXCEPT !.types = Append(@, now.type)]
           c2 == [Caller EXCEPT !.types = Append(@, PDNode), !.aside = @ \o more, !.null = TRUE]
           s2 == Stash(st, Caller.count)
<1>1. /\ Ended(st.code, calls) /\ calls # <<>> /\ Caller.kind = "proc"
      /\ Waiting(Caller, last.errors, last.met)
      /\ Ready(st, Front(calls), last.errors, last.met)
      /\ IsList(last.errors) /\ Caller.count = Len(last.errors)
  BY CallerWaits DEF ProcArgument, IInv, Waiting, Ordered
<1>3. CASE Waits(st, Front(calls), c1, {})
  <2>1. /\ c1.types = Append(Caller.types, now.type) /\ c1.kind = Caller.kind
        /\ c1.args = Caller.args /\ c1.code = Caller.code
    BY <1>1, TypedWaits
  <2> HIDE DEF c1
  <2> QED  BY <1>1, <1>3, <2>1, ReturnedWaits
<1>4. CASE Waits(s2, Front(calls), c2, {})
  <2>2. s2.code = st.code
    <3>1. /\ Ready(st, Front(calls), last.errors, last.met) /\ IsList(last.errors)
          /\ Caller.count = Len(last.errors)
      BY <1>1
    <3> QED  BY <3>1, StashCode
  <2> HIDE DEF s2
  <2>3. /\ c2.types = Append(Caller.types, PDNode) /\ c2.kind = Caller.kind
        /\ c2.args = Caller.args /\ c2.code = Caller.code
    <3>1. c2 = [Caller EXCEPT !.types = Append(Caller.types, PDNode),
                              !.aside = Caller.aside \o more, !.null = TRUE]
      OBVIOUS
    <3> DEFINE x == Append(Caller.types, PDNode)
               y == Caller.aside \o more
               w == TRUE
    <3>2. c2 = [Caller EXCEPT !.types = x, !.aside = y, !.null = w]
      BY <3>1
    <3> HIDE DEF c2, x, y, w
    <3>3. c2.types = x /\ c2.kind = Caller.kind /\ c2.args = Caller.args /\ c2.code = Caller.code
      BY <1>1, <3>2 DEF Waiting
    <3> QED  BY <3>3 DEF x
  <2> HIDE DEF c2
  <2> QED  BY <1>1, <1>4, <2>2, <2>3, ReturnedWaits
<1> QED  BY <1>3, <1>4 DEF ProcArgument

LEMMA CoreArgumentOrder ==
  ASSUME IInv, InBody, CoreArgument, Ordered(st, calls, now) PROVE OInv'
<1> DEFINE c == [Caller EXCEPT !.types = Append(@, now.type)]
<1>1. /\ Ended(st.code, calls) /\ calls # <<>> /\ Caller.kind # "invoke"
      /\ Waiting(Caller, last.errors, last.met)
  BY CallerWaits DEF CoreArgument, Ordered
<1>2. CASE Waits(st, Front(calls), c, {})
  <2>1. /\ c.types = Append(Caller.types, now.type) /\ c.kind = Caller.kind
        /\ c.args = Caller.args /\ c.code = Caller.code
    BY <1>1, TypedWaits
  <2> HIDE DEF c
  <2> QED  BY <1>1, <1>2, <2>1, ReturnedWaits
<1>3. Ended(st.code, Front(calls)) /\ Ready(st, Front(calls), last.errors, last.met)
  BY <1>1, CallerEnds, CallerWaits DEF Ended, Caller
<1>4. CASE No(st, Front(calls), {})
  BY <1>3, <1>4, NoOrder
<1>5. CASE No(Error(st, "IncorrectArgType"), Front(calls), {})
  BY <1>3, <1>5, ErrorOrder
<1> QED  BY <1>2, <1>4, <1>5 DEF CoreArgument

LEMMA PoppedCode ==
  ASSUME NEW s, NEW cs, NEW es, NEW met, NEW count, Ready(s, cs, es, met), IsList(es),
         count = Len(es)
  PROVE  PopErrors(s, count).code = s.code
BY PopIsEarlier

LEMMA PoppedReady ==
  ASSUME NEW s, NEW cs, NEW es, NEW met, NEW count, Ready(s, cs, es, met), IsList(es),
         count = Len(es)
  PROVE  Ready(PopErrors(s, count), cs, es, met)
BY PopIsEarlier

LEMMA InvokedOrder ==
  ASSUME IInv, InBody, Invoked, Ordered(st, calls, now) PROVE OInv'
<1> DEFINE cs == Front(calls)
           t == PopErrors(st, Caller.count)
<1>1. /\ Ended(st.code, calls) /\ calls # <<>>
      /\ Waiting(Caller, last.errors, last.met) /\ Ready(st, cs, last.errors, last.met)
      /\ IsList(last.errors) /\ Caller.count = Len(last.errors)
  BY CallerWaits DEF Invoked, IInv, Waiting, Ordered
<1>2. Ended(st.code, cs)
  BY <1>1, CallerEnds DEF Ended, Caller
<1>3. CASE Yes(st, cs, now.type)
  BY <1>2, <1>3, YesOrder
<1>4. CASE No(st, cs, {})
  BY <1>2, <1>4, NoOrder
<1>5. CASE No(Error(t, "NotInScope"), cs, {})
  <2>1. /\ Ready(st, cs, last.errors, last.met) /\ IsList(last.errors)
        /\ Caller.count = Len(last.errors)
    BY <1>1
  <2>2. t.code = st.code
    BY <2>1, PoppedCode
  <2>3. Ready(t, cs, last.errors, last.met)
    BY <2>1, PoppedReady
  <2> HIDE DEF t
  <2> QED  BY <1>2, <1>5, <2>2, <2>3, ErrorOrder
<1>6. CASE Crash({})
  BY <1>1, <1>6, CrashOrder DEF Ended
<1> QED  BY <1>3, <1>4, <1>5, <1>6 DEF Invoked

LEMMA EmitOrder ==
  ASSUME IInv, InBody, now.step = "next", Ordered(st, calls, now), NEW type,
         Emit(Caller, type)
  PROVE  OInv'
<1>1. /\ Sorted(st.code) /\ Nested(calls) /\ calls # <<>>
      /\ Values(st.code) \subseteq Evaluated(Caller)
  BY DEF Ordered, Caller
<1>2. CASE Crash({})
  BY <1>1, <1>2, CrashOrder
<1>3. CASE Yes([st EXCEPT !.code = Append(@, <<"call", Caller.name>>)], Front(calls), type)
  <2> DEFINE name == Caller.name
             e == <<"call", name>>
             more == Append(st.code, e)
             t == [st EXCEPT !.code = Append(@, e)]
  <2>1. Ready(st, calls, last.errors, last.met) /\ IsList(st.code)
    BY DEF InBody, Ready, IsState
  <2>2. Sorted(more) /\ Values(more) \subseteq Values(st.code)
    <3> HIDE DEF name
    <3> QED  BY <1>1, <2>1, AppendCall
  <2>3. Yes(t, Front(calls), type)
    BY <1>3
  <2>4. t.code = more
    <3> HIDE DEF e
    <3> QED  BY <2>1, CodeReady
  <2> HIDE DEF more, t
  <2>5. Ended(more, Front(calls))
    BY <1>1, <2>2, CallerEnds
  <2> QED  BY <2>3, <2>4, <2>5, YesOrder
<1> QED  BY <1>2, <1>3 DEF Emit

LEMMA TriedErrorOrder ==
  ASSUME IInv, InBody, calls # <<>>, Ended(st.code, Front(calls)), NEW kind,
         Tried(Error(st, kind), Front(calls), Caller)
  PROVE  OInv'
<1>1. /\ Ready(st, Front(calls), last.errors, last.met) /\ IsList(last.errors)
      /\ Waiting(Caller, last.errors, last.met)
  BY CallerWaits DEF IInv
<1>2. /\ Ready(Error(st, kind), Front(calls), last.errors, last.met)
      /\ Error(st, kind).code = st.code
  BY <1>1, ErrorIsLater
<1> QED  BY <1>1, <1>2, TriedOrder

LEMMA CallFunctionOrder ==
  ASSUME IInv, InBody, now.step = "next", Ordered(st, calls, now),
         Ended(st.code, Front(calls)), NEW f, CallFunction(Caller, f)
  PROVE  OInv'
<1>1. calls # <<>>
  BY DEF Ordered
<1> QED  BY <1>1, TriedErrorOrder, EmitOrder DEF CallFunction

(* Only macros are found where there is one.                               *)
LEMMA MacrosFound ==
  ASSUME NEW name, NEW types, NEW g \in Resolve(name, types), g.kind = "macro",
         NEW f \in Resolve(name, types)
  PROVE  f \in ProcsOf(name) /\ f.kind = "macro"
<1> DEFINE can == {h \in ProcsOf(name) : h.kind # "extern_c" /\ Takes(h, types)}
           fns == {h \in can : h.kind = "fn"}
           few == {h \in can : \A i \in can : Untyped(h) <= Untyped(i)}
<1>1. Resolve(name, types) = IF fns # {} THEN fns ELSE few
  BY DEF Resolve
<1>2. g \notin fns
  OBVIOUS
<1>3. f \in can /\ f \notin fns
  BY <1>1, <1>2
<1>4. \A h \in ProcsOf(name) : h.kind \in {"fn", "extern_c", "macro"}
  BY KindsAssumption DEF ProcsOf
<1> QED  BY <1>3, <1>4

LEMMA ProcCallOrder ==
  ASSUME Numbered(AllForms, ValuesIn), IInv, InBody, ProcCall, Ordered(st, calls, now)
  PROVE  OInv'
<1> DEFINE cs == Front(calls)
           externs == {f \in Fns(Caller.name) : f.kind = "extern_c"}
<1>1. /\ now.step = "next" /\ Sorted(st.code) /\ Nested(calls) /\ calls # <<>>
      /\ Values(st.code) \subseteq Evaluated(Caller)
  BY DEF Ordered, Caller, ProcCall, Complete
<1>2. /\ Nested(cs) /\ Frame(Caller) /\ Under(Caller.code, Valued(Caller.args), cs)
      /\ Waiting(Caller, last.errors, last.met) /\ Ready(st, cs, last.errors, last.met)
      /\ st.errors = last.errors /\ IsList(last.errors)
  BY <1>1, CallerNested, CallerWaits DEF InBody, Fine, IInv
<1>3. Ended(st.code, cs)
  BY <1>1, CallerEnds
<1>4. CASE \E f \in ProcsOf(Caller.name) :
             f.kind = "macro" /\ Expand(RestoreMacro(st, Caller), cs, f, Caller.args)
  <2> DEFINE t == RestoreMacro(st, Caller)
  <2>1. IsState(st) /\ IsList(Caller.code)
    BY <1>2 DEF Ready, Waiting
  <2>2. PICK e, w, c, o : st = [errors |-> e, flushed |-> w, code |-> c, cto |-> o]
    BY <2>1 DEF IsState
  <2>3. t = [errors |-> e, flushed |-> w, code |-> Caller.code, cto |-> o]
    BY <2>2 DEF RestoreMacro
  <2>4. /\ t.errors = st.errors /\ t.flushed = st.flushed /\ t.code = Caller.code
        /\ t = [errors |-> t.errors, flushed |-> t.flushed, code |-> t.code, cto |-> t.cto]
    BY <2>2, <2>3
  <2>5. PICK f1 \in ProcsOf(Caller.name) : f1.kind = "macro" /\ Expand(t, cs, f1, Caller.args)
    BY <1>4
  <2> HIDE DEF t, cs
  <2>6. Ready(t, cs, last.errors, last.met)
    BY <1>2, <2>1, <2>4 DEF Ready, IsState
  <2>7. InTurn(Caller.args) /\ MayBegin(t.code, Valued(Caller.args), cs)
    BY <1>2, <2>4 DEF Frame, MayBegin
  <2> QED  BY <2>5, <2>6, <2>7, ExpandOrder
<1>5. CASE Tried(PutBack(st, Caller), cs, Caller) /\ Caller.aside # <<>>
  <2> HIDE DEF cs
  <2>1. Ready(PutBack(st, Caller), cs, last.errors, last.met) /\ PutBack(st, Caller).code = st.code
    <3>1. /\ Ready(st, cs, last.errors, last.met) /\ st.errors = last.errors
          /\ IsList(Caller.aside) /\ Caller.aside # <<>>
      BY <1>2, <1>5 DEF Waiting
    <3> QED  BY ONLY <3>1, PutBackIsLater
  <2> QED  BY <1>2, <1>3, <1>5, <2>1, TriedOrder
<1>6. CASE \E f : CallFunction(Caller, f)
  BY <1>1, <1>3, <1>6, CallFunctionOrder
<1>7. CASE NotFoundCall(Caller, externs)
  <2>1. CASE \E f : CallExternC(Caller, f)
    BY <1>1, <1>3, <2>1, CallFunctionOrder, TriedErrorOrder DEF CallExternC
  <2>2. CASE Yes(st, cs, "void")
    BY <1>3, <2>2, YesOrder
  <2>3. CASE Tried(Error(st, NotFoundError(Caller.name, Caller.types)), cs, Caller)
    BY <1>1, <1>3, <2>3, TriedErrorOrder
  <2> QED  BY <1>7, <2>1, <2>2, <2>3 DEF NotFoundCall
<1>8. PICK found \in {Resolve(Caller.name, Caller.types)} :
        IF \E f \in found : f.kind = "macro"
          THEN \E f \in found : Expand(RestoreMacro(st, Caller), cs, f, Caller.args)
        ELSE IF Failed(st, Caller) THEN Tried(PutBack(st, Caller), cs, Caller)
        ELSE IF found # {} THEN \E f \in found : CallFunction(Caller, f)
        ELSE NotFoundCall(Caller, externs)
  BY DEF ProcCall
<1>9. CASE \E f \in found : f.kind = "macro"
  BY <1>4, <1>8, <1>9, MacrosFound
<1>10. CASE ~\E f \in found : f.kind = "macro"
  BY <1>5, <1>6, <1>7, <1>8, <1>10 DEF Failed
<1> QED  BY <1>9, <1>10

LEMMA CoreCallOrder ==
  ASSUME IInv, InBody, CoreCall, Ordered(st, calls, now) PROVE OInv'
<1> DEFINE form == IF Caller.kind = "core" THEN CoreForms[Caller.name] ELSE Pointed
<1>1. /\ now.step = "next" /\ Sorted(st.code) /\ Nested(calls) /\ calls # <<>>
      /\ Values(st.code) \subseteq Evaluated(Caller)
  BY DEF Ordered, Caller, CoreCall, Complete
<1>2. /\ Ended(st.code, Front(calls)) /\ Ready(st, Front(calls), last.errors, last.met)
  BY <1>1, CallerEnds, CallerWaits
<1>3. CASE No(Error(st, "IncorrectArgType"), Front(calls), {})
  BY <1>2, <1>3, ErrorOrder
<1>4. CASE Emit(Caller, form.result)
  <2> HIDE DEF form
  <2> QED  BY <1>1, <1>4, EmitOrder
<1> QED  BY <1>3, <1>4 DEF CoreCall

(***************************************************************************)
(* Every step.                                                             *)
(***************************************************************************)
(* What has been met stays met until the body ends.                        *)
LEMMA StepAgain ==
  ASSUME IInv, InBody, Next, "again" \in last.met PROVE OInv'
<1>1. \A s, cs, n, met : Goes(s, cs, n, met) => OInv'
  BY GoesAgain
<1>2. /\ \A s, cs, type : Yes(s, cs, type) => OInv'
      /\ \A s, cs, met : No(s, cs, met) => OInv'
      /\ \A s, cs, c, met : Waits(s, cs, c, met) => OInv'
      /\ \A met : Crash(met) => OInv'
  BY <1>1 DEF Yes, No, Waits, Crash
<1>3. \A s, cs, kind, name, args, params, met :
        CallWith(s, cs, kind, name, args, params, met) => OInv'
  BY <1>2 DEF CallWith
<1>4. \A s, cs, name, args : VariableCall(s, cs, name, args) => OInv'
  BY <1>1, <1>2, <1>3 DEF VariableCall
<1>5. \A s, cs, name, args, tried : NotProc(s, cs, name, args, tried) => OInv'
  BY <1>2, <1>3, <1>4 DEF NotProc
<1>6. \A s, cs, c : Tried(s, cs, c) => OInv'
  BY <1>2, <1>5 DEF Tried
<1>7. \A s, cs, f, args : Expand(s, cs, f, args) => OInv'
  BY <1>1, <1>2 DEF Expand
<1>8. CASE ParseNode
  <2>1. Token(now.form) => OInv'
    BY <1>2 DEF Token
  <2>2. Include(now.form) => OInv'
    BY <1>2 DEF Include
  <2>3. ListNode(now.form) => OInv'
    BY <1>2, <1>5, <1>7 DEF ListNode
  <2> QED  BY <1>8, <2>1, <2>2, <2>3 DEF ParseNode
<1>9. CASE NextArgument
  BY <1>1, <1>9 DEF NextArgument
<1>10. CASE ProcArgument
  BY <1>2, <1>10 DEF ProcArgument
<1>11. CASE CoreArgument
  BY <1>2, <1>11 DEF CoreArgument
<1>12. CASE Invoked
  BY <1>2, <1>12 DEF Invoked
<1>13. \A c, type : Emit(c, type) => OInv'
  BY <1>2 DEF Emit
<1>14. \A c, f : CallFunction(c, f) => OInv'
  BY <1>6, <1>13 DEF CallFunction
<1>15. CASE ProcCall
  <2>1. \A c, externs : NotFoundCall(c, externs) => OInv'
    BY <1>2, <1>6, <1>14 DEF NotFoundCall, CallExternC
  <2> QED  BY <1>6, <1>7, <1>14, <1>15, <2>1 DEF ProcCall
<1>16. CASE CoreCall
  BY <1>2, <1>13, <1>16 DEF CoreCall
<1>17. CASE EndBody
  <2>1. now' = Rest => OInv'
    BY DEF Rest, OInv
  <2> QED  BY <1>2, <1>17, <2>1 DEF EndBody
<1>18. now.step # "rest"
  BY DEF InBody, Fine
<1> QED  BY <1>8, <1>9, <1>10, <1>11, <1>12, <1>15, <1>16, <1>17, <1>18 DEF Next

LEMMA ParseBodyOrder ==
  ASSUME Numbered(AllForms, ValuesIn), Resting, NEW form \in Forms, NEW cto,
         ParseBody(form, cto)
  PROVE  OInv'
<1>1. /\ calls' = <<>> /\ st'.code = <<>> /\ now' = Parsing(form)
  BY DEF ParseBody, Resting, IsState
<1>2. Sorted(<<>>) /\ Nested(<<>>) /\ Values(<<>>) = {}
  BY EmptyList DEF Sorted, Nested, Values
<1>3. MayBegin(<<>>, ValuesIn[form], <<>>)
  BY <1>2 DEF MayBegin, Under, Before
<1>4. now'.step = "parse" /\ now'.form = form /\ form \in AllForms
  BY <1>1 DEF Parsing, Numbered
<1>5. Ordered(st', calls', now')
  BY <1>1, <1>3, <1>4 DEF Ordered
<1> QED  BY <1>5 DEF OInv

LEMMA StepOrder ==
  ASSUME Numbered(AllForms, ValuesIn), IInv, OInv, [Next]_vars PROVE OInv'
<1>1. CASE UNCHANGED vars
  BY <1>1 DEF vars, OInv, Met
<1>2. CASE Next /\ Resting
  <2>1. now = Rest
    BY <1>2 DEF Resting
  <2>2. now.step = "rest" /\ calls = <<>>
    BY <1>2, <2>1 DEF Rest, Resting
  <2>3. PICK form \in Forms, cto \in BOOLEAN : ParseBody(form, cto)
    BY <1>2, <2>2 DEF Next, ParseNode, NextArgument, ProcArgument, CoreArgument, Invoked,
                      ProcCall, CoreCall, EndBody, Complete
  <2> QED  BY <1>2, <2>3, ParseBodyOrder
<1>3. CASE Next /\ InBody /\ "again" \in last.met
  BY <1>3, StepAgain
<1>4. CASE Next /\ InBody /\ "again" \notin last.met
  <2>1. now.step # "rest" /\ Ordered(st, calls, now)
    BY <1>4 DEF InBody, Fine, OInv, Met
  <2>2. CASE ParseNode
    <3>1. now.form \in AllForms /\ MayBegin(st.code, ValuesIn[now.form], calls)
      BY <2>1, <2>2 DEF ParseNode, Ordered
    <3>2. Ended(st.code, calls)
      BY <3>1, BegunIsEnded
    <3> QED  BY <1>4, <2>2, <3>1, <3>2, TokenOrder, IncludeOrder, ListNodeOrder DEF ParseNode
  <2>3. CASE NextArgument
    BY <1>4, <2>1, <2>3, NextArgumentOrder
  <2>4. CASE ProcArgument
    BY <1>4, <2>1, <2>4, ProcArgumentOrder
  <2>5. CASE CoreArgument
    BY <1>4, <2>1, <2>5, CoreArgumentOrder
  <2>6. CASE Invoked
    BY <1>4, <2>1, <2>6, InvokedOrder
  <2>7. CASE ProcCall
    BY <1>4, <2>1, <2>7, ProcCallOrder
  <2>8. CASE CoreCall
    BY <1>4, <2>1, <2>8, CoreCallOrder
  <2>9. CASE EndBody
    <3>1. Sorted(st.code)
      BY <2>1, <2>9 DEF EndBody, Ordered, Ended
    <3>2. Crash({}) => OInv'
      BY <3>1, CrashOrder
    <3>3. now' = Rest => OInv'
      BY DEF Rest, OInv
    <3> QED  BY <2>9, <3>2, <3>3 DEF EndBody
  <2> QED  BY <1>4, <2>1, <2>2, <2>3, <2>4, <2>5, <2>6, <2>7, <2>8, <2>9 DEF Next
<1> QED  BY <1>1, <1>2, <1>3, <1>4 DEF IInv

(* Values are evaluated in order and once, however calls, macros and       *)
(* objects are nested, if each has a number and the numbers of a form's    *)
(* arguments follow each other.                                            *)
THEOREM ValuesInOrder ==
  ASSUME Numbered(AllForms, ValuesIn) PROVE Spec => []InOrderOnce
<1>1. Init => OInv
  BY DEF Init, Rest, OInv
<1>2. IInv /\ OInv /\ [Next]_vars => OInv'
  BY StepOrder
<1>3. IInv /\ OInv => InOrderOnce
  <2> SUFFICES ASSUME IInv, OInv PROVE InOrderOnce
    OBVIOUS
  <2>1. CASE Resting
    BY <2>1, EmptyList DEF Resting, InOrderOnce
  <2>2. CASE InBody /\ ~Met("again")
    <3>1. Ordered(st, calls, now) /\ now.step \in {"parse", "next", "return", "crashed"}
      BY <2>2 DEF InBody, Fine, OInv
    <3>2. Sorted(st.code)
      BY <3>1 DEF Ordered, MayBegin, Ended
    <3> QED  BY <3>2 DEF Sorted, InOrderOnce
  <2>3. CASE Met("again")
    BY <2>3 DEF InOrderOnce
  <2> QED  BY <2>1, <2>2, <2>3 DEF IInv
<1> QED  BY <1>1, <1>2, <1>3, ErrorsKept, PTL DEF Spec
=============================================================================
