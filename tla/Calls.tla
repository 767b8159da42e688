------------------------------- MODULE Calls -------------------------------
(***************************************************************************)
(* How a form inside a function is taken: FormProcInstParse decides        *)
(* between procedure calls, core forms, function pointers and function     *)
(* objects by trying them; FunctionProcessor::parseFunctionCall evaluates  *)
(* arguments before it knows whether the call is of a macro, and           *)
(* MacroProcessor expands macros.  Each attempt leaves errors in the       *)
(* ErrorReporter and instructions in the block that a later one has to     *)
(* take away.                                                              *)
(*                                                                         *)
(* A form is a record: a value (a leaf with a number, that emits code), an *)
(* unknown name, a file to include that is broken, or a list.  Types are   *)
(* names, and an argument fits a parameter if they are the same (Overloads *)
(* has the rest).                                                          *)
(***************************************************************************)
EXTENDS Integers, Sequences, SequencesExt, FiniteSets

CONSTANTS
  Forms,      \* forms that are parsed
  Procs,      \* name |-> set of [kind, params, result, cto, expansion]
  CoreForms,  \* core forms that are not special: name |-> [params, result]
  Variables,  \* name |-> type, "fnptr" and "struct" among them
  Pointed,    \* what a "fnptr" points to: [params, result]
  MaxForms    \* bound: forms that are parsed one after the other

ASSUME KindsAssumption ==
  \A name \in DOMAIN Procs : \A f \in Procs[name] : f.kind \in {"fn", "extern_c", "macro"}

VARIABLES
  st,    \* errors, how many of them have been flushed, the code emitted,
         \* whether the function is one that may call cto functions
  calls, \* the calls of FormProcInstParse that wait for a form they contain
  now,   \* what the innermost call does next
  last,  \* history: the errors before the body, and what has been met in it
  left   \* bodies to go
vars == <<st, calls, now, last, left>>

PDNode == "pdnode"
NotFound == "OverloadedFunctionOrMacroNotInScope"
FirstMatches == "ClosestFirstMatches"

ProcsOf(name) == IF name \in DOMAIN Procs THEN Procs[name] ELSE {}
Fns(name)     == {f \in ProcsOf(name) : f.kind # "macro"}

(***************************************************************************)
(* ErrorReporter.  All errors of the code are of the type Error.           *)
(***************************************************************************)
Error(s, kind) == [s EXCEPT !.errors = Append(@, kind)]
PopErrors(s, count) == [s EXCEPT !.errors = SubSeq(@, 1, count)]

(***************************************************************************)
(* Which procedure (Context::getFunction, see Overloads).                  *)
(***************************************************************************)
Takes(f, types) ==
  /\ Len(f.params) = Len(types)
  /\ \A k \in DOMAIN types :
       f.params[k] = types[k] \/ (f.kind = "macro" /\ f.params[k] = PDNode)
Untyped(f) == Cardinality({k \in DOMAIN f.params : f.params[k] = PDNode})
Resolve(name, types) ==
  LET can == {f \in ProcsOf(name) : f.kind # "extern_c" /\ Takes(f, types)}
      fns == {f \in can : f.kind = "fn"}
  IN  IF fns # {} THEN fns
      ELSE {f \in can : \A g \in can : Untyped(f) <= Untyped(g)}

(* isUnoverloadedMacro: its arguments need not be evaluated.               *)
UnoverloadedMacro(name, args) ==
  {f \in ProcsOf(name) :
     /\ Cardinality(ProcsOf(name)) = 1 /\ f.kind = "macro"
     /\ Len(f.params) = Len(args)
     /\ f.params = <<>> \/ f.params[1] = PDNode}

(***************************************************************************)
(* Steps.  A call is a record: its kind is "proc" for one that may be of   *)
(* a function or a macro, "core" and "pointer" for those whose arguments   *)
(* have to be good, "invoke" for a variable that is tried as an object.    *)
(* begin is error_count_begin, count the number of errors before the form  *)
(* that is being parsed for it, and code what the save point holds.        *)
(***************************************************************************)
Call(s, kind, name, args) ==
  [kind |-> kind, name |-> name, args |-> args, types |-> <<>>, aside |-> <<>>,
   null |-> FALSE, code |-> s.code, begin |-> Len(s.errors), count |-> Len(s.errors)]

Goes(s, cs, n, met) ==
  /\ st' = s /\ calls' = cs /\ now' = n
  /\ last' = [last EXCEPT !.met = @ \cup met]
  /\ UNCHANGED left
Parsing(form) == [step |-> "parse", form |-> form]
Argument      == [step |-> "next"]
Yes(s, cs, type) == Goes(s, cs, [step |-> "return", ok |-> TRUE, type |-> type], {})
No(s, cs, met)   == Goes(s, cs, [step |-> "return", ok |-> FALSE, type |-> "none"], met)
Waits(s, cs, c, met) == Goes(s, Append(cs, c), Argument, met)
(* An assertion fails, LLVM is given a null pointer, or popErrors counts   *)
(* down from less than zero.                                               *)
Crash(met) == Goes(st, calls, [step |-> "crashed"], met)

(* parseMacroCall, and the parsing of the expansion.  A macro that returns *)
(* a null pointer gives none, and no error.                                *)
Expand(s, cs, f, args) ==
  LET failed(kind) == No(Error(Error(s, kind), "MacroExpansionError"), cs, {})
      form == IF f.expansion.kind = "first" THEN args[1] ELSE f.expansion
  IN  IF Len(args) # Len(f.params) THEN failed("IncorrectNumberOfArgs")
      ELSE IF f.expansion.kind = "report" THEN failed("ExternalError")
      ELSE IF f.expansion.kind = "null" THEN No(s, cs, {"null"})
      ELSE Goes(s, cs, Parsing(form), {})

(* A form whose arguments have to be good, of which there are as many as   *)
(* parameters: core forms and calls by pointer.                            *)
CallWith(s, cs, kind, name, args, params, met) ==
  IF Len(args) # Len(params) THEN No(Error(s, "IncorrectNumberOfArgs"), cs, met)
  ELSE Waits(s, cs, Call(s, kind, name, args), met)

(* A name that is neither a procedure nor a core form: a function pointer, *)
(* or an object for which there is invoke.                                 *)
Invoke(name, args) ==
  [kind |-> "list", head |-> "invoke",
   args |-> <<[kind |-> "variable", type |-> Variables[name]]>> \o args]
VariableCall(s, cs, name, args) ==
  IF name \notin DOMAIN Variables THEN No(Error(s, "NotInScope"), cs, {})
  ELSE IF Variables[name] = "fnptr"
    THEN CallWith(s, cs, "pointer", name, args, Pointed.params, {})
  ELSE Goes(s, Append(cs, Call(s, "invoke", name, args)), Parsing(Invoke(name, args)), {})

(* parseInternal for a list that begins with a name; tried is whether it   *)
(* is the name of procedures none of which takes the arguments.            *)
NotProc(s, cs, name, args, tried) ==
  IF name \in DOMAIN CoreForms
    THEN CallWith(s, cs, "core", name, args, CoreForms[name].params,
                  IF tried THEN {"again"} ELSE {})
  ELSE IF name \in {"init", "destroy"} THEN Yes(s, cs, "void")
  ELSE IF tried THEN No(Error(s, NotFound), cs, {})
  ELSE VariableCall(s, cs, name, args)

(* parsePotentialProcCall, when the call has failed: something else is to  *)
(* be tried if all that was wrong is that no procedure takes the arguments.*)
Tried(s, cs, c) ==
  IF Len(s.errors) # c.begin + 1 \/ Last(s.errors) # NotFound THEN No(s, cs, {})
  ELSE NotProc(PopErrors(s, Len(s.errors) - 1), cs, c.name, c.args, TRUE)

(***************************************************************************)
(* FormProcInstParse of a form.  A file to include that is broken, inside  *)
(* a list, has its errors written out at once (Parser::deleteNodeList);    *)
(* flush asserts that it has not written more errors than there are.       *)
(***************************************************************************)
Token(form) ==
  \/ /\ form.kind = "value"
     /\ Yes([st EXCEPT !.code = Append(@, <<"value", form.n>>)], calls, form.type)
  \/ form.kind = "variable" /\ Yes(st, calls, form.type)
  \/ form.kind = "unknown" /\ No(Error(st, "VariableNotInScope"), calls, {})

Include(form) ==
  /\ form.kind = "include"
  /\ \E s \in {Error(st, "MissingRightParen")} :
       IF s.flushed > Len(s.errors) THEN Crash({"include"})
       ELSE No([s EXCEPT !.flushed = Len(s.errors)], calls, {"include"})

ListNode(form) ==
  /\ form.kind = "list"
  /\ LET unoverloaded == UnoverloadedMacro(form.head, form.args)
     IN  IF ProcsOf(form.head) = {} THEN NotProc(st, calls, form.head, form.args, FALSE)
         ELSE IF unoverloaded # {}
           THEN \E f \in unoverloaded : Expand(st, calls, f, form.args)
         ELSE Waits(st, calls, Call(st, "proc", form.head, form.args), {})

ParseNode == now.step = "parse" /\ (Token(now.form) \/ Include(now.form) \/ ListNode(now.form))

(***************************************************************************)
(* The arguments of a call.                                                *)
(***************************************************************************)
Caller == Last(calls)

NextArgument ==
  /\ now.step = "next" /\ Len(Caller.types) < Len(Caller.args)
  /\ Goes(st, Append(Front(calls), [Caller EXCEPT !.count = Len(st.errors)]),
          Parsing(Caller.args[Len(Caller.types) + 1]), {})

Mut_Stash(s, count) == [s EXCEPT !.errors = SubSeq(@, 1, count - 1)]
(* What goes back to the ErrorReporter while an argument's errors are set  *)
(* aside.                                                                  *)
Stash(s, count) == [s EXCEPT !.errors = SubSeq(@, 1, count)]
(* Arguments of a call that may be one of a macro: one that fails stands   *)
(* for a (p DNode), and its errors are set aside.                          *)
ProcArgument ==
  /\ now.step = "return" /\ calls # <<>> /\ Caller.kind = "proc"
  /\ LET more == SubSeq(st.errors, Caller.count + 1, Len(st.errors))
     IN  IF now.ok /\ more = <<>>
           THEN Waits(st, Front(calls), [Caller EXCEPT !.types = Append(@, now.type)], {})
         ELSE Waits(Stash(st, Caller.count), Front(calls),
                    [Caller EXCEPT !.types = Append(@, PDNode), !.aside = @ \o more,
                                   !.null = TRUE], {})

(* Arguments of a core form or of a call by pointer: one that fails is the *)
(* end, and so is one of another type, for a pointer.                      *)
CoreArgument ==
  /\ now.step = "return" /\ calls # <<>> /\ Caller.kind \in {"core", "pointer"}
  /\ IF ~now.ok THEN No(st, Front(calls), {})
     ELSE IF Caller.kind = "pointer" /\ now.type # Pointed.params[Len(Caller.types) + 1]
       THEN No(Error(st, "IncorrectArgType"), Front(calls), {})
     ELSE Waits(st, Front(calls), [Caller EXCEPT !.types = Append(@, now.type)], {})

(* What is left of the errors of (invoke ...).                             *)
Invoked ==
  /\ now.step = "return" /\ calls # <<>> /\ Caller.kind = "invoke"
  /\ IF now.ok THEN Yes(st, Front(calls), now.type)
     ELSE IF st.errors = <<>> THEN Crash({})
     ELSE IF Last(st.errors) = FirstMatches THEN No(st, Front(calls), {})
     ELSE IF Len(st.errors) - 1 < Caller.count THEN Crash({})
     ELSE No(Error(PopErrors(st, Caller.count), "NotInScope"), Front(calls), {})

(***************************************************************************)
(* When the arguments have been parsed.                                    *)
(***************************************************************************)
Mut_Failed(s, c) == c.aside # <<>> /\ s.errors = <<>>
(* Whether arguments had errors.                                           *)
Failed(s, c) == c.aside # <<>>
Mut_PutBack(s, c) == s
(* The errors that were set aside, when the call was not of a macro.       *)
PutBack(s, c) == [s EXCEPT !.errors = @ \o c.aside]
(* The call itself: an argument without a value makes LLVM fail.           *)
Emit(c, type) ==
  IF c.null THEN Crash({})
  ELSE Yes([st EXCEPT !.code = Append(@, <<"call", c.name>>)], Front(calls), type)

(* processExternCFunction: other integers are cast.                        *)
Integral == {"int", "char"}
CastTo(f, types) ==
  /\ Len(types) = Len(f.params)
  /\ \A k \in DOMAIN types :
       types[k] = f.params[k] \/ {types[k], f.params[k]} \subseteq Integral

(* The error for a call that no procedure takes (addNotFoundError).        *)
NotFoundError(name, types) ==
  IF Fns(name) \cup ProcsOf(name) = {} THEN "NotInScope"
  ELSE IF types # <<>> /\ \E f \in ProcsOf(name) :
            f.params # <<>> /\ f.params[1] = types[1]
    THEN FirstMatches ELSE NotFound

Mut_RestoreMacro(s, c) == s
(* SavePoint::restore, before a macro is called.                           *)
RestoreMacro(s, c) == [s EXCEPT !.code = c.code]

Complete(kinds) ==
  /\ now.step = "next" /\ Len(Caller.types) >= Len(Caller.args)
  /\ Caller.kind \in kinds

CallFunction(c, f) ==
  IF f.cto /\ ~st.cto THEN Tried(Error(st, "CTOFromNonCTO"), Front(calls), c)
  ELSE Emit(c, f.result)
CallExternC(c, f) ==
  IF CastTo(f, c.types) THEN CallFunction(c, f)
  ELSE Tried(Error(st, "FunctionNotInScope"), Front(calls), c)
NotFoundCall(c, externs) ==
  IF externs # {} THEN \E f \in externs : CallExternC(c, f)
  ELSE IF c.name = "destroy" THEN Yes(st, Front(calls), "void")
  ELSE Tried(Error(st, NotFoundError(c.name, c.types)), Front(calls), c)

(* parseFunctionCall, from where the procedure is looked up.               *)
ProcCall ==
  /\ Complete({"proc"})
  /\ \E found \in {Resolve(Caller.name, Caller.types)} :
       IF \E f \in found : f.kind = "macro"
         THEN \E f \in found :
                Expand(RestoreMacro(st, Caller), Front(calls), f, Caller.args)
       ELSE IF Failed(st, Caller) THEN Tried(PutBack(st, Caller), Front(calls), Caller)
       ELSE IF found # {} THEN \E f \in found : CallFunction(Caller, f)
       ELSE NotFoundCall(Caller, {f \in Fns(Caller.name) : f.kind = "extern_c"})

(* The types have to be those of the parameters.                           *)
CoreCall ==
  /\ Complete({"core", "pointer"})
  /\ LET form == IF Caller.kind = "core" THEN CoreForms[Caller.name] ELSE Pointed
     IN  IF Caller.types # form.params
           THEN No(Error(st, "IncorrectArgType"), Front(calls), {})
         ELSE Emit(Caller, form.result)

(***************************************************************************)
(* Bodies of one form each, and a flush after each top-level form          *)
(* (Generator::run).                                                       *)
(***************************************************************************)
Rest == [step |-> "rest"]
None == [errors |-> <<>>, met |-> {}]
Init == /\ st = [errors |-> <<>>, flushed |-> 0, code |-> <<>>, cto |-> FALSE]
        /\ calls = <<>> /\ now = Rest /\ last = None
        /\ left = MaxForms
ParseBody(form, cto) ==
  /\ st' = [st EXCEPT !.cto = cto]
  /\ now' = Parsing(form) /\ last' = [errors |-> st.errors, met |-> {}]
  /\ left' = left - 1 /\ UNCHANGED calls
EndBody ==
  /\ now.step = "return" /\ calls = <<>>
  /\ IF st.flushed > Len(st.errors) THEN Crash({})
     ELSE /\ st' = [st EXCEPT !.code = <<>>, !.cto = FALSE, !.flushed = Len(st.errors)]
          /\ now' = Rest /\ last' = None /\ UNCHANGED <<calls, left>>

Next == \/ ParseNode \/ NextArgument \/ ProcArgument \/ CoreArgument \/ Invoked
        \/ ProcCall \/ CoreCall \/ EndBody
        \/ /\ now.step = "rest" /\ left > 0
           /\ \E form \in Forms, cto \in BOOLEAN : ParseBody(form, cto)
Spec == Init /\ [][Next]_vars

-----------------------------------------------------------------------------
(* What has been met in a body: "include", a file with errors; "null", a   *)
(* macro that returned a null pointer; "again", a core form whose name is  *)
(* that of procedures, none of which took the arguments.                   *)
Met(what) == what \in last.met

(* Errors that were there before a body stay, in order, at every moment of *)
(* it, whatever is set aside and put back (parseFunctionCall, popErrors).  *)
EarlierKept == IsPrefix(last.errors, st.errors)

(* A form that is taken leaves no error behind, and one that is not leaves *)
(* at least one, unless a macro in it returned a null pointer.             *)
FailureReported ==
  now.step = "return" /\ calls = <<>> =>
    IF now.ok THEN st.errors = last.errors
    ELSE st.errors # last.errors \/ Met("null")

(* What has been tried and given up leaves no code: the values of a form   *)
(* are evaluated in order, none of them twice ("macros always receive      *)
(* unevaluated arguments"), unless a core form's name is that of a         *)
(* procedure, too.                                                         *)
InOrderOnce ==
  ~Met("again") =>
    \A j, k \in 1 .. Len(st.code) :
      j < k /\ st.code[j][1] = "value" /\ st.code[k][1] = "value" =>
        st.code[j][2] < st.code[k][2]

(* Forms F and the numbers of the values in each: the arguments of a list  *)
(* are numbered from left to right, and what macros are expanded to has no *)
(* numbers, but for their arguments.                                       *)
Before(A, B) == \A a \in A, b \in B : a < b
ValuesOf(args, vals) == UNION {vals[args[k]] : k \in 1 .. Len(args)}
InOrder(args, F, vals) ==
  /\ args \in Seq(F)
  /\ \A j, k \in 1 .. Len(args) : j < k => Before(vals[args[j]], vals[args[k]])
Numbered(F, vals) ==
  /\ Forms \subseteq F /\ vals \in [F -> SUBSET Int]
  /\ \A form \in F :
       /\ form.kind = "value" => form.n \in vals[form]
       /\ form.kind = "list" =>
            InOrder(form.args, F, vals) /\ ValuesOf(form.args, vals) \subseteq vals[form]
       /\ form.kind = "list" /\ form.head \in DOMAIN Variables =>
            Invoke(form.head, form.args) \in F
            /\ vals[Invoke(form.head, form.args)] \subseteq ValuesOf(form.args, vals)
  /\ \A name \in DOMAIN Procs : \A f \in Procs[name] : f.kind = "macro" =>
       IF f.expansion.kind = "first" THEN Len(f.params) > 0
       ELSE f.expansion.kind \notin {"report", "null"} =>
              f.expansion \in F /\ vals[f.expansion] = {}

(* The compiler goes on to the next form, unless an argument is included   *)
(* from a broken file, or vanishes; until then the index up to which       *)
(* errors have been written is one of an error that is there.              *)
GoesOn ==
  /\ st.flushed <= Len(st.errors) \/ Met("include")
  /\ now.step = "crashed" => Met("include") \/ Met("null")
=============================================================================
