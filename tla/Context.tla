------------------------------ MODULE Context ------------------------------
(***************************************************************************)
(* The compiler's Context, as the parser's handlers use it: which forms    *)
(* enter and leave namespaces and function scopes, declare variables and   *)
(* functions, take save points and restore them.                           *)
(*                                                                         *)
(* An action is one handler: the calls it makes between two points at      *)
(* which it hands control to the parse of a nested form.  The handlers     *)
(* still on the C++ stack are `open`: a context method is called at any    *)
(* time, but a form is only left when it is innermost.                     *)
(***************************************************************************)
EXTENDS Namespaces

CONSTANTS
  MaxDepth,    \* bound: forms open at once
  MaxVars,     \* bound: variables of one namespace
  MaxIndex,    \* bound: label-variable indices a definition may reach
  PreIndices,  \* what the unset Context::lv_index may hold
  Features     \* which of the optional forms below programs use

ASSUME DepthAssumption == MaxDepth \in Nat /\ MaxVars \in Nat /\ MaxIndex \in Nat
ASSUME PreIndexAssumption == PreIndices \subseteq Int
ASSUME FeatureAssumption == Features \subseteq {"anon_fn", "call", "reopen", "using"}

VARIABLES
  ctx,    \* the Context object
  open    \* the handlers being run, outermost first

vars == <<ctx, open>>

(***************************************************************************)
(* The forms being parsed.  node and name are what the handler entered and *)
(* the name by which it leaves it; alen and ulen, the lengths of the two   *)
(* stacks when it began, are kept for the properties; saved is the context *)
(* a call's save point refers to.                                          *)
(***************************************************************************)
Kinds == {"namespace", "using", "fn", "anon_fn", "new_scope", "branch", "call"}
Activates(kind) == kind \in Kinds \ {"using", "call"}

Frame(kind, c, fn) ==
  [kind |-> kind, node |-> Back(c.used), name |-> c.name[Back(c.used)], fn |-> fn,
   alen |-> Len(ctx.active), ulen |-> Len(ctx.used),
   saved |-> IF kind = "call" THEN ctx ELSE EmptyContext(0)]

Enter(kind, c, fn) ==
  /\ Len(open) < MaxDepth
  /\ ctx' = c
  /\ open' = Append(open, Frame(kind, c, fn))

Leave(kind, c) ==
  /\ open # <<>> /\ Back(open).kind = kind
  /\ ctx' = c
  /\ open' = Pop(open)

InFunction == ctx.scopes # <<>>
Room(n)    == ctx.fresh + n <= MaxNodes + 1

(* The namespace form, and each qualifying part of a dotted definition.    *)
OpenNamespace(nm) ==
  /\ ~InFunction /\ Room(1)
  /\ "reopen" \in Features \/ Child(ctx, NS(ctx), nm) = NoNode
  /\ Enter("namespace", ActivateNamespace(ctx, nm), NoFn)

CloseNamespace ==
  Leave("namespace", DeactivateNamespace(ctx, Back(open).name))

OpenUsing(nm) ==
  /\ "using" \in Features
  /\ \E n \in ctx.live :
       /\ n = GetNSNode(ctx, nm)
       /\ Enter("using", UseNamespace(ctx, n), NoFn)

CloseUsing ==
  Leave("using", UnuseNamespace(ctx))

(* A global variable, or a local one whose initialiser has been parsed.    *)
DefineVariable(nm) ==
  /\ Len(ctx.vars[NS(ctx)]) < MaxVars /\ ctx.lv[NS(ctx)] < MaxIndex
  /\ ctx' = AddVariable(ctx, nm)
  /\ UNCHANGED open

(* A function's return type and parameters, and then its body.             *)
BeginFunction(nm, ps) ==
  /\ ~InFunction /\ Room(2) /\ ctx.nextfn \in Fns
  /\ \A e \in ctx.funs[NS(ctx)] : e.name # nm
  /\ Enter("fn", BeginFn(ctx, nm, ps), ctx.nextfn)

EndFunction ==
  Leave("fn", LeaveBody(ctx, Back(open).name))

(* An anonymous function is named by a counter of its own.                 *)
BeginAnonFunction(ps) ==
  /\ "anon_fn" \in Features
  /\ InFunction /\ Room(2) /\ ctx.nextfn \in Fns
  /\ Enter("anon_fn", BeginFn(ctx, ctx.nextfn, ps), ctx.nextfn)

EndAnonFunction ==
  Leave("anon_fn", ZeroIndices(LeaveBody(ctx, Back(open).name), ctx.lv_index))

(* A body with errors (an argument of a macro need not make sense).        *)
AbandonAnonFunction ==
  Leave("anon_fn", LeaveBody(ctx, Back(open).name))

(* new-scope leaves its namespace by name, a branch of an if leaves        *)
(* whatever is innermost.                                                  *)
OpenScope(kind) ==
  /\ InFunction /\ Room(1)
  /\ Enter(kind, ActivateAnonymousNamespace(ctx), NoFn)

CloseNewScope ==
  Leave("new_scope", DeactivateNamespace(ctx, Back(open).name))

CloseBranch ==
  Leave("branch", DeactivateAnonymousNamespace(ctx))

(* parseFunctionCall: a save point, the arguments, and then either a       *)
(* function call or the restoration that precedes a macro call.            *)
BeginCall ==
  /\ "call" \in Features /\ InFunction
  /\ Enter("call", ctx, NoFn)

EndCall     == Leave("call", ctx)
RestoreCall == Leave("call", RestoreContext(ctx, Back(open).saved))

Init ==
  /\ \E pre \in PreIndices : ctx = EmptyContext(pre)
  /\ open = <<>>

Next ==
  \/ \E nm \in NsNames : OpenNamespace(nm) \/ OpenUsing(nm)
  \/ CloseNamespace \/ CloseUsing
  \/ \E nm \in VarNames : DefineVariable(nm)
  \/ \E ps \in Parameters :
       \/ \E nm \in FunNames : BeginFunction(nm, ps)
       \/ BeginAnonFunction(ps)
  \/ EndFunction \/ EndAnonFunction \/ AbandonAnonFunction
  \/ \E kind \in {"new_scope", "branch"} : OpenScope(kind)
  \/ CloseNewScope \/ CloseBranch
  \/ BeginCall \/ EndCall \/ RestoreCall

Spec == Init /\ [][Next]_vars

(***************************************************************************)
(* Types.                                                                  *)
(***************************************************************************)
FrameType ==
  [kind : Kinds, node : Nodes, name : NodeNames, fn : Fns \cup {NoFn},
   alen : Nat, ulen : Nat, saved : ContextType]

(* Every part of the compiler's context keeps its type: the stacks hold    *)
(* allocated node numbers, and indices stay natural numbers.               *)
TypeOK ==
  /\ ctx \in ContextType
  /\ open \in Seq(FrameType)

(***************************************************************************)
(* Safety.                                                                 *)
(***************************************************************************)
(* Every active namespace is also used, for as long as it is active        *)
(* (Context.h), whatever mixture of namespace, using-namespace, function,  *)
(* new-scope and if forms is open and whichever of them was left last.     *)
ActiveAreUsed ==
  \A i \in 1 .. Len(ctx.active) :
    \E j \in 1 .. Len(ctx.used) : ctx.used[j] = ctx.active[i]

(* No stack, and no save point still to be restored, refers to a namespace *)
(* that the restoration of a save point has deleted.                       *)
NoDanglingNode ==
  /\ StackNodes(ctx) \subseteq ctx.live
  /\ \A i \in 1 .. Len(open) :
       open[i].kind = "call" => NS(open[i].saved) \in ctx.live

(* The heights of the two stacks above the form open[i]: what it pushed,   *)
(* or what they were when the form inside it began.                        *)
ActiveHeight(i) ==
  IF i = Len(open) THEN Len(ctx.active) ELSE open[i + 1].alen
UsedHeight(i) ==
  IF i = Len(open) THEN Len(ctx.used) ELSE open[i + 1].ulen

(* Each open form has pushed exactly what its kind pushes, on top of what  *)
(* it found, so that leaving it uncovers the stacks it found; a call's     *)
(* save point refers to what still is there.                               *)
FrameOK(i) ==
  LET fr == open[i]
  IN  /\ fr.alen \in 1 .. Len(ctx.active) /\ fr.ulen \in 1 .. Len(ctx.used)
      /\ Activates(fr.kind) =>
           /\ ActiveHeight(i) = fr.alen + 1 /\ UsedHeight(i) = fr.ulen + 1
           /\ ctx.active[fr.alen + 1] = fr.node
           /\ ctx.used[fr.ulen + 1] = fr.node
           /\ ctx.name[fr.node] = fr.name
      /\ fr.kind = "using" =>
           ActiveHeight(i) = fr.alen /\ UsedHeight(i) = fr.ulen + 1
      /\ fr.kind = "call" =>
           /\ ActiveHeight(i) = fr.alen /\ UsedHeight(i) = fr.ulen
           /\ fr.saved.active = SubSeq(ctx.active, 1, fr.alen)
           /\ fr.saved.used = SubSeq(ctx.used, 1, fr.ulen)

StackDiscipline == \A i \in 1 .. Len(open) : FrameOK(i)

(* deactivateNamespace never finds another namespace than the one its      *)
(* caller entered, so neither of its errors can be reported: the stacks    *)
(* never go out of step with the forms.                                    *)
NoDeactivationError == ctx.errors = {}

(* No vector has become shorter than the count an open save point holds of *)
(* it: restoring pops while (count--), which would run away.  A nested     *)
(* save point that is restored first never takes one below that.           *)
SavedCountsReached ==
  \A i \in 1 .. Len(open) : open[i].kind = "call" => VarsReach(open[i].saved, ctx)

OwnLocals(c) ==
  {x \in VarsOf(c, Chain(c, NS(c))) : VarAt(c, x).fn = CurrentFn(c)}

(* The variables whose index the end of an anonymous function has cleared: *)
(* only what the unset lv_index holds can be small enough for that.        *)
Cleared(c) ==
  {x \in VarsOf(c, Nodes) : VarAt(c, x).index = 0 /\ c.lv_index <= c.lv[x[1]]}

LocalsClosed == {x \in ClosedByReturn(ctx) : VarAt(ctx, x).fn # NoFn}

(* Of the local variables of all the functions being parsed, a return      *)
(* destructs exactly those of the current function that are in scope,      *)
(* except for those whose index has been cleared: comparing indices        *)
(* separates them, though they were handed out by counters of different    *)
(* namespaces, and whatever the unset lv_index holds.                      *)
ReturnClosesLocals ==
  InFunction => LocalsClosed = OwnLocals(ctx) \ Cleared(ctx)

(* A return destructs every local variable of its function that is in      *)
(* scope, anonymous functions before it or not.                            *)
ReturnClosesEveryLocal == InFunction => OwnLocals(ctx) \subseteq LocalsClosed

(* A return destructs nothing but local variables: not a global one of a   *)
(* namespace that the function is in.                                      *)
ReturnClosesOnlyLocals ==
  InFunction => \A x \in ClosedByReturn(ctx) : VarAt(ctx, x).fn # NoFn

(* A plain name declared in the current function denotes, while its scope  *)
(* is open, a variable of that function, unless a using-namespace form     *)
(* opened in the function put another namespace in front: no namespace     *)
(* left behind by an earlier form, and no outer function, hides it.        *)
UsingInFunction ==
  \E i, j \in 1 .. Len(open) :
    i < j /\ open[i].fn = CurrentFn(ctx) /\ open[j].kind = "using"

OwnLocalsVisible ==
  InFunction /\ ~UsingInFunction =>
    \A x \in OwnLocals(ctx) :
      \E v \in GetVariable(ctx, VarAt(ctx, x).name) : v.var.fn = CurrentFn(ctx)

(* Opening a scope never brings back the variables of an earlier one: the  *)
(* namespace that new-scope, a branch of an if or a function body enters   *)
(* is a new one, that holds at most the parameters.                        *)
FreshScope ==
  [][Len(open') > Len(open) /\ Back(open').kind \in {"new_scope", "branch", "fn", "anon_fn"}
       => NS(ctx') \notin ctx.live]_vars

(* When an argument list turns out to belong to a macro, restoring the     *)
(* save point puts back the stacks, the namespaces below the current one   *)
(* and the variables of every namespace, whatever the arguments declared:  *)
(* of a variable that was there, nothing but an index that an anonymous    *)
(* function has cleared is lost.  (Not the functions: one that got a new   *)
(* name, as an anonymous function does, remains.)                          *)
RestoreUndoesVariables ==
  [][RestoreCall =>
       LET was == Back(open).saved
       IN  /\ ctx'.active = was.active /\ ctx'.used = was.used
           /\ ctx'.scopes = was.scopes
           /\ ctx'.live = was.live
           /\ \A n \in was.live :
                /\ Len(ctx'.vars[n]) = Len(was.vars[n])
                /\ \A k \in 1 .. Len(was.vars[n]) :
                     SameButIndex(ctx.lv_index, was.vars[n][k], ctx'.vars[n][k])]_vars

(***************************************************************************)
(* The inductive invariant the proofs use.  The stacks hold live nodes;    *)
(* below the forms lies the root, on both; every other active namespace    *)
(* belongs to an open form; forms, and the save points of nested calls,    *)
(* are nested.                                                             *)
(***************************************************************************)
ActivationsAreOpen ==
  \A k \in 2 .. Len(ctx.active) :
    \E i \in 1 .. Len(open) : Activates(open[i].kind) /\ open[i].alen + 1 = k

ActivePush(kind) == IF Activates(kind) THEN 1 ELSE 0
UsedPush(kind)   == IF kind = "call" THEN 0 ELSE 1

FramesNest ==
  \A i, j \in 1 .. Len(open) :
    i < j => /\ open[i].alen + ActivePush(open[i].kind) <= open[j].alen
             /\ open[i].ulen + UsedPush(open[i].kind) <= open[j].ulen

SavePointsNest ==
  \A i \in 1 .. Len(open) :
    open[i].kind = "call" =>
      /\ WF(open[i].saved)
      /\ \A j \in i + 1 .. Len(open) :
           open[j].kind = "call" => VarsReach(open[i].saved, open[j].saved)

IInv ==
  /\ WF(ctx) /\ open \in Seq(FrameType)
  /\ NoDeactivationError
  /\ ctx.active[1] = ctx.used[1]
  /\ StackDiscipline /\ ActivationsAreOpen /\ FramesNest
  /\ SavePointsNest /\ SavedCountsReached
=============================================================================
