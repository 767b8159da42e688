------------------------------ MODULE ProcBody ------------------------------
(***************************************************************************)
(* The translation of one function body into basic blocks, and the         *)
(* execution of the result.                                                *)
(*                                                                         *)
(* The forms of the body come one after the other, as the parser meets     *)
(* them: declarations, labels, gotos, returns, new-scope and if.  Each     *)
(* appends instructions to blocks; when the last one has been parsed, the  *)
(* deferred gotos are resolved and the blocks terminated, and then the     *)
(* function is run.  Every variable is of a type that has a destructor.    *)
(***************************************************************************)
EXTENDS Namespaces, SequencesExt

CONSTANTS
  LabelNames,
  MaxForms,    \* bound: forms in the body
  MaxScopes,   \* bound: scopes open at once
  Uses         \* which of the forms below the body may use

(* closed_over: a scope that has variables ends in another block than it   *)
(* began in.  dead: a form other than a label follows one that ends its    *)
(* block.  goto_back, goto_in: a goto to a label seen before, of an open   *)
(* scope, of a closed one.  goto_on: a goto to a label still to come, in   *)
(* the same scope or one around it, with no declaration up to the label;   *)
(* goto_over: with declarations; goto_into: into a scope that is not       *)
(* around it; goto_ahead: from the body's own scope into one, whatever is  *)
(* declared in between.  lost: a label follows a goto of that kind which is *)
(* first in its block.  call: calls, whose arguments may turn out to be a  *)
(* macro's.  namespace: the function may be in a namespace.                *)
DeferredUses == {"goto_on", "goto_over", "goto_into", "goto_ahead"}

ASSUME UsesAssumption ==
  Uses \subseteq DeferredUses \cup {"closed_over", "dead", "goto_back", "goto_in", "lost",
                               "call", "namespace"}
ASSUME FormsAssumption == MaxForms \in Nat /\ MaxScopes \in Nat
\* The source that declares them is finite.
ASSUME VarNamesAssumption == IsFiniteSet(VarNames)
\* The function has a name, and room for its namespaces: the root, the one it
\* may be in, that of its parameters and that of its body.
ASSUME RoomAssumption == MaxNodes >= 4 /\ MaxFns >= 1 /\ FunNames # {}

VARIABLES
  ctx,     \* the Context, in the function's scope
  blocks,  \* the basic blocks in the order of their creation
  labels,  \* Function::labels
  pr,      \* the ParseResult of the last form
  forms,   \* the new-scope, if and call forms being parsed, outermost first
  count,   \* forms parsed
  run      \* the program counter and the values of the variables

vars == <<ctx, blocks, labels, pr, forms, count, run>>

(***************************************************************************)
(* Definitions named Mut_ are mutants of the one that follows; no run uses *)
(* them, and each breaks a property of some run when it takes its place.   *)
(*                                                                         *)
(* Instructions.  The constructor or destructor calls one form makes are a *)
(* single instruction; `to` are the blocks a branch may go to, or those a  *)
(* PHI node has values for.  A deferred goto stands where its code will    *)
(* go: behind the last instruction of its block, which marks the place.    *)
(***************************************************************************)
Instr(op, objs, to) == [op |-> op, objs |-> objs, to |-> to]
InitOf(objs)    == Instr("init", objs, {})
Br(b)           == Instr("br", {}, {b})
Ret             == Instr("ret", {}, {})
Deferred(l)     == [op |-> "goto", objs |-> {}, to |-> {},
                    label |-> l, ns |-> NS(ctx), index |-> ctx.lv[NS(ctx)]]

IsTerminator(i)   == i.op \in {"br", "cbr", "ret"}
Mut_Terminated(b) == b # <<>>
Terminated(b)     == b # <<>> /\ IsTerminator(Back(b))

Calls(op, objs) == IF objs = {} THEN <<>> ELSE <<Instr(op, objs, {})>>

Emit(bs, b, code) == [bs EXCEPT ![b] = @ \o code]

(* CloseScope, on the variables of the current namespace only, or of the   *)
(* whole function.                                                         *)
CloseScope(bs, b) == Emit(bs, b, Calls("destroy", VarsOf(ctx, {NS(ctx)})))
CloseFunction(b)  == b \o Calls("destroy", ClosedByReturn(ctx))

Result(block, type, term) == [block |-> block, type |-> type, term |-> term]

(* A place for a form: its value goes into the block the last one left.    *)
EndsPath(b) == \E k \in 1 .. Len(b) : IsTerminator(b[k]) \/ b[k].op = "goto"
Ended       == pr.term \/ EndsPath(blocks[pr.block])

Parsing == run.phase = "parse"

Parse(c, bs, res) ==
  /\ Parsing /\ count < MaxForms /\ pr.type # "error"
  /\ ctx' = c /\ blocks' = bs /\ pr' = res /\ count' = count + 1
  /\ UNCHANGED run

(* A deferred goto in a block that was empty has no instruction to mark    *)
(* its place: the bitcast that the handler adds is of a constant to the    *)
(* type it has, and is none.  Only a label may follow one here.            *)
Unmarked(b) == Len(b) = 1 /\ b[1].op = "goto"

FormAllowed == (Ended => "dead" \in Uses) /\ ~Unmarked(blocks[pr.block])

LabelNamed(l) == {lab \in labels : lab.name = l}
Pending ==
  {i \in UNION {{blocks[b][k] : k \in 1 .. Len(blocks[b])} : b \in 1 .. Len(blocks)} :
     i.op = "goto" /\ LabelNamed(i.label) = {}}

(***************************************************************************)
(* Forms.                                                                  *)
(***************************************************************************)
(* (def v (var auto T value)).                                             *)
Define ==
  LET n    == NS(ctx)
      left == VarNames \ NamesOf(ctx.vars[n])
  IN  /\ FormAllowed /\ left # {}
      /\ Pending = {} \/ Uses \cap {"goto_over", "goto_ahead"} # {}
      /\ Parse(AddVariable(ctx, CHOOSE nm \in left : TRUE),
               Emit(blocks, pr.block, <<InitOf({<<n, Len(ctx.vars[n]) + 1>>})>>),
               Result(pr.block, "int", FALSE))
      /\ UNCHANGED <<labels, forms>>

(* Any form that has a value and no effect.                                *)
Value ==
  /\ FormAllowed /\ pr # Result(pr.block, "int", FALSE)
  /\ Parse(ctx, blocks, Result(pr.block, "int", FALSE))
  /\ UNCHANGED <<labels, forms>>

Return ==
  /\ FormAllowed
  /\ Parse(ctx, [blocks EXCEPT ![pr.block] = Append(CloseFunction(@), Ret)],
           Result(pr.block, "void", TRUE))
  /\ UNCHANGED <<labels, forms>>

Label(l) ==
  LET new == Len(blocks) + 1
      c   == [ctx EXCEPT !.lv[NS(ctx)] = @ + 1]
  IN  /\ LabelNamed(l) = {}
      /\ Unmarked(blocks[pr.block]) => "lost" \in Uses
      /\ \A g \in Pending : g.label = l =>
           IF NS(ctx) \in Chain(ctx, g.ns) THEN Uses \cap {"goto_on", "goto_over"} # {}
           ELSE "goto_into" \in Uses \/ ("goto_ahead" \in Uses /\ ctx.parent[g.ns] = Root)
      /\ Parse(c, Append(Emit(blocks, pr.block,
                              IF Terminated(blocks[pr.block]) THEN <<>> ELSE <<Br(new)>>),
                         <<>>),
               Result(new, "int", FALSE))
      /\ labels' = labels \cup
           {[name |-> l, block |-> new, ns |-> NS(ctx), index |-> c.lv[NS(ctx)]]}
      /\ UNCHANGED forms

GotoKnown(l) ==
  /\ FormAllowed
  /\ \E lab \in LabelNamed(l) :
       /\ IF lab.ns \in Chain(ctx, NS(ctx)) THEN "goto_back" \in Uses ELSE "goto_in" \in Uses
       /\ Parse(ctx, Emit(blocks, pr.block,
                          Calls("destroy", VarsAfterIndex(ctx, lab.index)) \o <<Br(lab.block)>>),
                Result(pr.block, "int", FALSE))
  /\ UNCHANGED <<labels, forms>>

(* Two that have one marker are not followed: their code would be put in   *)
(* the opposite order.                                                     *)
GotoDeferred(l) ==
  /\ FormAllowed /\ Uses \cap DeferredUses # {}
  /\ ~(Len(blocks[pr.block]) > 0 /\ Back(blocks[pr.block]).op = "goto")
  /\ LabelNamed(l) = {}
  /\ Parse(ctx, Emit(blocks, pr.block, <<Deferred(l)>>), Result(pr.block, "int", TRUE))
  /\ UNCHANGED <<labels, forms>>

(***************************************************************************)
(* new-scope, if and calls.  A branch of an if remembers the block it      *)
(* began in, the condition's, and the result of the other branch; a call   *)
(* has a save point.                                                       *)
(***************************************************************************)
Frame(kind, entry, cond, then) ==
  [kind |-> kind, entry |-> entry, cond |-> cond, then |-> then,
   saved |-> IF kind = "call" THEN {[ctx |-> ctx, blocks |-> blocks, labels |-> labels]}
             ELSE {}]

Inner(kind) == forms # <<>> /\ Back(forms).kind = kind

(* The destructors go where the scope began.                               *)
MayClose ==
  /\ pr.type # "error"
  /\ \/ ctx.vars[NS(ctx)] = <<>> \/ pr.block = Back(forms).entry
     \/ "closed_over" \in Uses

OpenNewScope ==
  /\ FormAllowed /\ Len(forms) < MaxScopes /\ ctx.fresh \in Nodes
  /\ Parse(ActivateAnonymousNamespace(ctx), blocks, Result(pr.block, "void", FALSE))
  /\ forms' = Append(forms, Frame("scope", pr.block, pr.block, pr))
  /\ UNCHANGED labels

CloseNewScope ==
  /\ Parsing /\ Inner("scope") /\ MayClose
  /\ ctx' = DeactivateNamespace(ctx, ctx.name[NS(ctx)])
  /\ blocks' = CloseScope(blocks, Back(forms).entry)
  /\ forms' = Pop(forms)
  /\ UNCHANGED <<labels, pr, count, run>>

OpenIf ==
  LET then == Len(blocks) + 1
  IN  /\ FormAllowed /\ Len(forms) < MaxScopes /\ ctx.fresh + 1 \in Nodes
      /\ Parse(ActivateAnonymousNamespace(ctx),
               Emit(blocks, pr.block, <<Instr("cbr", {}, {then, then + 1})>>)
                 \o <<<<>>, <<>>>>,
               Result(then, "void", FALSE))
      /\ forms' = Append(forms, Frame("then", then, pr.block, pr))
      /\ UNCHANGED labels

ElseBranch ==
  LET fr == Back(forms)
  IN  /\ Parsing /\ Inner("then") /\ MayClose
      /\ ctx.fresh \in Nodes
      /\ ctx' = ActivateAnonymousNamespace(DeactivateAnonymousNamespace(ctx))
      /\ blocks' = CloseScope(blocks, fr.entry)
      /\ forms' = Append(Pop(forms), Frame("else", fr.entry + 1, fr.cond, pr))
      /\ pr' = Result(fr.entry + 1, "void", FALSE)
      /\ UNCHANGED <<labels, count, run>>

Mut_GoesOn(bs, r) == ~Terminated(bs[r.block])
GoesOn(bs, r)     == ~r.term /\ ~Terminated(bs[r.block])

(* A new block, and branches to it at the ends of others.                  *)
Mut_Join(bs, ends, code) ==
  Append([b \in 1 .. Len(bs) |->
            IF b \in ends THEN Append(bs[b], Br(Len(bs))) ELSE bs[b]], code)
Join(bs, ends, code) ==
  Append([b \in 1 .. Len(bs) |->
            IF b \in ends THEN Append(bs[b], Br(Len(bs) + 1)) ELSE bs[b]], code)

(* Without a branch that goes on, what follows is parsed into the block of *)
(* the condition; otherwise, into a new one.                               *)
EndIf ==
  LET bs    == CloseScope(blocks, Back(forms).entry)
      both  == {Back(forms).then, pr}
      goOn  == {r \in both : GoesOn(bs, r)}
      type  == IF \A r \in goOn : r.type = "int" THEN "int" ELSE "void"
      ends  == {r.block : r \in goOn}
      phi   == IF goOn = both /\ type = "int" THEN <<Instr("phi", {}, ends)>> ELSE <<>>
  IN  /\ Parsing /\ Inner("else") /\ MayClose
      /\ ctx' = DeactivateAnonymousNamespace(ctx)
      /\ forms' = Pop(forms)
      /\ \/ /\ goOn = {}
            /\ blocks' = bs
            /\ pr' = Result(Back(forms).cond, "void", FALSE)
         \/ /\ goOn # {}
            /\ blocks' = Join(bs, ends, phi)
            /\ pr' = Result(Len(bs) + 1, type, FALSE)
      /\ UNCHANGED <<labels, count, run>>

(* The arguments are forms.  One that cannot be parsed, and the forms      *)
(* around it up to the call, return false; each leaves its namespace.      *)
BeginCall ==
  /\ "call" \in Uses /\ FormAllowed /\ Len(forms) < MaxScopes
  /\ Parse(ctx, blocks, Result(pr.block, "void", FALSE))
  /\ forms' = Append(forms, Frame("call", pr.block, pr.block, pr))
  /\ UNCHANGED labels

Fail ==
  /\ \E i \in 1 .. Len(forms) : forms[i].kind = "call"
  /\ Parse(ctx, blocks, Result(pr.block, "error", FALSE))
  /\ UNCHANGED <<labels, forms>>

Abandon ==
  /\ Parsing /\ pr.type = "error" /\ Back(forms).kind # "call"
  /\ ctx' = DeactivateAnonymousNamespace(ctx)
  /\ blocks' = CloseScope(blocks, Back(forms).entry)
  /\ forms' = Pop(forms)
  /\ UNCHANGED <<labels, pr, count, run>>

EndCall ==
  /\ Parsing /\ Inner("call") /\ FormAllowed /\ pr.type # "error"
  /\ forms' = Pop(forms)
  /\ pr' = Result(pr.block, "int", FALSE)
  /\ UNCHANGED <<ctx, blocks, labels, count, run>>

(* SavePoint::restore pops blocks, and the instructions of the block that  *)
(* was the current one; with them go the deferred gotos.                   *)
Mut_RestoreBlocks(bs, saved, b) == SubSeq(bs, 1, Len(saved))
RestoreBlocks(bs, saved, b) ==
  [SubSeq(bs, 1, Len(saved)) EXCEPT ![b] = SubSeq(@, 1, Len(saved[b]))]

RestoreCall ==
  /\ Parsing /\ Inner("call")
  /\ \E saved \in Back(forms).saved :
       /\ ctx' = RestoreContext(ctx, saved.ctx)
       /\ blocks' = RestoreBlocks(blocks, saved.blocks, Back(forms).entry)
       /\ labels' = saved.labels
  /\ forms' = Pop(forms)
  /\ pr' = Result(Back(forms).entry, "void", FALSE)
  /\ UNCHANGED <<count, run>>

(***************************************************************************)
(* The end of the body.                                                    *)
(***************************************************************************)
(* The namespaces from that of a goto outwards whose variables it          *)
(* destructs, and where that walk ends: at the label's namespace, or below *)
(* the root.                                                               *)
WalkEnds(g, lab, n) == n = lab.ns \/ ctx.parent[n] = Root
Mut_Walked(g, lab) ==
  {n \in Chain(ctx, g.ns) :
     \A m \in Chain(ctx, g.ns) : n \in Chain(ctx, m) /\ n # m => ~WalkEnds(g, lab, m)}
Walked(g, lab) ==
  {n \in Chain(ctx, g.ns) :
     \A m \in Chain(ctx, g.ns) : n \in Chain(ctx, m) => ~WalkEnds(g, lab, m)}

Mut_GotoCrossesDeclaration(g, lab) ==
  \E x \in VarsOf(ctx, {lab.ns}) :
    VarAt(ctx, x).index \in (g.index .. lab.index) \ {0}
GotoCrossesDeclaration(g, lab) ==
  \E x \in VarsOf(ctx, Chain(ctx, lab.ns)) :
    VarAt(ctx, x).index \in (g.index .. lab.index) \ {0}

Rejected(g) ==
  \/ LabelNamed(g.label) = {}
  \/ \E lab \in LabelNamed(g.label) :
       lab.ns \notin Chain(ctx, g.ns) /\ GotoCrossesDeclaration(g, lab)

(* The code of a goto goes behind its marker.                              *)
Resolved(i) ==
  IF i.op # "goto" THEN <<i>>
  ELSE LET lab == CHOOSE r \in labels : r.name = i.label
       IN  Calls("destroy", VarsOf(ctx, Walked(i, lab))) \o <<Br(lab.block)>>

ResolveDeferredGotos(b) == FlattenSeq([k \in 1 .. Len(b) |-> Resolved(b[k])])

TerminateBlocks(bs) ==
  [b \in 1 .. Len(bs) |->
     IF Terminated(bs[b]) THEN bs[b]
     ELSE IF b < Len(bs) THEN Append(bs[b], Br(b + 1))
     ELSE Append(CloseFunction(bs[b]), Ret)]

RemovePostTerminators(b) ==
  {SubSeq(b, 1, k) : k \in {j \in 1 .. Len(b) :
     IsTerminator(b[j]) /\ \A i \in 1 .. j - 1 : ~IsTerminator(b[i])}}

Objects == Nodes \X (1 .. Cardinality(VarNames))
NoValues == [o \in Objects |-> 0]

Gotos == {i \in UNION {{blocks[b][k] : k \in 1 .. Len(blocks[b])} : b \in 1 .. Len(blocks)} :
            i.op = "goto"}

(* Without a marker it goes behind the first instruction: behind the       *)
(* branch, where a label has ended the block.  Forms without effect may    *)
(* have left instructions before the goto, and then it has a marker.       *)
Overtakes(b) ==
  /\ "lost" \in Uses /\ Len(b) > 1 /\ b[1].op = "goto"
  /\ \E lab \in labels : b[2] = Br(lab.block)
Overtaken(b) == [b EXCEPT ![1] = b[2], ![2] = b[1]]

Finish ==
  /\ Parsing /\ forms = <<>> /\ \A g \in Gotos : ~Rejected(g)
  /\ \E late \in SUBSET {b \in 1 .. Len(blocks) : Overtakes(blocks[b])} :
       LET laid == [b \in 1 .. Len(blocks) |->
                      IF b \in late THEN Overtaken(blocks[b]) ELSE blocks[b]]
           bs == TerminateBlocks([b \in 1 .. Len(blocks) |-> ResolveDeferredGotos(laid[b])])
       IN  blocks' = [b \in 1 .. Len(bs) |->
                        CHOOSE p \in RemovePostTerminators(bs[b]) : TRUE]
  /\ ctx' = LeaveBody(ctx, ctx.name[NS(ctx)])
  /\ run' = [run EXCEPT !.phase = "run"]
  /\ UNCHANGED <<labels, pr, forms, count>>

Reject ==
  /\ Parsing /\ forms = <<>> /\ \E g \in Gotos : Rejected(g)
  /\ run' = [run EXCEPT !.phase = "rejected"]
  /\ UNCHANGED <<ctx, blocks, labels, pr, forms, count>>

(***************************************************************************)
(* Execution.                                                              *)
(***************************************************************************)
Here == blocks[run.block][run.at]
Running(ops) == run.phase = "run" /\ Here.op \in ops

Add(objs, n) == [o \in Objects |-> run.values[o] + IF o \in objs THEN n ELSE 0]

StepCall ==
  /\ Running({"init", "destroy", "phi"})
  /\ run' = [run EXCEPT !.at = @ + 1,
                        !.values = Add(Here.objs, IF Here.op = "init" THEN 1 ELSE -1)]

StepBranch ==
  /\ Running({"br", "cbr"})
  /\ \E b \in Here.to : run' = [run EXCEPT !.block = b, !.at = 1]

StepReturn ==
  /\ Running({"ret"})
  /\ run' = [run EXCEPT !.phase = "returned"]

Step ==
  /\ StepCall \/ StepBranch \/ StepReturn
  /\ UNCHANGED <<ctx, blocks, labels, pr, forms, count>>

(* Just before the body's first form: the function is at the top level or  *)
(* in a namespace, and its parameters are in the entry block.              *)
Init ==
  \E ps \in Parameters, inner \in {{}} \cup {{nm} : nm \in NsNames} :
    /\ "namespace" \in Uses \/ inner = {}
    /\ ctx = LET c == EmptyContext(1000)
                 d == IF inner = {} THEN c
                      ELSE ActivateNamespace(c, CHOOSE nm \in inner : TRUE)
             IN  BeginFn(d, CHOOSE nm \in FunNames : TRUE, ps)
    /\ blocks = <<Calls("init", VarsOf(ctx, {NS(ctx)}))>>
    /\ labels = {} /\ forms = <<>> /\ count = 0
    /\ pr = Result(1, "void", FALSE)
    /\ run = [phase |-> "parse", block |-> 1, at |-> 1, values |-> NoValues]

Next ==
  \/ Define \/ Value \/ Return
  \/ \E l \in LabelNames : Label(l) \/ GotoKnown(l) \/ GotoDeferred(l)
  \/ OpenNewScope \/ CloseNewScope \/ OpenIf \/ ElseBranch \/ EndIf
  \/ BeginCall \/ Fail \/ Abandon \/ EndCall \/ RestoreCall
  \/ Finish \/ Reject
  \/ Step

(* The machine goes on with a function it has called.                      *)
Spec == Init /\ [][Next]_vars /\ WF_vars(Step)

(***************************************************************************)
(* Types.                                                                  *)
(***************************************************************************)
Blocks   == 1 .. Len(blocks)
Ops      == {"init", "destroy", "br", "cbr", "ret", "phi", "goto"}
Results  == [block : Blocks, type : {"void", "int", "error"}, term : BOOLEAN]

(* Results, frames and labels refer to blocks of the function, and values  *)
(* are counted per variable.                                               *)
TypeOK ==
  /\ ctx \in ContextType
  /\ \A b \in Blocks : \A k \in 1 .. Len(blocks[b]) :
       LET i == blocks[b][k]
       IN  i.op \in Ops /\ i.objs \subseteq Objects /\ i.to \subseteq 1 .. Len(blocks) + 1
  /\ \A lab \in labels : lab.name \in LabelNames /\ lab.block \in Blocks
                         /\ lab.ns \in ctx.live /\ lab.index \in Nat
  /\ pr \in Results
  /\ \A i \in 1 .. Len(forms) :
       forms[i].entry \in Blocks /\ forms[i].cond \in Blocks /\ forms[i].then \in Results
  /\ count \in 0 .. MaxForms
  /\ run \in [phase : {"parse", "rejected", "run", "returned"}, block : Blocks,
              at : Nat, values : [Objects -> Int]]

(***************************************************************************)
(* Properties.                                                             *)
(***************************************************************************)
(* Executing what the handlers produced constructs and destructs the       *)
(* variables as the language says: none twice, none not at all, none left  *)
(* when the function returns, by whatever path it goes.                    *)
LT == INSTANCE Lifetime WITH alive <- run.values, over <- run.phase = "returned"
Lifetimes == LT!Spec

(* While forms are parsed, every block already ends, or is the one the     *)
(* next form goes to, or that of a branch of an open if which waits for    *)
(* the if's end: no path runs into whatever block happens to come next,    *)
(* which is where terminateBlocks would lead it.                           *)
Waiting(fr) ==
  CASE fr.kind \in {"scope", "call"} -> {}
    [] fr.kind = "then"  -> {fr.entry + 1}
    [] fr.kind = "else"  -> {fr.then.block}

NoPathLost ==
  Parsing /\ pr.type # "error" =>
    \A b \in Blocks :
      \/ EndsPath(blocks[b])
      \/ b \in {pr.block} \cup UNION {Waiting(forms[i]) : i \in 1 .. Len(forms)}

(* The finished function is one that LLVM accepts: a PHI node has a value  *)
(* for each of the blocks that branch to its own, and for no other, and    *)
(* branches go to blocks that exist.                                       *)
Predecessors(b) == {p \in Blocks : b \in Back(blocks[p]).to}

PhiMatches ==
  run.phase = "run" =>
    \A b \in Blocks :
      /\ Back(blocks[b]).to \subseteq Blocks
      /\ \A k \in 1 .. Len(blocks[b]) :
           blocks[b][k].op = "phi" => blocks[b][k].to = Predecessors(b)

(* When an argument list turns out to belong to a macro, nothing of what   *)
(* its forms put into the function remains, wherever they put it, and even *)
(* if one of them failed: neither instructions nor blocks, labels nor      *)
(* deferred gotos, and no label or goto refers to a namespace that is no   *)
(* more.                                                                   *)
RestoreUndoesForms ==
  [][RestoreCall =>
       /\ \A saved \in Back(forms).saved :
            blocks' = saved.blocks /\ labels' = saved.labels
       /\ \A i \in labels' \cup Gotos' : i.ns \in ctx'.live]_vars

(* "Branches unconditionally to the specified label" (doc/1-11): a deferred *)
(* goto that is reached leaves its block for the label's.  It is not so of *)
(* one without a marker (FormProcGotoParse, resolveDeferredGotos).         *)
GotosTaken ==
  [][Finish =>
       \A b \in Blocks : \A k \in 1 .. Len(blocks[b]) :
         blocks[b][k].op = "goto" /\ ~EndsPath(SubSeq(blocks[b], 1, k - 1)) =>
           \E lab \in LabelNamed(blocks[b][k].label) : Back(blocks'[b]).to = {lab.block}]_vars

(* A function without a goto backwards returns.                            *)
Returns == run.phase = "run" ~> run.phase = "returned"
=============================================================================
