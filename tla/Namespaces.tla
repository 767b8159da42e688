----------------------------- MODULE Namespaces -----------------------------
(***************************************************************************)
(* The methods of the compiler's Context and Namespace: the tree of        *)
(* namespaces, the stacks of active and used namespaces, the stack of      *)
(* function scopes, the label-variable indices from which destructor calls *)
(* are worked out, and the save points of calls.                           *)
(*                                                                         *)
(* A context is one record, as it is one object in the code, and every     *)
(* method is an operator from a context to a context.                      *)
(*                                                                         *)
(* Definitions named Mut_ are mutants of the one that follows: no run uses *)
(* them, and each breaks a property of some run when it takes its place.   *)
(***************************************************************************)
EXTENDS Integers, Sequences

CONSTANTS
  NsNames,     \* names a program gives to namespaces
  VarNames,    \* names a program gives to variables
  FunNames,    \* names a program gives to top-level functions
  MaxNodes,    \* bound: namespace objects ever allocated
  MaxFns,      \* bound: Function objects ever allocated
  AnonLimit,   \* first anonymous number that does not fit (100000)
  AnonBase     \* the radix in which that number is written (10)

ASSUME SizeAssumption == MaxNodes \in Nat \ {0} /\ MaxFns \in Nat
ASSUME AnonAssumption == AnonLimit \in Nat \ {0} /\ AnonBase \in Nat \ {0, 1}
\* Anonymous namespaces are named by numbers: no program writes "anon1" itself.
ASSUME NameAssumption == NsNames \cap Int = {}

Nodes  == 1 .. MaxNodes
Root   == 1
NoNode == 0
Fns    == 1 .. MaxFns
NoFn   == 0     \* Variable::fn of a global variable, and no function scope

Back(s) == s[Len(s)]
Pop(s)  == SubSeq(s, 1, Len(s) - 1)
NamesOf(s) == {s[i].name : i \in 1 .. Len(s)}

(***************************************************************************)
(* Namespaces.  c.live is the set of allocated nodes, and the fields name, *)
(* parent, lv (lv_index), vars (variables_ordered, with what the variables *)
(* map holds for each name) and funs (the functions map) give each its     *)
(* contents.                                                               *)
(***************************************************************************)
Child(c, n, nm) ==
  IF \E m \in c.live : c.parent[m] = n /\ c.name[m] = nm
    THEN CHOOSE m \in c.live : c.parent[m] = n /\ c.name[m] = nm
    ELSE NoNode

NS(c) == Back(c.active)

(* The namespaces from n to the root.                                      *)
Chain(c, n) ==
  LET up[m \in 0 .. MaxNodes] ==
        IF m = NoNode THEN {} ELSE {m} \cup up[c.parent[m]]
  IN  up[n]

Mut_NewNamespaceIndex(c, nm) ==
  [c EXCEPT !.live = @ \cup {c.fresh}, !.fresh = @ + 1,
            !.name[c.fresh] = nm, !.parent[c.fresh] = NS(c),
            !.active = Append(@, c.fresh), !.used = Append(@, c.fresh)]
Mut_NewNamespaceDown(c, nm) ==
  [c EXCEPT !.live = @ \cup {c.fresh}, !.fresh = @ + 1,
            !.name[c.fresh] = nm, !.parent[c.fresh] = NS(c),
            !.lv[c.fresh] = c.lv[NS(c)] - 1,
            !.active = Append(@, c.fresh), !.used = Append(@, c.fresh)]
NewNamespace(c, nm) ==
  [c EXCEPT !.live = @ \cup {c.fresh}, !.fresh = @ + 1,
            !.name[c.fresh] = nm,
            !.parent[c.fresh] = NS(c),
            !.lv[c.fresh] = c.lv[NS(c)] + 1,
            !.active = Append(@, c.fresh), !.used = Append(@, c.fresh)]

ActivateNamespace(c, nm) ==
  LET child == Child(c, NS(c), nm)
  IN  IF child # NoNode
        THEN [c EXCEPT !.active = Append(@, child), !.used = Append(@, child)]
        ELSE NewNamespace(c, nm)

DeactivateNamespace(c, nm) ==
  IF c.name[NS(c)] # nm
    THEN [c EXCEPT !.errors = @ \cup {"CannotDeactivateInactiveNamespace"}]
  ELSE IF c.name[Back(c.used)] # nm
    THEN [c EXCEPT !.errors = @ \cup {"CannotDeactivateNonLastNamespace"}]
  ELSE [c EXCEPT !.active = Pop(@), !.used = Pop(@)]

(* What the C++ calls deactivateAnonymousNamespace: the innermost one.     *)
Mut_DeactivateAnonymousNamespace(c) == [c EXCEPT !.active = Pop(@)]
DeactivateAnonymousNamespace(c) ==
  [c EXCEPT !.active = Pop(@), !.used = Pop(@)]

(* The number is printed into char[10] behind "anon": a number of more     *)
(* digits than fit keeps its leading ones (counts up to AnonLimit *        *)
(* AnonBase are considered).                                               *)
AnonName(k) == IF k < AnonLimit THEN k ELSE k \div AnonBase

Mut_ActivateAnonymousNamespace(c) == ActivateNamespace(c, AnonName(c.anon + 1))
ActivateAnonymousNamespace(c) ==
  ActivateNamespace([c EXCEPT !.anon = @ + 1], AnonName(c.anon + 1))

UseNamespace(c, n) == [c EXCEPT !.used = Append(@, n)]
UnuseNamespace(c)  == [c EXCEPT !.used = Pop(@)]

(* A qualified name is tried from the current namespace, then from the     *)
(* root.                                                                   *)
GetNSNode(c, nm) ==
  LET from == Child(c, NS(c), nm)
  IN  IF from # NoNode THEN from ELSE Child(c, Root, nm)

(***************************************************************************)
(* Bindings.                                                               *)
(***************************************************************************)
CurrentFn(c) == IF c.scopes = <<>> THEN NoFn ELSE Back(c.scopes)

(* Context::addVariable over Namespace::addVariable: nothing changes when  *)
(* the namespace has the name already.                                     *)
AddVariable(c, nm) ==
  IF nm \in NamesOf(c.vars[NS(c)]) THEN c
  ELSE [c EXCEPT !.lv[NS(c)] = @ + 1,
                 !.vars[NS(c)] =
                   Append(@, [name |-> nm, fn |-> CurrentFn(c),
                              index |-> c.lv[NS(c)] + 1])]

(* Namespace::addFunction of a new function; its index is fixed here.      *)
AddFunction(c, nm, f) ==
  [c EXCEPT !.lv[NS(c)] = @ + 1,
            !.funs[NS(c)] = @ \cup {[name |-> nm, fn |-> f]},
            !.fnindex[f] = c.lv[NS(c)] + 1]

(* The variable a plain name denotes: the last one in the innermost used   *)
(* namespace that has the name.                                            *)
Mut_GetVariableInner(c, nm) ==
  {v \in UNION {{[ns |-> c.used[i], at |-> i, var |-> c.vars[c.used[i]][k]] :
                   k \in 1 .. Len(c.vars[c.used[i]])} : i \in 1 .. Len(c.used)} :
     /\ v.var.name = nm
     /\ \A j \in 1 .. v.at - 1 : nm \notin NamesOf(c.vars[c.used[j]])}
GetVariableInner(c, nm) ==
  {v \in UNION {{[ns |-> c.used[i], at |-> i, var |-> c.vars[c.used[i]][k]] :
                   k \in 1 .. Len(c.vars[c.used[i]])} : i \in 1 .. Len(c.used)} :
     /\ v.var.name = nm
     /\ \A j \in v.at + 1 .. Len(c.used) : nm \notin NamesOf(c.vars[c.used[j]])}

GetVariable(c, nm) ==
  {v \in GetVariableInner(c, nm) : v.var.fn \in {NoFn, CurrentFn(c)}}

(* The variables of a set of namespaces, each as its namespace and place.  *)
VarsOf(c, nodes) == UNION {{n} \X (1 .. Len(c.vars[n])) : n \in nodes}
VarAt(c, x) == c.vars[x[1]][x[2]]

(* Namespace::getVarsAfterIndex, from the current namespace to the root.   *)
VarsAfterIndex(c, index) ==
  {x \in VarsOf(c, Chain(c, NS(c))) :
     VarAt(c, x).index # 0 /\ VarAt(c, x).index >= index}

(* createAnonymousFunction sets the index of all of those to 0 when the    *)
(* body has been parsed.                                                   *)
ZeroIndices(c, index) ==
  [c EXCEPT !.vars =
     [n \in Nodes |->
        IF n \in Chain(c, NS(c))
          THEN [k \in 1 .. Len(c.vars[n]) |->
                  IF c.vars[n][k].index >= index
                    THEN [c.vars[n][k] EXCEPT !.index = 0]
                    ELSE c.vars[n][k]]
          ELSE c.vars[n]]]

(* What a return in the current function destructs, by CloseScope(entire). *)
ClosedByReturn(c) == VarsAfterIndex(c, c.fnindex[CurrentFn(c)])

(***************************************************************************)
(* Save points: `saved` is the context when the save point was taken, of   *)
(* which the code keeps the lengths of its vectors.                        *)
(***************************************************************************)
(* NamespaceSavePoint::restore pops functions of the names it has a count  *)
(* for, and no others.                                                     *)
RestoreFuns(now, was) ==
  {e \in now : e \in was \/ \A old \in was : old.name # e.name}

Mut_RestoreContextNodes(c, saved) ==
  [c EXCEPT !.live = {n \in c.live : NS(saved) \notin Chain(c, n)},
            !.active = SubSeq(@, 1, Len(saved.active)),
            !.used = SubSeq(@, 1, Len(saved.used))]
Mut_RestoreContextVars(c, saved) ==
  [c EXCEPT !.live = saved.live,
            !.active = SubSeq(@, 1, Len(saved.active)),
            !.used = SubSeq(@, 1, Len(saved.used))]
RestoreContext(c, saved) ==
  LET from    == NS(saved)
      below   == {n \in saved.live : from \in Chain(saved, n)}
      created == {n \in c.live \ saved.live : from \in Chain(c, n)}
  IN  [c EXCEPT
         !.live   = @ \ created,
         !.active = SubSeq(@, 1, Len(saved.active)),
         !.used   = SubSeq(@, 1, Len(saved.used)),
         !.vars   = [n \in Nodes |-> IF n \in below
                                       THEN SubSeq(c.vars[n], 1, Len(saved.vars[n]))
                                       ELSE c.vars[n]],
         !.funs   = [n \in Nodes |-> IF n \in below
                                       THEN RestoreFuns(c.funs[n], saved.funs[n])
                                       ELSE c.funs[n]]]

(***************************************************************************)
(* Functions: parameters are lists of at most one variable.                *)
(***************************************************************************)
(* parseReturnType adds the parameters to a namespace of its own, and      *)
(* leaves it; then the function is added, and its body entered.            *)
AddParameters(c, ps) == IF ps = <<>> THEN c ELSE AddVariable(c, ps[1])

Mut_ParseReturnType(c, ps) == AddParameters(ActivateAnonymousNamespace(c), ps)
ParseReturnType(c, ps) ==
  LET a == ActivateAnonymousNamespace(c)
  IN  DeactivateNamespace(AddParameters(a, ps), a.name[NS(a)])

EnterBody(c, f, ps) ==
  LET a == ActivateAnonymousNamespace(c)
  IN  AddParameters([a EXCEPT !.scopes = Append(@, f)], ps)

BeginFn(c, nm, ps) ==
  LET f == c.nextfn
      d == AddFunction(ParseReturnType(c, ps), nm, f)
  IN  EnterBody([d EXCEPT !.nextfn = @ + 1], f, ps)

LeaveBody(c, nm) == DeactivateNamespace([c EXCEPT !.scopes = Pop(@)], nm)

Parameters == {<<>>} \cup {<<v>> : v \in VarNames}

EmptyContext(pre) ==
  [live |-> {Root}, fresh |-> Root + 1,
   name   |-> [n \in Nodes |-> 0],
   parent |-> [n \in Nodes |-> NoNode],
   lv     |-> [n \in Nodes |-> 0],
   vars   |-> [n \in Nodes |-> <<>>],
   funs   |-> [n \in Nodes |-> {}],
   active |-> <<Root>>, used |-> <<Root>>, scopes |-> <<>>,
   nextfn |-> 1, fnindex |-> [f \in Fns |-> 0],
   anon |-> 0, lv_index |-> pre, errors |-> {}]

(***************************************************************************)
(* Types.                                                                  *)
(***************************************************************************)
NodeNames == NsNames \cup Int
Variable  == [name : VarNames, fn : Fns \cup {NoFn}, index : Nat]
Function  == [name : FunNames \cup Nat, fn : Fns]
Errors    == {"CannotDeactivateInactiveNamespace", "CannotDeactivateNonLastNamespace"}

ContextType ==
  [live : SUBSET Nodes, fresh : 1 .. MaxNodes + 1,
   name : [Nodes -> NodeNames], parent : [Nodes -> Nodes \cup {NoNode}],
   lv : [Nodes -> Nat],
   vars : [Nodes -> Seq(Variable)], funs : [Nodes -> SUBSET Function],
   active : Seq(Nodes), used : Seq(Nodes), scopes : Seq(Fns),
   nextfn : 1 .. MaxFns + 1, fnindex : [Fns -> Nat],
   anon : Nat, lv_index : Int, errors : SUBSET Errors]

(***************************************************************************)
(* What the invariants of Context and ProcBody say of a context.           *)
(***************************************************************************)
StackNodes(c) == {c.active[i] : i \in 1 .. Len(c.active)}
                   \cup {c.used[i] : i \in 1 .. Len(c.used)}

(* The stacks hold allocated namespaces, and the root at least.            *)
WF(c) ==
  /\ c \in ContextType
  /\ c.live \subseteq 1 .. c.fresh - 1
  /\ c.active # <<>> /\ c.used # <<>>
  /\ StackNodes(c) \subseteq c.live

(* The numbers that name anonymous namespaces have all been given out, and *)
(* at most one for each namespace made: the next one is not a child's name *)
(* yet.                                                                    *)
NamesBelow(c) ==
  /\ c.anon < c.fresh
  /\ \A n \in c.live : c.name[n] \in Int => c.name[n] <= c.anon

(* What clearing may have made of a variable v, b being what the unset      *)
(* lv_index holds: its index is lost, and nothing else of it.              *)
SameButIndex(b, v, w) == w = v \/ (b <= v.index /\ w = [v EXCEPT !.index = 0])

VarsReach(was, c) == \A n \in Nodes : Len(was.vars[n]) <= Len(c.vars[n])
=============================================================================
