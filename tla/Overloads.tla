----------------------------- MODULE Overloads -----------------------------
(***************************************************************************)
(* The functions and macros of one name: how a definition is checked and   *)
(* entered (FormFunctionParse, FormTopLevelMacroParse,                     *)
(* Namespace::addFunction), and which one a call gets                      *)
(* (Namespace::getFunction, Context::getFunction).                         *)
(*                                                                         *)
(* There are a namespace and one that is used within it (the innermost     *)
(* last in Used); lists[ns] is what the functions map of ns holds for the  *)
(* name.  A function is identified by its symbol and the namespace: bodies *)
(* are the symbols whose LLVM function has blocks, module those that have  *)
(* an LLVM function at all.                                                *)
(***************************************************************************)
EXTENDS TypeRegister, FiniteSets

CONSTANTS
  Used,        \* the namespaces in use, innermost last
  Definitions, \* the functions a program defines: parameters, linkage
               \* ("intern", "extern_c"), inline attribute, whether only declared
  MacroParams, \* parameters of its macros, without the implicit MContext
  Arguments,   \* argument lists of calls: what is known of each argument
  TypeExpressions, \* expressions of types, for the properties
  Provided,    \* functions that modules provide: ret and params, expressions
  MaxFunctions \* bound: definitions and declarations tried

ASSUME UsedAssumption == Used \in Seq(STRING) /\ Used # <<>>

VARIABLES
  lists,     \* Namespace::functions, for the name
  bodies,    \* symbols of the functions that are defined
  module,    \* symbols of the functions that are declared or defined
  accepted,  \* history: the definitions that were accepted, by namespace
  state,     \* "going", "failed" (an error was reported), "aborted"
  reg,       \* the register of types
  imported   \* history: by symbol, the parameters of a function that was
             \* imported as its module has them
vars == <<lists, bodies, module, accepted, state, reg, imported>>

None == [macro |-> FALSE, params |-> <<>>, sym |-> <<>>, linkage |-> "none",
         inline |-> FALSE]

(* An argument: its type, its type as an array if it is one, and whether   *)
(* it is an lvalue; "unknown" where the caller passes no lvalues.          *)
Arg(t, lv) == [type |-> t, arr |-> <<>>, lvalue |-> lv]

(* nameToSymbol, functionNameToSymbol: namespace and parameters are        *)
(* written, unless the linkage is extern-c.                                *)
Symbol(ns, params, linkage) ==
  IF linkage = "extern_c" THEN <<"c">>
  ELSE <<ns>> \o FlattenSeq([i \in 1 .. Len(params) |-> SymbolOf(params[i])])

AllParams(f) == IF f.macro THEN <<PMContext>> \o f.params ELSE f.params
IsVarArgs(f) == f.params # <<>> /\ Last(f.params).base = "..."
IsDeclaration(f) == f.sym \notin bodies

(***************************************************************************)
(* Function::isEqualTo: every function here returns the same type.         *)
(***************************************************************************)
SameFunction(f, g) == SameTypes(AllParams(f), AllParams(g))

Fixed(f) == IF IsVarArgs(f) THEN Len(f.params) - 1 ELSE Len(f.params)

(* The checks on the lvalue flag of an argument.                           *)
Mut_Bindable(p, a) == ~(p.rv /\ a.lvalue = "yes")
Bindable(p, a) ==
  \/ a.lvalue = "unknown"
  \/ /\ ~(~p.const /\ p.ref /\ a.lvalue = "no")
     /\ ~(p.rv /\ a.lvalue = "yes")
     /\ ~(p.rv /\ a.type.const)

Passes(p, a, iac) ==
  \/ \E i \in 1 .. Len(a.arr) : PassedFrom(p, a.arr[i], iac)
  \/ PassedFrom(p, a.type, iac)

(* How far a candidate matches an argument list, before varargs.           *)
Matched(f, args, iac) ==
  LET ok(j) == /\ Bindable(f.params[j], args[j])
               /\ \/ Passes(f.params[j], args[j], iac)
                  \/ f.macro /\ SameType(f.params[j], PDNode)
      most  == IF Len(args) < Fixed(f) THEN Len(args) ELSE Fixed(f)
  IN  CHOOSE m \in 0 .. most :
        /\ \A j \in 1 .. m : ok(j)
        /\ m = most \/ ~ok(m + 1)
DNodes(f, args, iac) ==
  {j \in 1 .. Fixed(f) : ~Passes(f.params[j], args[j], iac)}

MatchesAll(f, args, iac) ==
  /\ ~IsVarArgs(f) /\ Len(args) = Fixed(f)
  /\ Matched(f, args, iac) = Fixed(f)
MatchesRest(f, args, iac) ==
  IsVarArgs(f) /\ Matched(f, args, iac) = Fixed(f)

(* Of the macros, those with the fewest nodes for parameters (dnodes); of  *)
(* equally good ones the last that takes all arguments in the way its      *)
(* parameters suggest, or the first; unless one that has typed parameters  *)
(* comes before.                                                           *)
BestMacro(fs, args, macros, dnodes) ==
  LET fewest == {i \in macros : \A j \in macros : dnodes[i] <= dnodes[j]}
      fits   == {i \in fewest : (Len(args) = Fixed(fs[i])) # IsVarArgs(fs[i])}
      byDNodes == IF fits # {} THEN Max(fits) ELSE Min(fewest)
      typed  == {i \in macros : dnodes[i] < Fixed(fs[i])}
      untypedParams(i) ==
        Cardinality({j \in 1 .. Len(fs[i].params) :
                       SameType(fs[i].params[j], PDNode)})
  IN  IF typed # {} /\ untypedParams(Min(typed)) < dnodes[byDNodes]
        THEN fs[Min(typed)]
      ELSE fs[byDNodes]
(* Of what matches all, and of the varargs candidates that match.          *)
Best(fs, args, iac, all, rest) ==
  LET defs   == {i \in all : ~fs[i].macro /\ ~IsDeclaration(fs[i])}
      decls  == {i \in all : IsDeclaration(fs[i])}
      \* the varargs candidates that were the best so far when met
      better == {i \in rest : \A j \in rest : j < i => Fixed(fs[j]) < Fixed(fs[i])}
      macros == {i \in all \cup better : fs[i].macro}
  IN  IF defs # {} THEN fs[Min(defs)]
      ELSE IF decls # {} THEN fs[Max(decls)]
      ELSE IF better # {} /\ ~fs[Max(better)].macro THEN fs[Max(better)]
      ELSE IF macros = {} THEN None
      ELSE BestMacro(fs, args, macros,
                     [i \in macros |-> Cardinality(DNodes(fs[i], args, iac))])
(* Namespace::getFunction.  A definition that matches is taken at once; a  *)
(* declaration or a varargs function that matches only if there is none;   *)
(* then come macros, and last a varargs macro.                             *)
GetFunction(fs, args, onlyMacros, iac) ==
  LET seen == {i \in 1 .. Len(fs) : fs[i].macro \/ ~onlyMacros}
  IN  Best(fs, args, iac, {i \in seen : MatchesAll(fs[i], args, iac)},
           {i \in seen : MatchesRest(fs[i], args, iac)})

(* getFunctionNoTypes: the last definition of the kind, or else the last   *)
(* declaration.                                                            *)
GetFunctionNoTypes(fs, isMacro) ==
  LET ok   == {i \in 1 .. Len(fs) : fs[i].macro = isMacro}
      defs == {i \in ok : ~IsDeclaration(fs[i])}
  IN  IF ok = {} THEN None
      ELSE IF defs # {} THEN fs[Max(defs)] ELSE fs[Max(ok)]

(* Context::getFunction and getFunction_: the namespaces in use, innermost *)
(* first, each with constness regarded and then without.                   *)
GetInNamespace(fs, args, onlyMacros) ==
  LET or(strict) == IF strict # None THEN strict
                    ELSE GetFunction(fs, args, onlyMacros, TRUE)
  IN  or(GetFunction(fs, args, onlyMacros, FALSE))
Resolve(args, onlyMacros) ==
  LET got == [i \in 1 .. Len(Used) |-> GetInNamespace(lists[Used[i]], args, onlyMacros)]
      first(f) == LET has == {i \in 1 .. Len(Used) : f[i] # None}
                  IN  IF has = {} THEN None ELSE f[Max(has)]
  IN  first(got)

(* existsExternCFunction, existsNonExternCFunction, isOverloadedFunction.  *)
AllFunctions == UNION {ToSet(lists[Used[i]]) : i \in 1 .. Len(Used)}
ExistsExternCFunction    == \E f \in AllFunctions : f.linkage = "extern_c"
ExistsNonExternCFunction == \E f \in AllFunctions : f.linkage # "extern_c"
IsOverloadedFunction ==
  LET first == CHOOSE i \in 1 .. Len(Used) :
                 /\ lists[Used[i]] # <<>>
                 /\ \A j \in i + 1 .. Len(Used) : lists[Used[j]] = <<>>
  IN  AllFunctions # {} /\
      \E g \in AllFunctions : ~SameFunction(Head(lists[Used[first]]), g)

(***************************************************************************)
(* Namespace::addFunction.  An equal declaration is replaced; an equal     *)
(* definition stays, and the new one is not entered, though the result is  *)
(* success; a macro and a function with the same parameters conflict.      *)
(***************************************************************************)
Conflict(f, g) == f.macro # g.macro /\ SameTypes(f.params, g.params)
SameEntry(f, g) == f.macro = g.macro /\ SameFunction(f, g)

AddFunction(fs, f) ==
  LET stops == {i \in 1 .. Len(fs) :
                  \/ Conflict(f, fs[i])
                  \/ SameEntry(f, fs[i]) /\ ~IsDeclaration(fs[i])}
      upto  == IF stops = {} THEN Len(fs) ELSE Min(stops) - 1
      kept  == SelectSeq(SubSeq(fs, 1, upto), LAMBDA g : ~SameEntry(f, g))
               \o SubSeq(fs, upto + 1, Len(fs))
  IN  [ok   |-> stops = {} \/ ~Conflict(f, fs[Min(stops)]),
       list |-> IF stops = {} THEN Append(kept, f) ELSE kept]

AsArguments(f) ==
  [i \in 1 .. Len(f.params) |->
     Arg(f.params[i], IF f.params[i].ref THEN "yes" ELSE "no")]
Redeclares(m, f) ==
  m # None /\ ~m.macro /\ ~IsVarArgs(m) =>
    SameFunction(m, f) /\ IsDeclaration(m) /\ m.inline = f.inline
Mut_IsValidDeclaration(fs, f) ==
  \E m \in {GetFunction(fs, AsArguments(f), FALSE, TRUE)} :
    m # None /\ ~m.macro /\ ~IsVarArgs(m) =>
      SameFunction(m, f) /\ m.inline = f.inline
(* isValidDeclaration: what a call with these parameters would get must    *)
(* be a declaration of the same function with the same attributes.         *)
IsValidDeclaration(fs, f) ==
  Redeclares(IF f.linkage = "extern_c" THEN GetFunctionNoTypes(fs, FALSE)
             ELSE GetFunction(fs, AsArguments(f), FALSE, TRUE), f)

Mut_Enter(ns, f, isDecl) ==
  \E added \in {AddFunction(lists[ns], f)} :
      /\ lists' = [lists EXCEPT ![ns] = added.list]
      /\ module' = IF isDecl THEN module ELSE module \cup {f.sym}
      /\ bodies' = IF isDecl THEN bodies ELSE bodies \cup {f.sym}
      /\ accepted' = accepted \cup {[ns |-> ns, fn |-> f]}
      /\ state' = IF added.ok THEN state ELSE "failed"
Enter(ns, f, isDecl) ==
  \E added \in {AddFunction(lists[ns], f)} :
      /\ module' = module \cup {f.sym}
      /\ lists' = [lists EXCEPT ![ns] = added.list]
      /\ IF added.ok
           THEN /\ accepted' = IF isDecl THEN accepted
                             ELSE accepted \cup {[ns |-> ns, fn |-> f]}
                /\ bodies' = IF isDecl THEN bodies ELSE bodies \cup {f.sym}
                /\ state' = state
           ELSE state' = "failed" /\ UNCHANGED <<accepted, bodies>>

Error == state' = "failed" /\ UNCHANGED <<lists, bodies, module, accepted>>

ValuesOf(r, ids) == [k \in DOMAIN ids |-> Value(r, ids[k])]

(* parseParameters: no array but by reference.                             *)
Parsed(p, ts) == [reg |-> p.reg, types |-> ts, ok |-> p.ok]
Parameters(exprs) ==
  LET checked(p) ==
        [p EXCEPT !.ok = @ /\ exprs # <<>>
           /\ \A k \in DOMAIN p.types : p.types[k].kind = "array" => p.types[k].ref]
      values(p) == Parsed(p, ValuesOf(p.reg, p.ids))
  IN  checked(values(ParseParameters(reg, exprs, Allowing(FALSE, TRUE, FALSE))))

(* FormFunctionParse, with a body that is accepted or without one.  The    *)
(* LLVM function is shared with whatever has the symbol; if that has a     *)
(* body, the compiler aborts.                                              *)
NewFunction(ns, params, linkage, inline) ==
  [macro |-> FALSE, params |-> params, linkage |-> linkage,
   sym |-> Symbol(ns, params, linkage), inline |-> inline]
Allowed(ns, parsed, f) ==
  /\ parsed.ok
  /\ f.linkage = "extern_c" =>
       \A i \in DOMAIN f.params : ~f.params[i].ref /\ ~f.params[i].rv
  /\ IsValidDeclaration(lists[ns], f)
DefineFunction(ns, exprs, linkage, inline, isDecl) ==
  /\ state = "going" /\ Cardinality(module) < MaxFunctions
  /\ \E parsed \in {Parameters(exprs)} :
       \E f \in {NewFunction(ns, parsed.types, linkage, inline)} :
         /\ reg' = parsed.reg /\ UNCHANGED imported
         /\ IF ~Allowed(ns, parsed, f) THEN Error
            ELSE IF f.sym \in bodies
              THEN state' = "aborted" /\ UNCHANGED <<lists, bodies, module, accepted>>
            ELSE Enter(ns, f, isDecl)

(* removeMacro: the first macro of the name.                               *)
RemoveMacro(fs) ==
  LET ms == {i \in 1 .. Len(fs) : fs[i].macro}
  IN  IF ms = {} THEN fs ELSE RemoveAt(fs, Min(ms))

(* A parameter of a macro is a node, unless it has a type.                 *)
MacroParameters(exprs) ==
  LET values(p) == Parsed(p, ValuesOf(p.reg, p.ids))
  IN  values(ParseParameters(reg, exprs, Allowing(FALSE, FALSE, FALSE)))
NewMacro(ns, params) ==
  [macro |-> TRUE, params |-> params, linkage |-> "intern",
   sym |-> Symbol(ns, <<PMContext>> \o params, "intern"), inline |-> FALSE]

(* FormTopLevelMacroParse: a macro must be new to the module.  If there    *)
(* is an error in its body (fails), a macro is removed.                    *)
FailInBody(ns, f, added) ==
  /\ added.ok
  /\ state' = "failed"
  /\ module' = module \cup {f.sym} /\ bodies' = bodies \cup {f.sym}
  /\ lists' = [lists EXCEPT ![ns] = RemoveMacro(added.list)]
  /\ UNCHANGED accepted
DefineMacro(ns, exprs, isDecl, fails) ==
  /\ state = "going" /\ Cardinality(module) < MaxFunctions /\ UNCHANGED imported
  /\ \E parsed \in {MacroParameters(exprs)} :
       \E f \in {NewMacro(ns, parsed.types)} :
         /\ reg' = parsed.reg
         /\ \/ (~parsed.ok \/ f.sym \in module) /\ ~fails /\ Error
            \/ parsed.ok /\ f.sym \notin module /\ ~fails /\ Enter(ns, f, isDecl)
            \/ /\ parsed.ok /\ f.sym \notin module /\ fails /\ ~isDecl
               /\ FailInBody(ns, f, AddFunction(lists[ns], f))

(* Module::Reader and Namespace::merge: an extern function that a module    *)
(* provides.  Its types are looked up in the register as they are read, and*)
(* its symbol is as it was written; it is declared in the LLVM module, and *)
(* the merge is asserted to succeed.                                       *)
ReadTypes(r, es) ==
  LET upto[k \in 0 .. Len(es)] ==
        IF k = 0 THEN [reg |-> r, ids |-> <<>>]
        ELSE LET g == GetForeignType(upto[k - 1].reg, Written(Denotes(es[k])))
             IN  [reg |-> g.reg, ids |-> Append(upto[k - 1].ids, g.id)]
  IN  upto[Len(es)]
Imported(ns, types, spelt) ==
  [macro |-> FALSE, params |-> types, linkage |-> "extern",
   sym |-> Symbol(ns, spelt, "extern"), inline |-> FALSE]
ImportFunction(ns, provided) ==
  /\ state = "going" /\ Cardinality(module) < MaxFunctions
  /\ UNCHANGED <<bodies, accepted>>
  /\ \E read \in {ReadTypes(reg, <<provided.ret>> \o provided.params)} :
     \E spelt \in {[k \in DOMAIN provided.params |-> Denotes(provided.params[k])]} :
     \E f \in {Imported(ns, Tail(ValuesOf(read.reg, read.ids)), spelt)} :
     \E added \in {AddFunction(lists[ns], f)} :
       /\ reg' = read.reg
       /\ lists' = [lists EXCEPT ![ns] = added.list]
       /\ module' = module \cup {f.sym}
       /\ imported' = imported @@ (f.sym :> spelt)
       /\ state' = IF added.ok THEN state ELSE "aborted"

Init == /\ lists = [ns \in ToSet(Used) |-> <<>>]
        /\ bodies = {} /\ module = {} /\ accepted = {} /\ state = "going"
        /\ reg = NewRegister /\ imported = <<>>

Next ==
  \E ns \in ToSet(Used) :
    \/ \E d \in Definitions :
         DefineFunction(ns, d.params, d.linkage, d.inline, d.decl)
    \/ \E p \in MacroParams, d, f \in BOOLEAN : DefineMacro(ns, p, d, f)
    \/ \E p \in Provided : ImportFunction(ns, p)

Spec == Init /\ [][Next]_vars

-----------------------------------------------------------------------------
Functions == UNION {ToSet(lists[ns]) : ns \in DOMAIN lists}

(* Lists hold distinct functions that the module knows.                    *)
TypeOK ==
  /\ state \in {"going", "failed", "aborted"}
  /\ bodies \subseteq module
  /\ \A ns \in DOMAIN lists :
       \A i \in 1 .. Len(lists[ns]) : lists[ns][i].sym \in module

(* However types were made before, by declarations or from modules, a type *)
(* expression denotes the type that it spells, and a type that is read     *)
(* from a module is the one that was written to it; rvalue references are  *)
(* excepted, for they are not written.                                     *)
HasRv(t) == t.rv \/ \E k \in DOMAIN t.sub : t.sub[k].rv
ReadAsWritten(e) ==
  LET g == GetForeignType(reg, Written(Denotes(e)))
  IN  Value(g.reg, g.id) = Denotes(e)

(* "Putting aside function types, there should generally only be one       *)
(* instance for a given type" (TypeRegister.h): an expression that is met  *)
(* again has the same object, and so has the type when it comes from a     *)
(* module, unless it is const and a reference, which the register applies  *)
(* in another order than they are written.                                 *)
SameInstance(p, e) ==
  LET q == ParseType(p.reg, e, Allowing(FALSE, TRUE, FALSE))
      g == GetForeignType(p.reg, Written(Denotes(e)))
      t == p.reg.obj[p.id]
  IN  /\ q.id = p.id
      /\ (t.const /\ t.ref) \/ HasRv(Denotes(e)) \/ g.id = p.id
TypesDenote ==
  \A e \in TypeExpressions :
    \A p \in {ParseType(reg, e, Allowing(FALSE, TRUE, FALSE))} :
        /\ p.id > NoId => Value(p.reg, p.id) = Denotes(e) /\ SameInstance(p, e)
        /\ ~HasRv(Denotes(e)) => ReadAsWritten(e)

(* Every definition that was accepted is entered, so that getFunction can  *)
(* reach it, and entered once: a namespace has one entry for a function,   *)
(* however it was declared and defined (addFunction replaces a declaration *)
(* by its definition), and no macro that takes what a function takes.      *)
(* Varargs and extern-c functions need not be entered: a varargs function  *)
(* that is in the way is not looked at by isValidDeclaration, and for      *)
(* extern-c the last definition of the name is all it looks at; then an    *)
(* equal function is accepted and dropped.                                 *)
EnteredOnce ==
  /\ \A ns \in DOMAIN lists : \A i, j \in 1 .. Len(lists[ns]) :
       i # j => /\ ~SameEntry(lists[ns][i], lists[ns][j])
                /\ ~Conflict(lists[ns][i], lists[ns][j])
  /\ state = "going" =>
       \A a \in {b \in accepted : ~IsVarArgs(b.fn) /\ b.fn.linkage = "intern"} :
         a.fn \in ToSet(lists[a.ns])

(* Where a function is found whose parameters take the arguments and that  *)
(* has a body, it does not depend on the order in which the functions were *)
(* defined, as long as none is imported: merge does not ask                *)
(* isValidDeclaration, so an import may add a function that takes the same *)
(* arguments as another.                                                   *)
Own == {ns \in DOMAIN lists : \A f \in ToSet(lists[ns]) : f.linkage # "extern"}
OrderOfDefinition ==
  state = "going" =>
    \A ns \in Own, args \in Arguments :
      \A got \in {GetInNamespace(lists[ns], args, FALSE)} :
          got # None /\ ~got.macro /\ ~IsDeclaration(got) =>
            GetInNamespace(Reverse(lists[ns]), args, FALSE) = got

(* The const that an argument's type has behind a pointer is never lost by *)
(* passing it, whatever candidates there are.  Behind a pointer to         *)
(* functions it is the other way round for their parameters.               *)
RECURSIVE KeepsConst(_, _, _)
KeepsConst(param, arg, deep) ==
  /\ deep /\ arg.const => param.const
  /\ param.kind = arg.kind
  /\ CASE arg.kind \in {"pointer", "array"} ->
            KeepsConst(param.sub[1], arg.sub[1], TRUE)
       [] arg.kind = "function" ->
            \A i \in 2 .. Len(arg.sub) :
              KeepsConst(arg.sub[i], param.sub[i], FALSE)
       [] OTHER -> TRUE
ConstKept(param, arg) ==
  \/ KeepsConst(param, arg.type, FALSE)
  \/ \E k \in 1 .. Len(arg.arr) : KeepsConst(param, arg.arr[k], FALSE)

(* An argument that is not an lvalue is never bound to a reference through *)
(* which it could be set, nor an lvalue to an rvalue reference.            *)
ReferenceBinds(param, arg) ==
  /\ param.ref /\ ~param.const => arg.lvalue # "no"
  /\ param.rv => arg.lvalue # "yes" /\ ~arg.type.const

(* Whatever function the arguments of a call select, each of them may be   *)
(* given to its parameter.                                                 *)
ArgumentsFit ==
  \A args \in Arguments :
    \A got \in {Resolve(args, FALSE)} :
        got # None => \A i \in 1 .. Fixed(got) :
          /\ ReferenceBinds(got.params[i], args[i])
          /\ ~got.macro => ConstKept(got.params[i], args[i])
=============================================================================
