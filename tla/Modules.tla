------------------------------ MODULE Modules ------------------------------
(***************************************************************************)
(* Separate compilation: Generator::run over the forms of a program or     *)
(* module, Module::Reader::run for imports and their dependencies, the     *)
(* merging of contexts, include with once tags, and Module::Writer::run,   *)
(* which may be stopped between its files.                                 *)
(*                                                                         *)
(* A binding is a record: namespace ("" is the root), name, kind, linkage; *)
(* own is Function::serialise and its like, false once it has been read    *)
(* from a module; home is the module it was read from (for properties).  A *)
(* namespace has one function or macro of a name, without parameters       *)
(* (Overloads is about the others).  Forms that an import asks for are     *)
(* tuples: <<"f">>, <<"n", "f">> for n.f, <<"n">> for all of n.            *)
(***************************************************************************)
EXTENDS Integers, Sequences, SequencesExt

CONSTANTS
  ModuleOrder,  \* names of modules, in the order std::map keeps them
  Definitions,  \* what may be defined: [ns, name, kind, linkage]
  Headers,      \* include files: name |-> [tag, defs], tag "" if none
  Asks,         \* [module -> sets of forms that an import asks for]
  Begins,       \* where a name begins with a namespace's name:
                \* <<name, namespace>> |-> the rest without one character more
  Options,      \* command lines: [static, all, removeMacros]
  MaxSessions,  \* bound: runs of the compiler
  MaxForms      \* bound: forms in one run

ASSUME BoundsAssumption == MaxSessions \in Nat /\ MaxForms \in Nat
ASSUME OrderAssumption  == ModuleOrder \in Seq(ToSet(ModuleOrder))
ASSUME HeaderAssumption ==
  \A h \in DOMAIN Headers : Headers[h].defs \in Seq(ToSet(Headers[h].defs))
ASSUME KindAssumption ==
  \A d \in Definitions \cup UNION {ToSet(Headers[h].defs) : h \in DOMAIN Headers} :
    d.kind \in {"fn", "macro", "var", "struct"}

VARIABLES
  disk,     \* per module: library and -nomacros library as the number of
            \* the run that wrote them (0: none), and the .dtm file (seen is
            \* history: what was visible at the end of the module)
  s,        \* the state of the running compiler
  run       \* runs so far
vars == <<disk, s, run>>

ModuleNames == ToSet(ModuleOrder)
Program     == "program"
Here        == "here"
NoFile      == [run |-> 0, bindings |-> {}, nss |-> {}, once |-> {},
                deps |-> <<>>, cto |-> FALSE, seen |-> {}]

Key(b) == <<b.ns, b.name, b.kind>>
Callables == {"fn", "macro"}
IsExtern(b)    == b.linkage \in {"extern", "extern_c"}
IsExternAll(b) == b.linkage \in {"extern", "extern_c", "extern_weak"}
(* What merge and removeUnneeded take for extern, by kind.                 *)
Exported(b) == IF b.kind \in Callables THEN IsExternAll(b) ELSE IsExtern(b)

(***************************************************************************)
(* Contexts: [bindings, nss], nss the namespaces that are children of the  *)
(* root.                                                                   *)
(***************************************************************************)
(* removeUnneeded: of the root what is asked for by name; of a child all,  *)
(* or what is asked for by qualified name.                                 *)
Subform(f, ns) ==
  IF Len(f) = 2 /\ f[1] = ns THEN f[2]
  ELSE IF Len(f) = 1 /\ <<f[1], ns>> \in DOMAIN Begins THEN Begins[<<f[1], ns>>]
  ELSE ""
Mut_Wanted(forms, b) == b.ns = "" => <<b.name>> \in forms
Wanted(forms, b) ==
  IF b.ns = "" THEN <<b.name>> \in forms
  ELSE \/ <<b.ns>> \in forms
       \/ \E f \in forms : b.name = Subform(f, b.ns)
RemoveUnneeded(ctx, forms) ==
  [ctx EXCEPT !.bindings = {b \in @ : Wanted(forms, b)}]
Found(ctx, forms) ==
  {f \in forms :
     \/ Len(f) = 1 /\ f[1] \in ctx.nss
     \/ \E b \in ctx.bindings :
          /\ Exported(b) /\ Wanted(forms, b) /\ <<b.ns>> \notin forms
          /\ f = IF b.ns = "" THEN <<b.name>> ELSE <<b.ns, b.name>>}

Keys(bindings) == {Key(b) : b \in bindings}

Mut_MergeBindingsAdd(into, taken, bodies) == into \cup taken
Mut_MergeBindings(into, taken, bodies) ==
  LET entering == {b \in taken : b.linkage # "extern_weak"}
  IN  {c \in into : Key(c) \notin Keys(entering)} \cup entering
(* Namespace::merge.  A function replaces a declaration that is equal;     *)
(* otherwise what is there stays.                                          *)
MergeBindings(into, taken, bodies) ==
  LET entering == {b \in taken : \/ Key(b) \notin Keys(into)
                                 \/ b.kind \in Callables /\ Key(b) \notin bodies}
  IN  {c \in into : Key(c) \notin Keys(entering)} \cup entering

(* A function and a macro that take the same do not go together; merge     *)
(* asserts that they do not meet.                                          *)
Conflict(b, c) == /\ b.ns = c.ns /\ b.name = c.name
                  /\ {b.kind, c.kind} = Callables

(* Context::merge: a namespace that the target does not have is moved      *)
(* there as it is.                                                         *)
Merge(ctx, new, bodies) ==
  LET fresh == new.nss \ ctx.nss
      taken == {b \in new.bindings : b.ns \in fresh \/ Exported(b)}
  IN  [nss |-> ctx.nss \cup new.nss,
       bindings |-> MergeBindings(ctx.bindings, taken, bodies),
       ok |-> ~\E b \in taken, c \in ctx.bindings : Conflict(b, c)]

(***************************************************************************)
(* The reader.                                                             *)
(***************************************************************************)
(* Which way a module's library gets into the program.  A dependency goes  *)
(* by the name lib<m>, and those that are to be static are given as m.     *)
StaticModule(st, m, asDependency) ==
  st.opts.all \/ (m \in st.opts.static /\ ~asDependency)

(* What has a body in a module's bitcode: without macros, and functions of *)
(* a compile-time only module, if the -nomacros file is taken.             *)
BodiesOf(file, noMacros) ==
  {Key(b) : b \in {c \in file.bindings :
     /\ c.kind # "struct"
     /\ noMacros => ~(c.kind = "macro" \/ (c.kind = "fn" /\ file.cto))}}

Mut_Linked(st, m, static, cto) ==
  [st EXCEPT !.so = IF cto \/ m \in DOMAIN st.included THEN @ ELSE @ \cup {m}]
(* A static module is linked into the LLVM module at once; a second body   *)
(* for an extern symbol fails, which is asserted not to happen.            *)
Linked(st, m, static, cto) ==
  LET bodies == BodiesOf(disk[m].file, cto \/ st.opts.removeMacros)
      twice  == {b \in disk[m].file.bindings :
                   IsExtern(b) /\ Key(b) \in bodies \cap st.bodies}
  IN  IF static THEN [st EXCEPT !.bodies = @ \cup bodies,
                                !.linked = @ \cup {m},
                                !.aborted = @ \/ twice # {}]
      ELSE IF cto THEN st
      ELSE [st EXCEPT !.so = @ \cup {m}]

Failed(st) == [ok |-> FALSE, st |-> [st EXCEPT !.errors = @ + 1], calls |-> <<>>]

Mut_Once(st, file) == [st EXCEPT !.once = @]
(* A module's once tags are taken over, with those of what it imported.    *)
Once(st, file) == [st EXCEPT !.once = @ \cup file.once]

Mut_Included(st, m, forms) == st
Included(st, m, forms) ==
  [st EXCEPT !.included =
     [d \in DOMAIN @ \cup {m} |-> IF d = m THEN forms ELSE @[d]]]

(* Reader::run calls itself for the dependencies of a module, in the order *)
(* of their names, with the forms that they were imported with.  r is a    *)
(* moment of that: the state, the calls that have not returned, innermost  *)
(* first (next is the place in the order that is looked at next), and      *)
(* whether none has failed; the callers of one that fails do nothing more. *)
CallRun(r, m, forms, asDependency) ==
  IF m \in DOMAIN r.st.included THEN r
  ELSE IF disk[m].file = NoFile THEN Failed(r.st)
  ELSE [r EXCEPT !.st = Included(@, m, forms),
                 !.calls = <<[m |-> m, forms |-> forms, next |-> 1,
                              asDependency |-> asDependency]>> \o @]

NextDependency(r) ==
  LET call == Head(r.calls)
      d    == ModuleOrder[call.next]
      deps == disk[call.m].file.deps
      on   == [r EXCEPT !.calls = <<[call EXCEPT !.next = @ + 1]>> \o Tail(@)]
  IN  IF d \in DOMAIN deps THEN CallRun(on, d, deps[d], TRUE) ELSE on

(* What comes from a module's file, and of that what was asked for.        *)
Loaded(file, m) ==
  [nss |-> file.nss,
   bindings |-> {[b EXCEPT !.own = FALSE, !.home = m] : b \in file.bindings}]
Fetched(file, m, forms) ==
  IF forms = {} THEN Loaded(file, m) ELSE RemoveUnneeded(Loaded(file, m), forms)

(* After the dependencies: the library if it is loaded at runtime, the     *)
(* tags, the forms that were asked for, the library if it is static, and   *)
(* the merge.                                                              *)
Provide(r) ==
  LET call   == Head(r.calls)
      file   == disk[call.m].file
      static == StaticModule(r.st, call.m, call.asDependency)
      linked == Linked(r.st, call.m, static, file.cto)
      tagged == Once(linked, file)
      merged == Merge(tagged.ctx, Fetched(file, call.m, call.forms), tagged.bodies)
  IN  IF call.forms # {} /\ Found(Loaded(file, call.m), call.forms) # call.forms
        THEN Failed(Once(IF static THEN r.st ELSE linked, file))
      ELSE [r EXCEPT
              !.calls = Tail(@),
              !.st = [tagged EXCEPT
                        !.ctx = [nss |-> merged.nss, bindings |-> merged.bindings],
                        !.aborted = @ \/ ~merged.ok]]

ReadStep(r) ==
  IF r.calls = <<>> THEN r
  ELSE IF Head(r.calls).next <= Len(ModuleOrder) THEN NextDependency(r)
  ELSE Provide(r)

(* No module is read twice, and a call looks at each module once.          *)
ReadSteps == Len(ModuleOrder) * (Len(ModuleOrder) + 1)

Read(st, m, forms) ==
  LET r[k \in 0 .. ReadSteps] ==
        IF k = 0 THEN CallRun([ok |-> TRUE, st |-> st, calls |-> <<>>], m, forms, FALSE)
        ELSE ReadStep(r[k - 1])
  IN  r[ReadSteps]

(***************************************************************************)
(* A run of the compiler.  The forms of a file are parsed one by one; an   *)
(* error does not stop the parsing, but then nothing is written.           *)
(***************************************************************************)
Idle == [phase |-> "idle"]
Fresh(opts) ==
  [phase |-> "parsing", name |-> Program, cto |-> FALSE, opts |-> opts,
   ctx |-> [nss |-> {}, bindings |-> {}], included |-> <<>>, once |-> {},
   so |-> {}, linked |-> {}, bodies |-> {}, errors |-> 0, aborted |-> FALSE,
   forms |-> 0, imports |-> {}, includes |-> {}]

Start ==
  /\ s.phase = "idle" /\ run < MaxSessions
  /\ \E opts \in Options : s' = Fresh(opts)
  /\ run' = run + 1 /\ UNCHANGED disk

(* An error does not stop the parsing; here one form more is parsed.       *)
Parsing == /\ s.phase = "parsing" /\ s.forms < MaxForms /\ ~s.aborted
           /\ s.errors <= 1

(* module: one only, before or after other forms.  Modules that import an  *)
(* older version of themselves, through others or not, are left out.       *)
ModuleForm(m, cto) ==
  /\ Parsing /\ m \notin DOMAIN s.included
  /\ s' = IF s.name # Program THEN [s EXCEPT !.errors = @ + 1, !.forms = @ + 1]
          ELSE [s EXCEPT !.name = m, !.cto = cto, !.forms = @ + 1]
  /\ UNCHANGED <<disk, run>>

ImportForm(m, forms) ==
  LET read == Read(s, m, forms)
  IN  /\ Parsing /\ s.name \notin DOMAIN read.st.included
      /\ s' = [read.st EXCEPT
                 !.forms = @ + 1,
                 !.errors = IF read.ok THEN @ ELSE @ + 1,
                 !.imports = IF read.ok THEN @ \cup {<<m, forms>>} ELSE @]
      /\ UNCHANGED <<disk, run>>

(* What may not be defined: a function or macro that has a body or would  *)
(* be in conflict, a variable that is there, a struct that is not opaque.  *)
There(st, b) == {c \in st.ctx.bindings : Key(c) = Key(b)}
RedefinesCallable(st, b) ==
  Key(b) \in st.bodies \/ \E c \in st.ctx.bindings : Conflict(b, c)
RedefinesVariable(st, b) == b.kind = "var" /\ There(st, b) # {}
RedefinesStruct(st, b)   == b.kind = "struct" /\ There(st, b) # {}

(* FormTopLevelDefParse, in its namespace.  A function or macro replaces a *)
(* declaration.                                                            *)
DefineIn(st, d) ==
  LET b == [ns |-> d.ns, name |-> d.name, kind |-> d.kind,
            linkage |-> d.linkage, own |-> TRUE, home |-> Here]
      open == [st EXCEPT !.ctx.nss = @ \cup ({d.ns} \ {""})]
  IN  IF \/ RedefinesCallable(st, b)
         \/ RedefinesVariable(st, b) \/ RedefinesStruct(st, b)
        THEN [open EXCEPT !.errors = @ + 1]
      ELSE [open EXCEPT
              !.ctx.bindings = (@ \ There(st, b)) \cup {b},
              !.bodies = IF b.kind = "struct" THEN @ ELSE @ \cup {Key(b)}]
DefineAll(st, defs) ==
  LET r[k \in 0 .. Len(defs)] == IF k = 0 THEN st ELSE DefineIn(r[k - 1], defs[k])
  IN  r[Len(defs)]
Define(d) ==
  /\ Parsing
  /\ s' = [DefineIn(s, d) EXCEPT !.forms = @ + 1]
  /\ UNCHANGED <<disk, run>>

(* include: a file whose once tag is known already is left out.            *)
Include(h) ==
  LET tag  == Headers[h].tag
      tagged == IF tag = "" THEN s ELSE [s EXCEPT !.once = @ \cup {tag}]
  IN  /\ Parsing
      /\ s' = IF tag \in s.once
                THEN [s EXCEPT !.forms = @ + 1, !.includes = @ \cup {h}]
              ELSE [DefineAll(tagged, Headers[h].defs)
                      EXCEPT !.forms = @ + 1, !.includes = @ \cup {h}]
      /\ UNCHANGED <<disk, run>>

(* The end of the last file.                                               *)
EndOfFile ==
  /\ s.phase = "parsing"
  /\ s' = IF s.aborted \/ s.errors > 0 \/ s.name = Program THEN Idle
          ELSE [s EXCEPT !.phase = "libraries"]
  /\ UNCHANGED <<disk, run>>

Mut_WriteLibraries ==
  /\ s.phase = "libraries"
  /\ disk' = [disk EXCEPT ![s.name].lib = run, ![s.name].file.run = run]
  /\ s' = [s EXCEPT !.phase = "nomacros"] /\ UNCHANGED run
(* Writer::run, file by file.                                              *)
WriteLibraries ==
  /\ s.phase = "libraries"
  /\ disk' = [disk EXCEPT ![s.name].lib = run]
  /\ s' = [s EXCEPT !.phase = "nomacros"] /\ UNCHANGED run
WriteNoMacros ==
  /\ s.phase = "nomacros"
  /\ disk' = [disk EXCEPT ![s.name].nm = run]
  /\ s' = [s EXCEPT !.phase = "context"] /\ UNCHANGED run

(* removeDeserialised: what was read from modules is not written again;    *)
(* they are dependencies instead.                                          *)
Written(st) == {b \in st.ctx.bindings : b.own}
WriteContext ==
  /\ s.phase = "context"
  /\ disk' = [disk EXCEPT ![s.name].file =
                [run |-> run, bindings |-> Written(s), nss |-> s.ctx.nss,
                 once |-> s.once, deps |-> s.included, cto |-> s.cto,
                 seen |-> {Key(b) : b \in {c \in s.ctx.bindings : Exported(c)}}]]
  /\ s' = Idle /\ UNCHANGED run

(* llc, the C compiler or the disk fails: the compiler stops.              *)
Stop ==
  /\ s.phase \in {"libraries", "nomacros", "context"}
  /\ s' = Idle /\ UNCHANGED <<disk, run>>

Init == /\ disk = [m \in ModuleNames |-> [lib |-> 0, nm |-> 0, file |-> NoFile]]
        /\ s = Idle /\ run = 0
Next ==
  \/ Start
  \/ \E m \in ModuleNames, cto \in BOOLEAN : ModuleForm(m, cto)
  \/ \E m \in ModuleNames : \E forms \in Asks[m] : ImportForm(m, forms)
  \/ \E d \in Definitions : Define(d)
  \/ \E h \in DOMAIN Headers : Include(h)
  \/ EndOfFile \/ WriteLibraries \/ WriteNoMacros \/ WriteContext \/ Stop
Spec == Init /\ [][Next]_vars

-----------------------------------------------------------------------------
(* The maps of a namespace hold one binding for a name, and every binding  *)
(* is in a namespace that exists.                                          *)
TypeOK ==
  /\ s.phase \in {"idle", "parsing", "libraries", "nomacros", "context"}
  /\ s.phase # "idle" =>
       \A b, c \in s.ctx.bindings :
         /\ Key(b) = Key(c) => b = c
         /\ b.ns \in s.ctx.nss \cup {""}

(* "By default, all extern-scope bindings within a module, including       *)
(* bindings imported by the module itself, will be made available within   *)
(* the importing file": after imports that succeeded, what each asked for  *)
(* is there, and what the modules' own imports asked for.  A file that was *)
(* included, or was left out because a module that is imported in full has *)
(* its tag, has its extern bindings visible, too, unless dependencies of a *)
(* module were written anew since, without the file.                       *)
Asked(file, forms) ==
  Keys({b \in file.bindings : Exported(b) /\ (forms = {} \/ Wanted(forms, b))})
ImportDelivers(m, forms) ==
  LET file == disk[m].file
  IN  /\ Asked(file, forms) \subseteq Keys(s.ctx.bindings)
      /\ \A d \in DOMAIN file.deps :
           Asked(disk[d].file, file.deps[d]) \subseteq Keys(s.ctx.bindings)
Current(m) ==
  \A d \in DOMAIN disk[m].file.deps : disk[d].file.run < disk[m].file.run
IncludeDelivers(h) ==
  (\A m \in DOMAIN s.included :
     Current(m) /\ (s.included[m] # {} => Headers[h].tag \notin disk[m].file.once)) =>
    \A d \in {e \in ToSet(Headers[h].defs) : Exported(e)} :
      Key(d) \in Keys(s.ctx.bindings)
Delivers ==
  s.phase = "parsing" /\ s.errors = 0 /\ ~s.aborted =>
    /\ \A i \in s.imports : ImportDelivers(i[1], i[2])
    /\ \A h \in s.includes : IncludeDelivers(h)

(* What a module's own forms could use is what its importers get: reading  *)
(* it from its file alone brings in all that was exported and visible when *)
(* it was written, however it got there, if its dependencies have not been *)
(* written anew.                                                           *)
InterfaceKept ==
  \A m \in ModuleNames :
    LET file == disk[m].file
        alone == Fresh([static |-> {}, all |-> FALSE, removeMacros |-> FALSE])
        read == Read(alone, m, {})
    IN  s.phase = "idle" /\ file # NoFile
      /\ Current(m)
      => read.ok /\ file.seen \subseteq Keys(read.st.ctx.bindings)

(* "If {binding} instructions are included, only those bindings will be    *)
(* imported", except that a name may also stand for a binding of a         *)
(* namespace whose name it begins with.                                    *)
OnlyAsked ==
  [][s.phase = "parsing" /\ s'.phase = "parsing" =>
       \A i \in {k \in s'.imports \ s.imports : k[2] # {}} :
         \A b \in s'.ctx.bindings \ s.ctx.bindings :
           b.home = i[1] =>
             \/ <<b.name>> \in i[2] /\ b.ns = ""
             \/ {<<b.ns>>, <<b.ns, b.name>>} \cap i[2] # {}
             \/ \E f \in i[2] : Subform(f, b.ns) = b.name]_vars

(* "Linking is handled automatically": whatever is visible from a module   *)
(* that is there at runtime has that module's library in the program.      *)
VisibleIsLinked ==
  s.phase = "parsing" =>
    \A b \in s.ctx.bindings :
      ~b.own /\ ~disk[b.home].file.cto => b.home \in s.so \cup s.linked

(* A tagged file that an imported module has included, itself or through   *)
(* another module, is not compiled into the importer once more, if the     *)
(* imports succeeded.                                                      *)
IncludeOnce ==
  [][\A h \in DOMAIN Headers :
       /\ Include(h) /\ s.errors = 0
       /\ \E m \in DOMAIN s.included, d \in ModuleNames :
            /\ d = m \/ d \in DOMAIN disk[m].file.deps
            /\ Headers[h].tag \in disk[d].file.once
       => s'.ctx = s.ctx /\ s'.errors = s.errors]_vars

(* However the compiler is stopped, a .dtm file never describes a module   *)
(* newer than the libraries beside it.                                     *)
LibrariesFirst ==
  \A m \in ModuleNames :
    disk[m].file.run <= disk[m].nm /\ disk[m].nm <= disk[m].lib
=============================================================================
