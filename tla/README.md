# A TLA+ development of the Dale compiler

Dale is a systems language with S-expression syntax; its compiler reads a unit
of source, keeps every binding in a `Context` (a tree of namespaces), hands each
form to a handler (`Form/...`) and emits LLVM code as it goes.  It is a
sequential program.  What is hard in it is not concurrency but *protocol*:
dozens of mutually recursive handlers push and pop the same stacks, arguments
are parsed before it is known whether they belong to a function or to a macro
and have to be undone afterwards, destructor calls are placed by comparing
indices handed out by several counters, and gotos are resolved after the scopes
they leave have been closed.  Each is a sequence of many legal calls that ends
in a state no test was written for.

Paths below are relative to `src/src/dale/` unless they begin with `doc/`.

## Inventory

| Component | State | Operations | Hard behaviour | Correct when | Here |
|---|---|---|---|---|---|
| Context and namespaces (`Context`, `Namespace`) | tree of namespaces; stacks of active and used ones; stack of function scopes; per namespace variables, functions, `lv_index` | activate, deactivate, use, unuse, add and get variable or function, anonymous namespaces | any nesting of forms; reopened namespaces; one counter per namespace | stacks follow the forms; a name finds the innermost declaration; indices separate what a return or goto leaves | `Namespaces`, `Context` |
| Save points (`SavePoint`, `ContextSavePoint`, `NamespaceSavePoint`) | lengths of vectors, pointers to namespaces and a block | take, restore | nested save points; arguments that fail half way | restoring leaves no trace; nothing dangles | `Namespaces`, `Context`, `ProcBody` |
| Function bodies (`Form/ProcBody`, `Form/Proc/*`, `Operation/CloseScope`, `Destruct`) | basic blocks, labels, deferred gotos, the last `ParseResult` | def, label, goto, return, new-scope, if, calls; resolve gotos, terminate blocks, prune | scopes that end in another block; gotos over declarations and between scopes | every value is destructed once, on every path; blocks are well formed | `ProcBody`, `Lifetime`, `Values` |
| Function definitions (`Form/Function`, `Form/Parameter`, `createAnonymousFunction`) | function scope, index; the list of functions of a name | define, declare, define anonymously within a body | bodies within bodies share a chain of namespaces; redefinition is decided by overload resolution | a return closes only its own function's variables; what is accepted can be found | `Context`, `Overloads` |
| Calls and overloads (`FunctionProcessor`, `Namespace::getFunction`) | argument list, errors set aside | parse the arguments, choose a function, restore, bind references | errors put aside and put back; several candidates fit | the choice does not depend on the order of definition; no error lost; arguments fit | `Overloads`, `Calls`, `Values` |
| Macros (`MacroProcessor`, `DNodeConverter`, `Form/Macro`) | a JIT'd caller, its temporaries | choose, undo, expand, convert nodes back | arguments are parsed before it is known that they should not be | no trace of a tried expansion; atoms come back as they were | `Calls`, `Syntax` |
| Modules (`Module/Reader`, `Writer`, `Include`, once tags) | included modules, once tags, merged contexts; files of a module | import, include, define a module, write it | the same form by several routes, in several orders, from files of different ages | importers get what they asked for, once, with its code; nothing else | `Modules` |
| Units, generator | stack of units | push, pop, finish | files within files; going on after an error | reading ends | `Modules`, `Syntax`, `Calls` |
| Errors (`ErrorReporter`) | vector of errors, `error_index` | add, pop, flush, count, set aside | counting by type, erasing by offset, an index that only grows | no error is lost or taken from somebody else | `Calls` |
| Types (`Type`, `TypeRegister`) | objects shared by address, maps between them | parse, make, compare | memoisation by address; equality with exceptions | an object stays what its expression spells | `Types`, `TypeRegister` |
| Serialisation | byte streams | write, read types and contexts | what is written is not all there is | reading gives what was written | `TypeRegister`, `Modules` |
| Lexer and parser | file position, open lists | next token, next list, recovery | comments and strings at the end of a file, stray parentheses | nothing written is lost; reading ends | `Syntax` |
| Value operations (`Operation`, `Form/Literal`, `Form/Initialiser`) | flags of a parse result; the memory of the program | def, setf, copy, move, destroy, cast, access | who destroys a value is decided by flags set elsewhere | what was made is destroyed once; const is kept; literals mean the same everywhere | `Values` |
| REPL, introspection, LLVM and file utilities | | loop, query, wrap | | | no |

The parts interact by direct calls.  A handler receives the `Units` (whose top
holds the `Context`), the current `Function` and block, and returns a
`ParseResult`; the context, the function's blocks, its labels and its deferred
gotos are the shared state.  `FunctionProcessor` takes a `SavePoint` of all of
them before it parses arguments, and restores it if the call is a macro's.

## Modules

`Namespaces` holds the methods of `Context` and `Namespace` as operators from a
context (one record, as it is one object) to a context: the tree (`live`,
`name`, `parent`), the counters (`lv`), the vectors of variables and functions,
the two stacks, the function scopes, and the restoration of a save point.  It
has no variables and no recursion but that of a function (`Chain`, the way to
the root).  Variables are identified by their namespace and place.

`Context` runs those methods in the order the handlers call them.  An action is
a handler from one point at which it parses a nested form to the next; `open` is
the stack of handlers that are running, each with what it entered.
Everything a program can do with the context at a given point is enabled there:
the forms come in any order and nesting.  Which handlers it has: `namespace`
(`OpenNamespace`, `CloseNamespace`; also the qualifying parts of a dotted
definition), `using-namespace`, variables, functions (`BeginFunction` is
`FormFunctionParse` down to the first form of the body: the namespace of the
return type is entered and left, the function added, its index fixed and the
body's namespace entered), anonymous functions, which may also fail,
`new-scope`, branches of `if`, and calls with their save point.

`ProcBody` is one function body.  Its first phase parses forms in any order; it
uses `Namespaces` for the scopes and adds the blocks, the labels and the last
`ParseResult` (block, type, `treat_as_terminator`).  The destructor calls of one
`CloseScope` are a single instruction with a set of variables, types are `int`
or `void` (what an `if` compares), and a deferred goto is an instruction that
carries what `DeferredGoto` does.  It stands where its code will go, behind the
last instruction of the block, by which the code remembers the place.  A goto
that is first in its block has none to remember (`Unmarked`: the bitcast the code
means to add there is of a constant, and is no instruction).  If then a label
follows, which ends the block with a branch, the goto's code may go behind that
branch (`Overtakes`): `Finish` chooses.  `Finish` is
`resolveDeferredGotos`, `terminateBlocks` and `removePostTerminators` in one
step, since nothing runs in between; `Reject` stands for their errors.  The
second phase executes the blocks: `run` holds the program counter and how
many values each variable holds, and a conditional branch goes either way.

`Lifetime` is the abstract specification: values are constructed where there is
none, destructed where there is one, and a function returns when none is left.
`ProcBody!Lifetimes` states that `ProcBody` implements it, under the mapping of
`alive` to the counts and `over` to the phase `returned`; while the body is
parsed, and on branches, `Lifetime` stutters.

`Types` and `TypeRegister` are the values and the objects of types.  A value is a
record with the values it refers to; an object refers to other objects by their
number, as the code does by address, and the register remembers objects by the
numbers they were made from.  `ParseType` is `FormTypeParse` on expressions,
`Written` and `GetForeignType` what a module file does to a type and back.

`Overloads` adds functions and macros to namespaces that are all in use: an
action is a definition, a declaration, the end of a body (which may fail, and
leaves the function there), a macro, an import, or a type expression somewhere.
`GetFunction` is the loop of `Namespace::getFunction` over a list of candidates,
and what it chooses among; `Conflict`, `IsValidDeclaration` and `Enter` are the
three places where a second function of a name is looked at.

`Modules` runs compilers one after another on a disk.  A session reads forms
(`module`, `import`, in full or in part, `include` of a header with a once tag,
definitions), and then writes its libraries, its libraries without macros and
its `.dtm` file, one by one; it may stop before any of them.  A file remembers
the run that wrote it and what it holds; bindings have a namespace, a name, a
kind and a linkage.  `Read` is `Reader::run` with the calls it makes of itself:
`ReadStep` is a step of the innermost call, which looks at the next dependency
(`NextDependency`) or, after the last one, takes over what its file holds
(`Provide`).

`Syntax` reads a file of characters.  An action is a round of the loop of
`getNextToken`: it reads a character and goes on (`Goes`), or gives a token to
the parser (`Gives`), of which `Step` is what `getNextNode`,
`getNextNodeInternal` and the generator's loop around them do with it.  `lex` is
where the lexer is, in a token, a string or a comment; `nodes` are the `Node`s
that were made, to which lists and the parser refer by number.  `tokens`, `read`
and `begun` are histories that only the properties use, as are the places a node
has among the tokens: `read` has the pieces of the file, each with the places of
its first and last character and what it was read as, so that it can be compared
with the file itself and not with what the lexer made of it.
The last operators are the conversion of an atom to a `DNode` and back.

`Calls` parses bodies of one form each.  A form is a tree.  The error reporter and
the code that was emitted are `st`; the recursion of `FormProcInstParse` is a
stack, `calls`, of those that wait for a form they contain, and `now` says what
the innermost one does next: parse a form, go on to its next argument, or hand a
result back.  So an action is what `FunctionProcessor`, `Inst` and
`MacroProcessor` do between two forms: `ParseNode` decides what a form is,
`ProcArgument` and `CoreArgument` take the result of an argument, `ProcCall` is
`parseFunctionCall` from where the procedure is looked up.  `last` holds the
errors before the body and what has been met in it.

`Values` executes, form by form, the code that a function of straight-line forms
is translated to.  What a form does at compile time (the `ParseResult` with its
flags) and at run time (a memory of cells) go together in one record, since with
no branches the one follows the other.  A struct type may be *managed*: its
values are objects that its functions make, copy and destroy, and those are the
program's, so that they do what they are documented for.  Cells hold integers of
their type's width, addresses, objects and aggregates.  What the code hands on
without a copy or never destroys (below) is put into `mem.shared` or
`mem.lost` at the line that does so, and the properties are about all the rest.
`mem.late` has what `return` reads only when the variables are destroyed.  A call
that is given a slot of another type as its retval writes over what it is not:
that cell goes to `mem.forced`, and the function is not followed (`undefined`).

How they compose.  `ProcBody` uses `Namespaces` and implements `Lifetime`;
`Overloads` uses `TypeRegister`, which uses `Types`, as does `Values`; `Calls`
takes the choice of a function from what `Overloads` is about and
the save point from `ProcBody`, as atomic steps, and adds what goes through both
(errors).  Each of them has the whole of its state; they are not run together,
since a state then would be a product with hardly any common part.

The `MC` modules give the constants of the runs. The theorems about `Context`
are in `ContextProofs`, those about `ProcBody` in `ProcBodyProofs`, `FlowProofs`
and `LifetimeProofs`, those about `Modules` in `ModulesProofs`, those about
`Calls` in `CallsProofs`, those about `Syntax` in `SyntaxProofs`;
`NamespaceProofs` is what those about `Context` and `ProcBody` need about the
operations on a context and the chain from a namespace to the root. Definitions
named `Mut_` are mutants: plausible bugs in the definition that follows them. No
run uses them as they are.

## Runs

Deadlock is not checked: a parse ends, and the bounds stop it.

| Run | Shows |
|---|---|
| `scopes` | with namespaces reopened, using-namespace, functions, scopes, and calls whose arguments hold anonymous functions and are restored or not: the invariant of the proofs; local variables stay visible, every scope is a new one, a return destructs exactly its own function's locals; restoration leaves no variable, namespace or stack entry behind |
| `bodies` | declarations, returns, scopes, branches, and gotos out of scopes to a later label with no declaration up to it: lifetimes are right on every path of every body, no path is lost while parsing, PHI nodes match their predecessors, and the function returns |
| `loops` | gotos back to a label of an open scope destruct what the round constructed; gotos from the body into a later scope, where `gotoCrossesDeclaration` accepts them, have right lifetimes; with unreachable code, and with forms parsed as arguments, which the save point undoes wherever one fails |
| `overloads` | types stay what their expressions spell, through maps, copies and files; what is accepted as a definition is found again; the choice among overloads does not depend on the order of definition; arguments fit what they select, const included |
| `modules` | an importer gets every form it asked for that exists, and no other, and a tagged file once; what is visible is linked; a module read from its file alone gives what was visible in it; a `.dtm` file is never newer than the libraries beside it |
| `syntax` | a file consists of its tokens as they are written, spaces and comments, one after the other; the forms of one without errors are its tokens in order; atoms survive macros; reading ends, whatever is wrong with the file, unless it ends in an atom |
| `calls` | errors made before a form stay; a form that fails has reported it; what was tried and dropped leaves no code, and the rest is evaluated once and in order; the compiler can go on |
| `values` | no object is destroyed twice or before it was made, none is left behind, none is read after its end; values have their types; const is kept, but in arrays; a global variable's initialiser means what it does in a function |

The others end in a violation, and are the findings:

| Run | What the code does |
|---|---|
| `reopened` | a function in a reopened namespace destructs global variables of the parent at each return: the namespace's counter stayed behind its parent's |
| `closed_over` | the variables of a scope that contains an `if` or a label are never destructed: the calls are put after a terminator and pruned |
| `goto_over` | a goto out of an `if` over a declaration of the enclosing scope is accepted; the variable is destructed though never constructed |
| `moved` | `(def y (var auto T (make)))` where `T` has `setf-move-init` moves the result of `make` from an address where it was stored, and then destroys the result itself: with `y`'s own destruction it is destroyed twice |

Some more of what the code does shows when a constant of these runs is changed.
They are not runs of their own, being variations of the above:

* `scopes` with `AnonLimit = 4`, `AnonBase = 2` violates `FreshScope`: `char
  buf[10]` in `activateAnonymousNamespace` cuts the number of the 100000th
  anonymous namespace, and a scope then reactivates an earlier one.
* `scopes` with `ReturnClosesEveryLocal` violates it: `Context::lv_index`, from
  which `createAnonymousFunction` clears the indices of variables (`Inst.cpp:32`),
  is never initialised (`Context.h:76`); with 0 in it, an anonymous function
  takes the destructors of the function around it away.
* `bodies` with `LabelNames <- MCLabelNames2`, `Uses = {"goto_on", "lost"}` and
  `GotosTaken` violates it: of `(goto end) (label again)`, where the goto is
  first in its block, control goes on at `again`.  The comment at `Goto.cpp:59`
  says that a no-op keeps the block open, but `CreateBitCast` of a constant to
  its own type adds no instruction.
* `syntax` with `CommentsDelimited` violates it: the character behind a block
  comment is dropped (`Lexer.cpp:160`), a parenthesis too, so that
  `(f #| c |#)` has none on the right.
* `values` with `BoolsAsInC` violates it: a number that is cast to `bool` is cut
  to eight bits and not compared with 0, unlike in C (`doc/1-3-types.md:38`).
* `values` with the action property `ConstAsInC` violates it: an array that is
  constant, or a member of a constant, is read as a pointer to its elements
  without const (`Token.cpp:44`, `Aref.cpp:55`), so that these can be assigned
  to, unlike in C (`doc/1-3-types.md:61`).
* `loops` with `"goto_in"` in `Uses`, in place of `"goto_back"`, violates
  `Lifetimes`: a goto back to a label of a closed scope leaves variables alive,
  as indices of different counters are compared.
* `bodies` with `"goto_into"` in place of `"goto_on"` violates `Lifetimes`: a
  goto between scopes destructs variables of the scopes around both.
* `loops` with `MaxForms = 6`, `Uses = {"goto_back"}` and `PhiMatches` violates
  it: a branch that declares a variable and ends with a goto to a known label
  gets a PHI entry for a block that does not branch there, as its last
  instruction is a destructor call.  `bodies` with `"dead"` does too: a form
  after a `return` in a branch hides the terminator in the same way.
* `syntax` without `EndsInAtom` in `Finishes` violates it: the last character
  of `(a` is read again, for ever.  `ungetchar_` (`Lexer.cpp:59`) steps back after
  the end of the file too, the character makes a token each time, and the
  generator goes round after each error (`Generator.cpp:258`).

The tests `t/src/dtor-*.dt` and `t/error-src/cross-decl.dt` pass with this code;
each uses a form in which the above does not show.

`Uses` (ProcBody) and `Features` (Context) name the forms a run's programs use,
so that a run which passes says for which programs the code is right, and one
that fails needs only the form it is about.  Both are guards on the *program*
(which form comes next), never on the handler.

### What the properties except

Some properties hold but for a case that is named in their definition, because
the code does it so.  A reader of the code will want to know them:

* `GoesOn` excepts bodies in which an `include` that failed has been met: a
  failing included file flushes the reporter, so `error_index` passes the
  errors that the call then sets aside, and if a macro swallows them the
  assertion in `ErrorReporter::flush` fails at the next one.  It also excepts
  those in which a macro returned a null pointer, and so does
  `FailureReported`: `parseMacroCall` turns it into a failure without an error,
  though `doc/1-7-macros.md:49` says that the call is then removed.
* `InOrderOnce` excepts bodies in which a core form that the program overloads was
  reached from its procedures: none of them matched, the arguments have been
  evaluated and are again by the core form (`Inst.cpp:120`).
* `NothingLost` excepts the character behind a block comment (`Swallowed`), and the last character of a file that ends in an atom, which is
  read a second time (`Again`).  `Finishes` excepts files that end in an atom,
  which may be read for ever.  Both are about every other file, also those that
  end within a string, a comment, or a list.
* `TypeOK` of `Values` excepts slots that a call with a retval has filled though
  they are of another type: `(def i (var auto int (put x)))` gives `put` the
  four bytes of `i` for its result, since nothing compares the two
  (`FunctionProcessor.cpp:42`, `Def.cpp:342`, `Setf.cpp:244`).
* `ReturnClosesLocals` and `RestoreUndoesVariables` except variables whose index
  an anonymous function has cleared, and those only if they are above what
  `lv_index` holds (`Cleared`, `SameButIndex`).
* `DestroyedOnce`, `NothingLeft` and `NoneStale` except objects in `shared` and
  `lost`.  The comment at `Shared` in `Values` lists the forms: a moved value
  handed over to a parameter, a caller or a literal; an lvalue in a literal; the
  temporary of `moved` above; a struct that has managed members and no functions
  of its own; sources and destinations that are const (`Def.cpp:134` compares
  types with their const); a temporary that is passed by reference or is the
  last form of a `void` function; what a variable holds that is passed as a
  retval.  What a call through a pointer returns is in `lost` even where it is
  destroyed.
* `NoneStale` also excepts `late`: `(return (@ p))`, where the type has no
  `setf-copy-init`, loads the value at `Return.cpp:69`, after the destructors of
  line 60, so that a pointer to a local variable gives a destroyed one.
* `ConstKept` excepts moving: `(move c)` by value takes the object out of a
  constant.  It excepts the elements of arrays and covers the
  other members of constant structs, also those that hold arrays as a whole.
* `GlobalsAgree` excepts struct literals whose members are not in order: the
  constants are pushed in the order they are written
  (`Literal.cpp:257`), in functions they go to their members.
* `EnteredOnce` excepts functions with variable arguments and extern-c ones:
  `isValidDeclaration` does not see every function that is equal to one of
  those, and `addFunction` then drops the second without an error.
* `OrderOfDefinition` is about namespaces without imported functions: `merge`
  does not ask `isValidDeclaration`, so an import may add a function that takes
  the same arguments as another.
* `IncludeDelivers`, in `Delivers`, excepts a tagged header if a module that has
  its tag was imported in part: the header is then left out, and what it
  declares need not be there.
* `InterfaceKept` is about modules whose dependencies were not written anew.
* `Delivers` and `InterfaceKept` are checked and proved for programs in which a
  module is asked for the same forms wherever it is imported.  `Reader.cpp:241`
  returns for a module that was read before, whatever is asked for now: after
  `(import b (f))`, in the program or in a module it imports,
  `(import b (g))` succeeds and brings in nothing.  With two sets of forms for
  `b`, TLC finds `Delivers` violated.
* `Delivers` takes a once tag to belong to one file, as `include` does: a file
  whose tag another file has used is left out.

## Bounds

`MaxNodes`, `MaxFns`, `MaxForms` and `MaxScopes` bound what a program allocates
and how deep it nests; `MaxDepth`, `MaxVars` and `MaxIndex` the forms, variables
and counters.  The smallest counterexamples above need three to six forms, two
nested scopes and one variable per scope, and the passing runs explore all bodies
of five forms with two nested scopes (a save point and a scope, an `if` in a
`new-scope`).  `PreIndices` is what the never-initialised `Context::lv_index` may
hold: in `scopes` a number above every index, with which `createAnonymousFunction`
clears nothing, or 0, with which it clears all.  `AnonLimit` and `AnonBase` are
100000 and 10 in the code, and in the runs.  One name per kind suffices where only
equality of names matters.  A declaration takes any name that is left, which is no
restriction as names are interchangeable.

`overloads` has two namespaces and three functions or macros in all: a conflict is
between two, and the third is what the order of the two is seen from.  Its types
are chosen so that every exception of `isEqualTo` occurs (references, const below
a pointer, arrays as pointers, function pointers).  `modules` has two modules and
a program, three runs of the compiler and three forms in each: enough for a module
to be rebuilt after another was compiled against it, and for a form to come by two
routes.  `syntax` has every file of up to four pieces, where a piece is a
character or a two-character token; nothing in the lexer looks further than
three.  Each comes with a newline at its end and without (`Endings`); `MaxTokens`
is more than such a file has, and stops those that are read for ever.  In `calls`
a form has calls within calls within calls, every kind of head, and two forms
follow each other since what one leaves behind shows in the next.  Its values are
numbered from left to right, which is what `InOrderOnce` sees their order by;
`MCCalls` has TLC evaluate the assumption (`Numbered`) under which the theorem
about it is stated.  In `values` four forms are run out of a list of about
fifty-five, in any order (three to make something, hand it on and change it, and
one to see it), widths are 2, 4 and 6 bits instead of 8, 32 and 64, and operands
are those at the edges of a width.  A `bool` has the width of a `char`, as its
memory has.

## Fairness

`ProcBody!Spec` has weak fairness of `Step`: the machine does not stop in the
middle of a function it runs.  Nothing is assumed of the programmer, who may
never finish a body, nor of the branch that is taken.  `Syntax!Spec` has weak
fairness of `Next`: the compiler, a sequential program, takes its next step.
The other specifications have none; their properties are safety properties.

## Proofs

`ContextProofs` proves, for every value of the constants that meets the
assumptions named in `Namespaces` and `Context` (`SizeAssumption`,
`AnonAssumption`, `DepthAssumption`, `PreIndexAssumption`,
`FeatureAssumption`):

* `Invariance`: `Spec => []IInv`;
* from it `TypeCorrect`, `StacksFollowForms`, `Deactivations`, `ActiveUsed`,
  `SavePointsAreLive` and `RestoresEnd`, that is `TypeOK`, `StackDiscipline`,
  `NoDeactivationError`, `ActiveAreUsed`, `NoDanglingNode` and
  `SavedCountsReached`.  `IInv` has them all for conjuncts, or implies them, so
  the run `scopes` checks what it needs of them with `IInv`.

`StackDiscipline` is not inductive as it stands.  That leaving a form uncovers
what the form before it found needs to know that frames are ordered on both
stacks (`FramesNest`); that an active namespace is used needs to know that each
was pushed by a form that is still open (`ActivationsAreOpen`), and that the
root lies below both; that nothing dangles after a restoration needs the save
points of nested calls to be well formed and to hold no larger counts than the
inner ones (`SavePointsNest`).  `IInv` is the conjunction, checked by the run
`scopes` before it was proved.  The proof has a lemma for each method
(what it does to the stacks, to the live nodes and to the lengths of the
vectors) and one for each way a handler moves (pushes a frame, pops it,
changes bindings only, restores), so that each action is a few lines.

It also proves `FreshScopes`: if `MaxNodes < AnonLimit` (no program
opens as many anonymous namespaces as the buffer has numbers for) then each
`new-scope`, branch and function body enters a namespace that did not exist.
The argument is that the name of every namespace, whether written in the program
(`NameAssumption`: the program itself names none `anon1`) or made up, differs
from all the numbers the counter has not reached (`NamesBelow`), which is
inductive together with `IInv`; an activation looks for a child of that
name, finds none and makes one.  Restoring a save point removes
namespaces and keeps the counter, so the numbers are not used again.

`ProcBodyProofs` proves `NoPathIsLost`: whatever forms are nested in a function,
with gotos, failing calls and restorations, every block is ended, is the one
code is added to, or is one that the end of an open `if` will close.  The
argument is about who writes to which block.  Blocks only get longer, but for
a restoration (`Longer`), and of the blocks there were when a call began, only
the current one is written to until the call ends (`MayWrite`): the forms that
were open then cannot be closed inside the call, and those opened since write to
blocks of their own.  `Sound` says so of the present blocks and of those that each
open call found, so that after a restoration it holds again; it needs `Placed` to
know that the blocks an `if` will close are not among those a call protects.
`RestoreUndoesCode` is the first half of `RestoreUndoesForms` from the same
invariant: cutting the blocks to the lengths they had gives the blocks there
were.  Nothing is assumed of `Uses`, so it holds with every kind of form at once,
which no run can afford.

The second part of the module adds the other half: no label or deferred goto
that is left refers to a namespace that was removed (`NamespacesOutlive`, then
`RestoreUndoes`). The namespaces a restoration removes are those added since
the save point; that nothing kept refers to one needs every namespace that was
active or allocated at the beginning of a call to be so still (`Outlived`),
hence that the stack of active namespaces is not popped below its height then.
`Heights` is the witness: each open form that is no call has a namespace of its
own on the stack.  The invariants of both parts were checked with TLC, on the
bodies of the run `bodies` with all of `Uses`, before they were proved.

`NamespaceProofs` gives the recursive functions of `Namespaces` their equations.
`Chain` goes from a namespace to the root; that the function it chooses exists
is shown by a least counterexample (`Smallest`, from the well-foundedness of the
natural numbers), in place of an induction over data, for contexts in which a
namespace has a lower number than its children (`Sloped`).

`ContextProofs` also proves `RestoreUndoes`, the property `RestoreUndoesVariables`:
restoring a save point cuts the vectors only of the namespaces below the current
one, so it undoes everything only if nothing was added elsewhere.  `AddedBelow` is
the invariant for it: what has been added since an open call began hangs from the
namespace that was current then (`Extends`, a preorder on contexts), the active
namespaces are a path of the tree (`Tree`), and no variable has an index that its
namespace has not counted (`Indexed`).  An anonymous function in an argument
clears indices from `lv_index` up, and a restoration does not give them back.
Nothing is assumed of that member, which is never initialised: the theorem says
that each variable is as it was, or has an index of 0 now and had one that was
not below `lv_index` (`SameButIndex`, which is transitive, so it goes through any
number of nested calls).

It also proves `ReturnsClose` and `LocalsVisible`, the properties
`ReturnClosesLocals` and `OwnLocalsVisible`, under the hypothesis of
`FreshScopes` and no other; a cleared variable is the exception of the first.
Which variables a return destructs is decided by comparing the indices of
variables with that of the function, and each namespace has a counter of its own.
The invariant (`FunctionsApart`) says why that works: a namespace in a function
starts to count from where the one around it stands (`Counted`), so that whatever
is inside of a function has indices above the function's, or cleared ones
(`Inside`), and whatever is around it has lower ones (`Around`); namespaces that
are named in the program hold global variables only (`Globals`), which is why
reopening them, where counters fall behind, cannot bring in another function's
locals.  It does bring in global variables: the run `reopened` is that.  TLC
checked both invariants, `VariablesInv` and `LocalsInv`, on the instance of the
run `scopes` before they were proved.

`FlowProofs` is about what `Finish` makes of a body.  `CodeIsWhole`, with nothing
assumed of the forms: each block ends with its only terminator, which goes to
blocks of the function.  `PhisMatch`, the property `PhiMatches`: the values a PHI
node has are for exactly the blocks that go to it.  A branch of an `if` decides
what its PHI node has when it ends, long before the gotos are resolved and the
blocks cut after their first terminator.  The invariant `FlowInv` therefore says
where each block *will* end (`IsEnd`: the first terminator or goto) and that
appending code changes this only for blocks that have not ended; that no block
which waits for the end of an `if` is gone to or written by what is nested in
it (`Apart`); and that a branch with a value has not ended its block (`Framed`,
`Open`).  `PhisMatch` has `NoDetour` for a hypothesis: no form after a jump, no
goto to a label that is known already.  The two variations of `loops` and `bodies`
listed above show that the code breaks the property with either.  TLC checked
`FlowInv` on bodies of up to five forms before it was proved.

Its last part proves `BodyTyped`, the property `TypeOK` of `ProcBody`, with nothing
assumed of the forms.  A variable is an object by its namespace and its place
there, and a destructor call may name any that the context can be asked for; so
what is emitted is typed only if no namespace has more variables than there are
names.  That is since `addVariable` refuses a name its namespace has
(`NamesDiffer`), whatever was pushed, restored or left in between, and names are
finitely many (`VarNamesAssumption`).  A restoration takes the types from its save
point, so the invariant (`TypeInv`) types what each open call holds too, and says
that no list of variables has become shorter since.  `FlowInv` bounds the
branches, which go to blocks made already.

`LifetimeProofs` proves `LifetimesKept`: `ProcBody` implements `Lifetime`.  On
every path of every body the code constructs a variable only where it holds no
value, destructs it only where it does, and has destructed all of them when it
returns.  That is a statement about the paths of the finished function, and the
handlers know nothing of paths: they compare indices of variables, and put
destructor calls where they stand.  The invariant gives the code a type.

* Every block `b` has a set `at[b]` of variables that hold a value when control
  enters it, such that the block, run from that set, constructs and destructs
  correctly and hands over at each branch the set of the block it goes to
  (`Path`, `Typing`).  The next form, and each branch that waits for the end of
  an `if`, start with exactly the variables in scope there (`Exits`).  So a goto
  is right if the variables in scope at its label are those in scope at the goto
  without those its destructor calls name.  For a goto to a label that
  is known this is shown when it is parsed; for a deferred one the instruction
  stands for what it will be resolved to, and is kept by every later step.
* Which destructor calls a form makes depends on indices, so the invariant has
  the order of these too (`Numbered`): the namespaces of the body are a path of
  which each counts from above all that the ones around it have given out.
  `InBody` has this, the tree, and that a namespace not yet made is empty.
* A failing call goes back to the code and the context it began with, so all of
  this is kept for what each open call saved as well (`FoundTyped`, `Scoped`).
  `Grew` says how the context has moved on since, and `Moves` which of these
  steps leave a typing right.  After a form that failed nothing is known of
  the present code (the condition of `Lives`), until the call is undone.
* `Finish` resolves the gotos, destructs at the end, and cuts the blocks after
  their first terminator; each keeps the typing (`BlockResolved`, `BlockClosed`,
  `FinishedRuns`, with the lemmas of `FlowProofs` about cuts).  An execution then
  has the values that the set before its next instruction says (`RunsAs`), and
  each step is one of `Lifetime` under the refinement mapping (`StepRuns`).

The hypothesis `Tame` leaves out the uses with which the code is wrong:
`closed_over` and `goto_over` (the findings), `goto_in` and `goto_into` (the
variations above), and `goto_on` together with `goto_ahead`, since a declaration
after a pending goto, which the latter allows, makes a `goto_over` of the former;
and `lost`, a label right behind a goto that is first in its block, whose code the
build puts in the wrong order. Everything else may be combined in any nesting:
scopes, branches, returns, gotos back, on and ahead, unreachable forms, reopened
namespaces, and calls that are undone.  The runs `bodies` and `loops` meet it,
each with a part.  `MaxNodes < AnonLimit` is the hypothesis of `FreshScopes`, as a
scope that reactivates an old namespace finds the variables of that one.

`ModulesProofs` proves every property the run `modules` checks, for any number of
modules, forms, headers and runs of the compiler: `LibrariesComeFirst`,
`VisibleAreLinked`, `IncludedOnce`, `OnlyAskedArrives`, `ImportsDeliver`,
`InterfacesKept`, and the type.  The assumptions named in `Modules`
say that its constants are sequences and kinds.  `ImportsDeliver` and
`InterfacesKept` have `OneAsk` for a hypothesis, the former also `OneTag`:
these are the last two exceptions above, without which both are false.

Most of the proof is about `Read`.  `Moment` is its invariant: no module is
being read twice (`Stacked`); what was there stays and what is new is of a
module that is recorded as read (`Grown`, `Arrivals`); and as long as no call
has failed, each module that is recorded either has all it needs in the session
(`Done`) or is on the stack, with the dependencies it has passed on record
(`Progress`). `Progress` asks that a dependency is on record, not that it is
done, so the argument does not need imports to be free of cycles.
`ReadingEnds` shows that the bound of the iteration is enough: each step takes
away a pair of a module and a place in the order that has not been looked at
(`Pending`), of which there are as many as steps.  So when reading is over
nothing is on the stack, and everything is `Done`. `ReadStaysWithin` says which
modules can be read and when none of them fails; the proof of `InterfacesKept`
needs it, as it is about an import that never happens.

The invariant of the specification, `ModulesInv`, has four parts: the shapes of
the state; the order in which files are written (`Writing`); that in a session
without errors every module read is `Done`, and that every binding that is not
the session's own was fetched from the file of a module that is linked
(`Sessions`); and that a file whose dependencies are older than it (`Fits`)
describes what its module saw, which is to say that its own bindings and what it
asked its dependencies for make up all that was visible (`Files`).  Writing a
file anew breaks that for those that depend on it, and they no longer fit.
`TagsInv` adds, with `OneTag`, where each once tag comes from: from a file that
this session has compiled, with its definitions still there (`Fixed`: nothing
replaces them), or from a module.  `IncludeDelivers` follows from the module with
the tag that was written first (`Earliest`): its dependencies do not have the
tag, so it was the one to compile the file.  TLC checked both invariants on
the instance of the run `modules` before they were proved.

`CallsProofs` proves every property the run `calls` checks, for any forms,
procedures, core forms and variables, nested to any depth; the assumption
`KindsAssumption` says what kinds of procedures there are.
The invariant for `EarlierErrorsKept`, `FailuresReported` and `CompilerGoesOn`
is `IInv`, which `ErrorsKept` proves.  A form is only begun with exactly the
errors there were before the body (`Fine`), and for that reason every call that
waits holds their number as `begin` and as `count`; so what `ProcArgument` sets
aside and what `Invoked` and `Tried` pop is all that was added since.  A
call which hands LLVM an argument without a value has set errors aside, and puts
them back before it would get there, or has met a macro that returned nothing
(`Waiting`).  That errors of a type are counted by position does no harm, then;
the one thing that does is an `include` among the arguments, whose flush puts
`error_index` above the errors of the body.

`ValuesInOrder` has `Numbered` for a hypothesis, for a set of forms that holds
those to be parsed and all they consist of: each value has a number, those of
an argument are lower than those of the arguments after it, and a macro's own
values have none.  This is no restriction on programs, but how the model tells
values apart.  The invariant `OInv` says of each call on the stack what has been
evaluated of it: what its save point holds, and its arguments up to the present
one (`Evaluated`); that the present one may yet add only what it holds (`Added`);
and that a call's own save point lies within these bounds of the call around it
(`Within`, `Nested`).  Restoring the save point of a call for a macro takes
away the values of its arguments, so that they may come again, in the expansion.
An `invoke` that fails may have evaluated its arguments, but nothing that would
evaluate them again is tried after it.  TLC checked `IInv` and `OInv` on a part of
the instance of `calls` before the proofs were done.

`SyntaxProofs` proves the three invariants the run `syntax` checks, for files of
any length; `FilesAssumption` and `DigitsAssumption` say that the end of a file
is no character and that no digit is a character the lexer looks for.
The invariant of the lexer, `LexInv`, says what a token that has begun looks
like (`Sofar`): the type is decided by the first two characters, as in
`atomToNode`, so that the conversion of an atom gives the type the lexer gave
(`AtomsStay`).  That of the parser, `Good`, is about the tree while it is built.
Each list that is closed has its items in a row of tokens without a gap (`Row`),
up to its right parenthesis; of the open lists each is in the one around it as
its last item, and has a row up to the token that comes next (`Opened`); the
forms are a row up to the outermost open list (`Formed`).  A list that has failed
leaves an error, after which nothing more is claimed.  The theorem for that is
`ReadCompletely`, of any file.  `NothingIsLost` is also of any file, however it
ends.  Its invariant, `PieceInv`, divides what has been read into pieces: they
follow each other without a gap or an overlap, and the tokens among them are
those handed over, in order (`Chain`); what each was read as is what stands in
the file there (`ReadAs`); and what has been read since the present piece began
is what the lexer's state says it is (`Progress`).  `PieceStays` is the step that
ends a piece.  The two exceptions are in the property itself: the character
behind a block comment (`Swallowed`) and the last atom of a file that has nothing
behind it (`Again`).  TLC checked the invariants on the files of `syntax` before
they were proved.

What stays with TLC, and why.  `Types`, `TypeRegister`,
`Overloads` and `Values` follow the recursion of the code with RECURSIVE
operators, which the provers do not support.  Liveness (`Returns`,
`Finishes`) is out of their reach.

## Plan

1. Done: `Namespaces`, `Context` with its proofs; `Lifetime`, `ProcBody`.
2. Done: `Types`, `TypeRegister` and `Overloads`; `Calls`, with the errors of
   arguments; `Modules`; `Syntax`; `Values`; the proof of `FreshScope`.
3. Left: temporaries within branches (`ProcBody` and `Values` in one); the
   pointers of a context that is moved to another LLVM module
   (`regetPointers`); promotions of variable arguments; the REPL.
4. Proofs: done for the properties of `Context`, of `Modules` and of `Calls`, and
   for those of `ProcBody`: its code, its save points, and the refinement of
   `Lifetime`; the invariants of `Syntax`.  Left: `Overloads` and `Values`, once
   their recursive operators are written as iterations.

## Not modelled

* Floating point values, strings, `sizeof`, `offsetof` and `va-arg`: what they
  give is LLVM's or the target's.  So are the layout of structs, and the
  alignment of what is read through a cast pointer.
* `p+` and `p-` whose second operand is a pointer; integers of 128 bits, which
  some targets refuse.
* The bytes of a module file.  What is written and read back is modelled, not
  how.
* Warnings: the code defines one, and raises none.
* What macros compute: a macro is a few kinds of result.  The JIT that runs them,
  the cache of its callers and the limit of 256 arguments are left out.
* The REPL (`REPL.cpp`), introspection, the printing of symbols, wrappers of LLVM
  and of the file system: they keep no state that relates to the above.
* Two deferred gotos whose markers are NULL in one block, whose code would come
  in the opposite order; `ProcBody` has the case of one goto that is first in its
  block with a label behind it (`lost`).
* In `ProcBody`, structs and arrays of values with a destructor, return value
  slots and temporaries, and initialisers that change the block; the first are
  in `Values`, without branches.  Structs are left out of save points, where
  they go like variables.
