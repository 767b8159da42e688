--------------------------- MODULE ModulesProofs ---------------------------
(***************************************************************************)
(* Proofs about Modules for every value of its constants: what an importer *)
(* gets, from whichever files there are on the disk, is what was asked     *)
(* for, all of it and once, and linked; and a file is never newer than the *)
(* libraries beside it.                                                    *)
(*                                                                         *)
(* Most of it is about Read.  Its moments are a recursive function; first  *)
(* come its equation and what one step of it does, then what that leaves   *)
(* as it was and how far it has got, and that it ends.  Then the sessions, *)
(* action by action.                                                       *)
(***************************************************************************)
EXTENDS Modules, SequenceTheorems, FiniteSetTheorems, WellFoundedInduction, TLAPS

Has(r, fields) == fields \subseteq DOMAIN r

Kinds == {"fn", "macro", "var", "struct"}

(***************************************************************************)
(* Shapes.                                                                 *)
(***************************************************************************)
IsBinding(b) == /\ Has(b, {"ns", "name", "kind", "linkage", "own", "home"})
                /\ b.kind \in Kinds

(* A context, which a file has too.                                        *)
IsContext(ctx) ==
  /\ Has(ctx, {"nss", "bindings"})
  /\ \A b \in ctx.bindings : IsBinding(b) /\ b.ns \in ctx.nss \cup {""}
  /\ \A b, c \in ctx.bindings : Key(b) = Key(c) => b = c

IsSession(st) ==
  /\ Has(st, {"phase", "name", "cto", "opts", "ctx", "included", "once", "so",
              "linked", "bodies", "errors", "aborted", "forms", "imports", "includes"})
  /\ IsContext(st.ctx) /\ st.errors \in Nat
  /\ DOMAIN st.included \subseteq ModuleNames

Shapes ==
  /\ DOMAIN disk = ModuleNames /\ run \in Nat
  /\ \A m \in ModuleNames :
       /\ Has(disk[m], {"lib", "nm", "file"})
       /\ Has(disk[m].file, {"run", "bindings", "nss", "once", "deps", "cto", "seen"})
       /\ {disk[m].lib, disk[m].nm, disk[m].file.run} \subseteq Nat
       /\ IsContext(disk[m].file)
       /\ DOMAIN disk[m].file.deps \subseteq ModuleNames
  /\ s.phase \in {"idle", "parsing", "libraries", "nomacros", "context"}
  /\ s.phase # "idle" =>
       /\ IsSession(s) /\ s.name \notin DOMAIN s.included
       /\ s.name \in ModuleNames \cup {Program}
  /\ s.phase \notin {"idle", "parsing"} => s.name \in ModuleNames /\ s.errors = 0

(***************************************************************************)
(* Files.                                                                  *)
(***************************************************************************)
(* The run writes its files one after another, the description last.       *)
Writing ==
  /\ LibrariesFirst
  /\ \A m \in ModuleNames :
       /\ disk[m].lib <= run
       /\ s.phase # "idle" => disk[m].file.run < run
  /\ s.phase \in {"nomacros", "context"} => disk[s.name].lib = run
  /\ s.phase = "context" => disk[s.name].nm = run

(***************************************************************************)
(* Sessions.                                                               *)
(***************************************************************************)
(* A module that has been read, as the session goes on.                    *)
AllFound(files, m, forms) ==
  forms = {} \/ Found(Loaded(files[m].file, m), forms) = forms
Done(files, st, m) ==
  /\ files[m].file # NoFile
  /\ AllFound(files, m, st.included[m])
  /\ files[m].file.once \subseteq st.once
  /\ DOMAIN files[m].file.deps \subseteq DOMAIN st.included
  /\ Asked(files[m].file, st.included[m]) \subseteq Keys(st.ctx.bindings)
AllDone(files, st) ==
  st.errors = 0 => \A m \in DOMAIN st.included : Done(files, st, m)

(* A binding that comes from a module.                                     *)
Arrived(files, st, b) ==
  /\ ~b.own /\ b.home \in DOMAIN st.included
  /\ b \in Fetched(files[b.home].file, b.home, st.included[b.home]).bindings
  /\ files[b.home].file.cto \/ b.home \in st.so \cup st.linked

(* A binding that nothing replaces.                                        *)
Fixed(st, b) == /\ b \in st.ctx.bindings /\ b.own
                /\ b.kind \in Callables => Key(b) \in st.bodies
DeclaredIn(st, d) ==
  \E b \in st.ctx.bindings :
    Fixed(st, b) /\ Key(b) = Key(d) /\ b.linkage = d.linkage
Declares(st, h) == \A d \in ToSet(Headers[h].defs) : DeclaredIn(st, d)

Tagged(files, st) ==
  st.errors = 0 =>
    /\ \A h \in st.includes : Declares(st, h) \/ Headers[h].tag \in st.once
    /\ \A h \in DOMAIN Headers :
         Headers[h].tag \in st.once =>
           \/ Declares(st, h)
           \/ \E m \in DOMAIN st.included : Headers[h].tag \in files[m].file.once

(* The session as a whole.                                                 *)
SessionKept(files, st) ==
  /\ AllDone(files, st)
  /\ \A b \in st.ctx.bindings : b.own \/ Arrived(files, st, b)
  /\ \A m \in DOMAIN st.included : st.included[m] \in Asks[m]
  /\ st.errors = 0 =>
       \A i \in st.imports : i[1] \in DOMAIN st.included /\ i[2] \in Asks[i[1]]
  /\ st.includes \subseteq DOMAIN Headers /\ "" \notin st.once

Sessions == s.phase # "idle" => SessionKept(disk, s)

(***************************************************************************)
(* Files, if none was written anew that they depend on.                    *)
(***************************************************************************)
(* What reading m from its file gives, with the modules it read.           *)
Gives(files, m) ==
  LET file == files[m].file
  IN  Asked(file, {}) \cup
      UNION {Asked(files[d].file, file.deps[d]) : d \in DOMAIN file.deps}

FileKept(files, m) ==
  LET file == files[m].file
  IN  /\ m \notin DOMAIN file.deps
      /\ \A d \in DOMAIN file.deps :
           /\ files[d].file # NoFile /\ AllFound(files, d, file.deps[d])
           /\ DOMAIN files[d].file.deps \subseteq DOMAIN file.deps
      /\ file.seen \subseteq Gives(files, m)

TagKept(files, m) ==
  LET file == files[m].file
  IN  \A h \in DOMAIN Headers :
        Headers[h].tag \in file.once =>
          \/ \A d \in {e \in ToSet(Headers[h].defs) : Exported(e)} :
               Key(d) \in Gives(files, m)
          \/ \E d \in DOMAIN file.deps : Headers[h].tag \in files[d].file.once

Fits(files, m) ==
  \A d \in DOMAIN files[m].file.deps : files[d].file.run < files[m].file.run

Files ==
  \A m \in ModuleNames :
    /\ \A d \in DOMAIN disk[m].file.deps : disk[m].file.deps[d] \in Asks[d]
    /\ "" \notin disk[m].file.once
    /\ disk[m].file # NoFile /\ Fits(disk, m) => FileKept(disk, m)

(* An import of a module asks for the same forms everywhere; that of one   *)
(* that has been read is ignored, whatever it asks for.                    *)
OneAsk == \A m \in ModuleNames : \A f, g \in Asks[m] : f = g
(* No two header files have the same tag.                                  *)
OneTag ==
  \A g, h \in DOMAIN Headers :
    Headers[g].tag = Headers[h].tag /\ Headers[g].tag # "" => g = h

TagsInv ==
  OneTag =>
    /\ s.phase # "idle" => Tagged(disk, s)
    /\ \A m \in ModuleNames :
         disk[m].file # NoFile /\ Fits(disk, m) => TagKept(disk, m)
ModulesInv == Shapes /\ Writing /\ Sessions /\ Files

(***************************************************************************)
(* Moments of reading.                                                     *)
(***************************************************************************)
(* What reading leaves as it was, and what only grows.                     *)
Grown(a, b) ==
  /\ b.phase = a.phase /\ b.name = a.name /\ b.cto = a.cto /\ b.opts = a.opts
  /\ b.forms = a.forms /\ b.imports = a.imports /\ b.includes = a.includes
  /\ a.errors <= b.errors
  /\ \A m \in DOMAIN a.included :
       m \in DOMAIN b.included /\ b.included[m] = a.included[m]
  /\ a.once \subseteq b.once /\ a.so \subseteq b.so
  /\ a.linked \subseteq b.linked /\ a.bodies \subseteq b.bodies
  /\ Keys(a.ctx.bindings) \subseteq Keys(b.ctx.bindings)
  /\ \A c \in a.ctx.bindings : Fixed(a, c) => Fixed(b, c)

(* The calls when forms were asked for in the program.                     *)
FormsOf(forms) ==
  {forms} \cup {disk[m].file.deps[d] : m \in ModuleNames, d \in ModuleNames}
CallsOf(forms) ==
  [m : ModuleNames, forms : FormsOf(forms),
   next : 1 .. Len(ModuleOrder) + 1, asDependency : BOOLEAN]

IsMoment(q, forms) ==
  /\ Has(q, {"ok", "st", "calls"}) /\ q.ok \in BOOLEAN
  /\ IsSession(q.st) /\ q.calls \in Seq(CallsOf(forms))

(* No module is being read twice.                                          *)
Stacked(q) ==
  /\ \A k \in 1 .. Len(q.calls) :
       /\ q.calls[k].m \in DOMAIN q.st.included
       /\ q.calls[k].forms = q.st.included[q.calls[k].m]
       /\ disk[q.calls[k].m].file # NoFile
  /\ \A j, k \in 1 .. Len(q.calls) : q.calls[j].m = q.calls[k].m => j = k

Outcome(q, st) == IF q.ok THEN q.st.errors = st.errors
                  ELSE q.calls = <<>> /\ st.errors < q.st.errors

(* As far as the dependencies of m have been looked at, they are read, but *)
(* for those in D.                                                         *)
Looked(q, m, D) ==
  \E k \in 1 .. Len(q.calls) :
    /\ q.calls[k].m = m
    /\ \A j \in 1 .. q.calls[k].next - 1 :
         ModuleOrder[j] \in DOMAIN disk[m].file.deps =>
           ModuleOrder[j] \in DOMAIN q.st.included \cup D

Progress(q, st, D) ==
  q.ok /\ (\A m \in DOMAIN st.included : Done(disk, st, m)) =>
    \A m \in DOMAIN q.st.included : Done(disk, q.st, m) \/ Looked(q, m, D)

Arrivals(files, b, a) ==
  /\ \A c \in b.ctx.bindings : c \in a.ctx.bindings \/ Arrived(files, b, c)
  /\ \A t \in b.once :
       t \in a.once \/ \E m \in DOMAIN b.included : t \in files[m].file.once

Moment(q, st, forms, D) ==
  /\ IsMoment(q, forms) /\ Stacked(q) /\ Outcome(q, st)
  /\ Grown(st, q.st) /\ Progress(q, st, D) /\ Arrivals(disk, q.st, st)

(* What is left to do: of a module that has not been read, everything.     *)
Pending(q) ==
  {w \in ModuleNames \X (1 .. Len(ModuleOrder) + 1) :
     \/ w[1] \notin DOMAIN q.st.included
     \/ \E k \in 1 .. Len(q.calls) : q.calls[k].m = w[1] /\ q.calls[k].next <= w[2]}

(* What a call does to that, and to what is recorded as read.              *)
Called(q, r, m, f) ==
  /\ Pending(r) \subseteq Pending(q)
  /\ DOMAIN r.st.included \subseteq DOMAIN q.st.included \cup {m}
  /\ \A d \in DOMAIN q.st.included :
       d \in DOMAIN r.st.included /\ r.st.included[d] = q.st.included[d]
  /\ m \in DOMAIN r.st.included \ DOMAIN q.st.included => r.st.included[m] = f
  /\ r.ok => m \in DOMAIN r.st.included
  /\ disk[m].file # NoFile \/ m \in DOMAIN q.st.included => r.ok
  /\ m \in DOMAIN q.st.included => r = q
-----------------------------------------------------------------------------
(***************************************************************************)
(* Counting.                                                               *)
(***************************************************************************)
(* What begins with zero and goes on as far as n, has n.                   *)
LEMMA UpTo ==
  ASSUME NEW n \in Nat, NEW T, 0 \in T, \A k \in 1 .. n : k - 1 \in T => k \in T
  PROVE  \A k \in 0 .. n : k \in T
<1> DEFINE R == OpToRel(<, Nat)
           U == {k \in 0 .. n : k \notin T}
<1> SUFFICES ASSUME U # {} PROVE FALSE
  OBVIOUS
<1>1. IsWellFoundedOn(R, Nat)
  BY NatLessThanWellFounded
<1>2. \A x, y \in Nat : <<x, y>> \in R <=> x < y
  BY DEF OpToRel
<1>3. U \in SUBSET Nat
  OBVIOUS
<1> HIDE DEF R, U
<1>4. PICK k \in U : \A j \in U : ~(<<j, k>> \in R)
  BY <1>1, <1>3, WFMin
<1>5. k \in 0 .. n /\ k \notin T
  BY <1>4 DEF U
<1>6. k \in 1 .. n
  BY <1>5
<1>7. k - 1 \in 0 .. n /\ k - 1 \notin T
  BY <1>5, <1>6
<1>8. k - 1 \in U /\ k \in Nat /\ k - 1 \in Nat /\ k - 1 < k
  BY <1>5, <1>6, <1>7 DEF U
<1> QED  BY <1>2, <1>4, <1>8

(* The first moment, and what follows a moment.                            *)
First(st, m, forms) == CallRun([ok |-> TRUE, st |-> st, calls |-> <<>>], m, forms, FALSE)

Moments(q, st, m, forms) ==
  /\ q[0] = First(st, m, forms)
  /\ \A k \in 1 .. ReadSteps : q[k] = ReadStep(q[k - 1])

(* The bound is one.                                                       *)
LEMMA StepsAreNumber == ReadSteps \in Nat /\ Len(ModuleOrder) \in Nat
<1>1. Len(ModuleOrder) \in Nat
  BY OrderAssumption, LenProperties
<1>2. \A n \in Nat : n * (n + 1) \in Nat
  OBVIOUS
<1> QED  BY <1>1, <1>2 DEF ReadSteps

(* Reading is its last moment.                                             *)
LEMMA ReadIs ==
  ASSUME NEW st, NEW m, NEW forms
  PROVE  \E q : Moments(q, st, m, forms) /\ Read(st, m, forms) = q[ReadSteps]
<1> DEFINE N == ReadSteps
           a == First(st, m, forms)
           Is(f, k) == f = [j \in 0 .. k |-> IF j = 0 THEN a ELSE ReadStep(f[j - 1])]
           T == {k \in 0 .. N : \E f : Is(f, k)}
<1>0. N \in Nat
  BY StepsAreNumber
<1>1. 0 \in T
  <2> DEFINE f == [j \in 0 .. 0 |-> a]
  <2> HIDE DEF a
  <2>1. Is(f, 0)
    OBVIOUS
  <2> HIDE DEF f
  <2>2. 0 \in 0 .. N
    BY <1>0
  <2> QED  BY <2>1, <2>2
<1>2. ASSUME NEW k \in 1 .. N, k - 1 \in T PROVE k \in T
  <2>1. PICK f : Is(f, k - 1)
    BY <1>2
  <2> HIDE DEF a
  <2> DEFINE g == [j \in 0 .. k |-> IF j < k THEN f[j] ELSE ReadStep(f[k - 1])]
  <2>2. ASSUME NEW j \in 0 .. k
        PROVE  g[j] = IF j = 0 THEN a ELSE ReadStep(g[j - 1])
    <3>1. CASE j = 0
      <4>1. 0 \in 0 .. k - 1 /\ 0 < k
        OBVIOUS
      <4> QED  BY <2>1, <3>1, <4>1
    <3>2. CASE j # 0 /\ j < k
      <4>1. j \in 0 .. k - 1 /\ j - 1 \in 0 .. k /\ j - 1 < k
        BY <3>2
      <4> QED  BY <2>1, <3>2, <4>1
    <3>3. CASE j = k
      <4>1. k - 1 \in 0 .. k /\ k - 1 < k /\ k # 0
        OBVIOUS
      <4> QED  BY <3>3, <4>1
    <3> QED  BY <3>1, <3>2, <3>3
  <2>3. g = [j \in 0 .. k |-> g[j]]
    OBVIOUS
  <2> HIDE DEF g
  <2>4. Is(g, k)
    BY <2>2, <2>3
  <2>5. k \in 0 .. N
    BY <1>0
  <2> QED  BY <2>4, <2>5
<1>3. N \in T
  <2> HIDE DEF T
  <2>1. N \in 0 .. N
    BY <1>0
  <2> HIDE DEF N
  <2> QED  BY <1>0, <1>1, <1>2, <2>1, UpTo
<1> DEFINE q == CHOOSE f : Is(f, N)
<1>4. Is(q, N)
  BY <1>3
<1>5. Read(st, m, forms) = q[ReadSteps]
  BY DEF Read, First
<1> HIDE DEF q
<1>6. Moments(q, st, m, forms)
  <2>1. 0 \in 0 .. N
    BY <1>0
  <2>2. q[0] = a
    BY <1>4, <2>1
  <2>3. ASSUME NEW k \in 1 .. N PROVE q[k] = ReadStep(q[k - 1])
    <3>1. k \in 0 .. N /\ k # 0
      BY <1>0
    <3> QED  BY <1>4, <3>1
  <2> QED  BY <2>2, <2>3 DEF Moments
<1> QED  BY <1>5, <1>6
-----------------------------------------------------------------------------
(***************************************************************************)
(* Merging.                                                                *)
(***************************************************************************)
LEMMA KeysEqual ==
  ASSUME NEW b, NEW c, Key(b) = Key(c)
  PROVE  b.ns = c.ns /\ b.name = c.name /\ b.kind = c.kind
BY DEF Key

(* There is one binding of a name still, nothing goes away but for another *)
(* of its name, and what has a body, or is no function, stays.             *)
LEMMA MergeKeeps ==
  ASSUME NEW into, NEW taken, NEW bodies,
         \A b, c \in into : Key(b) = Key(c) => b = c,
         \A b, c \in taken : Key(b) = Key(c) => b = c
  PROVE  LET all == MergeBindings(into, taken, bodies)
         IN  /\ all \subseteq into \cup taken
             /\ Keys(all) = Keys(into) \cup Keys(taken)
             /\ \A b, c \in all : Key(b) = Key(c) => b = c
             /\ \A c \in into : (c.kind \in Callables => Key(c) \in bodies) => c \in all
<1> DEFINE entering == {b \in taken : \/ Key(b) \notin Keys(into)
                                      \/ b.kind \in Callables /\ Key(b) \notin bodies}
           staying == {c \in into : Key(c) \notin Keys(entering)}
           all == staying \cup entering
<1>1. MergeBindings(into, taken, bodies) = all
  BY DEF MergeBindings
<1>2. all \subseteq into \cup taken
  OBVIOUS
<1>3. Keys(all) \subseteq Keys(into) \cup Keys(taken)
  BY <1>2 DEF Keys
<1>4. ASSUME NEW k \in Keys(into) PROVE k \in Keys(all)
  <2>1. PICK c \in into : k = Key(c)
    BY <1>4 DEF Keys
  <2>2. CASE k \in Keys(entering)
    BY <2>2 DEF Keys
  <2>3. CASE k \notin Keys(entering)
    <3>1. c \in all
      BY <2>1, <2>3
    <3> HIDE DEF all
    <3> QED  BY <2>1, <3>1 DEF Keys
  <2> QED  BY <2>2, <2>3
<1>5. ASSUME NEW k \in Keys(taken) PROVE k \in Keys(all)
  <2>1. PICK b \in taken : k = Key(b)
    BY <1>5 DEF Keys
  <2>2. CASE k \in Keys(into)
    BY <1>4, <2>2
  <2>3. CASE k \notin Keys(into)
    <3>1. b \in all
      BY <2>1, <2>3
    <3> HIDE DEF all
    <3> QED  BY <2>1, <3>1 DEF Keys
  <2> QED  BY <2>2, <2>3
<1>6. ASSUME NEW b \in all, NEW c \in all, Key(b) = Key(c) PROVE b = c
  <2>1. b \in entering => Key(b) \in Keys(entering)
    BY DEF Keys
  <2>2. c \in entering => Key(c) \in Keys(entering)
    BY DEF Keys
  <2>3. (b \in entering /\ c \in entering) \/ (b \in staying /\ c \in staying)
    BY <1>6, <2>1, <2>2
  <2> QED  BY <1>6, <2>3
<1>7. ASSUME NEW c \in into, c.kind \in Callables => Key(c) \in bodies PROVE c \in all
  <2> SUFFICES ASSUME Key(c) \in Keys(entering) PROVE FALSE
    OBVIOUS
  <2>1. PICK b \in entering : Key(b) = Key(c)
    BY DEF Keys
  <2>2. Key(b) \in Keys(into)
    BY <2>1 DEF Keys
  <2>3. b.kind = c.kind
    BY <2>1, KeysEqual
  <2> QED  BY <1>7, <2>1, <2>2, <2>3
<1> HIDE DEF all
<1> QED  BY <1>1, <1>2, <1>3, <1>4, <1>5, <1>6, <1>7

(* A context is one after a merge, with what was exported to it.           *)
LEMMA ContextMerges ==
  ASSUME NEW ctx, NEW new, NEW bodies, IsContext(ctx), IsContext(new)
  PROVE  LET merged == Merge(ctx, new, bodies)
         IN  /\ IsContext([nss |-> merged.nss, bindings |-> merged.bindings])
             /\ merged.bindings \subseteq ctx.bindings \cup new.bindings
             /\ Keys(ctx.bindings) \subseteq Keys(merged.bindings)
             /\ \A b \in new.bindings : Exported(b) => Key(b) \in Keys(merged.bindings)
             /\ \A c \in ctx.bindings :
                  (c.kind \in Callables => Key(c) \in bodies) => c \in merged.bindings
<1> DEFINE taken == {b \in new.bindings : b.ns \in new.nss \ ctx.nss \/ Exported(b)}
           all == MergeBindings(ctx.bindings, taken, bodies)
           merged == Merge(ctx, new, bodies)
<1>1. merged.nss = ctx.nss \cup new.nss /\ merged.bindings = all
  BY DEF Merge
<1>2. /\ \A b, c \in ctx.bindings : Key(b) = Key(c) => b = c
      /\ \A b, c \in taken : Key(b) = Key(c) => b = c
  BY DEF IsContext
<1>3. taken \subseteq new.bindings
  OBVIOUS
<1>4. \A b \in new.bindings : Exported(b) => b \in taken
  OBVIOUS
<1> HIDE DEF taken
<1>5. /\ all \subseteq ctx.bindings \cup taken
      /\ Keys(all) = Keys(ctx.bindings) \cup Keys(taken)
      /\ \A b, c \in all : Key(b) = Key(c) => b = c
      /\ \A c \in ctx.bindings : (c.kind \in Callables => Key(c) \in bodies) => c \in all
  BY <1>2, MergeKeeps
<1> HIDE DEF all, merged
<1>6. \A b \in all : IsBinding(b) /\ b.ns \in ctx.nss \cup new.nss \cup {""}
  BY <1>3, <1>5 DEF IsContext
<1>7. IsContext([nss |-> merged.nss, bindings |-> merged.bindings])
  BY <1>1, <1>5, <1>6 DEF IsContext, Has
<1>8. \A b \in taken : Key(b) \in Keys(taken)
  BY DEF Keys
<1> QED  BY <1>1, <1>3, <1>4, <1>5, <1>7, <1>8 DEF merged

(* What comes from a file.                                                 *)
LEMMA FileLoads ==
  ASSUME NEW file, NEW m, IsContext(file)
  PROVE  /\ IsContext(Loaded(file, m))
         /\ \A b \in Loaded(file, m).bindings :
              /\ ~b.own /\ b.home = m
              /\ \E c \in file.bindings :
                   b.ns = c.ns /\ b.name = c.name /\ b.kind = c.kind /\ b.linkage = c.linkage
         /\ \A c \in file.bindings : \E b \in Loaded(file, m).bindings :
              b.ns = c.ns /\ b.name = c.name /\ b.kind = c.kind /\ b.linkage = c.linkage
<1> DEFINE Here1(c) == [c EXCEPT !.own = FALSE, !.home = m]
<1>1. Loaded(file, m).nss = file.nss /\ Loaded(file, m).bindings = {Here1(c) : c \in file.bindings}
      /\ Has(Loaded(file, m), {"nss", "bindings"})
  BY DEF Loaded, Has
<1>2. ASSUME NEW c \in file.bindings
      PROVE  /\ IsBinding(Here1(c)) /\ Here1(c).ns = c.ns /\ Here1(c).name = c.name
             /\ Here1(c).kind = c.kind /\ Here1(c).linkage = c.linkage
             /\ Here1(c).own = FALSE /\ Here1(c).home = m
  <2>1. IsBinding(c)
    BY DEF IsContext
  <2> QED  BY <2>1 DEF IsBinding, Has
<1>3. \A b, c \in file.bindings : Key(Here1(b)) = Key(Here1(c)) => b = c
  <2>1. \A c \in file.bindings : Key(Here1(c)) = Key(c)
    <3> HIDE DEF Here1
    <3> QED  BY <1>2 DEF Key
  <2>2. \A b, c \in file.bindings : Key(b) = Key(c) => b = c
    BY DEF IsContext
  <2> HIDE DEF Here1
  <2> QED  BY <2>1, <2>2
<1>4. \A c \in file.bindings : c.ns \in file.nss \cup {""}
  BY DEF IsContext
<1> HIDE DEF Here1
<1>5. \A b \in Loaded(file, m).bindings : \E c \in file.bindings : b = Here1(c)
  BY <1>1
<1>6. \A b, c \in Loaded(file, m).bindings : Key(b) = Key(c) => b = c
  BY <1>3, <1>5
<1>7. \A b \in Loaded(file, m).bindings : IsBinding(b) /\ b.ns \in Loaded(file, m).nss \cup {""}
  BY <1>1, <1>2, <1>4, <1>5
<1>8. IsContext(Loaded(file, m))
  BY <1>1, <1>6, <1>7 DEF IsContext
<1>9. \A c \in file.bindings : Here1(c) \in Loaded(file, m).bindings
  BY <1>1
<1> QED  BY <1>2, <1>5, <1>8, <1>9

(* What is fetched of it is what was asked for.                            *)
LEMMA FileFetches ==
  ASSUME NEW file, NEW m, NEW forms, IsContext(file)
  PROVE  /\ IsContext(Fetched(file, m, forms))
         /\ \A b \in Fetched(file, m, forms).bindings :
              /\ ~b.own /\ b.home = m /\ (forms # {} => Wanted(forms, b))
              /\ Exported(b) => Key(b) \in Asked(file, forms)
         /\ \A k \in Asked(file, forms) :
              \E b \in Fetched(file, m, forms).bindings : Exported(b) /\ k = Key(b)
<1> DEFINE some == {b \in Loaded(file, m).bindings : forms = {} \/ Wanted(forms, b)}
<1>1. /\ IsContext(Loaded(file, m))
      /\ \A b \in Loaded(file, m).bindings :
           /\ ~b.own /\ b.home = m
           /\ \E c \in file.bindings :
                b.ns = c.ns /\ b.name = c.name /\ b.kind = c.kind /\ b.linkage = c.linkage
      /\ \A c \in file.bindings : \E b \in Loaded(file, m).bindings :
           b.ns = c.ns /\ b.name = c.name /\ b.kind = c.kind /\ b.linkage = c.linkage
  BY FileLoads
<1>2. Fetched(file, m, forms).bindings = some /\ Fetched(file, m, forms).nss = Loaded(file, m).nss
      /\ Has(Fetched(file, m, forms), {"nss", "bindings"})
  <2>1. Has(Loaded(file, m), {"nss", "bindings"})
    BY <1>1 DEF IsContext
  <2>2. CASE forms = {}
    BY <2>1, <2>2 DEF Fetched
  <2>3. CASE forms # {}
    BY <2>1, <2>3 DEF Fetched, RemoveUnneeded, Has
  <2> QED  BY <2>2, <2>3
<1>3. some \subseteq Loaded(file, m).bindings
  OBVIOUS
<1>4. IsContext(Fetched(file, m, forms))
  <2> HIDE DEF some
  <2> QED  BY <1>1, <1>2, <1>3 DEF IsContext
<1>5. ASSUME NEW b, NEW c, b.ns = c.ns, b.name = c.name, b.kind = c.kind,
             b.linkage = c.linkage
      PROVE  /\ Key(b) = Key(c) /\ (Exported(b) <=> Exported(c))
             /\ Wanted(forms, b) <=> Wanted(forms, c)
  <2>1. Exported(b) <=> Exported(c)
    BY <1>5 DEF Exported, IsExtern, IsExternAll
  <2>2. Wanted(forms, b) <=> Wanted(forms, c)
    BY <1>5 DEF Wanted
  <2> QED  BY <1>5, <2>1, <2>2 DEF Key
<1>6. Asked(file, forms) = {Key(c) : c \in {a \in file.bindings :
                            Exported(a) /\ (forms = {} \/ Wanted(forms, a))}}
  BY DEF Asked, Keys
<1>7. ASSUME NEW b \in some, Exported(b) PROVE Key(b) \in Asked(file, forms)
  <2>1. PICK c \in file.bindings :
          b.ns = c.ns /\ b.name = c.name /\ b.kind = c.kind /\ b.linkage = c.linkage
    BY <1>1
  <2>2. Key(b) = Key(c) /\ Exported(c) /\ (forms = {} \/ Wanted(forms, c))
    BY <1>5, <1>7, <2>1
  <2> QED  BY <1>6, <2>2
<1>8. ASSUME NEW k \in Asked(file, forms) PROVE \E b \in some : Exported(b) /\ k = Key(b)
  <2>1. PICK c \in file.bindings :
          k = Key(c) /\ Exported(c) /\ (forms = {} \/ Wanted(forms, c))
    BY <1>6
  <2>2. PICK b \in Loaded(file, m).bindings :
          b.ns = c.ns /\ b.name = c.name /\ b.kind = c.kind /\ b.linkage = c.linkage
    BY <1>1
  <2>3. Key(b) = Key(c) /\ Exported(b) /\ (forms = {} \/ Wanted(forms, b))
    BY <1>5, <2>1, <2>2
  <2> QED  BY <2>1, <2>2, <2>3
<1>9. \A b \in some : ~b.own /\ b.home = m /\ (forms # {} => Wanted(forms, b))
  BY <1>1
<1> HIDE DEF some
<1> QED  BY <1>2, <1>4, <1>7, <1>8, <1>9
-----------------------------------------------------------------------------
(***************************************************************************)
(* States that grow.                                                       *)
(***************************************************************************)
LEMMA GrownStays ==
  ASSUME NEW a, IsSession(a)
  PROVE  Grown(a, a)
BY DEF Grown, IsSession

(* Growing goes on.                                                        *)
LEMMA GrownFurther ==
  ASSUME NEW a, NEW b, NEW c, IsSession(a), IsSession(b), IsSession(c),
         Grown(a, b), Grown(b, c)
  PROVE  Grown(a, c)
<1>1. a.errors \in Nat /\ b.errors \in Nat /\ c.errors \in Nat
  BY DEF IsSession
<1>2. a.errors <= c.errors
  BY <1>1 DEF Grown
<1>3. \A x \in a.ctx.bindings : Fixed(a, x) => Fixed(c, x)
  BY DEF Grown, Fixed
<1>4. \A m \in DOMAIN a.included :
        m \in DOMAIN c.included /\ c.included[m] = a.included[m]
  BY DEF Grown
<1> QED  BY <1>2, <1>3, <1>4 DEF Grown

(* What was read stays read.                                               *)
LEMMA GrownDone ==
  ASSUME NEW a, NEW b, NEW m, Grown(a, b), m \in DOMAIN a.included, Done(disk, a, m)
  PROVE  Done(disk, b, m)
<1>1. m \in DOMAIN b.included /\ b.included[m] = a.included[m]
  BY DEF Grown
<1>2. DOMAIN a.included \subseteq DOMAIN b.included
  BY DEF Grown
<1>3. a.once \subseteq b.once /\ Keys(a.ctx.bindings) \subseteq Keys(b.ctx.bindings)
  BY DEF Grown
<1> QED  BY <1>1, <1>2, <1>3 DEF Done

(* What came from a module still does.                                     *)
LEMMA GrownArrived ==
  ASSUME NEW a, NEW b, NEW c, Grown(a, b), Arrived(disk, a, c)
  PROVE  Arrived(disk, b, c)
<1>1. c.home \in DOMAIN b.included /\ b.included[c.home] = a.included[c.home]
  BY DEF Grown, Arrived
<1>2. a.so \subseteq b.so /\ a.linked \subseteq b.linked
  BY DEF Grown
<1> QED  BY <1>1, <1>2 DEF Arrived

(* What is new came since one or the other.                                *)
LEMMA GrownArrivals ==
  ASSUME NEW a, NEW b, NEW c, Grown(b, c), Arrivals(disk, b, a), Arrivals(disk, c, b)
  PROVE  Arrivals(disk, c, a)
<1>1. \A x \in b.ctx.bindings : x \in a.ctx.bindings \/ Arrived(disk, c, x)
  BY GrownArrived DEF Arrivals
<1>2. DOMAIN b.included \subseteq DOMAIN c.included
  BY DEF Grown
<1>3. \A t \in b.once : t \in a.once \/ \E m \in DOMAIN c.included : t \in disk[m].file.once
  BY <1>2 DEF Arrivals
<1>4. \A x \in c.ctx.bindings : x \in a.ctx.bindings \/ Arrived(disk, c, x)
  BY <1>1 DEF Arrivals
<1>5. \A t \in c.once : t \in a.once \/ \E m \in DOMAIN c.included : t \in disk[m].file.once
  BY <1>3 DEF Arrivals
<1> QED  BY <1>4, <1>5 DEF Arrivals

(* What the handlers set in a state.                                       *)
LEMMA StateFails ==
  ASSUME NEW st, IsSession(st)
  PROVE  LET b == [st EXCEPT !.errors = @ + 1]
         IN  /\ IsSession(b) /\ Grown(st, b) /\ Arrivals(disk, b, st)
             /\ b.errors = st.errors + 1 /\ b.included = st.included
<1> DEFINE b == [st EXCEPT !.errors = @ + 1]
<1>1. /\ DOMAIN b = DOMAIN st /\ b.errors = st.errors + 1 /\ b.included = st.included
      /\ b.ctx = st.ctx /\ b.once = st.once /\ b.so = st.so /\ b.linked = st.linked
      /\ b.bodies = st.bodies /\ b.phase = st.phase /\ b.name = st.name /\ b.cto = st.cto
      /\ b.opts = st.opts /\ b.forms = st.forms /\ b.imports = st.imports
      /\ b.includes = st.includes
  BY DEF IsSession, Has
<1> HIDE DEF b
<1>2. st.errors \in Nat /\ IsSession(b)
  BY <1>1 DEF IsSession, Has
<1>3. Grown(st, b)
  BY <1>1, <1>2 DEF Grown, Fixed
<1>4. Arrivals(disk, b, st)
  BY <1>1 DEF Arrivals
<1> QED  BY <1>1, <1>2, <1>3, <1>4 DEF b

(* A module is recorded as read.                                           *)
LEMMA StateIncludes ==
  ASSUME NEW st, IsSession(st), NEW m \in ModuleNames, NEW forms, m \notin DOMAIN st.included
  PROVE  LET b == Included(st, m, forms)
         IN  /\ IsSession(b) /\ Grown(st, b) /\ Arrivals(disk, b, st) /\ b.errors = st.errors
             /\ DOMAIN b.included = DOMAIN st.included \cup {m} /\ b.included[m] = forms
             /\ \A d \in DOMAIN st.included : b.included[d] = st.included[d]
<1> DEFINE new == [d \in DOMAIN st.included \cup {m} |->
                     IF d = m THEN forms ELSE st.included[d]]
           b == Included(st, m, forms)
<1>1. /\ DOMAIN b = DOMAIN st /\ b.errors = st.errors /\ b.included = new
      /\ b.ctx = st.ctx /\ b.once = st.once /\ b.so = st.so /\ b.linked = st.linked
      /\ b.bodies = st.bodies /\ b.phase = st.phase /\ b.name = st.name /\ b.cto = st.cto
      /\ b.opts = st.opts /\ b.forms = st.forms /\ b.imports = st.imports
      /\ b.includes = st.includes
  <2> HIDE DEF new
  <2>1. b = [st EXCEPT !.included = new]
    BY DEF Included, new
  <2> HIDE DEF b
  <2> QED  BY <2>1 DEF IsSession, Has
<1>2. /\ DOMAIN new = DOMAIN st.included \cup {m} /\ new[m] = forms
      /\ \A d \in DOMAIN st.included : d # m /\ new[d] = st.included[d]
  OBVIOUS
<1> HIDE DEF b, new
<1>3. st.errors \in Nat /\ IsSession(b)
  BY <1>1, <1>2 DEF IsSession, Has
<1>4. Grown(st, b)
  BY <1>1, <1>2, <1>3 DEF Grown, Fixed
<1>5. Arrivals(disk, b, st)
  BY <1>1 DEF Arrivals
<1> QED  BY <1>1, <1>2, <1>3, <1>4, <1>5 DEF b

(* The library and the tags.                                               *)
LEMMA StateLinks ==
  ASSUME NEW st, IsSession(st), NEW m \in DOMAIN st.included, NEW static
  PROVE  LET b == Once(Linked(st, m, static, disk[m].file.cto), disk[m].file)
         IN  /\ IsSession(b) /\ Grown(st, b) /\ Arrivals(disk, b, st) /\ b.errors = st.errors
             /\ b.included = st.included /\ b.ctx = st.ctx
             /\ disk[m].file.once \subseteq b.once
             /\ disk[m].file.cto \/ m \in b.so \cup b.linked
<1> DEFINE a == Linked(st, m, static, disk[m].file.cto)
           b == Once(a, disk[m].file)
<1>1. /\ DOMAIN a = DOMAIN st /\ a.errors = st.errors /\ a.included = st.included
      /\ a.ctx = st.ctx /\ a.once = st.once /\ a.phase = st.phase /\ a.name = st.name
      /\ a.cto = st.cto /\ a.opts = st.opts /\ a.forms = st.forms
      /\ a.imports = st.imports /\ a.includes = st.includes
      /\ st.so \subseteq a.so /\ st.linked \subseteq a.linked /\ st.bodies \subseteq a.bodies
      /\ disk[m].file.cto \/ m \in a.so \cup a.linked
  <2>1. CASE static
    <3>1. PICK bodies, twice :
            a = [st EXCEPT !.bodies = @ \cup bodies, !.linked = @ \cup {m}, !.aborted = @ \/ twice]
      BY <2>1 DEF Linked
    <3> HIDE DEF a
    <3> QED  BY <3>1 DEF IsSession, Has
  <2>2. CASE ~static /\ disk[m].file.cto
    BY <2>2 DEF Linked
  <2>3. CASE ~static /\ ~disk[m].file.cto
    <3>1. a = [st EXCEPT !.so = @ \cup {m}]
      BY <2>3 DEF Linked
    <3> HIDE DEF a
    <3> QED  BY <3>1 DEF IsSession, Has
  <2> QED  BY <2>1, <2>2, <2>3
<1> HIDE DEF a
<1>2. /\ DOMAIN b = DOMAIN a /\ b.errors = a.errors /\ b.included = a.included
      /\ b.ctx = a.ctx /\ b.so = a.so /\ b.linked = a.linked
      /\ b.bodies = a.bodies /\ b.phase = a.phase /\ b.name = a.name /\ b.cto = a.cto
      /\ b.opts = a.opts /\ b.forms = a.forms /\ b.imports = a.imports
      /\ b.includes = a.includes /\ b.once = a.once \cup disk[m].file.once
  <2>1. b = [a EXCEPT !.once = @ \cup disk[m].file.once]
    BY DEF Once
  <2> HIDE DEF b
  <2> QED  BY <1>1, <2>1 DEF IsSession, Has
<1> HIDE DEF b
<1>3. st.errors \in Nat /\ IsSession(b)
  BY <1>1, <1>2 DEF IsSession, Has
<1>4. Grown(st, b)
  BY <1>1, <1>2, <1>3 DEF Grown, Fixed
<1>5. Arrivals(disk, b, st)
  BY <1>1, <1>2 DEF Arrivals
<1> QED  BY <1>1, <1>2, <1>3, <1>4, <1>5 DEF a, b

(* The tags alone, of a static module that does not have what is asked for.*)
LEMMA StateTags ==
  ASSUME NEW st, IsSession(st), NEW m \in DOMAIN st.included
  PROVE  LET b == Once(st, disk[m].file)
         IN  /\ IsSession(b) /\ Grown(st, b) /\ Arrivals(disk, b, st) /\ b.errors = st.errors
             /\ b.included = st.included
<1> DEFINE b == Once(st, disk[m].file)
<1>1. /\ DOMAIN b = DOMAIN st /\ b.errors = st.errors /\ b.included = st.included
      /\ b.ctx = st.ctx /\ b.so = st.so /\ b.linked = st.linked
      /\ b.bodies = st.bodies /\ b.phase = st.phase /\ b.name = st.name /\ b.cto = st.cto
      /\ b.opts = st.opts /\ b.forms = st.forms /\ b.imports = st.imports
      /\ b.includes = st.includes /\ b.once = st.once \cup disk[m].file.once
  <2>1. b = [st EXCEPT !.once = @ \cup disk[m].file.once]
    BY DEF Once
  <2> HIDE DEF b
  <2> QED  BY <2>1 DEF IsSession, Has
<1> HIDE DEF b
<1>2. st.errors \in Nat /\ IsSession(b)
  BY <1>1 DEF IsSession, Has
<1>3. Grown(st, b)
  BY <1>1, <1>2 DEF Grown, Fixed
<1>4. Arrivals(disk, b, st)
  BY <1>1 DEF Arrivals
<1> QED  BY <1>1, <1>2, <1>3, <1>4 DEF b

(* The merge.                                                              *)
OnlyMerged(a, b) ==
  /\ DOMAIN b = DOMAIN a
  /\ \A x \in DOMAIN a : x \notin {"ctx", "aborted"} => b[x] = a[x]

MergedContext(st, m, forms) ==
  LET merged == Merge(st.ctx, Fetched(disk[m].file, m, forms), st.bodies)
  IN  [nss |-> merged.nss, bindings |-> merged.bindings]

LEMMA StateMerges ==
  ASSUME NEW st, IsSession(st), NEW m \in DOMAIN st.included, IsContext(disk[m].file),
         disk[m].file.cto \/ m \in st.so \cup st.linked,
         NEW forms, forms = st.included[m],
         NEW b, OnlyMerged(st, b), b.ctx = MergedContext(st, m, forms)
  PROVE  /\ IsSession(b) /\ Grown(st, b) /\ Arrivals(disk, b, st) /\ b.errors = st.errors
         /\ b.included = st.included /\ b.once = st.once
         /\ Asked(disk[m].file, forms) \subseteq Keys(b.ctx.bindings)
<1> DEFINE new == Fetched(disk[m].file, m, forms)
           merged == Merge(st.ctx, new, st.bodies)
           ctx == [nss |-> merged.nss, bindings |-> merged.bindings]
<1>1. /\ IsContext(new)
      /\ \A c \in new.bindings : ~c.own /\ c.home = m
      /\ \A k \in Asked(disk[m].file, forms) : \E c \in new.bindings : Exported(c) /\ k = Key(c)
  BY FileFetches
<1>2. IsContext(st.ctx)
  BY DEF IsSession
<1>3. ctx.bindings = merged.bindings /\ b.ctx = ctx
  BY DEF MergedContext
<1> HIDE DEF new
<1>4. /\ IsContext(ctx) /\ ctx.bindings \subseteq st.ctx.bindings \cup new.bindings
      /\ Keys(st.ctx.bindings) \subseteq Keys(ctx.bindings)
      /\ \A c \in new.bindings : Exported(c) => Key(c) \in Keys(ctx.bindings)
      /\ \A c \in st.ctx.bindings :
           (c.kind \in Callables => Key(c) \in st.bodies) => c \in ctx.bindings
  BY <1>1, <1>2, <1>3, ContextMerges
<1> HIDE DEF ctx
<1>5. /\ DOMAIN b = DOMAIN st /\ b.errors = st.errors /\ b.included = st.included
      /\ b.ctx = ctx /\ b.so = st.so /\ b.linked = st.linked /\ b.once = st.once
      /\ b.bodies = st.bodies /\ b.phase = st.phase /\ b.name = st.name /\ b.cto = st.cto
      /\ b.opts = st.opts /\ b.forms = st.forms /\ b.imports = st.imports
      /\ b.includes = st.includes
  BY <1>3 DEF IsSession, Has, OnlyMerged
<1>6. st.errors \in Nat /\ IsSession(b)
  BY <1>4, <1>5 DEF IsSession, Has
<1>7. \A c \in st.ctx.bindings : Fixed(st, c) => Fixed(b, c)
  BY <1>4, <1>5 DEF Fixed
<1>8. Grown(st, b)
  BY <1>4, <1>5, <1>6, <1>7 DEF Grown
<1>9. Arrivals(disk, b, st)
  <2>1. \A c \in new.bindings : Arrived(disk, b, c)
    BY <1>1, <1>5 DEF Arrived, new
  <2> QED  BY <1>4, <1>5, <2>1 DEF Arrivals
<1>10. Asked(disk[m].file, forms) \subseteq Keys(b.ctx.bindings)
  BY <1>1, <1>4, <1>5
<1> QED  BY <1>5, <1>6, <1>8, <1>9, <1>10
-----------------------------------------------------------------------------
(***************************************************************************)
(* One step of reading.                                                    *)
(***************************************************************************)
LEMMA ModulesOrdered ==
  /\ \A j \in 1 .. Len(ModuleOrder) : ModuleOrder[j] \in ModuleNames
  /\ \A m \in ModuleNames : \E j \in 1 .. Len(ModuleOrder) : ModuleOrder[j] = m
BY OrderAssumption, LenProperties DEF ModuleNames, ToSet

(* A call in front of the others.                                          *)
LEMMA OnTop ==
  ASSUME NEW S, NEW cs \in Seq(S), NEW c \in S
  PROVE  LET ds == <<c>> \o cs
         IN  /\ ds \in Seq(S) /\ Len(ds) = Len(cs) + 1 /\ ds[1] = c
             /\ \A k \in 1 .. Len(cs) : k + 1 \in 1 .. Len(ds) /\ ds[k + 1] = cs[k]
             /\ \A k \in 2 .. Len(ds) : k - 1 \in 1 .. Len(cs) /\ ds[k] = cs[k - 1]
<1> DEFINE ds == <<c>> \o cs
<1>1. <<c>> \in Seq(S) /\ Len(<<c>>) = 1 /\ <<c>>[1] = c
  OBVIOUS
<1>2. Len(cs) \in Nat
  BY LenProperties
<1>3. ds \in Seq(S) /\ Len(ds) = 1 + Len(cs)
      /\ \A i \in 1 .. 1 + Len(cs) : ds[i] = IF i <= 1 THEN c ELSE cs[i - 1]
  BY <1>1, ConcatProperties
<1> HIDE DEF ds
<1>4. \A k \in 1 .. Len(cs) : k + 1 \in 1 .. 1 + Len(cs) /\ ~(k + 1 <= 1) /\ (k + 1) - 1 = k
  BY <1>2
<1>5. \A k \in 1 .. Len(cs) : ds[k + 1] = cs[k]
  BY <1>3, <1>4
<1>6. \A k \in 2 .. Len(ds) : k \in 1 .. 1 + Len(cs) /\ ~(k <= 1) /\ k - 1 \in 1 .. Len(cs)
  BY <1>2, <1>3
<1>7. \A k \in 2 .. Len(ds) : ds[k] = cs[k - 1]
  BY <1>3, <1>6
<1>8. ds[1] = c
  <2>1. 1 \in 1 .. 1 + Len(cs)
    BY <1>2
  <2> QED  BY <1>3, <2>1
<1> QED  BY <1>2, <1>3, <1>4, <1>5, <1>6, <1>7, <1>8 DEF ds

(* The others, without the first.                                          *)
LEMMA Below ==
  ASSUME NEW S, NEW cs \in Seq(S), cs # <<>>
  PROVE  /\ Head(cs) = cs[1] /\ Head(cs) \in S /\ Len(cs) \in Nat \ {0}
         /\ Tail(cs) \in Seq(S) /\ Len(Tail(cs)) = Len(cs) - 1
         /\ \A k \in 1 .. Len(Tail(cs)) : k + 1 \in 1 .. Len(cs) /\ Tail(cs)[k] = cs[k + 1]
         /\ \A k \in 2 .. Len(cs) : k - 1 \in 1 .. Len(Tail(cs)) /\ Tail(cs)[k - 1] = cs[k]
<1>1. Head(cs) \in S /\ Tail(cs) \in Seq(S) /\ Len(Tail(cs)) = Len(cs) - 1
      /\ \A k \in 1 .. Len(Tail(cs)) : Tail(cs)[k] = cs[k + 1]
  BY HeadTailProperties
<1>2. Len(cs) \in Nat \ {0}
  BY EmptySeq
<1>3. Head(cs) = cs[1]
  OBVIOUS
<1>4. \A k \in 1 .. Len(Tail(cs)) : k + 1 \in 1 .. Len(cs)
  BY <1>1, <1>2
<1>5. \A k \in 2 .. Len(cs) : k - 1 \in 1 .. Len(Tail(cs)) /\ (k - 1) + 1 = k
  BY <1>1, <1>2
<1>6. \A k \in 2 .. Len(cs) : Tail(cs)[k - 1] = cs[k]
  BY <1>1, <1>5
<1> QED  BY <1>1, <1>2, <1>3, <1>4, <1>5, <1>6

(* A failure: the callers do nothing more.                                 *)
LEMMA FailureGoes ==
  ASSUME NEW a, NEW st, NEW forms, IsSession(st), IsSession(a),
         Grown(st, a), Arrivals(disk, a, st)
  PROVE  /\ Moment(Failed(a), st, forms, {})
         /\ Failed(a).calls = <<>> /\ Failed(a).st.included = a.included /\ ~Failed(a).ok
<1> DEFINE b == [a EXCEPT !.errors = @ + 1]
           r == Failed(a)
<1>1. IsSession(b) /\ Grown(a, b) /\ Arrivals(disk, b, a) /\ b.errors = a.errors + 1
      /\ b.included = a.included
  BY StateFails
<1> HIDE DEF b
<1>2. r = [ok |-> FALSE, st |-> b, calls |-> <<>>]
  BY DEF Failed, b
<1>3. DOMAIN r = {"ok", "st", "calls"} /\ r.ok = FALSE /\ r.st = b /\ r.calls = <<>>
  BY <1>2
<1> HIDE DEF r
<1>4. r.calls \in Seq(CallsOf(forms)) /\ Len(r.calls) = 0
  BY <1>3, EmptySeq
<1>5. IsMoment(r, forms)
  BY <1>1, <1>3, <1>4 DEF IsMoment, Has
<1>6. Stacked(r)
  BY <1>4 DEF Stacked
<1>7. Grown(st, b) /\ Arrivals(disk, b, st)
  BY <1>1, GrownFurther, GrownArrivals
<1>8. st.errors \in Nat /\ a.errors \in Nat /\ st.errors <= a.errors
  BY DEF IsSession, Grown
<1>9. st.errors < b.errors
  BY <1>1, <1>8
<1>10. Outcome(r, st)
  BY <1>3, <1>9 DEF Outcome
<1>11. Progress(r, st, {})
  BY <1>3 DEF Progress
<1>12. Moment(r, st, forms, {})
  BY <1>3, <1>5, <1>6, <1>7, <1>10, <1>11 DEF Moment
<1> QED  BY <1>1, <1>3, <1>12 DEF r

(* A call is made, for a module that need not have been looked at yet.     *)
LEMMA CallGoes ==
  ASSUME Shapes, NEW q, NEW st, NEW forms, NEW m \in ModuleNames, NEW f \in FormsOf(forms),
         NEW dep \in BOOLEAN, IsSession(st), q.ok, Moment(q, st, forms, {m})
  PROVE  /\ Moment(CallRun(q, m, f, dep), st, forms, {})
         /\ Called(q, CallRun(q, m, f, dep), m, f)
<1>1. IsMoment(q, forms) /\ Stacked(q) /\ Outcome(q, st)
      /\ Grown(st, q.st) /\ Progress(q, st, {m}) /\ Arrivals(disk, q.st, st)
  BY DEF Moment
<1>2. CASE m \in DOMAIN q.st.included
  <2>1. CallRun(q, m, f, dep) = q
    BY <1>2 DEF CallRun
  <2>2. DOMAIN q.st.included \cup {m} = DOMAIN q.st.included \cup {}
    BY <1>2
  <2>3. Progress(q, st, {})
    BY <1>1, <2>2 DEF Progress, Looked
  <2>4. Called(q, q, m, f)
    BY <1>2 DEF Called
  <2> QED  BY <1>1, <2>1, <2>3, <2>4 DEF Moment
<1>3. CASE m \notin DOMAIN q.st.included /\ disk[m].file = NoFile
  <2>1. CallRun(q, m, f, dep) = Failed(q.st)
    BY <1>3 DEF CallRun
  <2>2. /\ Moment(Failed(q.st), st, forms, {}) /\ ~Failed(q.st).ok
        /\ Failed(q.st).calls = <<>> /\ Failed(q.st).st.included = q.st.included
    BY <1>1, FailureGoes DEF IsMoment
  <2>3. \A k \in 1 .. Len(<<>>) : FALSE
    OBVIOUS
  <2>4. Pending(Failed(q.st)) \subseteq Pending(q)
    BY <2>2, <2>3 DEF Pending
  <2>5. Called(q, Failed(q.st), m, f)
    BY <1>3, <2>2, <2>4 DEF Called
  <2> QED  BY <2>1, <2>2, <2>5
<1>4. CASE m \notin DOMAIN q.st.included /\ disk[m].file # NoFile
  <2> DEFINE c == [m |-> m, forms |-> f, next |-> 1, asDependency |-> dep]
             b == Included(q.st, m, f)
             r == CallRun(q, m, f, dep)
  <2>1. c \in CallsOf(forms)
    <3>1. 1 \in 1 .. Len(ModuleOrder) + 1
      BY StepsAreNumber
    <3> QED  BY <3>1 DEF CallsOf
  <2>2. c.m = m /\ c.forms = f /\ c.next = 1
    OBVIOUS
  <2>3. r = [q EXCEPT !.st = b, !.calls = <<c>> \o @]
    BY <1>4 DEF CallRun
  <2> HIDE DEF b, c, r
  <2>4. DOMAIN r = DOMAIN q /\ r.ok = q.ok /\ r.st = b /\ r.calls = <<c>> \o q.calls
    BY <1>1, <2>3 DEF IsMoment, Has
  <2>5. q.calls \in Seq(CallsOf(forms)) /\ IsSession(q.st) /\ q.ok \in BOOLEAN
        /\ Has(q, {"ok", "st", "calls"})
    BY <1>1 DEF IsMoment
  <2>6. /\ r.calls \in Seq(CallsOf(forms)) /\ Len(r.calls) = Len(q.calls) + 1
        /\ r.calls[1] = c
        /\ \A k \in 1 .. Len(q.calls) :
             k + 1 \in 1 .. Len(r.calls) /\ r.calls[k + 1] = q.calls[k]
        /\ \A k \in 2 .. Len(r.calls) :
             k - 1 \in 1 .. Len(q.calls) /\ r.calls[k] = q.calls[k - 1]
    BY <2>1, <2>4, <2>5, OnTop
  <2>7. /\ IsSession(b) /\ Grown(q.st, b) /\ Arrivals(disk, b, q.st) /\ b.errors = q.st.errors
        /\ DOMAIN b.included = DOMAIN q.st.included \cup {m} /\ b.included[m] = f
        /\ \A d \in DOMAIN q.st.included : b.included[d] = q.st.included[d]
    BY <1>4, <2>5, StateIncludes DEF b
  <2>8. Len(q.calls) \in Nat
    BY <2>5, LenProperties
  <2>9. IsMoment(r, forms)
    BY <2>4, <2>5, <2>6, <2>7 DEF IsMoment, Has
  <2>10. \A k \in 1 .. Len(q.calls) :
           /\ q.calls[k].m \in DOMAIN q.st.included
           /\ q.calls[k].forms = q.st.included[q.calls[k].m]
           /\ disk[q.calls[k].m].file # NoFile
    BY <1>1 DEF Stacked
  <2>11. \A k \in 1 .. Len(r.calls) : k = 1 \/ k \in 2 .. Len(r.calls)
    BY <2>6, <2>8
  <2>12. Stacked(r)
    <3>1. ASSUME NEW k \in 1 .. Len(r.calls)
          PROVE  /\ r.calls[k].m \in DOMAIN b.included
                 /\ r.calls[k].forms = b.included[r.calls[k].m]
                 /\ disk[r.calls[k].m].file # NoFile
      <4>1. CASE k = 1
        BY <1>4, <2>2, <2>6, <2>7, <4>1
      <4>2. CASE k \in 2 .. Len(r.calls)
        <5>1. k - 1 \in 1 .. Len(q.calls) /\ r.calls[k] = q.calls[k - 1]
          BY <2>6, <4>2
        <5>2. /\ r.calls[k].m \in DOMAIN q.st.included
              /\ r.calls[k].forms = q.st.included[r.calls[k].m]
              /\ disk[r.calls[k].m].file # NoFile
          BY <2>10, <5>1
        <5> QED  BY <2>7, <5>2
      <4> QED  BY <2>11, <4>1, <4>2
    <3>2. \A k \in 2 .. Len(r.calls) : r.calls[k].m # m
      BY <1>4, <2>6, <2>10
    <3>3. ASSUME NEW j \in 2 .. Len(r.calls), NEW k \in 2 .. Len(r.calls),
                 r.calls[j].m = r.calls[k].m
          PROVE  j = k
      <4>1. q.calls[j - 1].m = q.calls[k - 1].m /\ j - 1 \in 1 .. Len(q.calls)
            /\ k - 1 \in 1 .. Len(q.calls)
        BY <2>6, <3>3
      <4>2. j - 1 = k - 1
        BY <1>1, <4>1 DEF Stacked
      <4> QED  BY <4>2
    <3>4. \A j, k \in 1 .. Len(r.calls) : r.calls[j].m = r.calls[k].m => j = k
      BY <2>2, <2>6, <2>11, <3>2, <3>3
    <3> QED  BY <2>4, <3>1, <3>4 DEF Stacked
  <2>13. Outcome(r, st)
    BY <1>1, <2>4, <2>7 DEF Outcome
  <2>14. Grown(st, b) /\ Arrivals(disk, b, st)
    BY <1>1, <2>5, <2>7, GrownFurther, GrownArrivals
  <2>15. ASSUME \A x \in DOMAIN st.included : Done(disk, st, x), NEW x \in DOMAIN b.included
         PROVE  Done(disk, b, x) \/ Looked(r, x, {})
    <3>1. CASE x = m
      <4>1. 1 \in 1 .. Len(r.calls)
        BY <2>6, <2>8
      <4>2. \A j \in 1 .. r.calls[1].next - 1 : FALSE
        BY <2>2, <2>6
      <4> QED  BY <2>2, <2>6, <3>1, <4>1, <4>2 DEF Looked
    <3>2. CASE x \in DOMAIN q.st.included /\ Done(disk, q.st, x)
      BY <2>7, <3>2, GrownDone
    <3>3. CASE x \in DOMAIN q.st.included /\ Looked(q, x, {m})
      <4>1. PICK k \in 1 .. Len(q.calls) :
              /\ q.calls[k].m = x
              /\ \A j \in 1 .. q.calls[k].next - 1 :
                   ModuleOrder[j] \in DOMAIN disk[x].file.deps =>
                     ModuleOrder[j] \in DOMAIN q.st.included \cup {m}
        BY <3>3 DEF Looked
      <4>2. k + 1 \in 1 .. Len(r.calls) /\ r.calls[k + 1] = q.calls[k]
        BY <2>6
      <4>3. DOMAIN q.st.included \cup {m} = DOMAIN r.st.included \cup {}
        BY <2>4, <2>7
      <4> QED  BY <4>1, <4>2, <4>3 DEF Looked
    <3> QED  BY <1>1, <2>7, <2>15, <3>1, <3>2, <3>3 DEF Progress
  <2>16. Progress(r, st, {})
    BY <2>4, <2>15 DEF Progress
  <2>17. Moment(r, st, forms, {})
    BY <2>4, <2>9, <2>12, <2>13, <2>14, <2>16 DEF Moment
  <2>18. ASSUME NEW w \in Pending(r) PROVE w \in Pending(q)
    <3>1. w \in ModuleNames \X (1 .. Len(ModuleOrder) + 1)
      BY DEF Pending
    <3>2. CASE w[1] \notin DOMAIN b.included
      BY <2>7, <3>1, <3>2 DEF Pending
    <3>3. ASSUME NEW k \in 1 .. Len(r.calls), r.calls[k].m = w[1], r.calls[k].next <= w[2]
          PROVE  w \in Pending(q)
      <4>1. CASE k = 1
        <5>1. w[1] = m
          BY <2>2, <2>6, <3>3, <4>1
        <5> QED  BY <1>4, <3>1, <5>1 DEF Pending
      <4>2. CASE k \in 2 .. Len(r.calls)
        <5>1. k - 1 \in 1 .. Len(q.calls) /\ r.calls[k] = q.calls[k - 1]
          BY <2>6, <4>2
        <5> QED  BY <3>1, <3>3, <5>1 DEF Pending
      <4> QED  BY <2>11, <4>1, <4>2
    <3> QED  BY <2>4, <3>2, <3>3 DEF Pending
  <2>19. Called(q, r, m, f)
    BY <1>4, <2>4, <2>7, <2>18 DEF Called
  <2> QED  BY <2>17, <2>19 DEF r
<1> QED  BY <1>2, <1>3, <1>4

(* The next dependency is about to be looked at.                           *)
Bumped(q) ==
  [q EXCEPT !.calls = <<[Head(q.calls) EXCEPT !.next = @ + 1]>> \o Tail(@)]

LEMMA BumpGoes ==
  ASSUME Shapes, NEW q, NEW st, NEW forms, IsSession(st), Moment(q, st, forms, {}),
         q.calls # <<>>, Head(q.calls).next <= Len(ModuleOrder)
  PROVE  LET call == Head(q.calls)
             m == ModuleOrder[call.next]
         IN  /\ Bumped(q).ok /\ m \in ModuleNames /\ call.m \in ModuleNames
             /\ Bumped(q).st = q.st /\ call.m \in DOMAIN q.st.included
             /\ <<call.m, call.next>> \in Pending(q) \ Pending(Bumped(q))
             /\ Pending(Bumped(q)) \subseteq Pending(q)
             /\ Moment(Bumped(q), st, forms, {m} \cap DOMAIN disk[call.m].file.deps)
<1> DEFINE call == Head(q.calls)
           m == ModuleOrder[call.next]
           D == {m} \cap DOMAIN disk[call.m].file.deps
           c == [call EXCEPT !.next = @ + 1]
           r == Bumped(q)
<1>1. IsMoment(q, forms) /\ Stacked(q) /\ Outcome(q, st)
      /\ Grown(st, q.st) /\ Progress(q, st, {}) /\ Arrivals(disk, q.st, st)
  BY DEF Moment
<1>2. q.calls \in Seq(CallsOf(forms)) /\ IsSession(q.st) /\ q.ok \in BOOLEAN
      /\ Has(q, {"ok", "st", "calls"})
  BY <1>1 DEF IsMoment
<1>3. q.ok
  BY <1>1, <1>2 DEF Outcome
<1>4. /\ call = q.calls[1] /\ call \in CallsOf(forms) /\ Len(q.calls) \in Nat \ {0}
      /\ Tail(q.calls) \in Seq(CallsOf(forms)) /\ Len(Tail(q.calls)) = Len(q.calls) - 1
      /\ \A k \in 1 .. Len(Tail(q.calls)) :
           k + 1 \in 1 .. Len(q.calls) /\ Tail(q.calls)[k] = q.calls[k + 1]
      /\ \A k \in 2 .. Len(q.calls) :
           k - 1 \in 1 .. Len(Tail(q.calls)) /\ Tail(q.calls)[k - 1] = q.calls[k]
  BY <1>2, Below
<1> HIDE DEF call
<1>5. /\ call.m \in ModuleNames /\ call.forms \in FormsOf(forms)
      /\ call.next \in 1 .. Len(ModuleOrder) + 1 /\ call.asDependency \in BOOLEAN
  BY <1>4 DEF CallsOf
<1>6. call.next \in 1 .. Len(ModuleOrder)
  BY <1>5, StepsAreNumber DEF call
<1>7. m \in ModuleNames
  BY <1>6, ModulesOrdered
<1>8. c.m = call.m /\ c.forms = call.forms /\ c.next = call.next + 1
      /\ c \in CallsOf(forms)
  <2>1. call.next + 1 \in 1 .. Len(ModuleOrder) + 1
    BY <1>6, StepsAreNumber
  <2> QED  BY <1>4, <2>1 DEF CallsOf
<1>9. DOMAIN r = DOMAIN q /\ r.ok = q.ok /\ r.st = q.st
      /\ r.calls = <<c>> \o Tail(q.calls)
  BY <1>2 DEF Bumped, Has, call
<1> HIDE DEF c, r, m
<1>10. /\ r.calls \in Seq(CallsOf(forms)) /\ Len(r.calls) = Len(q.calls)
       /\ r.calls[1] = c
       /\ \A k \in 2 .. Len(r.calls) : r.calls[k] = q.calls[k]
  <2>1. /\ r.calls \in Seq(CallsOf(forms)) /\ Len(r.calls) = Len(Tail(q.calls)) + 1
        /\ r.calls[1] = c
        /\ \A k \in 2 .. Len(r.calls) :
             k - 1 \in 1 .. Len(Tail(q.calls)) /\ r.calls[k] = Tail(q.calls)[k - 1]
    BY <1>4, <1>8, <1>9, OnTop
  <2>2. Len(r.calls) = Len(q.calls)
    BY <1>4, <2>1
  <2> QED  BY <1>4, <2>1, <2>2
<1>11. \A k \in 1 .. Len(r.calls) : k = 1 \/ k \in 2 .. Len(r.calls)
  BY <1>4, <1>10
<1>12. \A k \in 1 .. Len(r.calls) :
         r.calls[k].m = q.calls[k].m /\ r.calls[k].forms = q.calls[k].forms
  BY <1>4, <1>8, <1>10, <1>11
<1>13. IsMoment(r, forms)
  BY <1>2, <1>9, <1>10 DEF IsMoment, Has
<1>14. Stacked(r)
  BY <1>1, <1>9, <1>10, <1>12 DEF Stacked
<1>15. Outcome(r, st)
  BY <1>1, <1>3, <1>9 DEF Outcome
<1>16. ASSUME NEW x, Looked(q, x, {})
       PROVE  Looked(r, x, D)
  <2>1. PICK k \in 1 .. Len(q.calls) :
          /\ q.calls[k].m = x
          /\ \A j \in 1 .. q.calls[k].next - 1 :
               ModuleOrder[j] \in DOMAIN disk[x].file.deps =>
                 ModuleOrder[j] \in DOMAIN q.st.included
    BY <1>16 DEF Looked
  <2>2. CASE k = 1
    <3>1. x = call.m
      BY <1>4, <2>1, <2>2
    <3>2. \A j \in 1 .. c.next - 1 : j \in 1 .. call.next - 1 \/ j = call.next
      BY <1>6, <1>8
    <3>3. \A j \in 1 .. c.next - 1 :
            ModuleOrder[j] \in DOMAIN disk[x].file.deps =>
              ModuleOrder[j] \in DOMAIN r.st.included \cup D
      BY <1>4, <1>9, <2>1, <2>2, <3>1, <3>2 DEF m
    <3>4. 1 \in 1 .. Len(r.calls) /\ r.calls[1].m = x
      BY <1>8, <1>10, <2>1, <2>2, <3>1
    <3> HIDE DEF D
    <3> QED  BY <1>10, <3>3, <3>4 DEF Looked
  <2>3. CASE k \in 2 .. Len(q.calls)
    <3>1. k \in 1 .. Len(r.calls) /\ r.calls[k] = q.calls[k]
      BY <1>10, <2>1, <2>3
    <3> HIDE DEF D
    <3> QED  BY <1>9, <2>1, <3>1 DEF Looked
  <2> QED  BY <1>10, <1>11, <2>1, <2>2, <2>3
<1>17. Progress(r, st, D)
  <2> HIDE DEF D
  <2> QED  BY <1>1, <1>9, <1>16 DEF Progress
<1> HIDE DEF D
<1>18. Moment(r, st, forms, D)
  BY <1>1, <1>9, <1>13, <1>14, <1>15, <1>17 DEF Moment
<1>19. call.m \in DOMAIN q.st.included
  BY <1>1, <1>4 DEF Stacked
<1>20. <<call.m, call.next>> \in Pending(q)
  <2>1. 1 \in 1 .. Len(q.calls) /\ call.next <= call.next
    BY <1>4, <1>6
  <2> QED  BY <1>4, <1>5, <2>1 DEF Pending
<1>21. ASSUME NEW w \in Pending(r) PROVE w \in Pending(q) /\ w # <<call.m, call.next>>
  <2>1. w \in ModuleNames \X (1 .. Len(ModuleOrder) + 1)
    BY DEF Pending
  <2>2. CASE w[1] \notin DOMAIN q.st.included
    BY <1>19, <2>1, <2>2 DEF Pending
  <2>3. ASSUME NEW k \in 1 .. Len(r.calls), r.calls[k].m = w[1], r.calls[k].next <= w[2]
        PROVE  w \in Pending(q) /\ w # <<call.m, call.next>>
    <3>1. CASE k = 1
      <4>1. call.next + 1 <= w[2] /\ w[1] = call.m
        BY <1>8, <1>10, <2>3, <3>1
      <4>2. call.next <= w[2] /\ w[2] # call.next
        BY <1>6, <2>1, <4>1
      <4>3. 1 \in 1 .. Len(q.calls)
        BY <1>4
      <4> QED  BY <1>4, <2>1, <4>1, <4>2, <4>3 DEF Pending
    <3>2. CASE k \in 2 .. Len(r.calls)
      <4>1. r.calls[k] = q.calls[k] /\ k \in 1 .. Len(q.calls) /\ k # 1 /\ 1 \in 1 .. Len(q.calls)
        BY <1>4, <1>10, <3>2
      <4>2. q.calls[k].m # call.m
        BY <1>1, <1>4, <4>1 DEF Stacked
      <4> QED  BY <2>1, <2>3, <4>1, <4>2 DEF Pending
    <3> QED  BY <1>11, <3>1, <3>2
  <2> QED  BY <1>9, <2>2, <2>3 DEF Pending
<1> QED  BY <1>3, <1>5, <1>7, <1>9, <1>18, <1>19, <1>20, <1>21 DEF r, D, m, call

(* The dependencies have been read, and the module follows.                *)
LEMMA ProvideGoes ==
  ASSUME Shapes, NEW q, NEW st, NEW forms, IsSession(st), Moment(q, st, forms, {}),
         q.calls # <<>>, ~(Head(q.calls).next <= Len(ModuleOrder))
  PROVE  LET call == Head(q.calls)
         IN  /\ Moment(Provide(q), st, forms, {})
             /\ Provide(q).st.included = q.st.included
             /\ <<call.m, call.next>> \in Pending(q) \ Pending(Provide(q))
             /\ Pending(Provide(q)) \subseteq Pending(q)
             /\ call.m \in DOMAIN q.st.included
             /\ AllFound(disk, call.m, q.st.included[call.m]) => Provide(q).ok
<1> DEFINE call == Head(q.calls)
           file == disk[call.m].file
           static == StaticModule(q.st, call.m, call.asDependency)
           linked == Linked(q.st, call.m, static, file.cto)
           tagged == Once(linked, file)
           merged == Merge(tagged.ctx, Fetched(disk[call.m].file, call.m, call.forms), tagged.bodies)
           b == [tagged EXCEPT !.ctx = [nss |-> merged.nss, bindings |-> merged.bindings],
                               !.aborted = @ \/ ~merged.ok]
           r == Provide(q)
<1>1. IsMoment(q, forms) /\ Stacked(q) /\ Outcome(q, st)
      /\ Grown(st, q.st) /\ Progress(q, st, {}) /\ Arrivals(disk, q.st, st)
  BY DEF Moment
<1>2. q.calls \in Seq(CallsOf(forms)) /\ IsSession(q.st) /\ q.ok \in BOOLEAN
      /\ Has(q, {"ok", "st", "calls"})
  BY <1>1 DEF IsMoment
<1>3. q.ok
  BY <1>1, <1>2 DEF Outcome
<1>4. /\ call = q.calls[1] /\ call \in CallsOf(forms) /\ Len(q.calls) \in Nat \ {0}
      /\ Tail(q.calls) \in Seq(CallsOf(forms)) /\ Len(Tail(q.calls)) = Len(q.calls) - 1
      /\ \A k \in 1 .. Len(Tail(q.calls)) :
           k + 1 \in 1 .. Len(q.calls) /\ Tail(q.calls)[k] = q.calls[k + 1]
      /\ \A k \in 2 .. Len(q.calls) :
           k - 1 \in 1 .. Len(Tail(q.calls)) /\ Tail(q.calls)[k - 1] = q.calls[k]
  BY <1>2, Below
<1>5. call.m \in ModuleNames /\ call.next = Len(ModuleOrder) + 1
  <2>1. call.m \in ModuleNames /\ call.next \in 1 .. Len(ModuleOrder) + 1
    BY <1>4 DEF CallsOf
  <2> QED  BY <2>1, StepsAreNumber
<1>6. call.m \in DOMAIN q.st.included /\ call.forms = q.st.included[call.m]
      /\ file # NoFile
  <2>1. 1 \in 1 .. Len(q.calls)
    BY <1>4
  <2> QED  BY <1>1, <1>4, <2>1 DEF Stacked
<1>7. IsContext(file) /\ DOMAIN file.deps \subseteq ModuleNames
  BY <1>5 DEF Shapes
<1>8. r = IF call.forms # {} /\ Found(Loaded(disk[call.m].file, call.m), call.forms) # call.forms
            THEN Failed(Once(IF static THEN q.st ELSE linked, file))
          ELSE [q EXCEPT !.calls = Tail(@), !.st = b]
  BY DEF Provide
<1> HIDE DEF r, call, static
<1>9. /\ IsSession(tagged) /\ Grown(q.st, tagged) /\ Arrivals(disk, tagged, q.st)
      /\ tagged.errors = q.st.errors
      /\ tagged.included = q.st.included /\ tagged.ctx = q.st.ctx
      /\ file.once \subseteq tagged.once
      /\ file.cto \/ call.m \in tagged.so \cup tagged.linked
  BY <1>2, <1>6, StateLinks
<1>10. <<call.m, call.next>> \in Pending(q)
  <2>1. 1 \in 1 .. Len(q.calls) /\ call.next <= call.next
        /\ call.next \in 1 .. Len(ModuleOrder) + 1
    BY <1>4, <1>5, StepsAreNumber
  <2> QED  BY <1>4, <1>5, <2>1 DEF Pending
<1>11. ASSUME r.st.included = q.st.included,
              \A k \in 1 .. Len(r.calls) : \E j \in 2 .. Len(q.calls) : r.calls[k] = q.calls[j]
       PROVE  <<call.m, call.next>> \notin Pending(r) /\ Pending(r) \subseteq Pending(q)
  <2>1. ASSUME NEW w \in Pending(r) PROVE w \in Pending(q) /\ w # <<call.m, call.next>>
    <3>1. w \in ModuleNames \X (1 .. Len(ModuleOrder) + 1)
      BY DEF Pending
    <3>2. CASE w[1] \notin DOMAIN q.st.included
      BY <1>6, <3>1, <3>2 DEF Pending
    <3>3. ASSUME NEW k \in 1 .. Len(r.calls), r.calls[k].m = w[1], r.calls[k].next <= w[2]
          PROVE  w \in Pending(q) /\ w # <<call.m, call.next>>
      <4>1. PICK j \in 2 .. Len(q.calls) : r.calls[k] = q.calls[j]
        BY <1>11
      <4>2. j \in 1 .. Len(q.calls) /\ j # 1 /\ 1 \in 1 .. Len(q.calls)
        BY <1>4
      <4>3. q.calls[j].m # call.m
        BY <1>1, <1>4, <4>2 DEF Stacked
      <4> QED  BY <3>1, <3>3, <4>1, <4>2, <4>3 DEF Pending
    <3> QED  BY <1>11, <3>2, <3>3 DEF Pending
  <2> QED  BY <2>1
<1>12. CASE ~AllFound(disk, call.m, call.forms)
  <2> DEFINE a == Once(IF static THEN q.st ELSE linked, file)
  <2>1. IsSession(a) /\ Grown(q.st, a) /\ Arrivals(disk, a, q.st) /\ a.included = q.st.included
    <3>1. CASE static
      BY <1>2, <1>6, <3>1, StateTags
    <3>2. CASE ~static
      BY <1>9, <3>2
    <3> QED  BY <3>1, <3>2
  <2>2. r = Failed(a)
    BY <1>8, <1>12 DEF AllFound
  <2> HIDE DEF a
  <2>3. Grown(st, a) /\ Arrivals(disk, a, st)
    BY <1>1, <1>2, <2>1, GrownFurther, GrownArrivals
  <2>4. /\ Moment(Failed(a), st, forms, {})
        /\ Failed(a).calls = <<>> /\ Failed(a).st.included = a.included
    BY <2>1, <2>3, FailureGoes
  <2>5. \A k \in 1 .. Len(<<>>) : FALSE
    OBVIOUS
  <2>6. <<call.m, call.next>> \notin Pending(r) /\ Pending(r) \subseteq Pending(q)
    BY <1>11, <2>1, <2>2, <2>4, <2>5
  <2> QED  BY <1>6, <1>10, <1>12, <2>1, <2>2, <2>4, <2>6 DEF r, call
<1>13. CASE AllFound(disk, call.m, call.forms)
  <2>1. r = [q EXCEPT !.calls = Tail(@), !.st = b]
    BY <1>8, <1>13 DEF AllFound
  <2>2. /\ IsSession(b) /\ Grown(tagged, b) /\ Arrivals(disk, b, tagged)
        /\ b.errors = tagged.errors
        /\ b.included = tagged.included /\ b.once = tagged.once
        /\ Asked(disk[call.m].file, call.forms) \subseteq Keys(b.ctx.bindings)
    <3> HIDE DEF tagged
    <3>1. call.m \in DOMAIN tagged.included /\ call.forms = tagged.included[call.m]
      BY <1>6, <1>9
    <3>2. Has(tagged, {"ctx", "aborted"})
      BY <1>9 DEF IsSession, Has
    <3>3. OnlyMerged(tagged, b) /\ b.ctx = MergedContext(tagged, call.m, call.forms)
      BY <3>2 DEF Has, OnlyMerged, MergedContext
    <3> HIDE DEF b, file
    <3>4. IsSession(tagged) /\ IsContext(disk[call.m].file)
      BY <1>7, <1>9 DEF file
    <3>5. disk[call.m].file.cto \/ call.m \in tagged.so \cup tagged.linked
      BY <1>9 DEF file
    <3> QED  BY ONLY SMTT(30), <3>1, <3>3, <3>4, <3>5, StateMerges
  <2> HIDE DEF tagged, b
  <2>3. DOMAIN r = DOMAIN q /\ r.ok = q.ok /\ r.st = b /\ r.calls = Tail(q.calls)
    BY <1>2, <2>1 DEF Has
  <2>4. Grown(q.st, b) /\ Arrivals(disk, b, q.st)
    BY <1>2, <1>9, <2>2, GrownFurther, GrownArrivals
  <2>5. Grown(st, b) /\ Arrivals(disk, b, st)
    BY <1>1, <1>2, <2>2, <2>4, GrownFurther, GrownArrivals
  <2>6. IsMoment(r, forms)
    BY <1>2, <1>4, <2>2, <2>3 DEF IsMoment, Has
  <2>7. Stacked(r)
    <3>1. \A k \in 1 .. Len(r.calls) :
            k + 1 \in 1 .. Len(q.calls) /\ r.calls[k] = q.calls[k + 1]
      BY <1>4, <2>3
    <3>2. r.st.included = q.st.included
      BY <1>9, <2>2, <2>3
    <3>3. ASSUME NEW k \in 1 .. Len(r.calls)
          PROVE  /\ r.calls[k].m \in DOMAIN r.st.included
                 /\ r.calls[k].forms = r.st.included[r.calls[k].m]
                 /\ disk[r.calls[k].m].file # NoFile
      <4>1. /\ q.calls[k + 1].m \in DOMAIN q.st.included
            /\ q.calls[k + 1].forms = q.st.included[q.calls[k + 1].m]
            /\ disk[q.calls[k + 1].m].file # NoFile
        BY <1>1, <3>1 DEF Stacked
      <4> QED  BY <3>1, <3>2, <4>1
    <3>4. ASSUME NEW j \in 1 .. Len(r.calls), NEW k \in 1 .. Len(r.calls),
                 r.calls[j].m = r.calls[k].m
          PROVE  j = k
      <4>1. q.calls[j + 1].m = q.calls[k + 1].m
            /\ j + 1 \in 1 .. Len(q.calls) /\ k + 1 \in 1 .. Len(q.calls)
        BY <3>1, <3>4
      <4>2. j + 1 = k + 1
        BY <1>1, <4>1 DEF Stacked
      <4> QED  BY <4>2
    <3> QED  BY <3>3, <3>4 DEF Stacked
  <2>8. Outcome(r, st)
    BY <1>1, <1>3, <1>9, <2>2, <2>3 DEF Outcome
  <2>9. ASSUME DOMAIN file.deps \subseteq DOMAIN b.included PROVE Done(disk, b, call.m)
    <3>1. AllFound(disk, call.m, b.included[call.m])
          /\ Asked(disk[call.m].file, b.included[call.m]) \subseteq Keys(b.ctx.bindings)
      BY <1>6, <1>9, <1>13, <2>2
    <3>2. file.once \subseteq b.once
      BY <1>9, <2>2
    <3> QED  BY <1>6, <2>9, <3>1, <3>2 DEF Done
  <2>10. ASSUME \A x \in DOMAIN st.included : Done(disk, st, x), NEW x \in DOMAIN b.included
         PROVE  Done(disk, b, x) \/ Looked(r, x, {})
    <3>1. x \in DOMAIN q.st.included /\ (Done(disk, q.st, x) \/ Looked(q, x, {}))
      BY <1>1, <1>3, <1>9, <2>2, <2>10 DEF Progress
    <3>2. CASE Done(disk, q.st, x)
      BY <2>4, <3>1, <3>2, GrownDone
    <3>3. CASE Looked(q, x, {})
      <4>1. PICK k \in 1 .. Len(q.calls) :
              /\ q.calls[k].m = x
              /\ \A j \in 1 .. q.calls[k].next - 1 :
                   ModuleOrder[j] \in DOMAIN disk[x].file.deps =>
                     ModuleOrder[j] \in DOMAIN q.st.included
        BY <3>3 DEF Looked
      <4>2. CASE k = 1
        <5>1. x = call.m /\ q.calls[k].next - 1 = Len(ModuleOrder)
          BY <1>4, <1>5, <4>1, <4>2, StepsAreNumber
        <5>2. DOMAIN file.deps \subseteq DOMAIN b.included
          BY <1>7, <1>9, <2>2, <4>1, <5>1, ModulesOrdered
        <5> QED  BY <2>9, <5>1, <5>2
      <4>3. CASE k \in 2 .. Len(q.calls)
        <5>1. k - 1 \in 1 .. Len(r.calls) /\ r.calls[k - 1] = q.calls[k]
          BY <1>4, <2>3, <4>3
        <5>2. r.st.included = q.st.included
          BY <1>9, <2>2, <2>3
        <5> QED  BY <4>1, <5>1, <5>2 DEF Looked
      <4> QED  BY <1>4, <4>1, <4>2, <4>3
    <3> QED  BY <3>1, <3>2, <3>3
  <2>11. Progress(r, st, {})
    BY <2>3, <2>10 DEF Progress
  <2>12. Moment(r, st, forms, {})
    BY <2>3, <2>5, <2>6, <2>7, <2>8, <2>11 DEF Moment
  <2>13. r.st.included = q.st.included
    BY <1>9, <2>2, <2>3
  <2>14. \A k \in 1 .. Len(r.calls) : \E j \in 2 .. Len(q.calls) : r.calls[k] = q.calls[j]
    <3> TAKE k \in 1 .. Len(r.calls)
    <3>1. k + 1 \in 1 .. Len(q.calls) /\ r.calls[k] = q.calls[k + 1]
      BY <1>4, <2>3
    <3>2. k + 1 \in 2 .. Len(q.calls)
      BY <1>4, <3>1
    <3> QED  BY <3>1, <3>2
  <2>15. <<call.m, call.next>> \notin Pending(r) /\ Pending(r) \subseteq Pending(q)
    BY <1>11, <2>13, <2>14
  <2> QED  BY <1>3, <1>6, <1>10, <2>3, <2>12, <2>13, <2>15 DEF r, call
<1> QED  BY <1>12, <1>13

(* A step goes on, calls only what the files say, and fails only if a      *)
(* file, or what was asked of it, is not there.                            *)
Stepped(q, r) ==
  /\ q.calls # <<>> => \E w \in Pending(q) : w \notin Pending(r)
  /\ Pending(r) \subseteq Pending(q)
  /\ \A d \in DOMAIN q.st.included :
       d \in DOMAIN r.st.included /\ r.st.included[d] = q.st.included[d]
  /\ \A d \in DOMAIN r.st.included \ DOMAIN q.st.included :
       \E m \in DOMAIN q.st.included \cap ModuleNames :
         /\ d \in DOMAIN disk[m].file.deps
         /\ r.st.included[d] = disk[m].file.deps[d]
  /\ r.ok \/ ~q.ok
     \/ (\E m \in DOMAIN q.st.included \cap ModuleNames :
          \E d \in DOMAIN disk[m].file.deps : disk[d].file = NoFile)
     \/ (\E m \in DOMAIN q.st.included : ~AllFound(disk, m, q.st.included[m]))

LEMMA StepGoes ==
  ASSUME Shapes, NEW q, NEW st, NEW forms, IsSession(st), Moment(q, st, forms, {})
  PROVE  Moment(ReadStep(q), st, forms, {}) /\ Stepped(q, ReadStep(q))
<1>1. CASE q.calls = <<>>
  <2>1. ReadStep(q) = q
    BY <1>1 DEF ReadStep
  <2>2. Stepped(q, q)
    BY <1>1 DEF Stepped
  <2> QED  BY <2>1, <2>2
<1>2. CASE q.calls # <<>> /\ Head(q.calls).next <= Len(ModuleOrder)
  <2> DEFINE call == Head(q.calls)
             m == ModuleOrder[call.next]
             deps == disk[call.m].file.deps
             b == Bumped(q)
  <2>1. /\ b.ok /\ m \in ModuleNames /\ call.m \in ModuleNames
        /\ b.st = q.st /\ call.m \in DOMAIN q.st.included
        /\ <<call.m, call.next>> \in Pending(q) \ Pending(b)
        /\ Pending(b) \subseteq Pending(q)
        /\ Moment(b, st, forms, {m} \cap DOMAIN deps)
    BY <1>2, BumpGoes
  <2>2. ReadStep(q) = IF m \in DOMAIN deps THEN CallRun(b, m, deps[m], TRUE) ELSE b
    BY <1>2 DEF ReadStep, NextDependency, Bumped
  <2> HIDE DEF call, b, m
  <2>3. CASE m \in DOMAIN deps
    <3> DEFINE r == CallRun(b, m, deps[m], TRUE)
    <3>1. {m} \cap DOMAIN deps = {m} /\ deps[m] \in FormsOf(forms)
      BY <2>1, <2>3 DEF FormsOf
    <3>2. Moment(r, st, forms, {}) /\ Called(b, r, m, deps[m])
      <4> HIDE DEF deps
      <4> QED  BY <2>1, <3>1, CallGoes
    <3> HIDE DEF r
    <3>3. Stepped(q, r)
      <4>1. <<call.m, call.next>> \in Pending(q) /\ <<call.m, call.next>> \notin Pending(r)
            /\ Pending(r) \subseteq Pending(q)
        BY <2>1, <3>2 DEF Called
      <4>2. \A d \in DOMAIN q.st.included :
              d \in DOMAIN r.st.included /\ r.st.included[d] = q.st.included[d]
        BY <2>1, <3>2 DEF Called
      <4>3. \A d \in DOMAIN r.st.included \ DOMAIN q.st.included :
              d = m /\ r.st.included[d] = deps[d]
        BY <2>1, <3>2 DEF Called
      <4>4. r.ok \/ disk[m].file = NoFile
        BY <3>2 DEF Called
      <4> QED  BY <2>1, <2>3, <4>1, <4>2, <4>3, <4>4 DEF Stepped
    <3> QED  BY <2>2, <2>3, <3>2, <3>3 DEF r
  <2>4. CASE m \notin DOMAIN deps
    <3>1. {m} \cap DOMAIN deps = {}
      BY <2>4
    <3>2. Moment(b, st, forms, {})
      BY <2>1, <3>1
    <3>3. Stepped(q, b)
      BY <2>1 DEF Stepped
    <3> QED  BY <2>2, <2>4, <3>2, <3>3
  <2> QED  BY <2>3, <2>4
<1>3. CASE q.calls # <<>> /\ ~(Head(q.calls).next <= Len(ModuleOrder))
  <2>1. ReadStep(q) = Provide(q)
    BY <1>3 DEF ReadStep
  <2> DEFINE call == Head(q.calls)
             r == Provide(q)
  <2>2. /\ Moment(r, st, forms, {}) /\ r.st.included = q.st.included
        /\ <<call.m, call.next>> \in Pending(q) \ Pending(r)
        /\ Pending(r) \subseteq Pending(q) /\ call.m \in DOMAIN q.st.included
        /\ AllFound(disk, call.m, q.st.included[call.m]) => r.ok
    BY <1>3, ProvideGoes
  <2> HIDE DEF r, call
  <2>3. Stepped(q, r)
    BY <2>2 DEF Stepped
  <2> QED  BY <2>1, <2>2, <2>3 DEF r
<1> QED  BY <1>1, <1>2, <1>3

(* The import itself is the first call.                                    *)
LEMMA FirstGoes ==
  ASSUME Shapes, NEW st, NEW m \in ModuleNames, NEW forms, IsSession(st)
  PROVE  /\ Moment(First(st, m, forms), st, forms, {})
         /\ Called([ok |-> TRUE, st |-> st, calls |-> <<>>], First(st, m, forms), m, forms)
<1> DEFINE q == [ok |-> TRUE, st |-> st, calls |-> <<>>]
<1>1. DOMAIN q = {"ok", "st", "calls"} /\ q.ok = TRUE /\ q.st = st /\ q.calls = <<>>
  OBVIOUS
<1>2. First(st, m, forms) = CallRun(q, m, forms, FALSE)
  BY DEF First
<1> HIDE DEF q
<1>3. q.calls \in Seq(CallsOf(forms)) /\ Len(q.calls) = 0
  BY <1>1, EmptySeq
<1>4. IsMoment(q, forms) /\ Stacked(q) /\ Outcome(q, st)
  <2>1. IsMoment(q, forms)
    <3>1. Has(q, {"ok", "st", "calls"}) /\ q.ok \in BOOLEAN
      BY <1>1 DEF Has
    <3> QED  BY <1>1, <1>3, <3>1 DEF IsMoment
  <2>2. Stacked(q)
    BY <1>3 DEF Stacked
  <2>3. Outcome(q, st)
    BY <1>1 DEF Outcome
  <2> QED  BY <2>1, <2>2, <2>3
<1>5. Grown(st, q.st) /\ Arrivals(disk, q.st, st) /\ Progress(q, st, {m})
  BY <1>1, GrownStays DEF Arrivals, Progress
<1>6. Moment(q, st, forms, {m})
  BY <1>4, <1>5 DEF Moment
<1>7. forms \in FormsOf(forms)
  BY DEF FormsOf
<1>8. Moment(CallRun(q, m, forms, FALSE), st, forms, {})
      /\ Called(q, CallRun(q, m, forms, FALSE), m, forms)
  BY <1>1, <1>6, <1>7, CallGoes
<1> QED  BY <1>2, <1>8 DEF q

(* So every moment is as it should be.                                     *)
LEMMA MomentsGo ==
  ASSUME Shapes, NEW st, NEW m \in ModuleNames, NEW forms, IsSession(st),
         NEW q, Moments(q, st, m, forms)
  PROVE  \A k \in 0 .. ReadSteps : Moment(q[k], st, forms, {})
<1> DEFINE T == {k \in 0 .. ReadSteps : Moment(q[k], st, forms, {})}
<1>1. 0 \in T
  <2>1. Moment(First(st, m, forms), st, forms, {})
    BY FirstGoes
  <2>2. 0 \in 0 .. ReadSteps
    BY StepsAreNumber
  <2> QED  BY <2>1, <2>2 DEF Moments
<1>2. ASSUME NEW k \in 1 .. ReadSteps, k - 1 \in T PROVE k \in T
  <2>1. k \in 0 .. ReadSteps
    BY StepsAreNumber
  <2> QED  BY <1>2, <2>1, StepGoes DEF Moments
<1> HIDE DEF T
<1>3. \A k \in 0 .. ReadSteps : k \in T
  BY <1>1, <1>2, StepsAreNumber, UpTo
<1> QED  BY <1>3 DEF T
-----------------------------------------------------------------------------
(***************************************************************************)
(* Reading as a whole.                                                     *)
(***************************************************************************)
LEMMA MomentsStep ==
  ASSUME Shapes, NEW st, NEW m \in ModuleNames, NEW forms, IsSession(st),
         NEW q, Moments(q, st, m, forms), NEW k \in 1 .. ReadSteps
  PROVE  q[k] = ReadStep(q[k - 1]) /\ Stepped(q[k - 1], q[k]) /\ k - 1 \in 0 .. ReadSteps
<1>1. k - 1 \in 0 .. ReadSteps
  BY StepsAreNumber
<1>2. q[k] = ReadStep(q[k - 1])
  BY DEF Moments
<1>3. Moment(q[k - 1], st, forms, {})
  BY <1>1, MomentsGo
<1>4. Stepped(q[k - 1], ReadStep(q[k - 1]))
  BY <1>3, StepGoes
<1> QED  BY <1>1, <1>2, <1>4

(* There is no more to do than the bound.                                  *)
LEMMA PendingIsFinite ==
  ASSUME NEW q
  PROVE  IsFiniteSet(Pending(q)) /\ Cardinality(Pending(q)) \in Nat
         /\ Cardinality(Pending(q)) <= ReadSteps
<1> DEFINE n == Len(ModuleOrder)
           A == (1 .. n) \X (1 .. n + 1)
           B == ModuleNames \X (1 .. n + 1)
           f == [p \in A |-> <<ModuleOrder[p[1]], p[2]>>]
<1>1. n \in Nat
  BY StepsAreNumber
<1>2. IsFiniteSet(1 .. n) /\ Cardinality(1 .. n) = n
  <2>1. IF 1 > n THEN n = 0 ELSE n - 1 + 1 = n
    BY <1>1
  <2> HIDE DEF n
  <2> QED  BY <1>1, <2>1, FS_Interval
<1>3. IsFiniteSet(1 .. n + 1) /\ Cardinality(1 .. n + 1) = n + 1
  <2>1. ~(1 > n + 1) /\ (n + 1) - 1 + 1 = n + 1 /\ n + 1 \in Int
    BY <1>1
  <2> HIDE DEF n
  <2> QED  BY <2>1, FS_Interval
<1>4. IsFiniteSet(A) /\ Cardinality(A) = ReadSteps
  <2>1. IsFiniteSet(A) /\ Cardinality(A) = Cardinality(1 .. n) * Cardinality(1 .. n + 1)
    <3> HIDE DEF n
    <3> QED  BY <1>2, <1>3, FS_Product
  <2> QED  BY <1>2, <1>3, <2>1 DEF ReadSteps
<1>5. f \in Surjection(A, B)
  <2>1. \A p \in A : p[1] \in 1 .. n /\ p[2] \in 1 .. n + 1
    OBVIOUS
  <2>2. f \in [A -> B]
    BY <2>1, ModulesOrdered
  <2>3. ASSUME NEW w \in B PROVE \E p \in A : f[p] = w
    <3>1. w[1] \in ModuleNames /\ w[2] \in 1 .. n + 1 /\ w = <<w[1], w[2]>>
      OBVIOUS
    <3>2. PICK j \in 1 .. n : ModuleOrder[j] = w[1]
      BY <3>1, ModulesOrdered
    <3>3. <<j, w[2]>> \in A
      BY <3>1
    <3>4. f[<<j, w[2]>>] = <<ModuleOrder[j], w[2]>>
      BY <3>3
    <3> QED  BY <3>1, <3>2, <3>3, <3>4
  <2> HIDE DEF f, A, B
  <2> QED  BY <2>2, <2>3 DEF Surjection
<1> HIDE DEF f, A
<1>6. IsFiniteSet(B) /\ Cardinality(B) <= ReadSteps
  <2> HIDE DEF B
  <2> QED  BY <1>4, <1>5, FS_Surjection
<1>7. Pending(q) \in SUBSET B
  BY DEF Pending
<1> HIDE DEF B
<1>8. IsFiniteSet(Pending(q)) /\ Cardinality(Pending(q)) <= Cardinality(B)
  BY <1>6, <1>7, FS_Subset
<1>9. Cardinality(Pending(q)) \in Nat /\ Cardinality(B) \in Nat
  BY <1>6, <1>8, FS_CardinalityType
<1> QED  BY <1>6, <1>8, <1>9, StepsAreNumber

(* There are enough steps: each does something that was pending.           *)
LEMMA ReadingEnds ==
  ASSUME Shapes, NEW st, NEW m \in ModuleNames, NEW forms, IsSession(st),
         NEW q, Moments(q, st, m, forms)
  PROVE  q[ReadSteps].calls = <<>>
<1> DEFINE N == ReadSteps
           T == {k \in 0 .. N : q[k].calls = <<>> \/ Cardinality(Pending(q[k])) <= N - k}
<1>0. N \in Nat
  BY StepsAreNumber
<1>1. 0 \in T
  <2>1. 0 \in 0 .. N /\ N - 0 = N
    BY <1>0
  <2> QED  BY <2>1, PendingIsFinite
<1>2. ASSUME NEW k \in 1 .. N, k - 1 \in T PROVE k \in T
  <2>1. q[k] = ReadStep(q[k - 1]) /\ Stepped(q[k - 1], q[k])
    BY MomentsStep
  <2>2. k \in 0 .. N
    BY <1>0
  <2>3. CASE q[k - 1].calls = <<>>
    <3>1. q[k] = q[k - 1]
      BY <2>1, <2>3 DEF ReadStep
    <3> QED  BY <2>2, <2>3, <3>1
  <2>4. CASE q[k - 1].calls # <<>>
    <3> DEFINE a == Pending(q[k - 1])
               b == Pending(q[k])
    <3>1. Cardinality(a) <= N - (k - 1)
      BY <1>2, <2>4
    <3>2. PICK w \in a : w \notin b /\ b \subseteq a
      BY <2>1, <2>4 DEF Stepped
    <3>3. IsFiniteSet(a) /\ Cardinality(a) \in Nat /\ Cardinality(b) \in Nat
      BY PendingIsFinite
    <3> HIDE DEF a, b
    <3>4. IsFiniteSet(a \ {w}) /\ Cardinality(a \ {w}) = Cardinality(a) - 1
      BY <3>2, <3>3, FS_RemoveElement
    <3>5. b \in SUBSET (a \ {w})
      BY <3>2
    <3>6. Cardinality(b) <= Cardinality(a \ {w})
      BY <3>4, <3>5, FS_Subset
    <3>7. Cardinality(b) <= N - k
      BY <1>0, <2>2, <3>1, <3>3, <3>4, <3>6
    <3> QED  BY <2>2, <3>7 DEF b
  <2> QED  BY <2>3, <2>4
<1>3. N \in T
  <2> HIDE DEF T
  <2>1. \A k \in 0 .. N : k \in T
    <3> HIDE DEF N
    <3> QED  BY <1>0, <1>1, <1>2, UpTo
  <2> QED  BY <1>0, <2>1
<1>4. SUFFICES ASSUME q[N].calls # <<>> PROVE FALSE
  OBVIOUS
<1>5. N - N = 0 /\ N \in 0 .. N
  BY <1>0
<1>6. Cardinality(Pending(q[N])) <= 0
  BY <1>3, <1>4, <1>5
<1>7. Pending(q[N]) = {}
  <2>1. IsFiniteSet(Pending(q[N])) /\ Cardinality(Pending(q[N])) \in Nat
    BY PendingIsFinite
  <2>2. Cardinality(Pending(q[N])) = 0
    BY <1>6, <2>1
  <2> QED  BY <2>1, <2>2, FS_EmptySet
<1>8. Stepped(q[N], ReadStep(q[N]))
  BY <1>5, MomentsGo, StepGoes
<1> QED  BY <1>4, <1>7, <1>8 DEF Stepped

(* When nothing is called, nothing more happens.                           *)
LEMMA ReadingRests ==
  ASSUME Shapes, NEW st, NEW m \in ModuleNames, NEW forms, IsSession(st),
         NEW q, Moments(q, st, m, forms), q[0].calls = <<>>
  PROVE  \A k \in 0 .. ReadSteps : q[k] = q[0]
<1> DEFINE T == {k \in 0 .. ReadSteps : q[k] = q[0]}
<1>1. 0 \in T
  BY StepsAreNumber
<1>2. ASSUME NEW k \in 1 .. ReadSteps, k - 1 \in T PROVE k \in T
  <2>1. q[k] = ReadStep(q[k - 1]) /\ k \in 0 .. ReadSteps
    BY StepsAreNumber, MomentsStep
  <2> QED  BY <1>2, <2>1 DEF ReadStep
<1> HIDE DEF T
<1>3. \A k \in 0 .. ReadSteps : k \in T
  BY <1>1, <1>2, StepsAreNumber, UpTo
<1> QED  BY <1>3 DEF T

(* What is recorded stays as it is.                                        *)
LEMMA ReadingRecords ==
  ASSUME Shapes, NEW st, NEW m \in ModuleNames, NEW forms, IsSession(st),
         NEW q, Moments(q, st, m, forms)
  PROVE  \A k \in 0 .. ReadSteps : \A d \in DOMAIN q[0].st.included :
           d \in DOMAIN q[k].st.included /\ q[k].st.included[d] = q[0].st.included[d]
<1> DEFINE Kept(k) == \A d \in DOMAIN q[0].st.included :
             d \in DOMAIN q[k].st.included /\ q[k].st.included[d] = q[0].st.included[d]
           T == {k \in 0 .. ReadSteps : Kept(k)}
<1>1. 0 \in T
  BY StepsAreNumber
<1>2. ASSUME NEW k \in 1 .. ReadSteps, k - 1 \in T PROVE k \in T
  <2>1. Stepped(q[k - 1], q[k]) /\ k \in 0 .. ReadSteps
    BY StepsAreNumber, MomentsStep
  <2>2. \A d \in DOMAIN q[k - 1].st.included :
          d \in DOMAIN q[k].st.included /\ q[k].st.included[d] = q[k - 1].st.included[d]
    BY <2>1 DEF Stepped
  <2> QED  BY <1>2, <2>1, <2>2
<1> HIDE DEF T
<1>3. \A k \in 0 .. ReadSteps : k \in T
  BY <1>1, <1>2, StepsAreNumber, UpTo
<1> QED  BY <1>3 DEF T

(* What an import leaves.                                                  *)
Reads(st, r, m, forms) ==
  /\ r.ok \in BOOLEAN /\ IsSession(r.st) /\ Grown(st, r.st) /\ Arrivals(disk, r.st, st)
  /\ IF r.ok THEN r.st.errors = st.errors ELSE st.errors < r.st.errors
  /\ r.ok /\ (\A d \in DOMAIN st.included : Done(disk, st, d)) =>
       \A d \in DOMAIN r.st.included : Done(disk, r.st, d)
  /\ r.ok => m \in DOMAIN r.st.included
  /\ m \in DOMAIN r.st.included \ DOMAIN st.included => r.st.included[m] = forms
  /\ m \in DOMAIN st.included => r.st = st

LEMMA ReadGoes ==
  ASSUME Shapes, NEW st, NEW m \in ModuleNames, NEW forms, IsSession(st)
  PROVE  Reads(st, Read(st, m, forms), m, forms)
<1> DEFINE r == Read(st, m, forms)
           a == [ok |-> TRUE, st |-> st, calls |-> <<>>]
<1>1. PICK q : Moments(q, st, m, forms) /\ r = q[ReadSteps]
  BY ReadIs
<1> HIDE DEF r
<1>2. 0 \in 0 .. ReadSteps /\ ReadSteps \in 0 .. ReadSteps
  BY StepsAreNumber
<1>3. Moment(r, st, forms, {}) /\ Moment(q[0], st, forms, {})
  BY <1>1, <1>2, MomentsGo
<1>4. Called(a, q[0], m, forms) /\ a.st = st /\ a.calls = <<>>
  <2>1. Called(a, First(st, m, forms), m, forms)
    BY FirstGoes
  <2> HIDE DEF a
  <2>2. Called(a, q[0], m, forms)
    BY <1>1, <2>1 DEF Moments
  <2> QED  BY <2>2 DEF a
<1> HIDE DEF a
<1>5. r.calls = <<>>
  BY <1>1, ReadingEnds
<1>6. r.ok \in BOOLEAN /\ IsSession(r.st) /\ Grown(st, r.st) /\ Arrivals(disk, r.st, st)
      /\ Outcome(r, st) /\ Progress(r, st, {})
  BY <1>3 DEF Moment, IsMoment
<1>7. \A d : ~Looked(r, d, {})
  <2>1. \A k \in 1 .. Len(<<>>) : FALSE
    OBVIOUS
  <2> QED  BY <1>5, <2>1 DEF Looked
<1>8. r.ok /\ (\A d \in DOMAIN st.included : Done(disk, st, d)) =>
        \A d \in DOMAIN r.st.included : Done(disk, r.st, d)
  BY <1>6, <1>7 DEF Progress
<1>9. \A d \in DOMAIN q[0].st.included :
        d \in DOMAIN r.st.included /\ r.st.included[d] = q[0].st.included[d]
  BY <1>1, <1>2, ReadingRecords
<1>10. CASE q[0].calls = <<>>
  <2>1. r = q[0]
    BY <1>1, <1>2, <1>10, ReadingRests
  <2>2. r.ok => m \in DOMAIN r.st.included
    BY <1>4, <2>1 DEF Called
  <2>3. m \in DOMAIN r.st.included \ DOMAIN st.included => r.st.included[m] = forms
    BY <1>4, <2>1 DEF Called
  <2>4. m \in DOMAIN st.included => r.st = st
    BY <1>4, <2>1 DEF Called
  <2> QED  BY <1>6, <1>8, <2>2, <2>3, <2>4 DEF Reads, Outcome, r
<1>11. CASE q[0].calls # <<>>
  <2>1. q[0].ok
    BY <1>3, <1>11 DEF Moment, Outcome
  <2>2. m \in DOMAIN q[0].st.included
    BY <1>4, <2>1 DEF Called
  <2>3. m \notin DOMAIN st.included
    BY <1>4, <1>11 DEF Called
  <2>4. q[0].st.included[m] = forms
    BY <1>4, <2>2, <2>3 DEF Called
  <2> QED  BY <1>6, <1>8, <1>9, <2>2, <2>3, <2>4 DEF Reads, Outcome, r
<1> QED  BY <1>10, <1>11

(* Reading keeps to modules and forms that are closed under dependencies,  *)
(* and does not fail if these are all there.                               *)
Closed(X, F) ==
  /\ X \subseteq ModuleNames
  /\ \A m \in X : \A d \in DOMAIN disk[m].file.deps :
       d \in X /\ disk[m].file.deps[d] \in F[d]
Within(st, X, F) ==
  \A m \in DOMAIN st.included : m \in X /\ st.included[m] \in F[m]
Available(X, F) ==
  \A m \in X : disk[m].file # NoFile /\ \A f \in F[m] : AllFound(disk, m, f)

LEMMA ReadStaysWithin ==
  ASSUME Shapes, NEW st, NEW X, NEW F, NEW m \in X, NEW forms \in F[m], IsSession(st),
         Closed(X, F), Within(st, X, F)
  PROVE  LET r == Read(st, m, forms)
         IN  Within(r.st, X, F) /\ (Available(X, F) => r.ok)
<1> DEFINE r == Read(st, m, forms)
           a == [ok |-> TRUE, st |-> st, calls |-> <<>>]
<1>0. m \in ModuleNames
  BY DEF Closed
<1>1. PICK q : Moments(q, st, m, forms) /\ r = q[ReadSteps]
  BY ReadIs
<1> HIDE DEF r
<1> DEFINE Good(k) == Within(q[k].st, X, F) /\ (Available(X, F) => q[k].ok)
           T == {k \in 0 .. ReadSteps : Good(k)}
<1>2. 0 \in T
  <2>1. Called(a, q[0], m, forms) /\ a.st = st
    <3>1. Called(a, First(st, m, forms), m, forms)
      BY <1>0, FirstGoes
    <3> HIDE DEF a
    <3>2. Called(a, q[0], m, forms)
      BY <1>1, <3>1 DEF Moments
    <3> QED  BY <3>2 DEF a
  <2> HIDE DEF a
  <2>2. Within(q[0].st, X, F)
    BY <2>1 DEF Called, Within
  <2>3. Available(X, F) => q[0].ok
    BY <2>1 DEF Called, Available
  <2>4. 0 \in 0 .. ReadSteps
    BY StepsAreNumber
  <2> QED  BY <2>2, <2>3, <2>4
<1>3. ASSUME NEW k \in 1 .. ReadSteps, k - 1 \in T PROVE k \in T
  <2> DEFINE b == q[k - 1]
             c == q[k]
  <2>1. Stepped(b, c) /\ k \in 0 .. ReadSteps
    <3>1. Moments(q, st, m, forms)
      BY <1>1
    <3>2. k \in 0 .. ReadSteps
      BY StepsAreNumber
    <3> QED  BY <1>0, <3>1, <3>2, MomentsStep
  <2>2. Within(b.st, X, F) /\ (Available(X, F) => b.ok)
    BY <1>3
  <2> HIDE DEF b, c
  <2>3. ASSUME NEW d \in DOMAIN c.st.included
        PROVE  d \in X /\ c.st.included[d] \in F[d]
    <3>1. CASE d \in DOMAIN b.st.included
      BY <2>1, <2>2, <3>1 DEF Stepped, Within
    <3>2. CASE d \notin DOMAIN b.st.included
      <4>1. PICK n \in DOMAIN b.st.included :
              /\ d \in DOMAIN disk[n].file.deps
              /\ c.st.included[d] = disk[n].file.deps[d]
        BY <2>1, <2>3, <3>2 DEF Stepped
      <4> QED  BY <2>2, <4>1 DEF Within, Closed
    <3> QED  BY <3>1, <3>2
  <2>4. ASSUME Available(X, F) PROVE c.ok
    <3>1. b.ok
      BY <2>2, <2>4
    <3>2. \A n \in DOMAIN b.st.included : \A d \in DOMAIN disk[n].file.deps :
            disk[d].file # NoFile
      BY <2>2, <2>4 DEF Within, Closed, Available
    <3>3. \A n \in DOMAIN b.st.included : AllFound(disk, n, b.st.included[n])
      BY <2>2, <2>4 DEF Within, Available
    <3> QED  BY <2>1, <3>1, <3>2, <3>3 DEF Stepped
  <2>5. Within(c.st, X, F)
    BY <2>3 DEF Within
  <2> QED  BY <2>1, <2>4, <2>5 DEF c
<1>4. \A k \in 0 .. ReadSteps : k \in T
  <2> HIDE DEF T
  <2> QED  BY <1>2, <1>3, StepsAreNumber, UpTo
<1>5. ReadSteps \in 0 .. ReadSteps
  BY StepsAreNumber
<1> QED  BY <1>1, <1>4, <1>5 DEF r
-----------------------------------------------------------------------------
(***************************************************************************)
(* Definitions.                                                            *)
(***************************************************************************)
(* What definitions leave as it was.                                       *)
Untouched(a, b) ==
  /\ b.phase = a.phase /\ b.name = a.name /\ b.cto = a.cto /\ b.opts = a.opts
  /\ b.included = a.included /\ b.once = a.once /\ b.so = a.so /\ b.linked = a.linked
  /\ b.forms = a.forms /\ b.imports = a.imports /\ b.includes = a.includes

(* A definition is an error, or it is there and nothing replaces it.       *)
LEMMA DefineGoes ==
  ASSUME NEW st, IsSession(st), NEW d, d.kind \in Kinds
  PROVE  LET r == DefineIn(st, d)
         IN  /\ IsSession(r) /\ Grown(st, r) /\ Untouched(st, r)
             /\ \A c \in r.ctx.bindings : c \in st.ctx.bindings \/ c.own
             /\ r.errors = st.errors => DeclaredIn(r, d)
<1> DEFINE b == [ns |-> d.ns, name |-> d.name, kind |-> d.kind,
                 linkage |-> d.linkage, own |-> TRUE, home |-> Here]
           nss == st.ctx.nss \cup ({d.ns} \ {""})
           open == [st EXCEPT !.ctx.nss = @ \cup ({d.ns} \ {""})]
           bad == \/ RedefinesCallable(st, b)
                  \/ RedefinesVariable(st, b) \/ RedefinesStruct(st, b)
           r == DefineIn(st, d)
<1>1. /\ IsBinding(b) /\ b.own /\ b.ns = d.ns /\ Key(b) = Key(d)
      /\ b.linkage = d.linkage /\ b.kind = d.kind
  BY DEF IsBinding, Has, Key
<1>2. /\ DOMAIN open = DOMAIN st /\ Untouched(st, open) /\ open.errors = st.errors
      /\ open.bodies = st.bodies /\ Has(open.ctx, {"nss", "bindings"})
      /\ open.ctx.bindings = st.ctx.bindings /\ open.ctx.nss = nss
      /\ open.aborted = st.aborted
  BY DEF IsSession, IsContext, Has, Untouched
<1>3. r = IF bad THEN [open EXCEPT !.errors = @ + 1]
          ELSE [open EXCEPT
                  !.ctx.bindings = (@ \ There(st, b)) \cup {b},
                  !.bodies = IF b.kind = "struct" THEN @ ELSE @ \cup {Key(b)}]
  BY DEF DefineIn
<1> HIDE DEF b, open, r
<1>4. /\ IsContext(st.ctx) /\ st.errors \in Nat /\ Has(open, DOMAIN st)
      /\ Has(open, {"phase", "name", "cto", "opts", "ctx", "included", "once", "so",
                    "linked", "bodies", "errors", "aborted", "forms", "imports", "includes"})
      /\ DOMAIN st.included \subseteq ModuleNames
  BY <1>2 DEF IsSession, Has
<1>5. CASE bad
  <2>1. /\ DOMAIN r = DOMAIN open /\ r.errors = st.errors + 1 /\ r.ctx = open.ctx
        /\ r.bodies = st.bodies /\ Untouched(open, r)
    BY <1>2, <1>3, <1>4, <1>5 DEF Has, Untouched
  <2>2. IsContext(r.ctx)
    BY <1>2, <1>4, <2>1 DEF IsContext
  <2>3. Untouched(st, r)
    BY <1>2, <2>1 DEF Untouched
  <2>4. IsSession(r)
    BY <1>4, <2>1, <2>2, <2>3 DEF IsSession, Has, Untouched
  <2>5. \A c \in st.ctx.bindings : Fixed(st, c) => Fixed(r, c)
    BY <1>2, <2>1 DEF Fixed
  <2>6. Grown(st, r)
    <3>1. st.errors <= r.errors
      <4>1. \A n \in Nat : n <= n + 1
        OBVIOUS
      <4> QED  BY <1>4, <2>1, <4>1
    <3> QED  BY <1>2, <2>1, <2>3, <2>5, <3>1 DEF Grown, Untouched
  <2>7. r.errors # st.errors
    BY <1>4, <2>1
  <2> QED  BY <1>2, <2>1, <2>3, <2>4, <2>6, <2>7 DEF r
<1>6. CASE ~bad
  <2> DEFINE bindings == (st.ctx.bindings \ There(st, b)) \cup {b}
  <2>1. /\ DOMAIN r = DOMAIN open /\ r.errors = st.errors /\ Untouched(open, r)
        /\ r.ctx.bindings = bindings /\ r.ctx.nss = nss /\ Has(r.ctx, {"nss", "bindings"})
        /\ r.bodies = IF b.kind = "struct" THEN st.bodies ELSE st.bodies \cup {Key(b)}
    BY <1>2, <1>3, <1>4, <1>6 DEF Has, Untouched
  <2>2. \A c \in bindings : c = b \/ (c \in st.ctx.bindings /\ Key(c) # Key(b))
    BY DEF There
  <2>3. IsContext(r.ctx)
    <3>1. \A c \in bindings : IsBinding(c) /\ c.ns \in nss \cup {""}
      BY <1>1, <1>4 DEF IsContext
    <3>2. \A c, e \in bindings : Key(c) = Key(e) => c = e
      BY <1>4, <2>2 DEF IsContext
    <3> QED  BY <2>1, <3>1, <3>2 DEF IsContext
  <2>4. Untouched(st, r)
    BY <1>2, <2>1 DEF Untouched
  <2>5. IsSession(r)
    BY <1>4, <2>1, <2>3, <2>4 DEF IsSession, Has, Untouched
  <2>6. Keys(st.ctx.bindings) \subseteq Keys(bindings)
    <3>1. \A c \in st.ctx.bindings : c \in bindings \/ Key(c) = Key(b)
      BY DEF There
    <3>2. b \in bindings
      OBVIOUS
    <3> HIDE DEF bindings
    <3> QED  BY <3>1, <3>2 DEF Keys
  <2>7. st.bodies \subseteq r.bodies
    BY <2>1
  <2>8. ASSUME NEW c \in st.ctx.bindings, Fixed(st, c) PROVE Fixed(r, c)
    <3>1. CASE Key(c) # Key(b)
      <4>1. c \in bindings
        BY <3>1 DEF There
      <4> QED  BY <2>1, <2>7, <2>8, <4>1 DEF Fixed
    <3>2. CASE Key(c) = Key(b)
      <4>1. c.kind = b.kind /\ c \in There(st, b)
        BY <3>2, KeysEqual DEF There
      <4>2. b.kind \notin Callables
        BY <1>6, <2>8, <3>2, <4>1 DEF Fixed, RedefinesCallable
      <4>3. b.kind \notin {"var", "struct"}
        BY <1>6, <4>1 DEF RedefinesVariable, RedefinesStruct
      <4> QED  BY <1>1, <4>2, <4>3 DEF Kinds, Callables
    <3> QED  BY <3>1, <3>2
  <2>9. Grown(st, r)
    <3>1. st.errors <= r.errors
      <4>1. \A n \in Nat : n <= n
        OBVIOUS
      <4> QED  BY <1>4, <2>1, <4>1
    <3> HIDE DEF bindings
    <3> QED  BY <2>1, <2>4, <2>6, <2>7, <2>8, <3>1 DEF Grown, Untouched
  <2>10. DeclaredIn(r, d)
    <3>1. b.kind \in Callables => Key(b) \in r.bodies
      BY <2>1 DEF Callables
    <3> QED  BY <1>1, <2>1, <3>1 DEF DeclaredIn, Fixed
  <2>11. \A c \in r.ctx.bindings : c \in st.ctx.bindings \/ c.own
    BY <1>1, <2>1
  <2> QED  BY <2>4, <2>5, <2>9, <2>10, <2>11 DEF r
<1> QED  BY <1>5, <1>6 DEF r

(* The definitions of a file, one after another.                           *)
Defined(q, st, defs) ==
  /\ q[0] = st
  /\ \A k \in 1 .. Len(defs) : q[k] = DefineIn(q[k - 1], defs[k])

(* DefineAll is the last of them.                                          *)
LEMMA DefineAllIs ==
  ASSUME NEW st, NEW defs, Len(defs) \in Nat
  PROVE  \E q : Defined(q, st, defs) /\ DefineAll(st, defs) = q[Len(defs)]
<1> DEFINE N == Len(defs)
           Is(f, k) ==
             f = [j \in 0 .. k |-> IF j = 0 THEN st ELSE DefineIn(f[j - 1], defs[j])]
           T == {k \in 0 .. N : \E f : Is(f, k)}
<1>0. N \in Nat
  OBVIOUS
<1>1. 0 \in T
  <2> DEFINE f == [j \in 0 .. 0 |-> st]
  <2>1. Is(f, 0)
    OBVIOUS
  <2> HIDE DEF f
  <2>2. 0 \in 0 .. N
    BY <1>0
  <2> QED  BY <2>1, <2>2
<1>2. ASSUME NEW k \in 1 .. N, k - 1 \in T PROVE k \in T
  <2>1. PICK f : Is(f, k - 1)
    BY <1>2
  <2> DEFINE g == [j \in 0 .. k |-> IF j < k THEN f[j] ELSE DefineIn(f[k - 1], defs[k])]
  <2>2. ASSUME NEW j \in 0 .. k
        PROVE  g[j] = IF j = 0 THEN st ELSE DefineIn(g[j - 1], defs[j])
    <3>1. CASE j = 0
      <4>1. 0 \in 0 .. k - 1 /\ 0 < k
        OBVIOUS
      <4> QED  BY <2>1, <3>1, <4>1
    <3>2. CASE j # 0 /\ j < k
      <4>1. j \in 0 .. k - 1 /\ j - 1 \in 0 .. k /\ j - 1 < k
        BY <3>2
      <4> QED  BY <2>1, <3>2, <4>1
    <3>3. CASE j = k
      <4>1. k - 1 \in 0 .. k /\ k - 1 < k /\ k # 0
        OBVIOUS
      <4> QED  BY <3>3, <4>1
    <3> QED  BY <3>1, <3>2, <3>3
  <2>3. g = [j \in 0 .. k |-> g[j]]
    OBVIOUS
  <2> HIDE DEF g
  <2>4. Is(g, k)
    BY <2>2, <2>3
  <2>5. k \in 0 .. N
    BY <1>0
  <2> QED  BY <2>4, <2>5
<1>3. N \in T
  <2> HIDE DEF T
  <2>1. N \in 0 .. N
    BY <1>0
  <2> HIDE DEF N
  <2> QED  BY <1>0, <1>1, <1>2, <2>1, UpTo
<1> DEFINE q == CHOOSE f : Is(f, N)
<1>4. Is(q, N)
  BY <1>3
<1>5. DefineAll(st, defs) = q[N]
  BY DEF DefineAll
<1> HIDE DEF q
<1>6. Defined(q, st, defs)
  <2>1. 0 \in 0 .. N
    BY <1>0
  <2>2. q[0] = st
    BY <1>4, <2>1
  <2>3. ASSUME NEW k \in 1 .. N PROVE q[k] = DefineIn(q[k - 1], defs[k])
    <3>1. k \in 0 .. N /\ k # 0
      BY <1>0
    <3> QED  BY <1>4, <3>1
  <2> QED  BY <2>2, <2>3 DEF Defined
<1> QED  BY <1>5, <1>6

(* What is declared stays so.                                              *)
LEMMA GrownDeclared ==
  ASSUME NEW a, NEW b, NEW d, Grown(a, b), DeclaredIn(a, d)
  PROVE  DeclaredIn(b, d)
<1>1. PICK c \in a.ctx.bindings : Fixed(a, c) /\ Key(c) = Key(d) /\ c.linkage = d.linkage
  BY DEF DeclaredIn
<1>2. Fixed(b, c) /\ c \in b.ctx.bindings
  BY <1>1 DEF Grown, Fixed
<1> QED  BY <1>1, <1>2 DEF DeclaredIn

(* Without an error, all are there.                                        *)
LEMMA DefineAllGoes ==
  ASSUME NEW st, IsSession(st), NEW defs, defs \in Seq(ToSet(defs)),
         \A d \in ToSet(defs) : d.kind \in Kinds
  PROVE  LET r == DefineAll(st, defs)
         IN  /\ IsSession(r) /\ Grown(st, r) /\ Untouched(st, r)
             /\ \A c \in r.ctx.bindings : c \in st.ctx.bindings \/ c.own
             /\ r.errors = st.errors => \A d \in ToSet(defs) : DeclaredIn(r, d)
<1> DEFINE N == Len(defs)
           r == DefineAll(st, defs)
<1>0. N \in Nat /\ \A k \in 1 .. N : defs[k] \in ToSet(defs)
  BY LenProperties, ElementOfSeq
<1>1. PICK q : Defined(q, st, defs) /\ r = q[N]
  BY <1>0, DefineAllIs
<1> HIDE DEF r
<1> DEFINE Good(k) ==
             /\ IsSession(q[k]) /\ Grown(st, q[k]) /\ Untouched(st, q[k])
             /\ \A c \in q[k].ctx.bindings : c \in st.ctx.bindings \/ c.own
             /\ q[k].errors = st.errors => \A j \in 1 .. k : DeclaredIn(q[k], defs[j])
           T == {k \in 0 .. N : Good(k)}
<1>2. 0 \in T
  <2>1. q[0] = st
    BY <1>1 DEF Defined
  <2>2. Grown(st, st) /\ Untouched(st, st)
    BY GrownStays DEF Untouched
  <2>3. 0 \in 0 .. N /\ \A j \in 1 .. 0 : FALSE
    BY <1>0
  <2> QED  BY <2>1, <2>2, <2>3
<1>3. ASSUME NEW k \in 1 .. N, k - 1 \in T PROVE k \in T
  <2> DEFINE a == q[k - 1]
             b == q[k]
             d == defs[k]
  <2>1. b = DefineIn(a, d) /\ d.kind \in Kinds /\ k \in 0 .. N
    BY <1>0, <1>1 DEF Defined
  <2>2. /\ IsSession(a) /\ Grown(st, a) /\ Untouched(st, a)
        /\ \A c \in a.ctx.bindings : c \in st.ctx.bindings \/ c.own
        /\ a.errors = st.errors => \A j \in 1 .. k - 1 : DeclaredIn(a, defs[j])
    BY <1>3
  <2> HIDE DEF a, b, d
  <2>3. /\ IsSession(b) /\ Grown(a, b) /\ Untouched(a, b)
        /\ \A c \in b.ctx.bindings : c \in a.ctx.bindings \/ c.own
        /\ b.errors = a.errors => DeclaredIn(b, d)
    BY <2>1, <2>2, DefineGoes
  <2>4. Grown(st, b) /\ Untouched(st, b)
    BY <2>2, <2>3, GrownFurther DEF Untouched
  <2>5. \A c \in b.ctx.bindings : c \in st.ctx.bindings \/ c.own
    BY <2>2, <2>3
  <2>6. ASSUME b.errors = st.errors, NEW j \in 1 .. k PROVE DeclaredIn(b, defs[j])
    <3>1. a.errors = st.errors /\ b.errors = a.errors
      <4>1. st.errors <= a.errors /\ a.errors <= b.errors
        BY <2>2, <2>3 DEF Grown
      <4>2. a.errors \in Nat /\ st.errors \in Nat
        BY <2>2 DEF IsSession
      <4>3. \A x, y \in Nat : x <= y /\ y <= x => x = y
        OBVIOUS
      <4> QED  BY <2>6, <4>1, <4>2, <4>3
    <3>2. CASE j = k
      BY <2>3, <3>1, <3>2 DEF d
    <3>3. CASE j # k
      <4>1. j \in 1 .. k - 1
        BY <3>3
      <4>2. DeclaredIn(a, defs[j])
        BY <2>2, <3>1, <4>1
      <4> QED  BY <2>3, <4>2, GrownDeclared
    <3> QED  BY <3>2, <3>3
  <2> QED  BY <2>1, <2>3, <2>4, <2>5, <2>6 DEF b
<1>4. N \in 0 .. N /\ \A k \in 0 .. N : k \in T
  <2> HIDE DEF T
  <2>1. N \in 0 .. N
    BY <1>0
  <2> HIDE DEF N
  <2> QED  BY <1>0, <1>2, <1>3, <2>1, UpTo
<1>5. /\ IsSession(r) /\ Grown(st, r) /\ Untouched(st, r)
      /\ \A c \in r.ctx.bindings : c \in st.ctx.bindings \/ c.own
      /\ r.errors = st.errors => \A j \in 1 .. N : DeclaredIn(r, defs[j])
  <2>1. Good(N)
    BY <1>4
  <2> QED  BY <1>1, <2>1
<1>6. \A d \in ToSet(defs) : \E j \in 1 .. N : d = defs[j]
  <2>1. DOMAIN defs = 1 .. N
    BY LenProperties
  <2> QED  BY <2>1 DEF ToSet
<1> QED  BY <1>5, <1>6 DEF r
-----------------------------------------------------------------------------
(***************************************************************************)
(* Sessions go on.                                                         *)
(***************************************************************************)
(* What only grows, whatever is counted or noted beside it.                *)
Onward(a, b) ==
  /\ b.errors = 0 => a.errors = 0
  /\ \A m \in DOMAIN a.included :
       m \in DOMAIN b.included /\ b.included[m] = a.included[m]
  /\ a.once \subseteq b.once /\ a.so \subseteq b.so /\ a.linked \subseteq b.linked
  /\ Keys(a.ctx.bindings) \subseteq Keys(b.ctx.bindings)
  /\ \A c \in a.ctx.bindings : Fixed(a, c) => Fixed(b, c)

(* All but that is equal.                                                  *)
Alike(a, b) ==
  /\ b.included = a.included /\ b.ctx = a.ctx /\ b.once = a.once
  /\ b.so = a.so /\ b.linked = a.linked /\ b.bodies = a.bodies

(* A handler notes something beside what grew.                             *)
LEMMA OnwardAfter ==
  ASSUME NEW a, NEW r, NEW b, IsSession(a), IsSession(r), Grown(a, r), Alike(r, b),
         b.errors = 0 => r.errors = 0
  PROVE  Onward(a, b)
<1>1. a.errors \in Nat /\ r.errors \in Nat /\ a.errors <= r.errors
  BY DEF IsSession, Grown
<1>2. r.errors = 0 => a.errors = 0
  BY <1>1
<1>3. \A c \in a.ctx.bindings : Fixed(a, c) => Fixed(b, c)
  BY DEF Grown, Alike, Fixed
<1> QED  BY <1>2, <1>3 DEF Grown, Alike, Onward

(* What was read stays read.                                               *)
LEMMA OnwardDone ==
  ASSUME NEW a, NEW b, NEW m, Onward(a, b), m \in DOMAIN a.included, Done(disk, a, m)
  PROVE  Done(disk, b, m)
<1>1. m \in DOMAIN b.included /\ b.included[m] = a.included[m]
  BY DEF Onward
<1>2. DOMAIN a.included \subseteq DOMAIN b.included
  BY DEF Onward
<1>3. a.once \subseteq b.once /\ Keys(a.ctx.bindings) \subseteq Keys(b.ctx.bindings)
  BY DEF Onward
<1> QED  BY <1>1, <1>2, <1>3 DEF Done

(* What came from a module still does.                                     *)
LEMMA OnwardArrived ==
  ASSUME NEW a, NEW b, NEW c, Onward(a, b), Arrived(disk, a, c)
  PROVE  Arrived(disk, b, c)
<1>1. c.home \in DOMAIN b.included /\ b.included[c.home] = a.included[c.home]
  BY DEF Onward, Arrived
<1>2. a.so \subseteq b.so /\ a.linked \subseteq b.linked
  BY DEF Onward
<1> QED  BY <1>1, <1>2 DEF Arrived

(* A form that is not an import.                                           *)
LEMMA SessionOnward ==
  ASSUME NEW a, NEW b, SessionKept(disk, a), Onward(a, b), b.included = a.included,
         \A c \in b.ctx.bindings : c \in a.ctx.bindings \/ c.own,
         b.imports = a.imports, b.includes \subseteq DOMAIN Headers, "" \notin b.once
  PROVE  SessionKept(disk, b)
<1>1. b.errors = 0 => a.errors = 0
  BY DEF Onward
<1>2. AllDone(disk, b)
  BY <1>1, OnwardDone DEF SessionKept, AllDone
<1>3. \A c \in b.ctx.bindings : c.own \/ Arrived(disk, b, c)
  BY OnwardArrived DEF SessionKept
<1> QED  BY <1>1, <1>2, <1>3 DEF SessionKept

(* Any form but an include.                                                *)
LEMMA TaggedOnward ==
  ASSUME NEW a, NEW b, Tagged(disk, a), Onward(a, b), b.includes = a.includes,
         \A t \in b.once : t \in a.once \/ \E m \in DOMAIN b.included : t \in disk[m].file.once
  PROVE  Tagged(disk, b)
<1> SUFFICES ASSUME b.errors = 0 PROVE Tagged(disk, b)
  BY DEF Tagged
<1>1. \A h \in DOMAIN Headers \cup a.includes : Declares(a, h) => Declares(b, h)
  <2>1. \A d : DeclaredIn(a, d) => DeclaredIn(b, d)
    BY DEF DeclaredIn, Onward, Fixed
  <2> QED  BY <2>1 DEF Declares
<1>2. a.errors = 0 /\ a.once \subseteq b.once /\ DOMAIN a.included \subseteq DOMAIN b.included
  BY DEF Onward
<1>3. \A h \in b.includes : Declares(b, h) \/ Headers[h].tag \in b.once
  BY <1>1, <1>2 DEF Tagged
<1>4. ASSUME NEW h \in DOMAIN Headers, Headers[h].tag \in b.once
      PROVE  Declares(b, h) \/ \E m \in DOMAIN b.included : Headers[h].tag \in disk[m].file.once
  <2>1. CASE Headers[h].tag \in a.once
    BY <1>1, <1>2, <2>1 DEF Tagged
  <2>2. CASE Headers[h].tag \notin a.once
    BY <1>4, <2>2
  <2> QED  BY <2>1, <2>2
<1> QED  BY <1>3, <1>4 DEF Tagged

(* The invariant, when only the session has gone on.                       *)
LEMMA SessionStep ==
  ASSUME ModulesInv, s.phase = "parsing", s'.phase = "parsing",
         UNCHANGED <<disk, run>>, IsSession(s'), s'.name \notin DOMAIN s'.included,
         s'.name \in ModuleNames \cup {Program}, SessionKept(disk, s')
  PROVE  ModulesInv'
<1>1. Shapes'
  BY DEF ModulesInv, Shapes
<1>2. Writing'
  BY DEF ModulesInv, Writing, LibrariesFirst
<1>3. Sessions'
  BY DEF Sessions
<1>4. Files'
  BY DEF ModulesInv, Files
<1> QED  BY <1>1, <1>2, <1>3, <1>4 DEF ModulesInv

(* Likewise for the tags.                                                  *)
LEMMA TagsStep ==
  ASSUME TagsInv, UNCHANGED disk, OneTag => Tagged(disk, s')
  PROVE  TagsInv'
BY DEF TagsInv
-----------------------------------------------------------------------------
(***************************************************************************)
(* The actions.                                                            *)
(***************************************************************************)
(* What the assumption gives.                                              *)
LEMMA DefinedKinds ==
  /\ \A d \in Definitions : d.kind \in Kinds
  /\ \A h \in DOMAIN Headers : \A d \in ToSet(Headers[h].defs) : d.kind \in Kinds
BY KindAssumption DEF Kinds

(* What the invariant says while forms are parsed.                         *)
LEMMA Running ==
  ASSUME ModulesInv, s.phase = "parsing"
  PROVE  /\ Shapes /\ IsSession(s) /\ s.errors \in Nat /\ SessionKept(disk, s)
         /\ s.name \notin DOMAIN s.included /\ s.name \in ModuleNames \cup {Program}
BY DEF ModulesInv, Shapes, Sessions, IsSession

(* A session that begins.                                                  *)
LEMMA FreshIsSession ==
  ASSUME NEW opts
  PROVE  LET t == Fresh(opts)
         IN  /\ IsSession(t) /\ t.phase = "parsing" /\ t.name = Program
             /\ DOMAIN t.included = {} /\ t.ctx.bindings = {} /\ t.imports = {}
             /\ t.includes = {} /\ t.once = {} /\ t.errors = 0
<1> DEFINE t == Fresh(opts)
           ctx == [nss |-> {}, bindings |-> {}]
<1>1. IsContext(ctx) /\ ctx.bindings = {}
  BY DEF IsContext, Has
<1> HIDE DEF ctx
<1>2. DOMAIN <<>> = {}
  OBVIOUS
<1>3. /\ t.phase = "parsing" /\ t.name = Program /\ t.included = <<>>
      /\ t.ctx = ctx /\ t.imports = {} /\ t.includes = {} /\ t.once = {}
      /\ t.errors = 0 /\ t.errors \in Nat
  BY DEF Fresh, ctx
<1>4. Has(t, {"phase", "name", "cto", "opts", "ctx", "included", "once", "so",
              "linked", "bodies", "errors", "aborted", "forms", "imports", "includes"})
  BY DEF Fresh, Has
<1> HIDE DEF t
<1>5. IsSession(t)
  BY <1>1, <1>2, <1>3, <1>4 DEF IsSession
<1> QED  BY <1>1, <1>2, <1>3, <1>5 DEF t

(* A compiler is started.                                                  *)
LEMMA StartKeeps ==
  ASSUME ModulesInv, TagsInv, Start
  PROVE  ModulesInv' /\ TagsInv'
<1>1. PICK opts \in Options : s' = Fresh(opts)
  BY DEF Start
<1> DEFINE t == Fresh(opts)
<1>2. /\ IsSession(t) /\ t.phase = "parsing" /\ t.name = Program
      /\ DOMAIN t.included = {} /\ t.ctx.bindings = {} /\ t.imports = {}
      /\ t.includes = {} /\ t.once = {} /\ t.errors = 0
  BY FreshIsSession
<1> HIDE DEF t
<1>3. s' = t /\ s.phase = "idle" /\ disk' = disk /\ run' = run + 1
  BY <1>1 DEF Start, t
<1>5. Shapes'
  BY <1>2, <1>3 DEF ModulesInv, Shapes
<1>6. Writing'
  <2>1. LibrariesFirst'
    BY <1>3 DEF ModulesInv, Writing, LibrariesFirst
  <2>2. ASSUME NEW m \in ModuleNames
        PROVE  disk[m].lib <= run + 1 /\ disk[m].file.run < run + 1
    <3>1. disk[m].lib \in Nat /\ disk[m].nm \in Nat /\ disk[m].file.run \in Nat /\ run \in Nat
      BY DEF ModulesInv, Shapes
    <3>2. disk[m].file.run <= disk[m].nm /\ disk[m].nm <= disk[m].lib /\ disk[m].lib <= run
      BY DEF ModulesInv, Writing, LibrariesFirst
    <3> QED  BY <3>1, <3>2
  <2> QED  BY <1>2, <1>3, <2>1, <2>2 DEF Writing
<1>7. SessionKept(disk, t)
  BY <1>2 DEF SessionKept, AllDone
<1>8. Sessions' /\ Files'
  BY <1>3, <1>7 DEF ModulesInv, Sessions, Files
<1>9. Tagged(disk, t)
  BY <1>2 DEF Tagged
<1>10. TagsInv'
  BY <1>3, <1>9, TagsStep
<1> QED  BY <1>5, <1>6, <1>8, <1>10 DEF ModulesInv

(* A module form.                                                          *)
LEMMA ModuleFormKeeps ==
  ASSUME ModulesInv, TagsInv, NEW m \in ModuleNames, NEW cto \in BOOLEAN, ModuleForm(m, cto)
  PROVE  ModulesInv' /\ TagsInv' /\ s'.imports = s.imports
<1>1. /\ s.phase = "parsing" /\ m \notin DOMAIN s.included /\ UNCHANGED <<disk, run>>
      /\ s' = IF s.name # Program THEN [s EXCEPT !.errors = @ + 1, !.forms = @ + 1]
              ELSE [s EXCEPT !.name = m, !.cto = cto, !.forms = @ + 1]
  BY DEF ModuleForm, Parsing
<1>2. /\ Shapes /\ IsSession(s) /\ s.errors \in Nat /\ SessionKept(disk, s)
      /\ s.name \notin DOMAIN s.included /\ s.name \in ModuleNames \cup {Program}
  BY <1>1, Running
<1>3. /\ DOMAIN s' = DOMAIN s /\ Alike(s, s') /\ s'.phase = "parsing" /\ s'.opts = s.opts
      /\ s'.imports = s.imports /\ s'.includes = s.includes
      /\ s'.name \in {s.name, m} /\ s'.errors \in {s.errors, s.errors + 1}
  <2>1. CASE s.name # Program
    <3>1. s' = [s EXCEPT !.errors = @ + 1, !.forms = @ + 1]
      BY <1>1, <2>1
    <3> QED  BY <1>1, <1>2, <3>1 DEF IsSession, Has, Alike
  <2>2. CASE s.name = Program
    <3>1. s' = [s EXCEPT !.name = m, !.cto = cto, !.forms = @ + 1]
      BY <1>1, <2>2
    <3> QED  BY <1>1, <1>2, <3>1 DEF IsSession, Has, Alike
  <2> QED  BY <2>1, <2>2
<1>4. s'.errors \in Nat /\ (s'.errors = 0 => s.errors = 0)
  BY <1>2, <1>3
<1>5. IsSession(s')
  BY <1>2, <1>3, <1>4 DEF IsSession, Has, Alike
<1>6. Onward(s, s')
  <2>1. Grown(s, s)
    BY <1>2, GrownStays
  <2> QED  BY <1>2, <1>3, <1>4, <2>1, OnwardAfter
<1>7. SessionKept(disk, s')
  <2>1. s'.included = s.included /\ s'.ctx = s.ctx /\ s'.once = s.once
    BY <1>3 DEF Alike
  <2>2. s'.includes \subseteq DOMAIN Headers /\ "" \notin s'.once
    BY <1>2, <1>3, <2>1 DEF SessionKept
  <2> QED  BY <1>2, <1>3, <1>6, <2>1, <2>2, SessionOnward
<1>8. Tagged(disk, s) => Tagged(disk, s')
  <2>1. s'.once = s.once
    BY <1>3 DEF Alike
  <2> QED  BY <1>3, <1>6, <2>1, TaggedOnward
<1>9. s'.name \notin DOMAIN s'.included /\ s'.name \in ModuleNames \cup {Program}
  BY <1>1, <1>2, <1>3 DEF Alike
<1>10. ModulesInv'
  BY <1>1, <1>3, <1>5, <1>7, <1>9, SessionStep
<1>11. OneTag => Tagged(disk, s')
  BY <1>1, <1>8 DEF TagsInv
<1> QED  BY <1>1, <1>3, <1>10, <1>11, TagsStep

(* An import, with all that it reads.                                      *)
LEMMA ImportFormKeeps ==
  ASSUME ModulesInv, TagsInv, NEW m \in ModuleNames, NEW forms \in Asks[m],
         ImportForm(m, forms)
  PROVE  ModulesInv' /\ TagsInv'
<1> DEFINE read == Read(s, m, forms)
           r == read.st
<1>1. /\ s.phase = "parsing" /\ UNCHANGED <<disk, run>> /\ s.name \notin DOMAIN r.included
      /\ s' = [r EXCEPT
                 !.forms = @ + 1,
                 !.errors = IF read.ok THEN @ ELSE @ + 1,
                 !.imports = IF read.ok THEN @ \cup {<<m, forms>>} ELSE @]
  BY DEF ImportForm, Parsing
<1>2. /\ Shapes /\ IsSession(s) /\ s.errors \in Nat /\ SessionKept(disk, s)
      /\ s.name \notin DOMAIN s.included /\ s.name \in ModuleNames \cup {Program}
  BY <1>1, Running
<1>3. Reads(s, read, m, forms)
  BY <1>2, ReadGoes
<1>4. Within(r, ModuleNames, Asks)
  <2>1. Closed(ModuleNames, Asks)
    BY <1>2 DEF Closed, Shapes, ModulesInv, Files
  <2>2. Within(s, ModuleNames, Asks)
    BY <1>2 DEF Within, SessionKept, IsSession
  <2> QED  BY <1>2, <2>1, <2>2, ReadStaysWithin
<1> HIDE DEF read
<1>5. /\ read.ok \in BOOLEAN /\ IsSession(r) /\ Grown(s, r) /\ Arrivals(disk, r, s)
      /\ r.errors \in Nat /\ s.errors <= r.errors
  BY <1>3 DEF Reads, IsSession, Grown
<1>6. /\ DOMAIN s' = DOMAIN r /\ Alike(r, s') /\ s'.phase = r.phase /\ s'.name = r.name
      /\ s'.includes = r.includes
      /\ s'.errors = IF read.ok THEN r.errors ELSE r.errors + 1
      /\ s'.imports = IF read.ok THEN r.imports \cup {<<m, forms>>} ELSE r.imports
  <2> HIDE DEF r
  <2> QED  BY <1>1, <1>5 DEF IsSession, Has, Alike
<1>7. s'.phase = "parsing" /\ s'.name = s.name /\ s'.includes = s.includes
      /\ r.imports = s.imports
  BY <1>1, <1>5, <1>6 DEF Grown
<1>8. s'.errors \in Nat /\ (s'.errors = 0 => read.ok /\ r.errors = 0 /\ s.errors = 0)
  BY <1>2, <1>5, <1>6
<1>9. IsSession(s')
  <2> HIDE DEF r
  <2> QED  BY <1>5, <1>6, <1>8 DEF IsSession, Has, Alike
<1>10. Onward(s, s')
  BY <1>2, <1>5, <1>6, <1>8, OnwardAfter
<1>11. SessionKept(disk, s')
  <2>1. r.included = s'.included /\ r.ctx = s'.ctx /\ r.once = s'.once
        /\ r.so = s'.so /\ r.linked = s'.linked
    BY <1>6 DEF Alike
  <2>2. AllDone(disk, s')
    <3> SUFFICES ASSUME s'.errors = 0, NEW d \in DOMAIN s'.included PROVE Done(disk, s', d)
      BY DEF AllDone
    <3>1. \A e \in DOMAIN s.included : Done(disk, s, e)
      BY <1>2, <1>8 DEF SessionKept, AllDone
    <3>2. Done(disk, r, d)
      BY <1>3, <1>8, <2>1, <3>1 DEF Reads
    <3> QED  BY <2>1, <3>2 DEF Done
  <2>3. ASSUME NEW b \in s'.ctx.bindings PROVE b.own \/ Arrived(disk, s', b)
    <3>1. CASE b \in s.ctx.bindings
      BY <1>2, <1>10, <3>1, OnwardArrived DEF SessionKept
    <3>2. CASE b \notin s.ctx.bindings
      <4>1. Arrived(disk, r, b)
        BY <1>5, <2>1, <3>2 DEF Arrivals
      <4> QED  BY <2>1, <4>1 DEF Arrived
    <3> QED  BY <3>1, <3>2
  <2>4. \A d \in DOMAIN s'.included : s'.included[d] \in Asks[d]
    BY <1>4, <2>1 DEF Within
  <2>5. ASSUME s'.errors = 0, NEW i \in s'.imports
        PROVE  i[1] \in DOMAIN s'.included /\ i[2] \in Asks[i[1]]
    <3>1. read.ok /\ s.errors = 0
      BY <1>8, <2>5
    <3>2. CASE i \in s.imports
      BY <1>2, <1>10, <3>1, <3>2 DEF SessionKept, Onward
    <3>3. CASE i = <<m, forms>>
      <4>1. m \in DOMAIN s'.included
        BY <1>3, <2>1, <3>1 DEF Reads
      <4> QED  BY <3>3, <4>1
    <3> QED  BY <1>6, <1>7, <2>5, <3>1, <3>2, <3>3
  <2>6. s'.includes \subseteq DOMAIN Headers
    BY <1>2, <1>7 DEF SessionKept
  <2>7. "" \notin s'.once
    <3>1. "" \notin s.once /\ \A d \in ModuleNames : "" \notin disk[d].file.once
      BY <1>2 DEF SessionKept, ModulesInv, Files
    <3>2. DOMAIN r.included \subseteq ModuleNames
      BY <1>5 DEF IsSession
    <3> QED  BY <1>5, <2>1, <3>1, <3>2 DEF Arrivals
  <2> QED  BY <2>2, <2>3, <2>4, <2>5, <2>6, <2>7 DEF SessionKept
<1>12. Tagged(disk, s) => Tagged(disk, s')
  <2>1. r.included = s'.included /\ r.once = s'.once
    BY <1>6 DEF Alike
  <2>2. \A t \in s'.once :
          t \in s.once \/ \E d \in DOMAIN s'.included : t \in disk[d].file.once
    BY <1>5, <2>1 DEF Arrivals
  <2> QED  BY <1>7, <1>10, <2>2, TaggedOnward
<1>13. s'.name \notin DOMAIN s'.included /\ s'.name \in ModuleNames \cup {Program}
  BY <1>1, <1>2, <1>6, <1>7 DEF Alike
<1>14. ModulesInv'
  BY <1>1, <1>7, <1>9, <1>11, <1>13, SessionStep
<1>15. OneTag => Tagged(disk, s')
  BY <1>1, <1>12 DEF TagsInv
<1> QED  BY <1>1, <1>14, <1>15, TagsStep

(* A form that defines something, with the session r after that.           *)
LEMMA DefinedStep ==
  ASSUME ModulesInv, s.phase = "parsing", UNCHANGED <<disk, run>>,
         NEW r, IsSession(r), Grown(s, r), r.included = s.included,
         \A c \in r.ctx.bindings : c \in s.ctx.bindings \/ c.own, "" \notin r.once,
         Alike(r, s'), DOMAIN s' = DOMAIN r, s'.phase = r.phase, s'.name = r.name,
         s'.errors = r.errors, s'.imports = r.imports, s'.includes \subseteq DOMAIN Headers
  PROVE  ModulesInv' /\ Onward(s, s') /\ s'.imports = s.imports
<1>1. /\ Shapes /\ IsSession(s) /\ s.errors \in Nat /\ SessionKept(disk, s)
      /\ s.name \notin DOMAIN s.included /\ s.name \in ModuleNames \cup {Program}
  BY Running
<1>2. r.phase = s.phase /\ r.name = s.name /\ r.imports = s.imports
  BY DEF Grown
<1>3. Onward(s, s')
  BY <1>1, OnwardAfter
<1>4. IsSession(s')
  BY DEF IsSession, Has, Alike
<1>5. s'.included = s.included /\ s'.ctx = r.ctx /\ s'.once = r.once
  BY DEF Alike
<1>6. SessionKept(disk, s')
  BY <1>1, <1>2, <1>3, <1>5, SessionOnward
<1>7. ModulesInv'
  BY <1>1, <1>2, <1>4, <1>5, <1>6, SessionStep
<1> QED  BY <1>2, <1>3, <1>7

(* A definition.                                                           *)
LEMMA DefineKeeps ==
  ASSUME ModulesInv, TagsInv, NEW d \in Definitions, Define(d)
  PROVE  ModulesInv' /\ TagsInv' /\ s'.imports = s.imports
<1> DEFINE r == DefineIn(s, d)
<1>1. /\ s.phase = "parsing" /\ UNCHANGED <<disk, run>> /\ s' = [r EXCEPT !.forms = @ + 1]
  BY DEF Define, Parsing
<1>2. IsSession(s) /\ SessionKept(disk, s)
  BY <1>1, Running
<1>3. /\ IsSession(r) /\ Grown(s, r) /\ Untouched(s, r)
      /\ \A c \in r.ctx.bindings : c \in s.ctx.bindings \/ c.own
  BY <1>2, DefinedKinds, DefineGoes
<1> HIDE DEF r
<1>4. /\ DOMAIN s' = DOMAIN r /\ Alike(r, s') /\ s'.phase = r.phase /\ s'.name = r.name
      /\ s'.errors = r.errors /\ s'.imports = r.imports /\ s'.includes = r.includes
  BY <1>1, <1>3 DEF IsSession, Has, Alike
<1>5. /\ r.included = s.included /\ r.once = s.once /\ r.includes = s.includes
      /\ s.includes \subseteq DOMAIN Headers /\ "" \notin s.once
  BY <1>2, <1>3 DEF Untouched, SessionKept
<1>6. ModulesInv' /\ Onward(s, s') /\ s'.imports = s.imports
  BY <1>1, <1>3, <1>4, <1>5, DefinedStep
<1>7. Tagged(disk, s) => Tagged(disk, s')
  <2>1. s'.once = s.once /\ s'.includes = s.includes
    BY <1>4, <1>5 DEF Alike
  <2> QED  BY <1>6, <2>1, TaggedOnward
<1>8. OneTag => Tagged(disk, s')
  BY <1>1, <1>7 DEF TagsInv
<1> QED  BY <1>1, <1>6, <1>8, TagsStep

(* The tag of a file that is included is accounted for by the file.        *)
LEMMA TaggedIncludes ==
  ASSUME NEW a, NEW b, NEW h \in DOMAIN Headers, OneTag, Tagged(disk, a), Onward(a, b),
         b.included = a.included, b.includes = a.includes \cup {h}, "" \notin a.once,
         b.once = a.once \cup ({Headers[h].tag} \ {""}),
         b.errors = 0 => Declares(b, h) \/ Headers[h].tag \in a.once
  PROVE  Tagged(disk, b)
<1> SUFFICES ASSUME b.errors = 0 PROVE Tagged(disk, b)
  BY DEF Tagged
<1>1. \A g \in DOMAIN Headers \cup a.includes : Declares(a, g) => Declares(b, g)
  <2>1. \A d : DeclaredIn(a, d) => DeclaredIn(b, d)
    BY DEF DeclaredIn, Onward, Fixed
  <2> QED  BY <2>1 DEF Declares
<1>2. a.errors = 0 /\ a.once \subseteq b.once
  BY DEF Onward
<1>3. \A g \in b.includes : Declares(b, g) \/ Headers[g].tag \in b.once
  BY <1>1, <1>2 DEF Tagged
<1>4. ASSUME NEW g \in DOMAIN Headers, Headers[g].tag \in b.once
      PROVE  Declares(b, g) \/ \E m \in DOMAIN b.included : Headers[g].tag \in disk[m].file.once
  <2>1. CASE Headers[g].tag \in a.once
    BY <1>1, <1>2, <2>1 DEF Tagged
  <2>2. CASE Headers[g].tag \notin a.once
    <3>1. Headers[g].tag = Headers[h].tag /\ Headers[g].tag # ""
      BY <1>4, <2>2
    <3>2. g = h
      BY <3>1 DEF OneTag
    <3> QED  BY <2>2, <3>2
  <2> QED  BY <2>1, <2>2
<1> QED  BY <1>3, <1>4 DEF Tagged

(* An include, of a file that is known or of one that is not.              *)
LEMMA IncludeKeeps ==
  ASSUME ModulesInv, TagsInv, NEW h \in DOMAIN Headers, Include(h)
  PROVE  ModulesInv' /\ TagsInv' /\ s'.imports = s.imports
<1> DEFINE tag == Headers[h].tag
           defs == Headers[h].defs
           tagged == IF tag = "" THEN s ELSE [s EXCEPT !.once = @ \cup {tag}]
           r == IF tag \in s.once THEN s ELSE DefineAll(tagged, defs)
<1>1. /\ s.phase = "parsing" /\ UNCHANGED <<disk, run>>
      /\ s' = [r EXCEPT !.forms = @ + 1, !.includes = @ \cup {h}]
  BY DEF Include, Parsing
<1>2. IsSession(s) /\ SessionKept(disk, s)
  BY <1>1, Running
<1>3. /\ IsSession(tagged) /\ Grown(s, tagged) /\ tagged.ctx = s.ctx
      /\ tagged.included = s.included /\ tagged.imports = s.imports
      /\ tagged.includes = s.includes /\ tagged.errors = s.errors
      /\ tagged.once = s.once \cup ({tag} \ {""})
  <2>1. CASE tag = ""
    BY <1>2, <2>1, GrownStays
  <2>2. CASE tag # ""
    <3>1. tagged = [s EXCEPT !.once = @ \cup {tag}]
      BY <2>2
    <3> HIDE DEF tagged
    <3>2. /\ DOMAIN tagged = DOMAIN s /\ tagged.once = s.once \cup {tag}
          /\ tagged.included = s.included /\ tagged.ctx = s.ctx /\ tagged.so = s.so
          /\ tagged.linked = s.linked /\ tagged.bodies = s.bodies
          /\ tagged.errors = s.errors /\ tagged.phase = s.phase /\ tagged.name = s.name
          /\ tagged.cto = s.cto /\ tagged.opts = s.opts /\ tagged.forms = s.forms
          /\ tagged.imports = s.imports /\ tagged.includes = s.includes
      BY <1>2, <3>1 DEF IsSession, Has
    <3>3. IsSession(tagged)
      BY <1>2, <3>2 DEF IsSession, Has
    <3>4. Grown(s, s)
      BY <1>2, GrownStays
    <3>5. Grown(s, tagged)
      BY <3>2, <3>4 DEF Grown, Fixed
    <3> QED  BY <2>2, <3>2, <3>3, <3>5
  <2> QED  BY <2>1, <2>2
<1> HIDE DEF tagged
<1>4. /\ IsSession(r) /\ Grown(s, r) /\ r.included = s.included
      /\ r.imports = s.imports /\ r.includes = s.includes
      /\ \A c \in r.ctx.bindings : c \in s.ctx.bindings \/ c.own
      /\ r.once = s.once \cup ({tag} \ {""})
      /\ r.errors = s.errors => Declares(r, h) \/ tag \in s.once
  <2>1. CASE tag \in s.once
    <3>1. r = s /\ "" \notin s.once
      BY <1>2, <2>1 DEF SessionKept
    <3> QED  BY <1>2, <2>1, <3>1, GrownStays
  <2>2. CASE tag \notin s.once
    <3>1. r = DefineAll(tagged, defs)
      BY <2>2
    <3>2. defs \in Seq(ToSet(defs)) /\ \A d \in ToSet(defs) : d.kind \in Kinds
      BY HeaderAssumption, DefinedKinds
    <3> HIDE DEF defs, r
    <3>3. /\ IsSession(r) /\ Grown(tagged, r) /\ Untouched(tagged, r)
          /\ \A c \in r.ctx.bindings : c \in tagged.ctx.bindings \/ c.own
          /\ r.errors = tagged.errors => \A d \in ToSet(defs) : DeclaredIn(r, d)
      BY <1>3, <3>1, <3>2, DefineAllGoes
    <3>4. Grown(s, r)
      BY <1>2, <1>3, <3>3, GrownFurther
    <3> QED  BY <1>3, <3>3, <3>4 DEF Untouched, Declares, defs
  <2> QED  BY <2>1, <2>2
<1> HIDE DEF r, tag
<1>5. /\ DOMAIN s' = DOMAIN r /\ Alike(r, s') /\ s'.phase = r.phase /\ s'.name = r.name
      /\ s'.errors = r.errors /\ s'.imports = r.imports
      /\ s'.includes = r.includes \cup {h}
  BY <1>1, <1>4 DEF IsSession, Has, Alike
<1>6. s'.includes \subseteq DOMAIN Headers /\ "" \notin r.once
  BY <1>2, <1>4, <1>5 DEF SessionKept
<1>7. ModulesInv' /\ Onward(s, s') /\ s'.imports = s.imports
  BY <1>1, <1>4, <1>5, <1>6, DefinedStep
<1>8. OneTag /\ Tagged(disk, s) => Tagged(disk, s')
  <2>1. /\ s'.included = s.included /\ s'.includes = s.includes \cup {h}
        /\ s'.once = s.once \cup ({tag} \ {""}) /\ "" \notin s.once
    BY <1>2, <1>4, <1>5 DEF Alike, SessionKept
  <2>2. s'.errors = 0 => r.errors = s.errors
    BY <1>5, <1>7 DEF Onward
  <2>3. Declares(r, h) => Declares(s', h)
    <3>1. \A d : DeclaredIn(r, d) => DeclaredIn(s', d)
      BY <1>5 DEF DeclaredIn, Fixed, Alike
    <3> QED  BY <3>1 DEF Declares
  <2>4. s'.errors = 0 => Declares(s', h) \/ tag \in s.once
    BY <1>4, <2>2, <2>3
  <2> QED  BY <1>7, <2>1, <2>4, TaggedIncludes DEF tag
<1>9. OneTag => Tagged(disk, s')
  BY <1>1, <1>8 DEF TagsInv
<1> QED  BY <1>1, <1>7, <1>9, TagsStep

(* The session ends, or its module is going to be written.                 *)
LEMMA EndOfFileKeeps ==
  ASSUME ModulesInv, TagsInv, EndOfFile
  PROVE  ModulesInv' /\ TagsInv'
<1>1. s.phase = "parsing" /\ UNCHANGED <<disk, run>>
  BY DEF EndOfFile
<1>2. /\ Shapes /\ IsSession(s) /\ s.errors \in Nat /\ SessionKept(disk, s)
      /\ s.name \notin DOMAIN s.included /\ s.name \in ModuleNames \cup {Program}
  BY <1>1, Running
<1>3. Files'
  BY <1>1 DEF ModulesInv, Files
<1>4. CASE s.aborted \/ s.errors > 0 \/ s.name = Program
  <2>1. s'.phase = "idle"
    BY <1>4 DEF EndOfFile, Idle
  <2>2. Shapes' /\ Writing' /\ Sessions'
    BY <1>1, <2>1 DEF ModulesInv, Shapes, Writing, LibrariesFirst, Sessions
  <2> QED  BY <1>1, <1>3, <2>1, <2>2 DEF ModulesInv, TagsInv
<1>5. CASE ~(s.aborted \/ s.errors > 0 \/ s.name = Program)
  <2>1. s' = [s EXCEPT !.phase = "libraries"]
    BY <1>5 DEF EndOfFile
  <2>2. s.errors = 0 /\ s.name \in ModuleNames
    BY <1>2, <1>5
  <2>3. /\ DOMAIN s' = DOMAIN s /\ Alike(s, s') /\ s'.phase = "libraries"
        /\ s'.name = s.name /\ s'.errors = s.errors /\ s'.imports = s.imports
        /\ s'.includes = s.includes
    BY <1>2, <2>1 DEF IsSession, Has, Alike
  <2>4. IsSession(s')
    BY <1>2, <2>3 DEF IsSession, Has, Alike
  <2>5. Onward(s, s')
    BY <1>2, <2>3, GrownStays, OnwardAfter
  <2>6. SessionKept(disk, s')
    <3>1. /\ s'.included = s.included /\ s'.ctx = s.ctx /\ s'.once = s.once
          /\ s.includes \subseteq DOMAIN Headers /\ "" \notin s.once
      BY <1>2, <2>3 DEF Alike, SessionKept
    <3> QED  BY <1>2, <2>3, <2>5, <3>1, SessionOnward
  <2>7. Tagged(disk, s) => Tagged(disk, s')
    <3>1. s'.once = s.once
      BY <2>3 DEF Alike
    <3> QED  BY <2>3, <2>5, <3>1, TaggedOnward
  <2>8. Shapes'
    BY <1>1, <1>2, <2>2, <2>3, <2>4 DEF Shapes, Alike
  <2>9. Writing'
    BY <1>1, <2>3 DEF ModulesInv, Writing, LibrariesFirst
  <2>10. Sessions'
    BY <1>1, <2>6 DEF Sessions
  <2>11. TagsInv'
    BY <1>1, <2>7, TagsStep DEF TagsInv
  <2> QED  BY <1>3, <2>8, <2>9, <2>10, <2>11 DEF ModulesInv
<1> QED  BY <1>4, <1>5

(* The session is over and nothing more is written.                        *)
LEMMA StopKeeps ==
  ASSUME ModulesInv, TagsInv, s' = Idle, UNCHANGED <<disk, run>>
  PROVE  ModulesInv' /\ TagsInv'
<1>1. s'.phase = "idle"
  BY DEF Idle
<1>2. Shapes' /\ Writing' /\ Sessions'
  BY <1>1 DEF ModulesInv, Shapes, Writing, LibrariesFirst, Sessions
<1>3. Files'
  BY DEF ModulesInv, Files
<1> QED  BY <1>1, <1>2, <1>3 DEF ModulesInv, TagsInv

(* What is said of sessions and files is about the .dtm files.             *)
LEMMA FilesOnly ==
  ASSUME Shapes, NEW files, \A m \in ModuleNames : files[m].file = disk[m].file
  PROVE  /\ \A st : IsSession(st) /\ SessionKept(disk, st) => SessionKept(files, st)
         /\ \A st : IsSession(st) /\ Tagged(disk, st) => Tagged(files, st)
         /\ \A m \in ModuleNames : FileKept(disk, m) => FileKept(files, m)
         /\ \A m \in ModuleNames : TagKept(disk, m) => TagKept(files, m)
         /\ \A m \in ModuleNames : Fits(files, m) => Fits(disk, m)
<1>1. \A m \in ModuleNames : DOMAIN disk[m].file.deps \subseteq ModuleNames
  BY DEF Shapes
<1>2. \A m \in ModuleNames : \A forms : AllFound(disk, m, forms) => AllFound(files, m, forms)
  BY DEF AllFound
<1>3. \A st : \A m \in ModuleNames : Done(disk, st, m) => Done(files, st, m)
  BY <1>2 DEF Done
<1>4. ASSUME NEW st, IsSession(st), SessionKept(disk, st) PROVE SessionKept(files, st)
  <2>1. DOMAIN st.included \subseteq ModuleNames
    BY <1>4 DEF IsSession
  <2>2. AllDone(files, st)
    BY <1>3, <1>4, <2>1 DEF SessionKept, AllDone
  <2>3. \A b : Arrived(disk, st, b) => Arrived(files, st, b)
    BY <2>1 DEF Arrived
  <2> QED  BY <1>4, <2>2, <2>3 DEF SessionKept
<1>5. ASSUME NEW st, IsSession(st), Tagged(disk, st) PROVE Tagged(files, st)
  <2>1. DOMAIN st.included \subseteq ModuleNames
    BY <1>5 DEF IsSession
  <2> QED  BY <1>5, <2>1 DEF Tagged
<1>6. \A m \in ModuleNames : Gives(disk, m) = Gives(files, m)
  BY <1>1 DEF Gives
<1>7. \A m \in ModuleNames : FileKept(disk, m) => FileKept(files, m)
  BY <1>1, <1>2, <1>6 DEF FileKept
<1>8. \A m \in ModuleNames : TagKept(disk, m) => TagKept(files, m)
  BY <1>1, <1>6 DEF TagKept
<1>9. \A m \in ModuleNames : Fits(files, m) => Fits(disk, m)
  BY <1>1 DEF Fits
<1> QED  BY <1>4, <1>5, <1>7, <1>8, <1>9

(* The two libraries are written.                                          *)
LEMMA LibraryStep ==
  ASSUME ModulesInv, TagsInv, s.phase \in {"libraries", "nomacros"},
         NEW phase \in {"nomacros", "context"}, s' = [s EXCEPT !.phase = phase], run' = run,
         DOMAIN disk' = ModuleNames, \A m \in ModuleNames : disk'[m].file = disk[m].file,
         \A m \in ModuleNames : /\ Has(disk'[m], {"lib", "nm", "file"})
                                /\ disk'[m].lib \in Nat /\ disk'[m].nm \in Nat
  PROVE  /\ Shapes' /\ Sessions' /\ Files' /\ TagsInv'
         /\ s'.phase = phase /\ s'.name = s.name
<1>1. /\ Shapes /\ IsSession(s) /\ s.errors = 0 /\ s.name \in ModuleNames
      /\ s.name \notin DOMAIN s.included /\ SessionKept(disk, s) /\ Files
  BY DEF ModulesInv, Shapes, Sessions
<1>2. /\ DOMAIN s' = DOMAIN s /\ Alike(s, s') /\ s'.phase = phase /\ s'.name = s.name
      /\ s'.errors = s.errors /\ s'.imports = s.imports /\ s'.includes = s.includes
  BY <1>1 DEF IsSession, Has, Alike
<1>3. IsSession(s')
  BY <1>1, <1>2 DEF IsSession, Has, Alike
<1>4. Onward(s, s')
  BY <1>1, <1>2, GrownStays, OnwardAfter
<1>5. /\ s'.included = s.included /\ s'.ctx = s.ctx /\ s'.once = s.once
      /\ s.includes \subseteq DOMAIN Headers /\ "" \notin s.once
  BY <1>1, <1>2 DEF Alike, SessionKept
<1>6. SessionKept(disk, s')
  BY <1>1, <1>2, <1>4, <1>5, SessionOnward
<1>7. Tagged(disk, s) => Tagged(disk, s')
  BY <1>2, <1>4, <1>5, TaggedOnward
<1>8. /\ SessionKept(disk', s') /\ (Tagged(disk, s) => Tagged(disk', s'))
      /\ \A m \in ModuleNames : FileKept(disk, m) => FileKept(disk', m)
      /\ \A m \in ModuleNames : TagKept(disk, m) => TagKept(disk', m)
      /\ \A m \in ModuleNames : Fits(disk', m) => Fits(disk, m)
  BY <1>1, <1>3, <1>6, <1>7, FilesOnly
<1>9. Shapes'
  <2>1. \A m \in ModuleNames : disk[m].file.run \in Nat
    BY <1>1 DEF Shapes
  <2> QED  BY <1>1, <1>2, <1>3, <1>5, <2>1 DEF Shapes
<1>10. Sessions'
  BY <1>8 DEF Sessions
<1>11. Files'
  BY <1>1, <1>8 DEF Files
<1>12. TagsInv'
  BY <1>8 DEF TagsInv
<1> QED  BY <1>2, <1>9, <1>10, <1>11, <1>12

(* Each of them, with the order they are written in.                       *)
LEMMA LibrariesKeep ==
  ASSUME ModulesInv, TagsInv, WriteLibraries \/ WriteNoMacros
  PROVE  ModulesInv' /\ TagsInv'
<1> DEFINE m == s.name
<1>1. s.phase \in {"libraries", "nomacros"} /\ run' = run
  BY DEF WriteLibraries, WriteNoMacros
<1>2. /\ Shapes /\ m \in ModuleNames /\ run \in Nat /\ DOMAIN disk = ModuleNames
      /\ \A d \in ModuleNames :
           /\ Has(disk[d], {"lib", "nm", "file"})
           /\ disk[d].lib \in Nat /\ disk[d].nm \in Nat /\ disk[d].file.run \in Nat
  BY <1>1 DEF ModulesInv, Shapes
<1>3. \A d \in ModuleNames :
        /\ disk[d].file.run <= disk[d].nm /\ disk[d].nm <= disk[d].lib
        /\ disk[d].lib <= run /\ disk[d].file.run < run
  BY <1>1 DEF ModulesInv, Writing, LibrariesFirst
<1>4. CASE WriteLibraries
  <2>1. disk' = [disk EXCEPT ![m].lib = run] /\ s' = [s EXCEPT !.phase = "nomacros"]
    BY <1>4 DEF WriteLibraries
  <2>2. /\ DOMAIN disk' = ModuleNames /\ disk'[m].lib = run
        /\ \A d \in ModuleNames :
             /\ Has(disk'[d], {"lib", "nm", "file"}) /\ disk'[d].file = disk[d].file
             /\ disk'[d].nm = disk[d].nm /\ (d # m => disk'[d].lib = disk[d].lib)
    BY <1>2, <2>1 DEF Has
  <2>3. /\ Shapes' /\ Sessions' /\ Files' /\ TagsInv'
        /\ s'.phase = "nomacros" /\ s'.name = m
    <3>1. \A d \in ModuleNames : disk'[d].lib \in Nat /\ disk'[d].nm \in Nat
      BY <1>2, <2>2
    <3> QED  BY <1>1, <2>1, <2>2, <3>1, LibraryStep
  <2>4. \A d \in ModuleNames :
          /\ disk'[d].file.run <= disk'[d].nm /\ disk'[d].nm <= disk'[d].lib
          /\ disk'[d].lib <= run /\ disk'[d].file.run < run
    BY <1>2, <1>3, <2>2
  <2>5. Writing'
    <3>1. LibrariesFirst'
      BY <2>4 DEF LibrariesFirst
    <3>2. s'.phase \in {"nomacros", "context"} => disk'[s'.name].lib = run'
      BY <1>1, <2>2, <2>3
    <3>3. ~(s'.phase = "context")
      BY <2>3
    <3>4. \A d \in ModuleNames :
            /\ disk'[d].lib <= run'
            /\ s'.phase # "idle" => disk'[d].file.run < run'
      BY <1>1, <2>4
    <3> QED  BY <3>1, <3>2, <3>3, <3>4 DEF Writing
  <2> QED  BY <2>3, <2>5 DEF ModulesInv
<1>5. CASE WriteNoMacros
  <2>1. disk' = [disk EXCEPT ![m].nm = run] /\ s' = [s EXCEPT !.phase = "context"]
    BY <1>5 DEF WriteNoMacros
  <2>2. /\ DOMAIN disk' = ModuleNames /\ disk'[m].nm = run
        /\ \A d \in ModuleNames :
             /\ Has(disk'[d], {"lib", "nm", "file"}) /\ disk'[d].file = disk[d].file
             /\ disk'[d].lib = disk[d].lib /\ (d # m => disk'[d].nm = disk[d].nm)
    BY <1>2, <2>1 DEF Has
  <2>3. /\ Shapes' /\ Sessions' /\ Files' /\ TagsInv'
        /\ s'.phase = "context" /\ s'.name = m
    <3>1. \A d \in ModuleNames : disk'[d].lib \in Nat /\ disk'[d].nm \in Nat
      BY <1>2, <2>2
    <3> QED  BY <1>1, <2>1, <2>2, <3>1, LibraryStep
  <2>4. disk[m].lib = run
    BY <1>5 DEF ModulesInv, Writing, WriteNoMacros
  <2>5. \A d \in ModuleNames :
          /\ disk'[d].file.run <= disk'[d].nm /\ disk'[d].nm <= disk'[d].lib
          /\ disk'[d].lib <= run /\ disk'[d].file.run < run
    BY <1>2, <1>3, <2>2, <2>4
  <2>6. Writing'
    <3>1. LibrariesFirst'
      BY <2>5 DEF LibrariesFirst
    <3>2. disk'[s'.name].lib = run' /\ disk'[s'.name].nm = run'
      BY <1>1, <1>2, <2>2, <2>3, <2>4
    <3>3. \A d \in ModuleNames :
            /\ disk'[d].lib <= run'
            /\ s'.phase # "idle" => disk'[d].file.run < run'
      BY <1>1, <2>5
    <3> QED  BY <3>1, <3>2, <3>3 DEF Writing
  <2> QED  BY <2>3, <2>6 DEF ModulesInv
<1> QED  BY <1>4, <1>5

(* The description of the module is written.                               *)
LEMMA ContextKeeps ==
  ASSUME ModulesInv, TagsInv, WriteContext
  PROVE  ModulesInv' /\ TagsInv'
<1> DEFINE m == s.name
           seen == {Key(b) : b \in {c \in s.ctx.bindings : Exported(c)}}
           file == [run |-> run, bindings |-> Written(s), nss |-> s.ctx.nss,
                    once |-> s.once, deps |-> s.included, cto |-> s.cto, seen |-> seen]
<1>1. s.phase = "context" /\ s' = Idle /\ run' = run /\ disk' = [disk EXCEPT ![m].file = file]
  BY DEF WriteContext
<1>2. /\ Shapes /\ IsSession(s) /\ s.errors = 0 /\ m \in ModuleNames /\ run \in Nat
      /\ m \notin DOMAIN s.included /\ SessionKept(disk, s) /\ Files
      /\ DOMAIN s.included \subseteq ModuleNames
  BY <1>1 DEF ModulesInv, Shapes, Sessions, IsSession
<1>3. \A d \in ModuleNames :
        /\ Has(disk[d], {"lib", "nm", "file"})
        /\ Has(disk[d].file, {"run", "bindings", "nss", "once", "deps", "cto", "seen"})
        /\ disk[d].lib \in Nat /\ disk[d].nm \in Nat /\ disk[d].file.run \in Nat
        /\ IsContext(disk[d].file) /\ DOMAIN disk[d].file.deps \subseteq ModuleNames
        /\ disk[d].file.run <= disk[d].nm /\ disk[d].nm <= disk[d].lib
        /\ disk[d].lib <= run /\ disk[d].file.run < run
  BY <1>1, <1>2 DEF Shapes, ModulesInv, Writing, LibrariesFirst
<1>4. disk[m].lib = run /\ disk[m].nm = run
  BY <1>1 DEF ModulesInv, Writing
<1>5. s'.phase = "idle"
  BY <1>1 DEF Idle
<1>6. /\ file.run = run /\ file.bindings = Written(s) /\ file.nss = s.ctx.nss
      /\ file.once = s.once /\ file.deps = s.included /\ file.seen = seen
      /\ Has(file, {"run", "bindings", "nss", "once", "deps", "cto", "seen"})
  BY DEF Has
<1> HIDE DEF file
<1>7. /\ DOMAIN disk' = ModuleNames
      /\ disk'[m].file = file /\ disk'[m].lib = disk[m].lib /\ disk'[m].nm = disk[m].nm
      /\ Has(disk'[m], {"lib", "nm", "file"})
      /\ \A d \in ModuleNames \ {m} : disk'[d] = disk[d]
  BY <1>1, <1>2, <1>3 DEF Shapes, Has
<1>8. IsContext(file)
  <2>1. Written(s) \subseteq s.ctx.bindings
    BY DEF Written
  <2>2. IsContext(s.ctx)
    BY <1>2 DEF IsSession
  <2> QED  BY <1>6, <2>1, <2>2 DEF IsContext, Has
<1>9. Shapes'
  <2>1. ASSUME NEW d \in ModuleNames
        PROVE  /\ Has(disk'[d], {"lib", "nm", "file"})
               /\ Has(disk'[d].file,
                      {"run", "bindings", "nss", "once", "deps", "cto", "seen"})
               /\ disk'[d].lib \in Nat /\ disk'[d].nm \in Nat /\ disk'[d].file.run \in Nat
               /\ IsContext(disk'[d].file)
               /\ DOMAIN disk'[d].file.deps \subseteq ModuleNames
    <3>1. CASE d = m
      BY <1>2, <1>3, <1>6, <1>7, <1>8, <3>1
    <3>2. CASE d # m
      BY <1>3, <1>7, <3>2
    <3> QED  BY <3>1, <3>2
  <2> QED  BY <1>1, <1>2, <1>5, <1>7, <2>1 DEF Shapes
<1>10. Writing'
  <2>1. \A d \in ModuleNames :
          /\ disk'[d].file.run <= disk'[d].nm /\ disk'[d].nm <= disk'[d].lib
          /\ disk'[d].lib <= run
    <3>1. run <= run
      BY <1>2
    <3> QED  BY <1>3, <1>4, <1>6, <1>7, <3>1
  <2> QED  BY <1>1, <1>5, <2>1 DEF Writing, LibrariesFirst
<1>11. ASSUME NEW d \in DOMAIN s.included
       PROVE  /\ d \in ModuleNames \ {m} /\ disk'[d] = disk[d] /\ disk[d].file # NoFile
              /\ AllFound(disk, d, s.included[d])
              /\ DOMAIN disk[d].file.deps \subseteq DOMAIN s.included
  <2>1. d \in ModuleNames \ {m} /\ disk'[d] = disk[d]
    BY <1>2, <1>7
  <2>2. Done(disk, s, d)
    BY <1>2 DEF SessionKept, AllDone
  <2> QED  BY <2>1, <2>2 DEF Done
<1> DEFINE gives == Asked(file, {}) \cup
                    UNION {Asked(disk[d].file, s.included[d]) : d \in DOMAIN s.included}
<1>12. Gives(disk', m) = gives
  <2>1. \A d \in DOMAIN s.included : disk'[d].file = disk[d].file
    BY <1>11
  <2> QED  BY <1>6, <1>7, <2>1 DEF Gives
<1>13. \A b \in s.ctx.bindings : b.own /\ Exported(b) => Key(b) \in Asked(file, {})
  BY <1>6 DEF Written, Asked, Keys
<1>14. FileKept(disk', m)
  <2>1. ASSUME NEW b \in s.ctx.bindings, Exported(b) PROVE Key(b) \in gives
    <3>1. CASE b.own
      BY <1>13, <2>1, <3>1
    <3>2. CASE ~b.own
      <4>1. Arrived(disk, s, b)
        BY <1>2, <3>2 DEF SessionKept
      <4>2. /\ b.home \in DOMAIN s.included
            /\ b \in Fetched(disk[b.home].file, b.home, s.included[b.home]).bindings
        BY <4>1 DEF Arrived
      <4>3. IsContext(disk[b.home].file)
        BY <1>3, <1>11, <4>2
      <4>4. Key(b) \in Asked(disk[b.home].file, s.included[b.home])
        BY <2>1, <4>2, <4>3, FileFetches
      <4> QED  BY <4>2, <4>4
    <3> QED  BY <3>1, <3>2
  <2>2. file.seen \subseteq gives
    BY <1>6, <2>1
  <2> HIDE DEF gives
  <2>3. \A d \in DOMAIN s.included :
          /\ disk'[d].file # NoFile /\ AllFound(disk', d, s.included[d])
          /\ DOMAIN disk'[d].file.deps \subseteq DOMAIN s.included
    BY <1>11 DEF AllFound
  <2> QED  BY <1>2, <1>6, <1>7, <1>12, <2>2, <2>3 DEF FileKept
<1>15. OneTag => TagKept(disk', m)
  <2> SUFFICES ASSUME OneTag, NEW h \in DOMAIN Headers, Headers[h].tag \in s.once
               PROVE  \/ \A d \in {e \in ToSet(Headers[h].defs) : Exported(e)} : Key(d) \in gives
                      \/ \E d \in DOMAIN s.included : Headers[h].tag \in disk'[d].file.once
    BY <1>6, <1>7, <1>12 DEF TagKept
  <2>1. Tagged(disk, s)
    BY <1>1 DEF TagsInv
  <2>2. CASE Declares(s, h)
    <3>1. ASSUME NEW d \in ToSet(Headers[h].defs), Exported(d) PROVE Key(d) \in gives
      <4>1. PICK b \in s.ctx.bindings :
              Fixed(s, b) /\ Key(b) = Key(d) /\ b.linkage = d.linkage
        BY <2>2 DEF Declares, DeclaredIn
      <4>2. b.own /\ Exported(b)
        BY <3>1, <4>1, KeysEqual DEF Fixed, Exported, IsExtern, IsExternAll
      <4> QED  BY <1>13, <4>1, <4>2
    <3> QED  BY <3>1
  <2>3. CASE \E d \in DOMAIN s.included : Headers[h].tag \in disk[d].file.once
    BY <1>11, <2>3
  <2> QED  BY <1>2, <2>1, <2>2, <2>3 DEF Tagged
<1>16. ASSUME NEW d \in ModuleNames, d # m, Fits(disk', d)
       PROVE  /\ m \notin DOMAIN disk[d].file.deps /\ disk'[d] = disk[d] /\ Fits(disk, d)
              /\ \A e \in DOMAIN disk[d].file.deps : disk'[e] = disk[e]
  <2>1. disk'[d] = disk[d]
    BY <1>7, <1>16
  <2>2. m \notin DOMAIN disk[d].file.deps
    <3>1. m \in DOMAIN disk[d].file.deps => run < disk[d].file.run
      BY <1>6, <1>7, <1>16, <2>1 DEF Fits
    <3>2. ~(run < disk[d].file.run)
      BY <1>2, <1>3
    <3> QED  BY <3>1, <3>2
  <2>3. \A e \in DOMAIN disk[d].file.deps : disk'[e] = disk[e]
    BY <1>3, <1>7, <2>2
  <2>4. Fits(disk, d)
    BY <1>16, <2>1, <2>3 DEF Fits
  <2> QED  BY <2>1, <2>2, <2>3, <2>4
<1>17. ASSUME NEW d \in ModuleNames, d # m, Fits(disk', d)
       PROVE  /\ FileKept(disk, d) => FileKept(disk', d)
              /\ TagKept(disk, d) => TagKept(disk', d)
  <2>1. /\ disk'[d] = disk[d]
        /\ \A e \in DOMAIN disk[d].file.deps : disk'[e] = disk[e]
    BY <1>16, <1>17
  <2>2. Gives(disk', d) = Gives(disk, d)
    BY <2>1 DEF Gives
  <2>3. \A e \in DOMAIN disk[d].file.deps :
          \A f : AllFound(disk, e, f) => AllFound(disk', e, f)
    BY <2>1 DEF AllFound
  <2>4. FileKept(disk, d) => FileKept(disk', d)
    BY <2>1, <2>2, <2>3 DEF FileKept
  <2>5. TagKept(disk, d) => TagKept(disk', d)
    BY <2>1, <2>2 DEF TagKept
  <2> QED  BY <2>4, <2>5
<1>18. Files'
  <2>1. ASSUME NEW d \in ModuleNames
        PROVE  /\ \A e \in DOMAIN disk'[d].file.deps : disk'[d].file.deps[e] \in Asks[e]
               /\ "" \notin disk'[d].file.once
               /\ disk'[d].file # NoFile /\ Fits(disk', d) => FileKept(disk', d)
    <3>1. CASE d = m
      BY <1>2, <1>6, <1>7, <1>14, <3>1 DEF SessionKept
    <3>2. CASE d # m
      <4>1. disk'[d] = disk[d]
        BY <1>7, <3>2
      <4> QED  BY <1>2, <1>16, <1>17, <3>2, <4>1 DEF Files
    <3> QED  BY <3>1, <3>2
  <2> QED  BY <2>1 DEF Files
<1>19. TagsInv'
  <2> SUFFICES ASSUME OneTag, NEW d \in ModuleNames, disk'[d].file # NoFile, Fits(disk', d)
               PROVE  TagKept(disk', d)
    BY <1>5 DEF TagsInv
  <2>1. CASE d = m
    BY <1>15, <2>1
  <2>2. CASE d # m
    <3>1. TagKept(disk, d)
      BY <1>16, <2>2 DEF TagsInv
    <3> QED  BY <1>17, <2>2, <3>1
  <2> QED  BY <2>1, <2>2
<1>20. Sessions'
  BY <1>5 DEF Sessions
<1> QED  BY <1>9, <1>10, <1>18, <1>19, <1>20 DEF ModulesInv
-----------------------------------------------------------------------------
(***************************************************************************)
(* The invariant.                                                          *)
(***************************************************************************)
(* It holds at first.                                                      *)
LEMMA InitKeeps ==
  ASSUME Init
  PROVE  ModulesInv /\ TagsInv
<1>1. s.phase = "idle" /\ run = 0 /\ DOMAIN disk = ModuleNames
  BY DEF Init, Idle
<1>2. \A m \in ModuleNames :
        disk[m].lib = 0 /\ disk[m].nm = 0 /\ disk[m].file = NoFile
        /\ Has(disk[m], {"lib", "nm", "file"})
  BY DEF Init, Has
<1>3. /\ NoFile.run = 0 /\ NoFile.bindings = {} /\ NoFile.once = {}
      /\ NoFile.deps = <<>> /\ DOMAIN <<>> = {}
      /\ Has(NoFile, {"run", "bindings", "nss", "once", "deps", "cto", "seen"})
  BY DEF NoFile, Has
<1>4. IsContext(NoFile)
  BY <1>3 DEF IsContext, Has
<1>5. Shapes
  BY <1>1, <1>2, <1>3, <1>4 DEF Shapes
<1>6. Writing
  BY <1>1, <1>2, <1>3 DEF Writing, LibrariesFirst
<1>7. Files
  BY <1>2, <1>3 DEF Files
<1>8. Sessions /\ TagsInv
  BY <1>1, <1>2 DEF Sessions, TagsInv
<1> QED  BY <1>5, <1>6, <1>7, <1>8 DEF ModulesInv

(* Every action keeps it.                                                  *)
LEMMA NextKeeps ==
  ASSUME ModulesInv, TagsInv, [Next]_vars
  PROVE  ModulesInv' /\ TagsInv'
<1>1. CASE Start
  BY <1>1, StartKeeps
<1>2. CASE \E m \in ModuleNames, cto \in BOOLEAN : ModuleForm(m, cto)
  BY <1>2, ModuleFormKeeps
<1>3. CASE \E m \in ModuleNames : \E forms \in Asks[m] : ImportForm(m, forms)
  BY <1>3, ImportFormKeeps
<1>4. CASE \E d \in Definitions : Define(d)
  BY <1>4, DefineKeeps
<1>5. CASE \E h \in DOMAIN Headers : Include(h)
  BY <1>5, IncludeKeeps
<1>6. CASE EndOfFile
  BY <1>6, EndOfFileKeeps
<1>7. CASE WriteLibraries \/ WriteNoMacros
  BY <1>7, LibrariesKeep
<1>8. CASE WriteContext
  BY <1>8, ContextKeeps
<1>9. CASE Stop
  BY <1>9, StopKeeps DEF Stop
<1>10. CASE UNCHANGED vars
  <2>1. disk' = disk /\ s' = s /\ run' = run
    BY <1>10 DEF vars
  <2>2. Shapes' /\ Writing'
    BY <2>1 DEF ModulesInv, Shapes, Writing, LibrariesFirst
  <2>3. Sessions' /\ Files'
    BY <2>1 DEF ModulesInv, Sessions, Files
  <2>4. TagsInv'
    BY <2>1 DEF TagsInv
  <2> QED  BY <2>2, <2>3, <2>4 DEF ModulesInv
<1> QED  BY <1>1, <1>2, <1>3, <1>4, <1>5, <1>6, <1>7, <1>8, <1>9, <1>10 DEF Next

(* Whatever is built, in any order and however often it is stopped: what   *)
(* has been read in a session is there as far as it was asked for, with    *)
(* its dependencies, tags and libraries, and the files describe that.      *)
THEOREM ModulesKept == Spec => [](ModulesInv /\ TagsInv)
<1>1. Init => ModulesInv /\ TagsInv
  BY InitKeeps
<1>2. ModulesInv /\ TagsInv /\ [Next]_vars => (ModulesInv /\ TagsInv)'
  BY NextKeeps
<1> QED  BY <1>1, <1>2, PTL DEF Spec

(* One binding of a name, each in a namespace that exists.                 *)
THEOREM ModulesTyped == Spec => []TypeOK
<1>1. ModulesInv => TypeOK
  BY DEF ModulesInv, Shapes, IsSession, IsContext, TypeOK
<1> QED  BY <1>1, ModulesKept, PTL

(* However Writer::run is stopped, a .dtm file is never newer than its     *)
(* libraries.                                                              *)
THEOREM LibrariesComeFirst == Spec => []LibrariesFirst
<1>1. ModulesInv => LibrariesFirst
  BY DEF ModulesInv, Writing
<1> QED  BY <1>1, ModulesKept, PTL

(* What is visible from a module has the module's library in the program.  *)
THEOREM VisibleAreLinked == Spec => []VisibleIsLinked
<1>1. ASSUME ModulesInv PROVE VisibleIsLinked
  <2> SUFFICES ASSUME s.phase = "parsing", NEW b \in s.ctx.bindings, ~b.own,
                      ~disk[b.home].file.cto
               PROVE  b.home \in s.so \cup s.linked
    BY DEF VisibleIsLinked
  <2>1. Arrived(disk, s, b)
    BY <1>1 DEF ModulesInv, Sessions, SessionKept
  <2> QED  BY <2>1 DEF Arrived
<1> QED  BY <1>1, ModulesKept, PTL

(* A tagged file that a module has included is not compiled once more.     *)
THEOREM IncludedOnce == Spec => IncludeOnce
<1>1. ASSUME ModulesInv, NEW h \in DOMAIN Headers, Include(h), s.errors = 0,
             NEW m \in DOMAIN s.included, NEW d \in ModuleNames,
             d = m \/ d \in DOMAIN disk[m].file.deps,
             Headers[h].tag \in disk[d].file.once
      PROVE  s'.ctx = s.ctx /\ s'.errors = s.errors
  <2>1. s.phase = "parsing"
    BY <1>1 DEF Include, Parsing
  <2>2. IsSession(s) /\ SessionKept(disk, s)
    BY <1>1, <2>1, Running
  <2>3. \A e \in DOMAIN s.included : Done(disk, s, e)
    BY <1>1, <2>2 DEF SessionKept, AllDone
  <2>4. d \in DOMAIN s.included
    BY <1>1, <2>3 DEF Done
  <2>5. Headers[h].tag \in s.once
    BY <1>1, <2>3, <2>4 DEF Done
  <2>6. s' = [s EXCEPT !.forms = @ + 1, !.includes = @ \cup {h}]
    BY <1>1, <2>5 DEF Include
  <2> QED  BY <2>2, <2>6 DEF IsSession, Has
<1>2. ModulesInv =>
        [\A h \in DOMAIN Headers :
           /\ Include(h) /\ s.errors = 0
           /\ \E m \in DOMAIN s.included, d \in ModuleNames :
                /\ d = m \/ d \in DOMAIN disk[m].file.deps
                /\ Headers[h].tag \in disk[d].file.once
           => s'.ctx = s.ctx /\ s'.errors = s.errors]_vars
  BY <1>1
<1> QED  BY <1>2, ModulesKept, PTL DEF IncludeOnce

(* An import that names forms makes nothing else of its module visible.    *)
THEOREM OnlyAskedArrives == Spec => OnlyAsked
<1> DEFINE Named(i, b) ==
             \/ <<b.name>> \in i[2] /\ b.ns = ""
             \/ {<<b.ns>>, <<b.ns, b.name>>} \cap i[2] # {}
             \/ \E f \in i[2] : Subform(f, b.ns) = b.name
<1>1. ASSUME ModulesInv, TagsInv, [Next]_vars, s.phase = "parsing", s'.phase = "parsing",
             NEW i \in s'.imports, i \notin s.imports, i[2] # {},
             NEW b \in s'.ctx.bindings, b \notin s.ctx.bindings, b.home = i[1]
      PROVE  Named(i, b)
  <2>1. IsSession(s) /\ Shapes
    BY <1>1, Running
  <2>2. PICK m \in ModuleNames : \E forms \in Asks[m] : ImportForm(m, forms)
    <3>1. ~Start
      BY <1>1 DEF Start
    <3>2. ~(EndOfFile \/ WriteLibraries \/ WriteNoMacros \/ WriteContext \/ Stop)
      <4>1. EndOfFile => s'.phase = "idle" \/ s'.phase = "libraries"
        <5>1. [s EXCEPT !.phase = "libraries"].phase = "libraries"
          BY <2>1 DEF IsSession, Has
        <5> QED  BY <5>1 DEF EndOfFile, Idle
      <4> QED  BY <1>1, <4>1 DEF WriteLibraries, WriteNoMacros, WriteContext, Stop
    <3>3. s'.imports # s.imports
      BY <1>1
    <3>4. \A d \in ModuleNames, cto \in BOOLEAN : ~ModuleForm(d, cto)
      BY <1>1, <3>3, ModuleFormKeeps
    <3>5. \A d \in Definitions : ~Define(d)
      BY <1>1, <3>3, DefineKeeps
    <3>6. \A h \in DOMAIN Headers : ~Include(h)
      BY <1>1, <3>3, IncludeKeeps
    <3>7. ~UNCHANGED vars
      BY <3>3 DEF vars
    <3> QED  BY <1>1, <3>1, <3>2, <3>4, <3>5, <3>6, <3>7 DEF Next
  <2>3. PICK forms \in Asks[m] : ImportForm(m, forms)
    BY <2>2
  <2> DEFINE read == Read(s, m, forms)
             r == read.st
  <2>4. s' = [r EXCEPT
                !.forms = @ + 1,
                !.errors = IF read.ok THEN @ ELSE @ + 1,
                !.imports = IF read.ok THEN @ \cup {<<m, forms>>} ELSE @]
    BY <2>3 DEF ImportForm
  <2>5. Reads(s, read, m, forms)
    BY <2>1, ReadGoes
  <2> HIDE DEF read
  <2>6. IsSession(r) /\ Grown(s, r) /\ Arrivals(disk, r, s)
    BY <2>5 DEF Reads
  <2>7. s'.ctx = r.ctx /\ (i \in r.imports \/ i = <<m, forms>>)
    <3> HIDE DEF r
    <3> QED  BY <1>1, <2>4, <2>6 DEF IsSession, Has
  <2>8. i = <<m, forms>>
    BY <1>1, <2>6, <2>7 DEF Grown
  <2>9. Arrived(disk, r, b) /\ b.home = m /\ forms # {}
    BY <1>1, <2>6, <2>7, <2>8 DEF Arrivals
  <2>10. m \notin DOMAIN s.included
    BY <1>1, <2>5, <2>7 DEF Reads
  <2>11. r.included[m] = forms
    BY <2>5, <2>9, <2>10 DEF Reads, Arrived
  <2>12. b \in Fetched(disk[m].file, m, forms).bindings
    BY <2>9, <2>11 DEF Arrived
  <2>13. Wanted(forms, b)
    <3>1. IsContext(disk[m].file)
      BY <2>1 DEF Shapes
    <3> QED  BY <2>9, <2>12, <3>1, FileFetches
  <2> QED  BY <2>8, <2>13 DEF Wanted
<1>2. ModulesInv /\ TagsInv /\ [Next]_vars =>
        [s.phase = "parsing" /\ s'.phase = "parsing" =>
           \A i \in {k \in s'.imports \ s.imports : k[2] # {}} :
             \A b \in s'.ctx.bindings \ s.ctx.bindings :
               b.home = i[1] =>
                 \/ <<b.name>> \in i[2] /\ b.ns = ""
                 \/ {<<b.ns>>, <<b.ns, b.name>>} \cap i[2] # {}
                 \/ \E f \in i[2] : Subform(f, b.ns) = b.name]_vars
  BY <1>1
<1> QED  BY <1>2, ModulesKept, PTL DEF Spec, OnlyAsked

(***************************************************************************)
(* What an import delivers.  An import of a module that has been read is   *)
(* ignored, whatever it asks for, and two files with one tag are taken for *)
(* the same; without the two assumptions neither theorem holds.            *)
(***************************************************************************)
(* What a module was asked for is there, with its dependencies.            *)
LEMMA DoneDelivers ==
  ASSUME ModulesInv, OneAsk, NEW st, IsSession(st),
         \A m \in DOMAIN st.included : Done(disk, st, m) /\ st.included[m] \in Asks[m],
         NEW m \in DOMAIN st.included
  PROVE  /\ Asked(disk[m].file, st.included[m]) \subseteq Keys(st.ctx.bindings)
         /\ \A d \in DOMAIN disk[m].file.deps :
              /\ d \in DOMAIN st.included
              /\ Asked(disk[d].file, disk[m].file.deps[d]) \subseteq Keys(st.ctx.bindings)
<1>1. Done(disk, st, m) /\ m \in ModuleNames
  BY DEF IsSession
<1>2. ASSUME NEW d \in DOMAIN disk[m].file.deps
      PROVE  /\ d \in DOMAIN st.included
             /\ Asked(disk[d].file, disk[m].file.deps[d]) \subseteq Keys(st.ctx.bindings)
  <2>1. d \in DOMAIN st.included /\ d \in ModuleNames
    BY <1>1 DEF Done, IsSession
  <2>2. disk[m].file.deps[d] \in Asks[d] /\ st.included[d] \in Asks[d]
    BY <1>1, <2>1 DEF ModulesInv, Files
  <2>3. disk[m].file.deps[d] = st.included[d]
    BY <2>1, <2>2 DEF OneAsk
  <2>4. Done(disk, st, d)
    BY <2>1
  <2> QED  BY <2>1, <2>3, <2>4 DEF Done
<1> QED  BY <1>1, <1>2 DEF Done

(* Of the modules that have a property, one was written before the others. *)
LEMMA Earliest ==
  ASSUME Shapes, NEW M, M \subseteq ModuleNames, M # {}
  PROVE  \E m \in M : \A d \in M : ~(disk[d].file.run < disk[m].file.run)
<1> DEFINE R == OpToRel(<, Nat)
           runs == {disk[m].file.run : m \in M}
<1>1. IsWellFoundedOn(R, Nat)
  BY NatLessThanWellFounded
<1>2. \A x, y \in Nat : <<x, y>> \in R <=> x < y
  BY DEF OpToRel
<1>3. runs \in SUBSET Nat /\ runs # {}
  BY DEF Shapes
<1> HIDE DEF R
<1>4. PICK n \in runs : \A x \in runs : ~(<<x, n>> \in R)
  <2> HIDE DEF runs
  <2> QED  BY <1>1, <1>3, WFMin
<1>5. PICK m \in M : n = disk[m].file.run
  OBVIOUS
<1>6. \A d \in M : disk[d].file.run \in runs
  OBVIOUS
<1>7. \A d \in M : ~(disk[d].file.run < n)
  BY <1>2, <1>3, <1>4, <1>6
<1> QED  BY <1>5, <1>7

(* What the property says of a file is what the invariant does.            *)
LEMMA CurrentFits == \A m : Current(m) <=> Fits(disk, m)
BY DEF Current, Fits

(* The session, after imports and includes without an error.               *)
LEMMA SessionDelivers ==
  ASSUME ModulesInv, TagsInv, OneAsk, OneTag, s.phase = "parsing", s.errors = 0
  PROVE  /\ \A i \in s.imports : ImportDelivers(i[1], i[2])
         /\ \A h \in s.includes : IncludeDelivers(h)
<1>1. IsSession(s) /\ SessionKept(disk, s) /\ Shapes /\ Tagged(disk, s)
  BY Running DEF TagsInv
<1>2. \A m \in DOMAIN s.included : Done(disk, s, m) /\ s.included[m] \in Asks[m]
  BY <1>1 DEF SessionKept, AllDone
<1>3. DOMAIN s.included \subseteq ModuleNames
  BY <1>1 DEF IsSession
<1>4. ASSUME NEW m \in DOMAIN s.included PROVE ImportDelivers(m, s.included[m])
  BY <1>1, <1>2, DoneDelivers DEF ImportDelivers
<1>5. ASSUME NEW i \in s.imports PROVE ImportDelivers(i[1], i[2])
  <2>1. i[1] \in DOMAIN s.included /\ i[2] \in Asks[i[1]]
    BY <1>1 DEF SessionKept
  <2>2. i[2] = s.included[i[1]]
    BY <1>2, <1>3, <2>1 DEF OneAsk
  <2> QED  BY <1>4, <2>1, <2>2
<1>6. ASSUME NEW h \in s.includes,
             \A m \in DOMAIN s.included :
               /\ Current(m)
               /\ s.included[m] # {} => Headers[h].tag \notin disk[m].file.once,
             NEW d \in ToSet(Headers[h].defs), Exported(d)
      PROVE  Key(d) \in Keys(s.ctx.bindings)
  <2>1. h \in DOMAIN Headers
    BY <1>1 DEF SessionKept
  <2> DEFINE M == {m \in DOMAIN s.included : Headers[h].tag \in disk[m].file.once}
  <2>2. CASE Declares(s, h)
    <3>1. PICK b \in s.ctx.bindings : Key(b) = Key(d)
      BY <1>6, <2>2 DEF Declares, DeclaredIn
    <3> QED  BY <3>1 DEF Keys
  <2>3. CASE ~Declares(s, h)
    <3>1. M # {} /\ M \subseteq ModuleNames
      BY <1>1, <1>3, <2>1, <2>3 DEF Tagged
    <3>2. PICK m \in M : \A e \in M : ~(disk[e].file.run < disk[m].file.run)
      <4> HIDE DEF M
      <4> QED  BY <1>1, <3>1, Earliest
    <3>3. /\ m \in DOMAIN s.included /\ m \in ModuleNames /\ Current(m)
          /\ s.included[m] = {} /\ Headers[h].tag \in disk[m].file.once
      BY <1>3, <1>6, <3>2
    <3>4. ImportDelivers(m, {})
      BY <1>4, <3>3
    <3>5. disk[m].file # NoFile
      BY <1>2, <3>3 DEF Done
    <3>6. TagKept(disk, m)
      BY <3>3, <3>5, CurrentFits DEF TagsInv
    <3>7. \A e \in DOMAIN disk[m].file.deps : Headers[h].tag \notin disk[e].file.once
      <4>1. DOMAIN disk[m].file.deps \subseteq DOMAIN s.included
        BY <1>2, <3>3 DEF Done
      <4>2. \A e \in DOMAIN disk[m].file.deps : disk[e].file.run < disk[m].file.run
        BY <3>3 DEF Current
      <4> QED  BY <3>2, <4>1, <4>2
    <3>8. Key(d) \in Gives(disk, m)
      BY <1>6, <2>1, <3>3, <3>6, <3>7 DEF TagKept
    <3> QED  BY <3>4, <3>8 DEF Gives, ImportDelivers
  <2> QED  BY <2>2, <2>3
<1>7. \A h \in s.includes : IncludeDelivers(h)
  BY <1>6 DEF IncludeDelivers
<1> QED  BY <1>5, <1>7

(* After imports that succeeded, what each asked for is there, and what    *)
(* the modules' own imports asked for; and what an include stands for.     *)
THEOREM ImportsDeliver ==
  ASSUME OneAsk, OneTag
  PROVE  Spec => []Delivers
<1>1. ModulesInv /\ TagsInv => Delivers
  BY SessionDelivers DEF Delivers
<1> QED  BY <1>1, ModulesKept, PTL

(* A session that has read nothing reads m.                                *)
LEMMA ReadAlone ==
  ASSUME ModulesInv, OneAsk, NEW m \in ModuleNames, disk[m].file # NoFile, Current(m),
         NEW alone, IsSession(alone), alone.errors = 0, DOMAIN alone.included = {}
  PROVE  LET read == Read(alone, m, {})
         IN  read.ok /\ disk[m].file.seen \subseteq Keys(read.st.ctx.bindings)
<1> DEFINE file == disk[m].file
           read == Read(alone, m, {})
           X == {m} \cup DOMAIN file.deps
           F == [x \in X |-> IF x = m THEN {{}} ELSE Asks[x]]
<1>1. Shapes /\ Files /\ FileKept(disk, m)
  BY CurrentFits DEF ModulesInv, Files
<1>2. /\ m \notin DOMAIN file.deps /\ X \subseteq ModuleNames
      /\ \A d \in DOMAIN file.deps :
           /\ disk[d].file # NoFile /\ AllFound(disk, d, file.deps[d])
           /\ DOMAIN disk[d].file.deps \subseteq DOMAIN file.deps
           /\ file.deps[d] \in Asks[d]
  BY <1>1 DEF FileKept, Shapes, Files
<1>3. F[m] = {{}} /\ \A d \in DOMAIN file.deps : d \in X /\ d # m /\ F[d] = Asks[d]
  BY <1>2
<1>4. Closed(X, F)
  <2>1. ASSUME NEW x \in X, NEW d \in DOMAIN disk[x].file.deps
        PROVE  d \in X /\ disk[x].file.deps[d] \in F[d]
    <3>1. d \in DOMAIN file.deps
      BY <1>2, <2>1
    <3>2. disk[x].file.deps[d] \in Asks[d]
      BY <1>1, <1>2, <2>1 DEF Files
    <3> QED  BY <1>3, <3>1, <3>2
  <2> HIDE DEF X, F
  <2> QED  BY <1>2, <2>1 DEF Closed
<1>5. Available(X, F)
  <2>1. AllFound(disk, m, {})
    BY DEF AllFound
  <2>2. ASSUME NEW d \in DOMAIN file.deps, NEW f \in Asks[d] PROVE AllFound(disk, d, f)
    <3>1. f = file.deps[d]
      BY <1>2, <2>2 DEF OneAsk
    <3> QED  BY <1>2, <3>1
  <2> QED  BY <1>2, <1>3, <2>1, <2>2 DEF Available
<1> HIDE DEF F
<1>6. Within(alone, X, F)
  BY DEF Within
<1>7. Within(read.st, X, F) /\ read.ok
  BY <1>1, <1>3, <1>4, <1>5, <1>6, ReadStaysWithin
<1>8. Reads(alone, read, m, {})
  BY <1>1, ReadGoes
<1> HIDE DEF read
<1> DEFINE st == read.st
<1>9. /\ IsSession(st) /\ m \in DOMAIN st.included /\ st.included[m] = {}
      /\ \A d \in DOMAIN st.included : Done(disk, st, d)
  BY <1>7, <1>8 DEF Reads
<1>10. /\ Asked(file, {}) \subseteq Keys(st.ctx.bindings)
       /\ DOMAIN file.deps \subseteq DOMAIN st.included
  BY <1>9 DEF Done
<1>11. ASSUME NEW d \in DOMAIN file.deps
       PROVE  Asked(disk[d].file, file.deps[d]) \subseteq Keys(st.ctx.bindings)
  <2>1. d \in DOMAIN st.included /\ st.included[d] \in Asks[d]
    BY <1>3, <1>7, <1>10 DEF Within
  <2>2. st.included[d] = file.deps[d]
    BY <1>2, <2>1 DEF OneAsk
  <2>3. Done(disk, st, d)
    BY <1>9, <2>1
  <2> QED  BY <2>2, <2>3 DEF Done
<1>12. file.seen \subseteq Keys(st.ctx.bindings)
  BY <1>1, <1>10, <1>11 DEF FileKept, Gives
<1> QED  BY <1>7, <1>12 DEF read

(* Reading a module from its file alone gives all that was exported and    *)
(* visible at its end, unless what it depends on was written anew.         *)
THEOREM InterfacesKept ==
  ASSUME OneAsk
  PROVE  Spec => []InterfaceKept
<1> DEFINE alone == Fresh([static |-> {}, all |-> FALSE, removeMacros |-> FALSE])
<1>1. IsSession(alone) /\ alone.errors = 0 /\ DOMAIN alone.included = {}
  BY FreshIsSession
<1>2. ModulesInv => InterfaceKept
  <2> HIDE DEF alone
  <2> SUFFICES ASSUME ModulesInv, NEW m \in ModuleNames, disk[m].file # NoFile, Current(m)
               PROVE  LET read == Read(alone, m, {})
                      IN  read.ok /\ disk[m].file.seen \subseteq Keys(read.st.ctx.bindings)
    BY DEF InterfaceKept, alone
  <2> QED  BY <1>1, ReadAlone
<1> QED  BY <1>2, ModulesKept, PTL
=============================================================================
