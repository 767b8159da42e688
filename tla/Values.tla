------------------------------- MODULE Values -------------------------------
(***************************************************************************)
(* What compiled forms do with values: the core forms on integers,         *)
(* pointers, arrays and structs, and the functions a program defines over  *)
(* its own types (init, setf-..., destroy), which the compiler calls       *)
(* wherever a value is made, copied, moved or left behind.                 *)
(*                                                                         *)
(* Each form is compiled and run in one step, on a memory of cells.  A     *)
(* value is an integer (its bits), an address, an aggregate, or, for a     *)
(* struct that manages something, the object it holds: functions over such *)
(* a struct make and destroy objects, and moving leaves nothing (object 0) *)
(* behind.  An address is a cell followed by indices into aggregates.      *)
(* Branches, labels and scopes within a function are in ProcBody, which    *)
(* procedure a call means in Overloads.                                    *)
(***************************************************************************)
EXTENDS Types, FiniteSets, Bitwise

CONSTANTS
  Structs,    \* name |-> members, as <<name, type>>, in their order
  Managed,    \* names of the structs that manage an object
  Defined,    \* the functions over them: <<function, struct>>
  Functions,  \* name |-> [params, result, body]
  Forms,      \* the forms the function is made of
  Results,    \* the types it may be declared to return
  Globals,    \* <<type, form>>: what global variables are defined with
  Width,      \* base type |-> bits (a bool has those of a char)
  CellStep,   \* the distance between the addresses of two cells
  MaxForms    \* bound: forms of the function

VARIABLES
  mem,     \* memory, see NewMemory
  status,  \* "running", "failed" (does not compile), "over", or "undefined"
           \* (what a function does in which a retval was forced, see Forced)
  left,    \* forms to go
  globals  \* [type, form, val]: global variables that have been defined
vars == <<mem, status, left, globals>>

(***************************************************************************)
(* Values and memory.                                                      *)
(***************************************************************************)
IntVal(n) == [int |-> n]
Ptr(a)   == [ptr |-> a]
Obj(k)   == [obj |-> k]
Agg(s)   == [agg |-> s]
Junk     == [junk |-> 0]   \* what was never written
NoVal    == [none |-> 0]   \* the NULL of a ParseResult
Nowhere  == <<>>           \* the NULL of its address
NullPtr  == <<0>>
Implied  == [NoType EXCEPT !.kind = "implied"]
Void     == Basic("void")
BoolType == Basic("bool")
IntType  == Basic("int")

IsInteger(t) == t.kind = "basic" /\ t.base \in IntegerBases
IsManaged(t) == t.kind = "struct" /\ t.name \in Managed
Has(f, t)    == t.kind = "struct" /\ <<f, t.name>> \in Defined
(* The setf functions take a pointer to what is not const as destination.  *)
HasSetf(f, t) == Has(f, t) /\ ~t.const
MembersOf(t) == Structs[t.name]
Pointee(t)   == t.sub[1]

NewMemory ==
  [cells  |-> <<>>,               \* values
   objs   |-> <<>>,               \* "live" or "dead"
   scope  |-> <<>>,               \* variable |-> [type, at]
   done   |-> FALSE,              \* whether the function has returned
   result |-> NoVal,              \* of the function that returned last
   twice  |-> {},                 \* objects destroyed twice
   junk   |-> FALSE,              \* whether one was taken from Junk
   stale  |-> {},                 \* dead objects that were copied or returned
   late   |-> {},                 \* those that a return read, see Leave
   forced |-> {},                 \* cells of another type than what is in them
   shared |-> {},                 \* objects whose bits have two owners
   lost   |-> {}]                 \* objects that have none

RECURSIVE ObjsIn(_)
ObjsIn(v) ==
  IF "obj" \in DOMAIN v THEN {v.obj} \ {0}
  ELSE IF "agg" \in DOMAIN v THEN UNION {ObjsIn(v.agg[i]) : i \in DOMAIN v.agg}
  ELSE {}

RECURSIVE JunkOf(_)
(* The memory an alloca of a type gives.                                   *)
JunkOf(t) ==
  IF t.kind = "array" THEN Agg([i \in 1 .. t.size |-> JunkOf(Pointee(t))])
  ELSE IF t.kind = "struct" /\ ~IsManaged(t)
    THEN Agg([i \in DOMAIN MembersOf(t) |-> JunkOf(MembersOf(t)[i][2])])
  ELSE Junk

RECURSIVE Part(_, _)
Part(v, path) ==
  IF path = <<>> THEN v
  ELSE IF "agg" \in DOMAIN v /\ Head(path) \in DOMAIN v.agg
    THEN Part(v.agg[Head(path)], Tail(path)) ELSE NoVal
RECURSIVE WithPart(_, _, _)
WithPart(v, path, new) ==
  IF path = <<>> THEN new
  ELSE Agg([v.agg EXCEPT ![Head(path)] = WithPart(@, Tail(path), new)])

(* An address outside of what was allocated reads as Junk and is not       *)
(* written: what happens there is undefined.                               *)
Inside(m, a) == a # Nowhere /\ a[1] \in DOMAIN m.cells
                /\ Part(m.cells[a[1]], Tail(a)) # NoVal
Load(m, a) == IF Inside(m, a) THEN Part(m.cells[a[1]], Tail(a)) ELSE Junk
Store(m, a, v) ==
  IF Inside(m, a)
    THEN [m EXCEPT !.cells[a[1]] = WithPart(@, Tail(a), v)] ELSE m
Alloca(m, v) == [m EXCEPT !.cells = Append(@, v)]
NextCell(m)  == <<Len(m.cells) + 1>>      \* where the next one will be
Number(a)    == IF a = NullPtr THEN 0 ELSE a[1] * CellStep + a[Len(a)] - 1

(***************************************************************************)
(* The functions over structs.  They are written by the program: what is   *)
(* taken for granted is that each does what it is for.                     *)
(***************************************************************************)
MakeAt(m, a) ==
  Store([m EXCEPT !.objs = Append(@, "live")], a, Obj(Len(m.objs) + 1))
DestroyObj(m, v) ==
  IF v = Junk THEN [m EXCEPT !.junk = TRUE]
  ELSE IF v.obj = 0 THEN m
  ELSE IF m.objs[v.obj] = "dead" THEN [m EXCEPT !.twice = @ \cup {v.obj}]
  ELSE [m EXCEPT !.objs[v.obj] = "dead"]
(* setf-copy-init of value v to a.                                         *)
CopyInit(m, a, v) ==
  IF v = Junk THEN [m EXCEPT !.junk = TRUE]
  ELSE IF v.obj = 0 THEN Store(m, a, v)
  ELSE MakeAt([m EXCEPT !.stale = @ \cup {k \in {v.obj} : m.objs[k] = "dead"}], a)
MoveInit(m, a, from) == Store(Store(m, a, Load(m, from)), from, Obj(0))
CopyAssign(m, a, v)  == DestroyObj(CopyInit(m, a, v), Load(m, a))
MoveAssign(m, a, from) ==
  IF a = from THEN m ELSE DestroyObj(MoveInit(m, a, from), Load(m, a))

(***************************************************************************)
(* ParseResult.                                                            *)
(***************************************************************************)
NewPR ==
  [type     |-> NoType, val |-> NoVal,
   at       |-> Nowhere,  \* address_of_value
   atType   |-> NoType,   \* type_of_address_of_value
   lvalue   |-> FALSE, destruct |-> FALSE, nocopy |-> FALSE, fresh |-> FALSE,
   slot     |-> Nowhere,  \* retval
   slotType |-> NoType,   \* what retval_type points to, which nothing reads
   init     |-> FALSE,    \* retval_requires_init
   used     |-> FALSE]    \* retval_used
Result(type, v) == [NewPR EXCEPT !.type = type, !.val = v]
Slot(a, t, init) == [NewPR EXCEPT !.slot = a, !.slotType = t, !.init = init]

Yes(m, pr) == [ok |-> TRUE, m |-> m, pr |-> pr]
No(m)      == [ok |-> FALSE, m |-> m, pr |-> NewPR]

(* getValue: loaded when it is asked for, not when the form is parsed.     *)
Value(m, pr) ==
  IF pr.used \/ (pr.val = NoVal /\ pr.at # Nowhere)
    THEN Load(m, IF pr.used THEN pr.slot ELSE pr.at) ELSE pr.val
(* setAddressOfValue: a value that has no address is stored in a new cell. *)
SetAddress(m, pr) ==
  IF pr.at # Nowhere THEN Yes(m, pr)
  ELSE IF pr.used THEN Yes(m, [pr EXCEPT !.at = pr.slot])
  ELSE Yes(Alloca(m, Value(m, pr)), [pr EXCEPT !.at = NextCell(m)])
AddressType(pr) == IF pr.atType # NoType THEN pr.atType ELSE PointerTo(pr.type)

(***************************************************************************)
(* Operation::Destruct, Copy, Move and Cast.                               *)
(***************************************************************************)
Destructible(t) == IsManaged(t) /\ Has("destroy", t)

RECURSIVE DestroyArray(_, _, _), DestroyMembers(_, _, _), DestroyValue(_, _, _)
(* From the last element to the first, and only if the elements are arrays *)
(* or have a destructor of their own.                                      *)
DestroyArray(m, t, v) ==
  IF Pointee(t).kind # "array" /\ ~Destructible(Pointee(t)) THEN m
  ELSE FoldLeft(LAMBDA x, i : DestroyValue(x, Pointee(t), v.agg[i]), m,
                Reverse([i \in 1 .. t.size |-> i]))
DestroyMembers(m, t, v) ==
  IF IsManaged(t) THEN m
  ELSE FoldLeft(LAMBDA x, i : DestroyValue(x, MembersOf(t)[i][2], v.agg[i]), m,
                [i \in DOMAIN MembersOf(t) |-> i])
DestroyValue(m, t, v) ==
  IF t.kind = "array" /\ t.size > 0 THEN DestroyArray(m, t, v)
  ELSE IF Destructible(t) THEN DestroyObj(m, v)
  ELSE IF t.kind = "struct" THEN DestroyMembers(m, t, v)
  ELSE m
Destruct(m, pr) ==
  IF pr.destruct THEN DestroyValue(m, pr.type, Value(m, pr)) ELSE m

RECURSIVE CopyPermitted(_)
CopyPermitted(t) ==
  /\ ~Has("setf-copy-disabled", t)
  /\ t.kind = "array" => CopyPermitted(Pointee(t))
  /\ (t.kind = "struct" /\ ~IsManaged(t)) =>
       \A i \in DOMAIN MembersOf(t) : CopyPermitted(MembersOf(t)[i][2])

Mut_Copy(m, pr) == Yes(m, pr)
Copy(m, pr) ==
  IF pr.nocopy \/ pr.fresh THEN Yes(m, pr)
  ELSE IF ~CopyPermitted(pr.type) THEN No(m)
  ELSE IF ~HasSetf("setf-copy-init", pr.type)
    THEN Yes(m, [pr EXCEPT !.destruct = TRUE])
  ELSE LET at == NextCell(m)
           made(m2) == Yes(m2, [pr EXCEPT !.destruct = TRUE, !.fresh = TRUE,
                                          !.val = Load(m2, at)])
       IN  made(CopyInit(Alloca(m, Junk), at, Value(m, pr)))

Move(pr) == [pr EXCEPT !.lvalue = FALSE, !.nocopy = TRUE]

Bits(t)   == IF t.bits # 0 THEN t.bits ELSE Width[t.base]
SizeOf(t) == IF t.base = "bool" THEN 0 ELSE Bits(t)   \* getIntegerSize
Signed(n, w) == IF n >= 2^(w - 1) THEN n - 2^w ELSE n
(* A wider integer is filled by the sign if the type that is wanted has    *)
(* one, whether or not the type of the value has.  Of an integer that is   *)
(* cast to bool the lower bits are kept, as for any other narrower type.   *)
CastInt(n, from, to) ==
  IF SizeOf(from) <= SizeOf(to)
    THEN IF to.base \in SignedBases THEN Signed(n, Bits(from)) % 2^Bits(to) ELSE n
  ELSE n % 2^Bits(to)
Castable(from, to) ==
  \/ IsInteger(from) /\ (IsInteger(to) \/ to.base = "bool")
  \/ from.base = "bool" /\ IsInteger(to)
  \/ from.kind = "pointer" /\ to.kind = "pointer"
  \/ from.kind = "struct" /\ to.kind = "struct" /\ ~from.const /\ to.const
CastValue(v, from, to) ==
  IF "int" \in DOMAIN v THEN IntVal(CastInt(v.int, from, to)) ELSE v

(***************************************************************************)
(* Where objects come to have two owners or none.  These forms do not call *)
(* the functions that would copy, move or destroy the objects:             *)
(*   - a value that was moved, or read by (core @ ...), handed over to a   *)
(*     parameter, a caller or a literal, and an lvalue in a literal;       *)
(*   - a temporary that is moved into a variable that is being defined:    *)
(*     its address is moved from, and the bits that were loaded before are *)
(*     destroyed;                                                          *)
(*   - a struct that has such members and no functions of its own;         *)
(*   - a value or destination that is const;                               *)
(*   - a temporary passed by reference, or evaluated last by a function    *)
(*     that returns nothing; a literal that is not stored; and what a      *)
(*     variable holds that is passed to a function as its retval.          *)
(***************************************************************************)
Shared(m, v) == [m EXCEPT !.shared = @ \cup ObjsIn(v)]
Lost(m, v)   == [m EXCEPT !.lost = @ \cup ObjsIn(v)]
HandedOver(m, pr) ==
  IF pr.destruct /\ IsManaged(pr.type) /\ ~pr.type.const THEN m
  ELSE IF pr.nocopy \/ ~IsManaged(pr.type) \/ pr.type.const
    THEN Shared(m, Value(m, pr))
  ELSE m
StoredAsIs(m, t, pr) ==
  IF IsManaged(t) /\ ~t.const /\ ~pr.type.const THEN m
  ELSE Shared(m, Value(m, pr))

(***************************************************************************)
(* Initialisation and assignment.                                          *)
(***************************************************************************)
RECURSIVE Initialise(_, _, _)
Initialise(m, t, a) ==
  IF Has("init", t) THEN MakeAt(m, a)
  ELSE IF t.kind = "array"
    THEN IF ~Has("init", Pointee(t)) THEN m
         ELSE FoldLeft(LAMBDA x, i : Initialise(x, Pointee(t), Append(a, i)), m,
                       [i \in 1 .. t.size |-> i])
  ELSE IF t.kind = "struct" /\ ~IsManaged(t)
    THEN FoldLeft(LAMBDA x, i : Initialise(x, MembersOf(t)[i][2], Append(a, i)), m,
                  [i \in DOMAIN MembersOf(t) |-> i])
  ELSE m

SameStruct(t, u) == t.kind = "struct" /\ u.kind = "struct" /\ t.name = u.name

Mut_StoreValue(m, t, dst, pr) ==
  IF ~CopyPermitted(t) \/ ~Equal([pr.type EXCEPT !.const = FALSE], t, TRUE, FALSE)
    THEN No(m) ELSE Yes(Store(m, dst, Value(m, pr)), pr)
(* storeValue: the value of a definition.                                  *)
StoreValue(m, t, dst, pr) ==
  IF HasSetf("setf-move-init", t) /\ SameStruct(t, pr.type)
     /\ ~pr.lvalue /\ ~pr.type.const
    THEN LET from(r) == Yes(MoveInit(IF pr.destruct THEN Shared(r.m, Value(r.m, pr))
                                     ELSE r.m, dst, r.pr.at), r.pr)
         IN  from(SetAddress(m, pr))
  ELSE IF ~CopyPermitted(t) THEN No(m)
  ELSE IF HasSetf("setf-copy-init", t) /\ SameType(t, pr.type)
    THEN Yes(CopyInit(m, dst, Value(m, pr)), pr)
  ELSE IF Equal([pr.type EXCEPT !.const = FALSE], t, TRUE, FALSE)
    THEN Yes(Store(StoredAsIs(m, t, pr), dst, Value(m, pr)), pr)
  ELSE No(m)

(* FormProcSetfProcess: dst is the address and t the type of what is set.  *)
SetfProcess(m, dst, t, value, core) ==
  LET done == Result(BoolType, IntVal(1))
      from(r) == Yes(MoveAssign(r.m, dst, r.pr.at), done)
      over(m2) == Yes(Destruct(Store(m2, dst, Value(m, value)), value),
                      [done EXCEPT !.nocopy = TRUE])
  IN  IF ~core /\ HasSetf("setf-move-assign", t) /\ SameStruct(t, value.type)
         /\ ~value.lvalue /\ ~value.type.const
        THEN from(SetAddress(m, value))
      ELSE IF ~CopyPermitted(t) \/ ~SetFrom(t, value.type, FALSE, FALSE) THEN No(m)
      ELSE IF ~core /\ HasSetf("setf-copy-assign", t)
        THEN Yes(Destruct(CopyAssign(m, dst, Value(m, value)), value), done)
      ELSE over(Lost(StoredAsIs(m, t, value), Load(m, dst)))

(***************************************************************************)
(* Forms.  p is the ParseResult a form is given, which may have a slot for *)
(* the retval of a call in it.                                             *)
(***************************************************************************)
RECURSIVE Eval(_, _, _, _), Run(_, _, _)
Inner(m, e) == Eval(m, e, NoType, NewPR)
Set(p, type, v) == [p EXCEPT !.type = type, !.val = v]
AddressIn(v) == IF "ptr" \in DOMAIN v THEN v.ptr ELSE NullPtr
Truth(b) == IntVal(IF b THEN 1 ELSE 0)

Mut_IntLiteral(n, wanted) == Set(NewPR, IntType, IntVal(n % 2^Bits(IntType)))
IntLiteral(n, wanted) ==
  LET t == IF IsInteger(wanted) THEN Basic(wanted.base) ELSE IntType
  IN  Set(NewPR, t, IntVal(n % 2^Bits(IF IsInteger(wanted) THEN wanted ELSE t)))

(* parseVariableLiteral: an array is a pointer to its first element unless *)
(* the array itself is wanted.                                             *)
Variable(m, x, wanted, p) ==
  LET v == m.scope[x]
  IN  IF x \notin DOMAIN m.scope THEN No(m)
      ELSE IF v.type.kind # "array"
        THEN Yes(m, [Set(p, v.type, Load(m, v.at)) EXCEPT !.at = v.at, !.lvalue = TRUE])
      ELSE IF wanted # NoType /\ SameType(v.type, wanted)
        THEN Yes(m, [Set(p, v.type, Load(m, v.at)) EXCEPT !.lvalue = FALSE])
      ELSE Yes(m, [Set(p, PointerTo(Pointee(v.type)), Ptr(Append(v.at, 1)))
                     EXCEPT !.at = v.at, !.lvalue = TRUE, !.atType = PointerTo(v.type)])

AddressOf(m, e, p) ==
  LET x == e.a[1].x
      of(s) == Yes(s.m, Result(AddressType(s.pr), Ptr(s.pr.at)))
      with(r) == IF ~r.ok \/ ~r.pr.lvalue THEN No(m) ELSE of(SetAddress(r.m, r.pr))
  IN  IF e.a[1].f = "var" /\ x \in DOMAIN m.scope
        THEN Yes(m, Set(p, PointerTo(m.scope[x].type), Ptr(m.scope[x].at)))
      ELSE with(Eval(m, e.a[1], NoType, p))

Dereference(m, e, p) ==
  LET with(r) ==
        IF ~r.ok \/ r.pr.type.kind # "pointer" THEN No(m)
        ELSE IF Pointee(r.pr.type).base = "void" THEN No(m)
        ELSE Yes(Destruct(r.m, r.pr),
                 [Set(p, Pointee(r.pr.type), NoVal) EXCEPT
                    !.at = AddressIn(Value(r.m, r.pr)), !.atType = r.pr.type,
                    !.lvalue = TRUE, !.nocopy = @ \/ e.core])
  IN  with(Inner(m, e.a[1]))

MemberIndex(t, x) == {i \in DOMAIN MembersOf(t) : MembersOf(t)[i][1] = x}
Mut_MemberType(t, i) == MembersOf(t)[i][2]
(* The members of what is const are const.                                 *)
MemberType(t, i) ==
  IF t.const THEN ConstOf(MembersOf(t)[i][2]) ELSE MembersOf(t)[i][2]
(* A member of a temporary is pointed to when the temporary is destroyed.  *)
Sref(m, e, p) ==
  LET member(s, t, i) ==
        Yes(Destruct(IF s.pr.destruct THEN Shared(s.m, Value(s.m, s.pr)) ELSE s.m, s.pr),
            Set(p, PointerTo(MemberType(t, i)), Ptr(Append(s.pr.at, i))))
      with(r) ==
        IF ~r.ok \/ r.pr.type.kind # "struct" THEN No(m)
        ELSE IF MemberIndex(r.pr.type, e.x) = {} THEN No(m)
        ELSE member(SetAddress(r.m, r.pr), r.pr.type,
                    CHOOSE k \in MemberIndex(r.pr.type, e.x) : TRUE)
  IN  with(Inner(m, e.a[1]))

Shift(a, n) == [a EXCEPT ![Len(a)] = @ + n]
Index(m, pr) == LET v == Value(m, pr) IN IF "int" \in DOMAIN v THEN v.int ELSE 0
Aref(m, e, p) ==
  LET element(array, s, a, i) ==
        IF ~i.ok \/ ~IsInteger(i.pr.type) THEN No(m)
        ELSE Yes(Destruct(IF array THEN i.m ELSE Destruct(i.m, s.pr), i.pr),
                 Set(p, PointerTo(Pointee(s.pr.type)),
                     Ptr(Shift(a, Signed(Index(i.m, i.pr), Bits(i.pr.type))))))
      of(array, s) ==
        element(array, s, IF array THEN Append(s.pr.at, 1) ELSE AddressIn(Value(s.m, s.pr)),
                Inner(s.m, e.a[2]))
      with(r) ==
        IF ~r.ok \/ r.pr.type.kind \notin {"array", "pointer"} THEN No(m)
        ELSE IF r.pr.type.kind = "array" THEN of(TRUE, SetAddress(r.m, r.pr))
        ELSE of(FALSE, r)
  IN  with(Inner(m, e.a[1]))

(* Both forms of a pair, the second after the first.                       *)
Pair(m, e) ==
  LET both(one, two) ==
        [ok |-> one.ok /\ two.ok, m |-> two.m, one |-> one.pr, two |-> two.pr,
         a |-> AddressIn(Value(two.m, one.pr)), b |-> Value(two.m, two.pr)]
      with(one) == both(one, Inner(one.m, e.a[2]))
  IN  with(Inner(m, e.a[1]))
DestructTwo(r, type, v, p) ==
  Yes(Destruct(Destruct(r.m, r.one), r.two), Set(p, type, v))

(* p+ and p-: the number of elements is cast to an intptr, so it is filled *)
(* with zeros when it is narrower, though it be negative.  (An address as  *)
(* the second operand, which they take too, is left out: what it would     *)
(* give is the address of nothing.)                                        *)
PtrMove(m, r, p, sign) ==
  LET by == sign * CastInt(IF "int" \in DOMAIN r.b THEN r.b.int ELSE 0,
                           r.two.type, Basic("intptr"))
      moved(a) == Ptr([a EXCEPT ![Len(a)] = (@ + by) % 2^Bits(Basic("intptr"))])
  IN  IF ~r.ok \/ r.one.type.kind # "pointer" \/ ~IsInteger(r.two.type) THEN No(m)
      ELSE DestructTwo(r, r.one.type, moved(r.a), p)
PtrAdd(m, e, p)      == PtrMove(m, Pair(m, e), p, 1)
PtrSubtract(m, e, p) == PtrMove(m, Pair(m, e), p, -1)

PtrCompare(m, r, p, holds) ==
  IF ~r.ok \/ {r.one.type.kind, r.two.type.kind} # {"pointer"} THEN No(m)
  ELSE DestructTwo(r, BoolType, Truth(holds), p)
PtrEquals(m, e, p) ==
  LET with(r) == PtrCompare(m, r, p, r.a = AddressIn(r.b)) IN with(Pair(m, e))
PtrLessThan(m, e, p) ==
  LET with(r) == PtrCompare(m, r, p, Number(r.a) < Number(AddressIn(r.b))) IN with(Pair(m, e))
PtrGreaterThan(m, e, p) ==
  LET with(r) == PtrCompare(m, r, p, Number(r.a) > Number(AddressIn(r.b))) IN with(Pair(m, e))

NullPointer(m, e, p) == Yes(m, Set(p, PointerTo(e.t), Ptr(NullPtr)))

(* null: the address is converted to an int, the upper part of it is lost. *)
Null(m, e, p) ==
  LET zero(v) == Number(AddressIn(v)) % 2^Bits(IntType) = 0
      with(r) == IF ~r.ok \/ r.pr.type.kind # "pointer" THEN No(m)
                 ELSE Yes(Destruct(r.m, r.pr),
                          Set(p, BoolType, Truth(zero(Value(r.m, r.pr)))))
  IN  with(Inner(m, e.a[1]))

CastForm(m, e, p) ==
  LET with(r) == IF ~r.ok THEN No(m)
                 ELSE IF SameType(r.pr.type, e.t) THEN r
                 ELSE IF ~Castable(r.pr.type, e.t) THEN No(m)
                 ELSE Yes(Destruct(r.m, r.pr),
                          Set(p, e.t, CastValue(Value(r.m, r.pr), r.pr.type, e.t)))
  IN  with(Inner(m, e.a[1]))

(***************************************************************************)
(* Literals.                                                               *)
(***************************************************************************)
(* A struct literal: members are evaluated for the types they are to have, *)
(* and stored as they are, integers converted.                             *)
MemberValue(m, t, pr) ==
  IF Equal(pr.type, t, TRUE, FALSE) THEN {Value(m, pr)}
  ELSE IF IsInteger(t) /\ IsInteger(pr.type)
    THEN {CastValue(Value(m, pr), pr.type, t)}
  ELSE {}
StructLiteral(m, e, t, p) ==
  LET at == NextCell(m)
      put(x, i, r, v) ==
        [x EXCEPT !.m = Store(IF r.pr.destruct THEN Lost(r.m, v) ELSE Shared(r.m, v),
                              Append(at, i), v)]
      fail(x) == [x EXCEPT !.ok = FALSE]
      value(x, i, r, vs) ==
        IF ~r.ok \/ vs = {} THEN fail(x) ELSE put(x, i, r, CHOOSE v \in vs : TRUE)
      typed(x, i, u, r) == value(x, i, r, MemberValue(r.m, u, r.pr))
      of(x, i, u, form) == typed(x, i, u, Eval(x.m, form, u, NewPR))
      found(x, is, form) ==
        IF ~x.ok \/ is = {} THEN fail(x)
        ELSE LET i == CHOOSE k \in is : TRUE IN of(x, i, MembersOf(t)[i][2], form)
      member(x, pair) == found(x, MemberIndex(t, pair[1]), pair[2])
      done(all) ==
        IF ~all.ok THEN No(m)
        ELSE Yes(all.m, [Set(p, t, Load(all.m, at)) EXCEPT !.at = at, !.lvalue = TRUE])
  IN  done(FoldLeft(member, [ok |-> TRUE, m |-> Alloca(m, JunkOf(t))], e.a))

(* An array literal: the values of the elements are loaded when all of     *)
(* them have been evaluated.                                               *)
ArrayLiteral(m, e, t, p) ==
  LET u   == Pointee(t)
      add(x, r) == IF ~r.ok \/ ~SameType(r.pr.type, u) THEN [x EXCEPT !.ok = FALSE]
                   ELSE [x EXCEPT !.m = r.m, !.prs = Append(@, r.pr)]
      element(x, form) == IF x.ok THEN add(x, Eval(x.m, form, u, NewPR)) ELSE x
      marked(x, pr) == IF pr.destruct THEN Lost(x, Value(x, pr)) ELSE Shared(x, Value(x, pr))
      made(all, val) ==
        Yes(FoldLeft(marked, Alloca(all.m, val), all.prs),
            [Set(p, ArrayOf(u, Len(e.a)), val) EXCEPT
               !.at = Append(NextCell(all.m), 1), !.lvalue = FALSE,
               !.atType = PointerTo(u)])
      done(all) ==
        IF ~all.ok \/ t.size \notin {0, Len(e.a)} THEN No(m)
        ELSE made(all, Agg([i \in DOMAIN all.prs |-> Value(all.m, all.prs[i])]))
  IN  done(FoldLeft(element, [ok |-> TRUE, m |-> m, prs |-> <<>>], e.a))

Mut_LiteralValue(t, e) ==
  [ok |-> e.f = "int", v |-> IF e.f = "int" THEN IntLiteral(e.n, NoType).val ELSE NoVal]
RECURSIVE LiteralValue(_, _)
(* FormLiteralParse, for the value of a global variable: the values of a   *)
(* struct literal are taken in the order in which they are written.        *)
LiteralValue(t, e) ==
  LET typed(i) == IF t.kind = "array" THEN Pointee(t)
                  ELSE LET k == CHOOSE k \in MemberIndex(t, e.a[i][1]) : TRUE
                       IN  MembersOf(t)[k][2]
      form(i)  == IF t.kind = "array" THEN e.a[i] ELSE e.a[i][2]
      parts    == [i \in DOMAIN e.a |-> LiteralValue(typed(i), form(i))]
      no       == [ok |-> FALSE, v |-> NoVal]
  IN  IF IsInteger(t) /\ e.f = "int" THEN [ok |-> TRUE, v |-> IntLiteral(e.n, t).val]
      ELSE IF ~(t.kind = "array" /\ e.f = "array" /\ e.a # <<>>)
              /\ ~(t.kind = "struct" /\ e.f = "struct" /\ e.x = "") THEN no
      ELSE IF t.kind = "struct" /\ \E i \in DOMAIN e.a : MemberIndex(t, e.a[i][1]) = {}
        THEN no
      ELSE IF \E i \in DOMAIN e.a : ~parts[i].ok THEN no
      ELSE [ok |-> TRUE, v |-> Agg([i \in DOMAIN e.a |-> parts[i].v])]

(* array-of: a literal whose type is part of it.                           *)
ArrayOfForm(m, e, p) == ArrayLiteral(m, e, e.t, p)

(* FormProcTokenParse: a number, true, false, a character or a variable.   *)
BoolLiteral(e, p) == Set(p, BoolType, Truth(e.x = "true"))
CharLiteral(e, p) == Set(p, Basic("char"), IntVal(e.n % 2^Bits(Basic("char"))))
Token(m, e, wanted, p) ==
  CASE e.f = "int"  -> Yes(m, LET r == IntLiteral(e.n, wanted) IN Set(p, r.type, r.val))
    [] e.f = "bool" -> Yes(m, BoolLiteral(e, p))
    [] e.f = "char" -> Yes(m, CharLiteral(e, p))
    [] e.f = "var"  -> Variable(m, e.x, wanted, p)
IsToken(e) == e.f \in {"int", "bool", "char", "var"}

(* The core forms that stand for others (core macros).                     *)
CoreMacros == {"setv", "@$", ":@", "@:", "@:@"}
Around(f, args, e) == [e EXCEPT !.f = f, !.a = args, !.core = FALSE]
SetV(e)             == Around("setf", <<Around("#", <<e.a[1]>>, e), e.a[2]>>, e)
ArrayDeref(e)       == Around("@", <<Around("$", e.a, e)>>, e)
DerefStruct(e)      == Around(":", <<Around("@", e.a, e)>>, e)
StructDeref(e)      == Around("@", <<Around(":", e.a, e)>>, e)
DerefStructDeref(e) == Around("@", <<Around(":", <<Around("@", e.a, e)>>, e)>>, e)
CoreMacro(m, e, wanted, p) ==
  CASE e.f = "setv" -> IF IsToken(e.a[1]) THEN Eval(m, SetV(e), wanted, p) ELSE No(m)
    [] e.f = "@$"   -> Eval(m, ArrayDeref(e), wanted, p)
    [] e.f = ":@"   -> Eval(m, DerefStruct(e), wanted, p)
    [] e.f = "@:"   -> Eval(m, StructDeref(e), wanted, p)
    [] e.f = "@:@"  -> Eval(m, DerefStructDeref(e), wanted, p)

(***************************************************************************)
(* Calls.                                                                  *)
(***************************************************************************)
(* An array that is an argument is a pointer to it.                        *)
Argument(m, pr) ==
  IF pr.type.kind = "array" THEN [NewPR EXCEPT !.type = pr.atType, !.val = Ptr(pr.at)]
  ELSE IF pr.used THEN pr ELSE [pr EXCEPT !.val = Value(m, pr)]
Arguments(m, args) ==
  LET add(x, r) == IF ~r.ok THEN [x EXCEPT !.ok = FALSE]
                   ELSE [x EXCEPT !.m = r.m, !.prs = Append(@, Argument(r.m, r.pr))]
  IN  FoldLeft(LAMBDA x, form : IF x.ok THEN add(x, Inner(x.m, form)) ELSE x,
               [ok |-> TRUE, m |-> m, prs |-> <<>>], args)
Accepts(pt, pr) ==
  /\ PassedFrom(pt, pr.type, TRUE)
  /\ pt.ref => pt.const \/ pr.lvalue
  /\ pt.rv  => ~pr.lvalue

(* processReferenceTypes: what a parameter of type pt is given.            *)
Pass(m, pt, pr) ==
  LET passed(m2, v) == [ok |-> TRUE, m |-> m2, v |-> v]
      to(s) == passed(IF pr.destruct THEN Lost(s.m, Value(s.m, s.pr)) ELSE s.m,
                      Ptr(s.pr.at))
      taken(m2, at) == passed(m2, Load(m2, at))
      from(s) == taken(MoveInit(Alloca(s.m, Junk), NextCell(s.m), s.pr.at), NextCell(s.m))
      copy(c) == [ok |-> c.ok, m |-> HandedOver(c.m, pr), v |-> Value(c.m, c.pr)]
  IN  IF pt.ref \/ pt.rv THEN to(SetAddress(m, pr))
      ELSE IF ~pr.lvalue /\ HasSetf("setf-move-init", pt) THEN from(SetAddress(m, pr))
      ELSE copy(Copy(m, pr))

PassAll(m, params, prs) ==
  LET add(x, r) == [ok |-> r.ok, m |-> r.m, vals |-> Append(x.vals, r.v)]
  IN  FoldLeft(LAMBDA x, i : IF x.ok THEN add(x, Pass(x.m, params[i][2], prs[i])) ELSE x,
               [ok |-> TRUE, m |-> m, vals |-> <<>>], [i \in DOMAIN prs |-> i])

(* The type of the slot is not compared with that of the retval.           *)
SameBits(t, u) ==
  SameType([t EXCEPT !.const = FALSE], [u EXCEPT !.const = FALSE])
Forced(p, t) ==
  IF p.slot = Nowhere \/ SameBits(p.slotType, t) THEN {} ELSE {p.slot[1]}
(* processRetval: the slot of the form if that is still to be constructed, *)
(* otherwise a new one, which is the result if there was none.             *)
Retval(m, t, p) ==
  LET own  == p.slot # Nowhere /\ p.init
      at   == IF own THEN p.slot ELSE NextCell(m)
      used == [p EXCEPT !.used = TRUE, !.slot = IF @ = Nowhere THEN at ELSE @]
      m1   == [m EXCEPT !.forced = @ \cup Forced(p, t)]
  IN  [m |-> Initialise(IF own THEN m1 ELSE Alloca(m1, JunkOf(t)), t, at),
       at |-> at, pr |-> used]

Mut_CallResult(p, type, v) == [Set(p, type, v) EXCEPT !.nocopy = TRUE]
(* The value is the caller's to destroy, and was copied by the function.   *)
CallResult(p, type, v) ==
  [Set(p, type, v) EXCEPT !.nocopy = TRUE, !.destruct = TRUE]

(* parseFunctionPointerCall: what comes back is not kept from being copied *)
(* again, and then nothing destroys it.                                    *)
PointerCallResult(m, p, type, v) ==
  Yes(Lost(m, v), [Set(p, type, v) EXCEPT !.destruct = TRUE])

(* What the slot that was passed on holds is lost if it was in use.        *)
RetvalResult(f, ret, m) ==
  LET x == [Result(f.result, Load(m, ret.at)) EXCEPT
              !.at = ret.at, !.atType = PointerTo(f.result)]
      stored(s) == Yes(Lost(s.m, Load(s.m, ret.at)), CallResult(ret.pr, f.result, NoVal))
  IN  IF ret.at = ret.pr.slot THEN Yes(m, CallResult(ret.pr, f.result, NoVal))
      ELSE stored(StoreValue(Lost(m, Load(m, ret.pr.slot)), f.result, ret.pr.slot, x))
CallWith(f, e, p, g) ==
  LET into(ret, r) == IF r.ok THEN RetvalResult(f, ret, r.m) ELSE r
      with(ret) == into(ret, Run(ret.m, f, Append(g.vals, Ptr(ret.at))))
      back(r) == IF ~r.ok THEN r
                 ELSE IF e.f = "funcall" THEN PointerCallResult(r.m, p, f.result, r.m.result)
                 ELSE Yes(r.m, CallResult(p, f.result, r.m.result))
  IN  IF ~g.ok THEN No(g.m)
      ELSE IF f.result.retval THEN with(Retval(g.m, f.result, p))
      ELSE back(Run(g.m, f, g.vals))
Call(m, e, p) ==
  LET f == Functions[e.x]
      fit(prs) == /\ Len(prs) = Len(f.params)
                  /\ \A i \in DOMAIN prs : Accepts(f.params[i][2], prs[i])
      with(a) == IF ~a.ok \/ ~fit(a.prs) THEN No(m)
                 ELSE CallWith(f, e, p, PassAll(a.m, f.params, a.prs))
  IN  with(Arguments(m, e.a))

(***************************************************************************)
(* The functions on integers that every unit has: each takes operands of   *)
(* one type, and for shifts an int.  Division and comparison go by the     *)
(* sign of the type, a shift to the right does not.                        *)
(***************************************************************************)
Abs(n) == IF n < 0 THEN -n ELSE n
Quotient(x, y) ==   \* towards zero
  IF (x < 0) = (y < 0) THEN Abs(x) \div Abs(y) ELSE -(Abs(x) \div Abs(y))
(* Dividing by zero, or the least number by -1, is undefined.              *)
Divisible(x, y, w) == y # 0 /\ (y = -1 => x # -(2^(w - 1)))
Arithmetic(op, x, y, w) ==
  CASE op = "+" -> {x + y}
    [] op = "-" -> {x - y}
    [] op = "*" -> {x * y}
    [] op = "/" -> IF Divisible(x, y, w) THEN {Quotient(x, y)} ELSE {}
    [] op = "%" -> IF Divisible(x, y, w) THEN {x - y * Quotient(x, y)} ELSE {}
Bitwise(op, a, b) ==
  CASE op = "&" -> a & b [] op = "|" -> a | b [] op = "^" -> a ^^ b
Comparison(op, x, y) ==
  CASE op = "=" -> x = y [] op = "!=" -> x # y [] op = "<"  -> x < y
    [] op = "<=" -> x <= y [] op = ">" -> x > y [] op = ">=" -> x >= y
Operators == [of |-> {"+", "-", "*", "/", "%"}, on |-> {"&", "|", "^"},
              to |-> {"=", "!=", "<", "<=", ">", ">="}, by |-> {"<<", ">>"}]

(* makeShlFunction, makeShrFunction: the int is cast to the other type.  A *)
(* shift by the width or more is undefined.                                *)
Shl(a, by, w) == IF by >= w THEN Junk ELSE IntVal((a * 2^by) % 2^w)
Shr(a, by, w) == IF by >= w THEN Junk ELSE IntVal(a \div 2^by)
UnaryMinus(a, w) == IntVal(-a % 2^w)
Negate(a, w)     == IntVal(2^w - 1 - a)

BinaryOp(op, t, a, b) ==
  LET w == Bits(t)
      num(n) == IF t.base \in SignedBases THEN Signed(n, w) ELSE n
      only(ns) == IF ns = {} THEN Junk ELSE IntVal((CHOOSE n \in ns : TRUE) % 2^w)
  IN  CASE op \in Operators.of -> only(Arithmetic(op, num(a), num(b), w))
        [] op \in Operators.on -> IntVal(Bitwise(op, a, b))
        [] op \in Operators.to -> Truth(Comparison(op, num(a), num(b)))
        [] op = "<<" -> Shl(a, CastInt(b, IntType, t), w)
        [] op = ">>" -> Shr(a, CastInt(b, IntType, t), w)
UnaryOp(op, t, a) == IF op = "-" THEN UnaryMinus(a, Bits(t)) ELSE Negate(a, Bits(t))

(* Only unsigned integers have a negation.                                 *)
Operable(op, ts) ==
  /\ \A i \in DOMAIN ts : IsInteger(ts[i]) /\ ts[i].bits = 0
  /\ CASE Len(ts) = 1 -> op = "-" \/ (op = "~" /\ ts[1].base \in UnsignedBases)
       [] Len(ts) = 2 -> ts[2].base = (IF op \in Operators.by THEN "int" ELSE ts[1].base)
       [] OTHER -> FALSE
Operator(m, e, p) ==
  LET plain(t) == [t EXCEPT !.const = FALSE]
      run(t, vs) ==
        IF \E i \in DOMAIN vs : "int" \notin DOMAIN vs[i] THEN Junk
        ELSE IF Len(vs) = 1 THEN UnaryOp(e.x, t, vs[1].int)
        ELSE BinaryOp(e.x, t, vs[1].int, vs[2].int)
      result(t) == IF e.x \in Operators.to THEN BoolType ELSE t
      with(a) ==
        IF ~a.ok THEN No(m)
        ELSE IF ~Operable(e.x, [i \in DOMAIN a.prs |-> a.prs[i].type]) THEN No(m)
        ELSE Yes(a.m, CallResult(p, result(plain(a.prs[1].type)),
                                 run(a.prs[1].type, [i \in DOMAIN a.prs |-> Value(a.m, a.prs[i])])))
  IN  with(Arguments(m, e.a))

(***************************************************************************)
(* Definitions, assignments and returns.                                   *)
(***************************************************************************)
AddVariable(m, x, t, at) ==
  [m EXCEPT !.scope = (x :> [type |-> t, at |-> at]) @@ @]

(* parseExplicitVarDefinition.  The variable is there while its value is   *)
(* evaluated, and a form that begins with init has constructed it.         *)
DefineExplicit(m, e, p) ==
  LET at == NextCell(m)
      m1 == AddVariable(Alloca(m, JunkOf(e.t)), e.x, e.t, at)
      stored(s) == IF s.ok THEN Yes(Destruct(s.m, s.pr), p) ELSE No(m)
      sized(v)  == stored(StoreValue(v.m, e.t, at, v.pr))
      unsized(v, t) ==
        stored(StoreValue(AddVariable(Alloca(v.m, JunkOf(t)), e.x, t, NextCell(v.m)),
                          t, NextCell(v.m), v.pr))
      with(v) ==
        IF ~v.ok THEN No(m)
        ELSE IF v.pr.used \/ (e.a[1].f = "call" /\ e.a[1].x = "init") THEN Yes(v.m, p)
        ELSE IF e.t.kind = "array" /\ e.t.size = 0 THEN unsized(v, v.pr.type)
        ELSE sized(v)
  IN  IF e.x \in DOMAIN m.scope THEN No(m)
      ELSE IF e.a # <<>> THEN with(Eval(m1, e.a[1], e.t, Slot(at, e.t, TRUE)))
      ELSE IF ~Has("init", e.t) /\ (e.t.const \/ Has("requires-explicit-init", e.t))
        THEN No(m)
      ELSE Yes(Initialise(m1, e.t, at), Set(p, IntType, IntVal(0)))

(* parseImplicitVarDefinition.                                             *)
DefineImplicit(m, e, p) ==
  LET stored(s) == IF s.ok THEN Yes(Destruct(s.m, s.pr), p) ELSE No(m)
      new(v, t) ==
        stored(StoreValue(AddVariable(Alloca(v.m, JunkOf(t)), e.x, t, NextCell(v.m)),
                          t, NextCell(v.m), v.pr))
      with(v) ==
        IF ~v.ok \/ v.pr.type = Void THEN No(m)
        ELSE IF v.pr.used THEN Yes(AddVariable(v.m, e.x, v.pr.type, v.pr.slot), p)
        ELSE new(v, v.pr.type)
  IN  IF e.a = <<>> \/ e.x \in DOMAIN m.scope THEN No(m)
      ELSE with(Inner(m, e.a[1]))

Define(m, e, p) ==
  LET int == [Set(p, IntType, IntVal(0)) EXCEPT !.nocopy = TRUE, !.destruct = FALSE]
  IN  IF e.t = Implied THEN DefineImplicit(m, e, int) ELSE DefineExplicit(m, e, int)

(* FormProcSetfParse: the call whose retval is the variable itself is all  *)
(* there is to do.                                                         *)
Setf(m, e, p) ==
  LET value(dst, t, v) ==
        IF ~v.ok THEN No(m)
        ELSE IF v.pr.used THEN Yes(v.m, [p EXCEPT !.type = Void])
        ELSE SetfProcess(v.m, dst, t, v.pr, e.core)
      of(r, dst, t) ==
        IF t.const THEN No(m) ELSE value(dst, t, Eval(r.m, e.a[2], t, Slot(dst, t, FALSE)))
      with(r) == IF ~r.ok \/ r.pr.type.kind # "pointer" THEN No(m)
                 ELSE of(r, AddressIn(Value(r.m, r.pr)), Pointee(r.pr.type))
  IN  with(Inner(m, e.a[1]))

RECURSIVE DoForms(_, _, _)
DoForms(m, forms, p) ==
  LET with(r) == IF ~r.ok THEN No(m) ELSE DoForms(Destruct(r.m, r.pr), Tail(forms), p)
  IN  IF forms = <<>> THEN Yes(m, Set(p, Void, NoVal))
      ELSE IF Len(forms) = 1 THEN Eval(m, forms[1], NoType, p)
      ELSE with(Inner(m, Head(forms)))

(* CloseScope, for all variables of the function.                          *)
CloseScope(m) ==
  [FoldLeft(LAMBDA x, y : DestroyValue(x, m.scope[y].type, Load(x, m.scope[y].at)),
            m, SetToSeq(DOMAIN m.scope)) EXCEPT !.scope = <<>>]

RealResult(t) == IF t.retval THEN Void ELSE t

(* Objects that are destroyed when the value at an address is read, though *)
(* it is one of them, holds one, or is a part of one.                      *)
RECURSIVE Holders(_, _)
Holders(v, path) ==
  IF path = <<>> \/ "agg" \notin DOMAIN v THEN ObjsIn(v)
  ELSE IF Head(path) \in DOMAIN v.agg THEN Holders(v.agg[Head(path)], Tail(path))
  ELSE {}
ReadDead(m, pr) ==
  IF pr.val # NoVal \/ pr.used \/ pr.at = Nowhere \/ pr.at[1] \notin DOMAIN m.cells
    THEN {}
  ELSE {k \in Holders(m.cells[pr.at[1]], Tail(pr.at)) : m.objs[k] = "dead"}

Ended(m, v) == Yes([m EXCEPT !.done = TRUE, !.result = v], NewPR)
(* FormProcReturnParse, where a value that was moved is not moved from.  A *)
(* value of which only the address is known, unless it is copied, is read  *)
(* when the variables have been destroyed.                                 *)
Return(m, pr, result) ==
  LET read(x, c) ==
        Ended([x EXCEPT !.stale = @ \cup ReadDead(x, c), !.late = @ \cup ReadDead(x, c)],
              Value(x, c))
      with(c) == IF c.ok THEN read(CloseScope(HandedOver(c.m, pr)), c.pr) ELSE No(m)
  IN  IF ~Equal(pr.type, RealResult(result), FALSE, FALSE) THEN No(m)
      ELSE with(Copy(m, pr))
(* The last form of a function, whose value is read before, and returned,  *)
(* or lost if the function has no result.                                  *)
Leave(m, pr, result) ==
  LET of(c, v) ==
        IF RealResult(result) = Void THEN Ended(CloseScope(Lost(c.m, v)), NoVal)
        ELSE IF ~PassedFrom(result, pr.type, FALSE) THEN No(m)
        ELSE Ended(CloseScope(HandedOver([c.m EXCEPT !.stale = @ \cup ReadDead(c.m, c.pr)],
                                         pr)), v)
      with(c) == IF c.ok THEN of(c, Value(c.m, c.pr)) ELSE No(m)
  IN  with(Copy(m, pr))
LastForm(m, e, result) ==
  LET returned == e.f = "return"
      with(r) == IF ~r.ok THEN No(m)
                 ELSE IF returned THEN Return(r.m, r.pr, result)
                 ELSE Leave(r.m, r.pr, result)
  IN  IF returned /\ e.a = <<>> THEN Ended(CloseScope(m), NoVal)
      ELSE with(Eval(m, IF returned THEN e.a[1] ELSE e,
                     IF returned THEN NoType ELSE result, NewPR))

(* addVariables: a parameter that is a reference is a pointer inside.      *)
Enter(m, f, vals) ==
  LET named == f.params \o
               IF f.result.retval THEN << <<"retval", RefTo(f.result)>> >> ELSE <<>>
      type(t) == IF t.ref \/ t.rv
                   THEN PointerTo([t EXCEPT !.ref = FALSE, !.rv = FALSE]) ELSE t
  IN  FoldLeft(LAMBDA x, i : AddVariable(Alloca(x, vals[i]), named[i][1],
                                         type(named[i][2]), <<Len(x.cells) + 1>>),
               [m EXCEPT !.scope = <<>>], [i \in DOMAIN named |-> i])

(* A function that is called: its forms up to the last or a return.        *)
Run(m, f, vals) ==
  LET n == Len(f.body)
      then(r) == [r EXCEPT !.m = Destruct(r.m, r.pr)]
      form(x, i) ==
        IF ~x.ok \/ x.m.done THEN x
        ELSE IF i = n \/ f.body[i].f = "return" THEN LastForm(x.m, f.body[i], f.result)
        ELSE then(Inner(x.m, f.body[i]))
      end(r) == [r EXCEPT !.m.scope = m.scope, !.m.done = FALSE]
  IN  end(FoldLeft(form, Yes(Enter(m, f, vals), NewPR), [i \in 1 .. n |-> i]))

Eval(m, e, wanted, p) ==
  CASE IsToken(e)      -> Token(m, e, wanted, p)
    [] e.f \in CoreMacros -> CoreMacro(m, e, wanted, p)
    [] e.f = "op"      -> Operator(m, e, p)
    [] e.f = "#"       -> AddressOf(m, e, p)
    [] e.f = "@"       -> Dereference(m, e, p)
    [] e.f = ":"       -> Sref(m, e, p)
    [] e.f = "$"       -> Aref(m, e, p)
    [] e.f = "p+"      -> PtrAdd(m, e, p)
    [] e.f = "p-"      -> PtrSubtract(m, e, p)
    [] e.f = "p="      -> PtrEquals(m, e, p)
    [] e.f = "p<"      -> PtrLessThan(m, e, p)
    [] e.f = "p>"      -> PtrGreaterThan(m, e, p)
    [] e.f = "null"    -> Null(m, e, p)
    [] e.f = "nullptr" -> NullPointer(m, e, p)
    [] e.f = "cast"    -> CastForm(m, e, p)
    [] e.f = "struct"  -> StructLiteral(m, e, IF e.x = "" THEN wanted ELSE StructType(e.x), p)
    [] e.f = "array"   -> ArrayLiteral(m, e, wanted, p)
    [] e.f = "array-of" -> ArrayOfForm(m, e, p)
    [] e.f \in {"call", "funcall"} -> Call(m, e, p)
    [] e.f = "move"    -> LET r == Inner(m, e.a[1]) IN [r EXCEPT !.pr = Move(@)]
    [] e.f = "do"      -> DoForms(m, e.a, p)
    [] e.f = "setf"    -> Setf(m, e, p)
    [] e.f = "def"     -> Define(m, e, p)

(***************************************************************************)
(* The program: a global variable, or a function made of the forms.  The   *)
(* two do not share anything here, so one of them is enough at a time.     *)
(***************************************************************************)
(* FormValueParse: the value of a literal, or else what an anonymous       *)
(* function that consists of the form returns when the compiler runs it.   *)
RunForm(t, e) == LastForm(NewMemory, e, t)
GlobalValue(t, e) ==
  LET ran(r) == [ok |-> r.ok, v |-> r.m.result]
      or(lit) == IF lit.ok THEN lit ELSE ran(RunForm(t, e))
  IN  or(LiteralValue(t, e))

DefineGlobal(t, e) ==
  /\ status = "running" /\ left = MaxForms
  /\ \E r \in {GlobalValue(t, e)} :
       /\ status' = IF r.ok THEN "over" ELSE "failed"
       /\ globals' = IF r.ok THEN <<[type |-> t, form |-> e, val |-> r.v]>> ELSE globals
  /\ left' = 0
  /\ UNCHANGED mem

Then(m, next) == IF m.forced # {} THEN "undefined" ELSE next
(* A form of the body, its value destroyed (FormProcBodyParseInner).       *)
Step(e) ==
  /\ status = "running" /\ left > 1 /\ e.f # "return"
  /\ \E r \in {Inner(mem, e)} :
       /\ status' = IF r.ok THEN Then(r.m, status) ELSE "failed"
       /\ mem' = IF r.ok THEN Destruct(r.m, r.pr) ELSE mem
  /\ left' = left - 1
  /\ UNCHANGED globals

Finish(e, t) ==
  /\ status = "running"
  /\ \E r \in {LastForm(mem, e, t)} :
       /\ status' = IF r.ok THEN Then(r.m, "over") ELSE "failed"
       /\ mem' = IF r.ok THEN r.m ELSE mem
  /\ left' = 0
  /\ UNCHANGED globals

Init ==
  /\ mem = NewMemory /\ status = "running" /\ left = MaxForms /\ globals = <<>>

Next ==
  \/ \E g \in Globals : DefineGlobal(g[1], g[2])
  \/ \E e \in Forms : Step(e)
  \/ \E e \in Forms, t \in Results : Finish(e, t)

Spec == Init /\ [][Next]_vars

(***************************************************************************)
(* Properties.                                                             *)
(***************************************************************************)
RECURSIVE Fits(_, _)
Fits(v, t) ==
  \/ v = Junk
  \/ /\ t.kind = "basic" /\ "int" \in DOMAIN v
     /\ v.int \in 0 .. 2^Bits(t) - 1
  \/ t.kind = "pointer" /\ "ptr" \in DOMAIN v
  \/ IsManaged(t) /\ "obj" \in DOMAIN v /\ v.obj \in 0 .. Len(mem.objs)
  \/ /\ "agg" \in DOMAIN v
     /\ IF t.kind = "array"
          THEN Len(v.agg) = t.size /\ \A i \in DOMAIN v.agg : Fits(v.agg[i], Pointee(t))
          ELSE /\ t.kind = "struct" /\ Len(v.agg) = Len(MembersOf(t))
               /\ \A i \in DOMAIN v.agg : Fits(v.agg[i], MembersOf(t)[i][2])

(* What is stored in a variable is a value of the type it was declared     *)
(* with, whichever definition, assignment or conversion put it there, but  *)
(* for the retval of a call, which goes to where it is wanted whatever its *)
(* type is (storeValue, FormProcSetfProcess, Cast, and processRetval).     *)
TypeOK ==
  /\ status \in {"running", "failed", "over", "undefined"} /\ left \in 0 .. MaxForms
  /\ \A x \in DOMAIN mem.scope :
       LET v == mem.scope[x]
       IN  v.at[1] \in mem.forced \/ Fits(Load(mem, v.at), v.type)
  /\ \A i \in DOMAIN globals : Fits(globals[i].val, globals[i].type)

(* "The following types operate in the same way as the corresponding C     *)
(* type: `bool` (`bool`)" (doc/1-3-types.md): a bool is true or false.  It *)
(* is not so: what is cast to bool keeps its lower bits (Cast).            *)
BoolsAsInC ==
  /\ \A x \in DOMAIN mem.scope :
       mem.scope[x].type = BoolType => Load(mem, mem.scope[x].at) \in {Truth(TRUE), Truth(FALSE)}
  /\ \A i \in DOMAIN globals :
       globals[i].type = BoolType => globals[i].val \in {Truth(TRUE), Truth(FALSE)}

(* "They are run when a value of the relevant type goes out of scope"      *)
(* (doc/1-8-init-destroy.md): an object is destroyed once at most, and     *)
(* nothing is that was never made, unless its bits were handed on by one   *)
(* of the forms listed above (Shared).                                     *)
DestroyedOnce == mem.twice \subseteq mem.shared /\ ~mem.junk

(* ... and that without exception.  It is not so: a temporary that is moved *)
(* into the variable it defines is destroyed although it was moved from.   *)
NeverTwice == mem.twice = {}

(* When the function is over, what it made is destroyed or returned, but   *)
(* for what those forms left behind.                                       *)
NothingLeft ==
  status = "over" =>
    \A k \in DOMAIN mem.objs :
      mem.objs[k] = "live" => k \in ObjsIn(mem.result) \cup mem.lost \cup mem.shared

(* What a function returns, and what setf-copy-init is given, is not part  *)
(* of an object that has been destroyed: the variables of a function are   *)
(* left after its value was copied or read, and arguments are copied       *)
(* before a call.  What a return reads by its address, when the variables  *)
(* have been destroyed, is excepted (FormProcReturnParse: late).           *)
NoneStale ==
  LET excepted == mem.shared \cup mem.late
  IN  /\ mem.stale \subseteq excepted
      /\ status = "over" =>
           \A k \in ObjsIn(mem.result) : mem.objs[k] = "dead" => k \in excepted
      /\ \A x \in DOMAIN mem.scope :
           \A k \in ObjsIn(Load(mem, mem.scope[x].at)) :
             mem.objs[k] = "dead" => k \in excepted

RECURSIVE WithoutArrays(_, _)
WithoutArrays(v, t) ==
  IF t.kind = "array" THEN NoVal
  ELSE IF "agg" \in DOMAIN v
    THEN Agg([i \in DOMAIN v.agg |-> WithoutArrays(v.agg[i], MembersOf(t)[i][2])])
  ELSE v
KeptIn(Of(_, _)) ==
  \A x \in DOMAIN mem.scope \cap DOMAIN mem'.scope :
    LET t == mem.scope[x].type
        is(m) == Of(Load(m, mem.scope[x].at), t)
    IN  t.const => is(mem') \in {is(mem), Obj(0)}

(* No form changes a const variable that another form defined, whatever    *)
(* pointers and references it goes through, but for the elements of its    *)
(* arrays: parseVariableLiteral and FormProcArefParse point to them as if  *)
(* they were not const.  Moving is excepted: an argument that was moved is *)
(* taken from a const variable, too (see Pass).                            *)
ConstKept == [][KeptIn(WithoutArrays)]_vars

(* "Const semantics are the same as in C" (doc/1-3-types.md), for arrays   *)
(* and their elements as well.  It is not so, see ConstKept.               *)
All(v, t) == v
ConstAsInC == [][KeptIn(All)]_vars

(* What a global variable has for its value is what a variable of the      *)
(* function has that is defined with the same form.                        *)
Local(t, e) == [e EXCEPT !.f = "def", !.x = "g", !.t = t, !.a = <<e>>]
Agrees(g) ==
  \A r \in {Inner(NewMemory, Local(g.type, g.form))} :
    r.ok => Load(r.m, r.m.scope["g"].at) = g.val
InMemberOrder(t, e) ==
  t.kind = "struct" /\ e.f = "struct" =>
    Len(e.a) = Len(MembersOf(t)) /\ \A i \in DOMAIN e.a : e.a[i][1] = MembersOf(t)[i][1]
(* ... if a struct literal has its members in the order of the struct.     *)
GlobalsAgree ==
  \A i \in DOMAIN globals :
    InMemberOrder(globals[i].type, globals[i].form) => Agrees(globals[i])

=============================================================================
