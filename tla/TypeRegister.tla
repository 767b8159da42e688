---------------------------- MODULE TypeRegister ----------------------------
(***************************************************************************)
(* The objects that hold types.  A register r is a record: r.obj are the   *)
(* Type objects that exist, each a type whose sub are numbers of objects;  *)
(* r.memo is what the maps of TypeRegister hold, from the constructor and  *)
(* its arguments to an object.  Every method is an operator that returns   *)
(* the register with the number of its result: [reg |-> r, id |-> n].      *)
(*                                                                         *)
(* FormTypeParse and FormParameterParse build types from expressions,      *)
(* tuples such as <<"p", <<"int">>>> and <<"array-of", 2, <<"char">>>>.    *)
(***************************************************************************)
EXTENDS Types

NoId    == 0     \* NULL: there was an error
CrashId == -1    \* NULL was dereferenced

(* The value of an object.                                                 *)
Value(r, id) ==
  LET val[i \in 1 .. id] ==
        [r.obj[i] EXCEPT !.sub = [k \in DOMAIN @ |-> val[@[k]]]]
  IN  val[id]

Res(r, id) == [reg |-> r, id |-> id]
New(r, object) == Res([r EXCEPT !.obj = Append(@, object)], Len(r.obj) + 1)

(* What a map holds for a key, or a new object that is entered.            *)
Remember(r, key, id) == Res([r EXCEPT !.memo = @ @@ (key :> id)], id)
Memo(r, key, object) ==
  IF key \in DOMAIN r.memo THEN Res(r, r.memo[key])
  ELSE LET n == New(r, object) IN Remember(n.reg, key, n.id)

(* Type::makeCopy: a copy all the way down, with objects of its own.       *)
RECURSIVE MakeCopy(_, _)
MakeCopy(r, o) ==
  LET below[k \in 0 .. Len(o.sub)] ==
        IF k = 0 THEN [reg |-> r, ids |-> <<>>]
        ELSE LET c == MakeCopy(below[k - 1].reg, r.obj[o.sub[k]])
             IN  [reg |-> c.reg, ids |-> Append(below[k - 1].ids, c.id)]
      over(b) == New(b.reg, [o EXCEPT !.sub = b.ids])
  IN  over(below[Len(o.sub)])

(* getConstType and the others that set one field of a copy.               *)
Flagged(r, key, id, field, value) ==
  LET set(c) == Remember([c.reg EXCEPT !.obj[c.id][field] = value], key, c.id)
  IN  IF key \in DOMAIN r.memo THEN Res(r, r.memo[key])
      ELSE set(MakeCopy(r, r.obj[id]))

GetBasicType(r, b) == Memo(r, <<"basic", b>>, Basic(b))
GetStructType(r, nm) == Memo(r, <<"struct", nm>>, StructType(nm))
GetPointerType(r, id) ==
  Memo(r, <<"p", id>>, [NoType EXCEPT !.kind = "pointer", !.sub = <<id>>])
GetArrayType(r, id, n) ==
  Memo(r, <<"array", id, n>>,
       [NoType EXCEPT !.kind = "array", !.sub = <<id>>, !.size = n])
GetBitfieldType(r, id, n) == Flagged(r, <<"bf", id, n>>, id, "bits", n)
GetConstType(r, id)     == Flagged(r, <<"const", id>>, id, "const", TRUE)
GetReferenceType(r, id) == Flagged(r, <<"ref", id>>, id, "ref", TRUE)
GetRvalueReferenceType(r, id) == Flagged(r, <<"rv-ref", id>>, id, "rv", TRUE)
GetRetvalType(r, id)    == Flagged(r, <<"retval", id>>, id, "retval", TRUE)

(* getType: the registered object for a type held in other objects.  A     *)
(* flag is taken off, the rest looked up, and the flag put back.  Here o   *)
(* is what such an object holds, its sub being objects already.            *)
RECURSIVE GetType(_, _)
GetType(r, o) ==
  LET inner(rest) == GetType(r, rest)
      of == GetType(r, r.obj[o.sub[1]])
  IN  CASE o.const -> LET t == inner([o EXCEPT !.const = FALSE])
                      IN  GetConstType(t.reg, t.id)
        [] ~o.const /\ o.ref -> LET t == inner([o EXCEPT !.ref = FALSE])
                                IN  GetReferenceType(t.reg, t.id)
        [] ~o.const /\ ~o.ref /\ o.rv ->
             LET t == inner([o EXCEPT !.rv = FALSE])
             IN  GetRvalueReferenceType(t.reg, t.id)
        [] ~o.const /\ ~o.ref /\ ~o.rv /\ o.retval ->
             LET t == inner([o EXCEPT !.retval = FALSE])
             IN  GetRetvalType(t.reg, t.id)
        [] OTHER ->
             CASE o.kind = "array" -> LET t == of
                                      IN  GetArrayType(t.reg, t.id, o.size)
               [] o.kind = "pointer" -> LET t == of
                                        IN  GetPointerType(t.reg, t.id)
               [] o.kind = "struct" -> GetStructType(r, o.name)
               [] o.kind = "basic" /\ o.bits # 0 ->
                    LET t == inner([o EXCEPT !.bits = 0])
                    IN  GetBitfieldType(t.reg, t.id, o.bits)
               [] o.kind = "basic" /\ o.bits = 0 -> GetBasicType(r, o.base)
               [] o.kind = "function" -> MakeCopy(r, o)

Mut_Written(t) == [t EXCEPT !.rv = FALSE, !.const = FALSE]
(* What serialise writes of a type: everything but that it is an rvalue    *)
(* reference.                                                              *)
RECURSIVE Written(_)
Written(t) ==
  [t EXCEPT !.rv = FALSE, !.sub = [k \in DOMAIN @ |-> Written(@[k])]]

(* deserialise: what a type is made of is looked up first, so that its     *)
(* parts are registered objects; then the type itself.                     *)
RECURSIVE GetForeignType(_, _)
GetForeignType(r, t) ==
  LET below[k \in 0 .. Len(t.sub)] ==
        IF k = 0 THEN [reg |-> r, ids |-> <<>>]
        ELSE LET c == GetForeignType(below[k - 1].reg, t.sub[k])
             IN  [reg |-> c.reg, ids |-> Append(below[k - 1].ids, c.id)]
      over(b) == GetType(b.reg, [t EXCEPT !.sub = b.ids])
  IN  over(below[Len(t.sub)])

(***************************************************************************)
(* FormTypeParse.  Where bitfields, references and retvals are permitted   *)
(* is passed down; references and retvals only one level.                  *)
(***************************************************************************)
Allowing(bits, refs, retvals) ==
  [bits |-> bits, refs |-> refs, retvals |-> retvals]
Nested(allow) == Allowing(allow.bits, FALSE, FALSE)

RECURSIVE ParseType(_, _, _), ParseParameters(_, _, _)
ParseType(r, e, allow) ==
  LET head == e[1]
      inner == ParseType(r, e[2], Nested(allow))
      failed == Res(inner.reg, inner.id)
      wrap(Get(_, _)) == IF inner.id <= NoId THEN failed ELSE Get(inner.reg, inner.id)
  IN  CASE Len(e) = 1 /\ head \in Bases -> GetBasicType(r, head)
        [] Len(e) = 1 /\ head \notin Bases -> GetStructType(r, head)
        [] head = "ref" -> IF allow.refs THEN wrap(GetReferenceType) ELSE Res(r, NoId)
        [] head = "rv-ref" ->
             IF allow.refs THEN wrap(GetRvalueReferenceType) ELSE Res(r, NoId)
        [] head = "retval" ->
             IF allow.retvals THEN wrap(GetRetvalType) ELSE Res(r, NoId)
        [] head = "bf" ->
             IF ~allow.bits THEN Res(r, NoId)
             ELSE LET t == ParseType(r, e[2], Allowing(FALSE, FALSE, FALSE))
                  IN  IF t.id <= NoId THEN Res(t.reg, CrashId)
                      ELSE IF t.reg.obj[t.id].base \notin IntegerBases THEN Res(t.reg, NoId)
                      ELSE GetBitfieldType(t.reg, t.id, e[3])
        [] head = "const" -> wrap(GetConstType)
        [] head = "array-of" ->
             LET t == ParseType(r, e[3], Nested(allow))
             IN  IF t.id <= NoId THEN t ELSE GetArrayType(t.reg, t.id, e[2])
        [] head = "p" -> wrap(GetPointerType)
        [] head = "fn" ->
             LET ret == ParseType(r, e[2], Allowing(allow.bits, FALSE, TRUE))
                 ps  == ParseParameters(ret.reg, e[3], Allowing(allow.bits, TRUE, FALSE))
             IN  IF ret.id <= NoId THEN ret
                 ELSE IF ret.reg.obj[ret.id].kind = "array" THEN Res(ret.reg, NoId)
                 ELSE IF ~ps.ok THEN Res(ps.reg, NoId)
                 ELSE New(ps.reg, [NoType EXCEPT !.kind = "function",
                                                 !.sub = <<ret.id>> \o ps.ids])

(* FormParameterParse for each of a list, and what parseParameters and the *)
(* fn type require of the result: void alone, varargs last, no function    *)
(* but behind a pointer.                                                   *)
NextParameter(p, t, only, last) ==
  LET o    == t.reg.obj[t.id]
      void == o.base = "void"
  IN  [reg |-> t.reg,
       ids |-> IF t.id <= NoId \/ void THEN p.ids ELSE Append(p.ids, t.id),
       ok  |-> t.id > NoId /\ (void => only) /\ (o.base = "..." => last)
               /\ o.kind # "function"]
ParseParameters(r, es, allow) ==
  LET upto[k \in 0 .. Len(es)] ==
        IF k = 0 THEN [reg |-> r, ids |-> <<>>, ok |-> TRUE]
        ELSE IF ~upto[k - 1].ok THEN upto[k - 1]
        ELSE NextParameter(upto[k - 1], ParseType(upto[k - 1].reg, es[k], allow),
                           Len(es) = 1, k = Len(es))
  IN  upto[Len(es)]

(* The register as constructed: the basic types are in it.                 *)
NewRegister ==
  [obj |-> <<Basic("int"), Basic("char"), StructType("DNode"),
             [NoType EXCEPT !.kind = "pointer", !.sub = <<3>>]>>,
   memo |-> (<<"basic", "int">> :> 1) @@ (<<"basic", "char">> :> 2)
            @@ (<<"struct", "DNode">> :> 3) @@ (<<"p", 3>> :> 4)]

(* What an expression denotes, by its form alone.                          *)
RECURSIVE Denotes(_)
Denotes(e) ==
  CASE Len(e) = 1 /\ e[1] \in Bases    -> Basic(e[1])
    [] Len(e) = 1 /\ e[1] \notin Bases -> StructType(e[1])
    [] e[1] = "ref"      -> RefTo(Denotes(e[2]))
    [] e[1] = "rv-ref"   -> RvRefTo(Denotes(e[2]))
    [] e[1] = "retval"   -> RetvalOf(Denotes(e[2]))
    [] e[1] = "bf"       -> Bitfield(Denotes(e[2]), e[3])
    [] e[1] = "const"    -> ConstOf(Denotes(e[2]))
    [] e[1] = "array-of" -> ArrayOf(Denotes(e[3]), e[2])
    [] e[1] = "p"        -> PointerTo(Denotes(e[2]))
    [] e[1] = "fn"       ->
         FunctionType(Denotes(e[2]), [k \in DOMAIN e[3] |-> Denotes(e[3][k])])
=============================================================================
