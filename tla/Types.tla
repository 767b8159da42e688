------------------------------- MODULE Types -------------------------------
(***************************************************************************)
(* The types of the compiler as values: what Type::isEqualTo, canBeSetFrom,*)
(* canBePassedFrom, toSymbolString and the queries on base types compute.  *)
(* TypeRegister models the objects that hold them.                         *)
(*                                                                         *)
(* A type is a record.  Its sub is the pointee of a pointer, the element   *)
(* of an array, and the return type and parameters of a function; struct   *)
(* names stand for the qualified name, the namespaces included.            *)
(***************************************************************************)
EXTENDS Integers, Sequences, SequencesExt

SignedBases   == {"int", "char", "int8", "int16", "int32", "int64", "int128"}
UnsignedBases == {"uint", "intptr", "size", "ptrdiff", "uint8", "uint16",
                  "uint32", "uint64", "uint128"}
IntegerBases  == SignedBases \cup UnsignedBases
FloatBases    == {"float", "double", "long-double"}
Bases == IntegerBases \cup FloatBases \cup {"void", "bool", "..."}

NoType == [kind |-> "none", base |-> "", name |-> "", const |-> FALSE,
           ref |-> FALSE, rv |-> FALSE, retval |-> FALSE, bits |-> 0,
           size |-> 0, sub |-> <<>>]

Basic(b)       == [NoType EXCEPT !.kind = "basic", !.base = b]
StructType(nm) == [NoType EXCEPT !.kind = "struct", !.name = nm]
PointerTo(t)   == [NoType EXCEPT !.kind = "pointer", !.sub = <<t>>]
ArrayOf(t, n)  == [NoType EXCEPT !.kind = "array", !.sub = <<t>>, !.size = n]
FunctionType(ret, params) ==
  [NoType EXCEPT !.kind = "function", !.sub = <<ret>> \o params]
ConstOf(t)  == [t EXCEPT !.const = TRUE]
RefTo(t)    == [t EXCEPT !.ref = TRUE]
RvRefTo(t)  == [t EXCEPT !.rv = TRUE]
RetvalOf(t) == [t EXCEPT !.retval = TRUE]
Bitfield(t, n) == [t EXCEPT !.bits = n]

PDNode    == PointerTo(StructType("DNode"))
PMContext == PointerTo(StructType("MContext"))
VarArgs   == Basic("...")

(* The index of a base type in the numbering of integerTypeToSize: exact   *)
(* sizes in bits, or 1 to 4 for the sizes that depend on the machine, and  *)
(* 1000 more than its width for a bitfield.                                *)
IntegerSize(t) ==
  IF t.bits # 0 THEN 1000 + t.bits
  ELSE CASE t.base \in {"char", "int8", "uint8"} -> 8
         [] t.base \in {"int", "uint"}           -> 1
         [] t.base = "intptr"                    -> 2
         [] t.base = "size"                      -> 3
         [] t.base = "ptrdiff"                   -> 4
         [] t.base \in {"int16", "uint16"}       -> 16
         [] t.base \in {"int32", "uint32"}       -> 32
         [] t.base \in {"int64", "uint64"}       -> 64
         [] t.base \in {"int128", "uint128"}     -> 128
         [] OTHER                                -> 0

FloatSize(t) ==
  CASE t.base = "float" -> 1 [] t.base = "double" -> 2
    [] t.base = "long-double" -> 3 [] OTHER -> 0

Mut_Constness(a, b, iac) == a.const = b.const \/ iac
(* A type that is not const may stand for one that is, where constness of  *)
(* arguments is ignored; never the other way round.                        *)
Constness(a, b, iac) == a.const = b.const \/ (iac /\ ~a.const /\ b.const)

(* isEqualTo (Equal), and what its recursion needs of the functions below  *)
(* it: the parameters of a pointed-to function are compared as arguments   *)
(* would be when an argument is being checked (passing).                   *)
RECURSIVE Equal(_, _, _, _)
SetFrom(a, value, iac, passing) ==
  LET v == [value EXCEPT !.const = FALSE]
  IN  IF a.kind = "pointer" /\ v.kind = "pointer"
        THEN Equal(v, a, iac, passing) ELSE Equal(a, v, iac, passing)
PassedFrom(a, value, iac) ==
  SetFrom([a EXCEPT !.const = FALSE], value, iac, TRUE)

Equal(a, b, iac, passing) ==
  /\ ~(a.ref /\ b.rv) /\ ~(a.rv /\ b.ref)
  /\ a.kind = b.kind /\ a.base = b.base /\ a.name = b.name
  /\ a.bits = b.bits /\ a.size = b.size
  /\ Constness(a, b, iac)
  /\ CASE a.kind \in {"pointer", "array"} ->
            Equal(a.sub[1], b.sub[1], iac, passing)
       [] a.kind = "function" ->
            /\ Len(a.sub) = Len(b.sub)
            /\ Equal(a.sub[1], b.sub[1], FALSE, FALSE)
            /\ \A i \in 2 .. Len(a.sub) :
                 IF passing THEN PassedFrom(a.sub[i], b.sub[i], TRUE)
                            ELSE Equal(a.sub[i], b.sub[i], FALSE, FALSE)
       [] OTHER -> TRUE

SameType(a, b) == Equal(a, b, FALSE, FALSE)
SameTypes(s, t) ==
  Len(s) = Len(t) /\ \A i \in 1 .. Len(s) : SameType(s[i], t[i])

(* toSymbolString: what a type adds to the symbol of a function that has a *)
(* parameter of it.  Constness, bitfields, and the reference to a pointer  *)
(* or an array are not written.                                            *)
RECURSIVE SymbolOf(_)
SymbolOf(t) ==
  CASE t.kind = "pointer" -> <<"P">> \o SymbolOf(t.sub[1])
    [] t.kind = "array"   -> <<"A", ToString(t.size)>> \o SymbolOf(t.sub[1])
    [] t.kind \notin {"pointer", "array"} /\ t.ref ->
         <<"R">> \o SymbolOf([t EXCEPT !.ref = FALSE])
    [] t.kind \notin {"pointer", "array"} /\ ~t.ref /\ t.rv ->
         <<"V">> \o SymbolOf([t EXCEPT !.rv = FALSE])
    [] t.kind = "basic" /\ ~t.ref /\ ~t.rv    -> <<t.base>>
    [] t.kind = "struct" /\ ~t.ref /\ ~t.rv   -> <<"Z", t.name>>
    [] t.kind = "function" /\ ~t.ref /\ ~t.rv ->
         <<"F">> \o FlattenSeq([i \in 1 .. Len(t.sub) |-> SymbolOf(t.sub[i])])
           \o <<"E">>
=============================================================================
