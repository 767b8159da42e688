------------------------------ MODULE MCValues ------------------------------
(* Instances of Values for TLC: a struct T that manages an object (its     *)
(* member n is a part of that), a struct U that may only be moved, a       *)
(* struct B of two numbers, a struct C that has a T for a member, and a    *)
(* struct D that has an array.                                             *)
EXTENDS Values

F(f, a, x, t) == [f |-> f, a |-> a, x |-> x, t |-> t, n |-> 0, core |-> FALSE]
N(n)         == [F("int", <<>>, "", NoType) EXCEPT !.n = n]
V(x)         == F("var", <<>>, x, NoType)
At(e)        == F("#", <<e>>, "", NoType)
Deref(e)     == F("@", <<e>>, "", NoType)
Member(e, x) == F(":", <<e>>, x, NoType)
Element(e, i) == F("$", <<e, N(i)>>, "", NoType)
Setting(e, v) == F("setf", <<e, v>>, "", NoType)
Defining(x, t, a) == F("def", a, x, t)
Calling(x, a) == F("call", a, x, NoType)
Moved(e)     == F("move", <<e>>, "", NoType)
Do(a)        == F("do", a, "", NoType)
Core(e)      == [e EXCEPT !.core = TRUE]
StructOf(x, a) == F("struct", a, x, NoType)

\* A number as a value of an integer type.
As(t, n)     == F("cast", <<N(n)>>, "", t)
Op(op, a)    == F("op", a, op, NoType)

T == StructType("T")
U == StructType("U")
B == StructType("B")
C == StructType("C")
D == StructType("D")
TInt8 == Basic("int8")
Pair8 == ArrayOf(TInt8, 2)

MCStructs == [T |-> << <<"n", IntType>> >>,
              D |-> << <<"r", Pair8>>, <<"k", TInt8>> >>,
              B |-> << <<"m", TInt8>>, <<"n", IntType>> >>,
              U |-> <<>>,
              C |-> << <<"k", TInt8>>, <<"o", T>> >>]
MCManaged == {"T", "U"}
MCDefined == {"init", "setf-copy-init", "setf-copy-assign", "setf-move-init",
              "setf-move-assign", "destroy"} \X {"T"}
             \cup {"init", "setf-move-init", "destroy", "setf-copy-disabled"} \X {"U"}
MCWidth   == [b \in IntegerBases \cup {"bool"} |->
                CASE b \in {"int8", "uint8", "char", "bool"} -> 2 [] b \in {"int", "uint"} -> 4
                  [] OTHER -> 6]

MCFunctions ==
  [make  |-> [params |-> <<>>, result |-> T,
              body |-> <<Defining("r", T, <<>>), V("r")>>],
   pass  |-> [params |-> << <<"v", T>> >>, result |-> T,
              body |-> <<F("return", <<Moved(V("v"))>>, "", NoType)>>],
   look  |-> [params |-> << <<"v", RefTo(T)>> >>, result |-> T,
              body |-> <<Deref(V("v"))>>],
   put   |-> [params |-> << <<"v", T>> >>, result |-> RetvalOf(T),
              body |-> <<Setting(V("retval"), V("v"))>>]]

MCResults == {Void, T, IntType}
X == V("x")
TheN(e) == F("@:", <<e>>, "n", NoType)
Numbers(a, b) == F("array-of", <<N(a), N(b)>>, "", Pair8)
MCBools  == {Defining("e", BoolType, <<As(BoolType, n)>>) : n \in {0, 1, 2, 8}}
MCArrays ==
  {Defining("k", ConstOf(Pair8), <<Numbers(1, 2)>>), Defining("h", D, <<>>),
   Defining("d", ConstOf(D), <<V("h")>>), Setting(Element(V("k"), 0), N(3)),
   Setting(Element(F("@:", <<V("d")>>, "r", NoType), 0), N(3)),
   Setting(Member(V("d"), "k"), N(3)), Setting(Member(V("d"), "r"), Numbers(1, 2))}
MCForms ==
  MCBools \cup MCArrays \cup
  {\* definitions of a T and of what contains one
   Defining("x", T, <<>>), Defining("y", T, <<X>>),
   Defining("y", T, <<Moved(X)>>), Defining("y", T, <<Calling("make", <<>>)>>),
   Defining("y", Implied, <<Calling("put", <<X>>)>>),
   Defining("x", ConstOf(T), <<Calling("put", <<Calling("make", <<>>)>>)>>),
   Defining("s", C, <<>>), Defining("t", ConstOf(C), <<V("s")>>),
   Defining("v", ArrayOf(T, 2), <<>>),
   Defining("y", T, <<F("@:", <<V("s")>>, "o", NoType)>>),
   \* pointers to them
   Defining("p", Implied, <<At(X)>>), Defining("q", PointerTo(T), <<Element(V("v"), 1)>>),
   Setting(V("p"), Calling("make", <<>>)), Setting(V("p"), X),
   Setting(Member(V("s"), "o"), Deref(V("p"))),
   Setting(F("p-", <<F("p+", <<V("q"), N(1)>>, "", NoType), N(1)>>, "", NoType), X),
   Setting(Member(V("t"), "o"), Moved(Deref(V("p")))),
   \* assignments, calls and what they leave
   F("setv", <<X, V("y")>>, "", NoType), Setting(At(X), Moved(V("y"))),
   Setting(At(X), Calling("put", <<V("y")>>)),
   Calling("pass", <<Moved(X)>>), Calling("pass", <<X>>),
   Calling("pass", <<Calling("make", <<>>)>>),
   Calling("look", <<Deref(V("p"))>>),
   F("funcall", <<X>>, "pass", NoType),
   X, Do(<<X, Moved(X)>>), F("return", <<X>>, "", NoType),
   TheN(X), F("return", <<TheN(X)>>, "", NoType), F("return", <<Deref(V("p"))>>, "", NoType),
   \* a retval where a number is wanted
   Defining("i", TInt8, <<Calling("put", <<X>>)>>), Setting(At(V("i")), Calling("put", <<X>>)),
   Defining("v", ArrayOf(T, 0), <<F("array-of", <<Calling("make", <<>>), X>>, "", ArrayOf(T, 2))>>),
   Defining("u", U, <<>>), Defining("w", U, <<Moved(V("u"))>>), Defining("w", U, <<V("u")>>),
   \* numbers
   Defining("i", TInt8, <<N(3)>>),
   Defining("b", ConstOf(B), <<StructOf("B", << <<"n", N(9)>>, <<"m", V("i")>> >>)>>),
   Setting(F(":@", <<At(V("b"))>>, "m", NoType), N(2)),
   Setting(At(V("i")), F("cast", <<F("@:@", <<At(V("b"))>>, "n", NoType)>>, "", TInt8)),
   Defining("a", ArrayOf(TInt8, 0), <<F("array-of", <<V("i"), N(1)>>, "", ArrayOf(TInt8, 2))>>),
   Setting(Element(V("a"), 1), F("@$", <<V("a"), N(0)>>, "", NoType)),
   Defining("e", BoolType, <<F("p<", <<V("a"), Element(V("a"), 1)>>, "", NoType)>>),
   Defining("e", BoolType, <<F("null", <<F("nullptr", <<>>, "", T)>>, "", NoType)>>)}
MCMovedForms == {Defining("y", T, <<Calling("make", <<>>)>>), Defining("x", T, <<V("y")>>)}
Nil == F("nullptr", <<>>, "", T)
MCGlobals ==
  {<<B, StructOf("", << <<"m", N(5)>>, <<"n", N(7)>> >>)>>,
   <<B, StructOf("", << <<"n", N(3)>>, <<"m", N(2)>> >>)>>,
   <<ArrayOf(TInt8, 2), F("array", <<N(5), N(1)>>, "", NoType)>>,
   <<TInt8, As(TInt8, 9)>>, <<TInt8, N(9)>>,
   <<Basic("char"), F("char", <<>>, "", NoType)>>,
   <<BoolType, F("bool", <<>>, "true", NoType)>>, <<BoolType, As(BoolType, 2)>>,
   <<BoolType, F("p=", <<Nil, Nil>>, "", NoType)>>, <<BoolType, F("p>", <<Nil, Nil>>, "", NoType)>>}
  \cup UNION {{<<IF op \in Operators.to THEN BoolType ELSE t, Op(op, <<As(t, x), As(t, y)>>)>> :
                x, y \in {0, 3, 7, 8, 15}, op \in Operators.of \cup Operators.on \cup Operators.to} :
              t \in {IntType, Basic("uint")}}
  \cup {<<Basic("uint"), Op(op, <<As(Basic("uint"), x), N(y)>>)>> :
           op \in Operators.by, x \in {1, 13}, y \in {0, 1, 3, 4}}
  \cup {<<IntType, Op(op, <<N(x), N(y)>>)>> : op \in Operators.by, x \in {1, 13}, y \in {0, 1}}
  \cup {<<t, Op(op, <<As(t, x)>>)>> : t \in {IntType, Basic("uint")}, op \in {"-", "~"}, x \in {0, 5, 8}}
=============================================================================
