---------------------------- MODULE MCOverloads ----------------------------
(* Instances of Overloads for TLC.                                         *)
EXTENDS Overloads

TInt    == Basic("int")
Str    == PointerTo(Basic("char"))
CStr   == PointerTo(ConstOf(Basic("char")))
FnStr  == PointerTo(FunctionType(Basic("int"), <<Str>>))
FnCStr == PointerTo(FunctionType(Basic("int"), <<CStr>>))

MCUsed2 == <<"a", "b">>

Def(params, linkage, inline, decl) ==
  [params |-> params, linkage |-> linkage, inline |-> inline, decl |-> decl]

EInt    == <<"int">>
EStr    == <<"p", <<"char">>>>
ECStr   == <<"p", <<"const", <<"char">>>>>>
EFnCStr == <<"p", <<"fn", <<"int">>, <<ECStr>>>>>>
ENode   == <<"p", <<"DNode">>>>

MCDefinitions ==
  {Def(<<<<"ref", EInt>>>>, "intern", FALSE, FALSE),
   Def(<<<<"ref", EInt>>>>, "extern_c", FALSE, TRUE),
   Def(<<<<"rv-ref", EInt>>>>, "intern", FALSE, FALSE),
   Def(<<EStr>>, "intern", TRUE, TRUE), Def(<<EStr>>, "intern", FALSE, FALSE),
   Def(<<EStr>>, "intern", FALSE, TRUE), Def(<<EStr>>, "extern_c", FALSE, FALSE),
   Def(<<EFnCStr>>, "intern", FALSE, FALSE),
   Def(<<EInt, <<"...">>>>, "intern", FALSE, FALSE),
   Def(<<EInt, <<"...">>>>, "extern_c", FALSE, TRUE)}
MCMacroParams == {<<EInt>>, <<<<"...">>>>}
MCTypeExpressions ==
  {<<"ref", <<"const", EStr>>>>, ECStr, <<"array-of", 2, EInt>>,
   <<"array-of", 3, <<"const", EStr>>>>, <<"rv-ref", EInt>>, <<"const", EInt>>,
   <<"p", <<"ref", EInt>>>>, <<"retval", EInt>>, <<"bf", EInt, 3>>}
MCProvided ==
  {[ret |-> <<"retval", <<"array-of", 2, <<"const", EStr>>>>>>,
    params |-> <<<<"ref", <<"const", EStr>>>>>>]}
MCArguments ==
  {<<Arg(TInt, "yes")>>, <<Arg(TInt, "no")>>, <<Arg(ConstOf(TInt), "no")>>,
   <<Arg(CStr, "no")>>,
   <<Arg(FnStr, "no")>>, <<Arg(FnCStr, "no")>>,
   <<[Arg(Str, "yes") EXCEPT !.arr = <<ArrayOf(Basic("char"), 2)>>]>>,
   <<Arg(TInt, "no"), Arg(TInt, "no")>>}
=============================================================================
