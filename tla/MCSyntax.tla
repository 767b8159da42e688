------------------------------ MODULE MCSyntax ------------------------------
(* Instances of Syntax for TLC.  Files are put together from pieces, which *)
(* are characters, begin and end comments, or quote a character.           *)
EXTENDS Syntax

CONSTANTS MaxPieces, Endings
Pieces == {<<"(">>, <<")">>, <<"\"">>, <<"a">>, <<"-">>, <<"0">>, <<".">>,
           <<";">>, <<"\n">>, <<"#", "|">>, <<"|", "#">>, <<"#", "\\">>}
MCFiles ==
  {FlattenSeq(p) \o e : p \in UNION {[1 .. n -> Pieces] : n \in 0 .. MaxPieces},
                        e \in Endings}
MCDigits == {"0"}
MCHexDigits == {"0", "a"}
Both == {<<>>, <<"\n">>}
=============================================================================
