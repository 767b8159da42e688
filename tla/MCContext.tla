----------------------------- MODULE MCContext -----------------------------
(* Instances of Context for TLC: one namespace name, few variables.        *)
EXTENDS Context

CONSTANTS A, V1, V2, F1

MCNsNames == {A}
MCVarNames1 == {V1}
MCVarNames2 == {V1, V2}
MCFunNames == {F1}
=============================================================================
