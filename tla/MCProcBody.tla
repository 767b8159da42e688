----------------------------- MODULE MCProcBody -----------------------------
(* Instances of ProcBody for TLC.                                          *)
EXTENDS ProcBody

CONSTANTS A, V1, V2, F1, L1, L2

MCNsNames == {A}
MCVarNames1 == {V1}
MCVarNames2 == {V1, V2}
MCFunNames == {F1}
MCLabelNames == {L1}
MCLabelNames2 == {L1, L2}
=============================================================================
