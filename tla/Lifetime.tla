------------------------------ MODULE Lifetime ------------------------------
(***************************************************************************)
(* What the language promises of the values of a function's local          *)
(* variables: a destructor runs when a value goes out of scope, so it runs *)
(* on no value that was not constructed, no value is constructed over      *)
(* another, and no function returns with a value left.                     *)
(***************************************************************************)
EXTENDS Integers

CONSTANT Objects      \* the variables

VARIABLES
  alive,  \* the number of values each variable holds
  over    \* whether the function has returned

Init ==
  /\ alive = [o \in Objects |-> 0]
  /\ over = FALSE

Construct(o) ==
  /\ alive[o] = 0
  /\ alive' = [alive EXCEPT ![o] = 1]
  /\ UNCHANGED over

(* The variables of a scope, or of all those that are left at once.        *)
Destruct ==
  /\ alive' \in [Objects -> {0, 1}]
  /\ alive' # alive
  /\ \A o \in Objects : alive'[o] <= alive[o]
  /\ UNCHANGED over

Return ==
  /\ \A o \in Objects : alive[o] = 0
  /\ over' = TRUE
  /\ UNCHANGED alive

Next == ~over /\ ((\E o \in Objects : Construct(o)) \/ Destruct \/ Return)

Spec == Init /\ [][Next]_<<alive, over>>
=============================================================================
