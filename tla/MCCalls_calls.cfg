CONSTANTS
  Forms <- MCForms
  Procs <- MCProcs
  CoreForms <- MCCoreForms
  Variables <- MCVariables
  Pointed <- MCPointed
  MaxForms = 2
SPECIFICATION Spec
CHECK_DEADLOCK FALSE
INVARIANTS
  EarlierKept
  FailureReported
  InOrderOnce
  GoesOn
