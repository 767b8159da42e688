CONSTANTS
  Structs <- MCStructs
  Managed <- MCManaged
  Defined <- MCDefined
  Functions <- MCFunctions
  Forms <- MCMovedForms
  Results <- MCResults
  Globals <- MCGlobals
  Width <- MCWidth
  CellStep = 4
  MaxForms = 4
SPECIFICATION Spec
CHECK_DEADLOCK FALSE
INVARIANT NeverTwice
