CONSTANTS
  Used <- MCUsed2
  Definitions <- MCDefinitions
  MacroParams <- MCMacroParams
  Arguments <- MCArguments
  TypeExpressions <- MCTypeExpressions
  Provided <- MCProvided
  MaxFunctions = 3
SPECIFICATION Spec
CHECK_DEADLOCK FALSE
INVARIANTS
  TypeOK
  TypesDenote
  EnteredOnce
  OrderOfDefinition
  ArgumentsFit
