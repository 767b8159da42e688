CONSTANTS
  ModuleOrder <- MCModuleOrder
  Definitions <- MCDefinitions
  Headers <- MCHeaders
  Asks <- MCAsks
  Begins <- MCBegins
  Options <- MCOptions
  MaxSessions = 3
  MaxForms = 3
SPECIFICATION Spec
CHECK_DEADLOCK FALSE
INVARIANTS
  TypeOK
  Delivers
  InterfaceKept
  VisibleIsLinked
  LibrariesFirst
PROPERTIES
  OnlyAsked
  IncludeOnce
