SPECIFICATION Spec
CONSTANTS
  MaxFaults = 2
  None = None
  Missing = Missing
  Blank = Blank
  PageSize <- MCPageSize
  DefaultSize = 50
INVARIANTS
  TypeOK
  DatabaseInitialised
  PageHonoured
  FailureIsContained
  CutIsNoticed
PROPERTIES
  NothingLeftUntold
  EndsWithItsServer
  CompleteIsKept
  LinkIsRepaired
  
  SchemaIsSeeded
