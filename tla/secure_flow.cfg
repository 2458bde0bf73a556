SPECIFICATION Spec
CONSTANTS
  Half = 4
  NotInt = NotInt
  NotNumber = NotNumber
  NoResult = NoResult
  Sessions = {1, 2}
  Configs <- SomeConfigs
  ArgPairs <- SomeArgs
  MaxRestarts = 1
  MaxEnds = 1
  Alice = Alice
  Bob = Bob
  None = None
CHECK_DEADLOCK FALSE
INVARIANTS
  TypeOK
  ClusteredAdmitsOnce
  TraceConforms
  CheckerIsExact
  AuditTrail
  ResultAnswersAction
PROPERTY
  FlowEnds
