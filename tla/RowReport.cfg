SPECIFICATION FairSpec
CONSTANTS
  Free = Free
  s1 = s1
  s2 = s2
  f1 = f1
  Kinds <- MCKinds
  Stages = {s1, f1}
  KindOf <- MCKindOf
  MaxRows = 1
  MaxCalls = 2
  MaxReports = 2
  MaxFailures = 1
INVARIANTS
  ReportIsExact
  DeliveredOnce
PROPERTIES
  ImplementsTally
  GraphCatchesUp
  StagesGoOn
CHECK_DEADLOCK FALSE
