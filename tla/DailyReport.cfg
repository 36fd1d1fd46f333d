SPECIFICATION Spec
CONSTANTS
  Second = 2
  Minute = 2
  Day = 4
  Capacity = 2
  MaxDays = 2
  Horizon = 8
INVARIANTS
  TypeOK
  RingHoldsNewest
  OneReportPerDay
PROPERTIES
  NoDaySkipped
  ReportCountsDay
CHECK_DEADLOCK FALSE
