SPECIFICATION FairElectionSpec
CONSTANTS
  Procs = {p1, p2, p3}
  LeaseDuration = 5
  RenewDeadline = 2
  RetryPeriod = 1
  Delay = 1
  MaxStarts = 3
CHECK_DEADLOCK FALSE
INVARIANTS ElectionTypeOK OneLeads TwoNeedHang
PROPERTIES TakesOver
