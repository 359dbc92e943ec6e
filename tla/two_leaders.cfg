SPECIFICATION ElectedSpec
CONSTANTS
  None = None
  Terminating = Terminating
  Claims = {c1}
  ClaimName <- OwnNames
  Vols = {v1}
  Nodes = {n1}
  Classes = {kd}
  Policy <- AllDelete
  Immediate = {}
  Method = "annotation"
  Procs = {p1, p2}
  Choices <- Served
  RetrySteps = 2
  MaxFaults = 0
  LeaseDuration = 3
  RenewDeadline = 2
  RetryPeriod = 1
  Delay = 1
  MaxStarts = 2
SYMMETRY ProcSymmetry
CHECK_DEADLOCK FALSE
INVARIANTS KeptUnlessHung
