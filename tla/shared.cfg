SPECIFICATION Spec
CONSTANTS
  kr = kr
  None = None
  Terminating = Terminating
  Claims = {c1, c2}
  ClaimName <- OwnNames
  Vols = {v1, v2}
  Nodes = {n1}
  Classes = {kd}
  Policy <- MCPolicy
  Immediate = {}
  Method = "pod"
  Procs = {p1}
  Choices <- Served
  RetrySteps = 2
  MaxFaults = 0
SYMMETRY VolSymmetry
CHECK_DEADLOCK FALSE
INVARIANTS NoVolumeShared
