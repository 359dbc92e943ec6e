SPECIFICATION Spec
CONSTANTS
  kr = kr
  None = None
  Terminating = Terminating
  Claims = {c1}
  ClaimName <- OwnNames
  Vols = {v1, v2}
  Nodes = {n1}
  Classes = {kd, kr}
  Policy <- MCPolicy
  Immediate = {kr}
  Method = "annotation"
  Procs = {p1}
  Choices <- AnyChoice
  RetrySteps = 2
  MaxFaults = 2
SYMMETRY VolSymmetry
CHECK_DEADLOCK FALSE
INVARIANTS TypeOK BoundVolumeKept NoDoomedVolume HandoverComplete BondedAtRest
