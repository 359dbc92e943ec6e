SPECIFICATION FairSpec
CONSTANTS
  kr = kr
  None = None
  Terminating = Terminating
  Claims = {c1}
  ClaimName <- OwnNames
  Vols = {v1, v2}
  Nodes = {n1}
  Classes = {kd}
  Policy <- MCPolicy
  Immediate = {}
  Method = "pod"
  Procs = {p1}
  Choices <- AnyChoice
  RetrySteps = 2
  MaxFaults = 1
CHECK_DEADLOCK FALSE
INVARIANTS BoundVolumeKept HandoverComplete
PROPERTIES PodDeletedFirst ProvisionReturns HandedOver
