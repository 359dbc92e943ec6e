SPECIFICATION FairSpec
CONSTANTS
  kr = kr
  None = None
  Terminating = Terminating
  Claims = {c1}
  ClaimName <- OwnNames
  Vols = {v1}
  Nodes = {n1}
  Classes = {kd}
  Policy <- MCPolicy
  Immediate = {}
  Method = "annotation"
  Procs = {p1}
  Choices <- Served
  RetrySteps = 2
  MaxFaults = 0
CHECK_DEADLOCK FALSE
PROPERTIES BoundIsNoticed
