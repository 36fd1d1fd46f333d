SPECIFICATION Spec
CONSTANTS
  p1 = p1
  p2 = p2
  a1 = a1
  a2 = a2
  a3 = a3
  e1 = e1
  t1 = t1
  t2 = t2
  s1 = s1
  s2 = s2
  NoOne = NoOne
  Proposals <- OneProposal
  Approvals <- OneApproval
  Edits <- OneEdit
  Targets <- OneTarget
  Servers <- OneServer
  Faults <- NoFaults
  MaxRev = 2
PROPERTY
  EditKeepsConcurrentChange
CHECK_DEADLOCK FALSE
