SPECIFICATION Spec
CONSTANTS
  p1 = p1
  p2 = p2
  a1 = a1
  a2 = a2
  a3 = a3
  e1 = e1
  t1 = t1
  t2 = t2
  s1 = s1
  s2 = s2
  NoOne = NoOne
  Proposals <- OneProposal
  Approvals <- OneApproval
  Edits <- NoEdit
  Targets <- OneTarget
  Servers <- OneServer
  Faults <- Disconnects
  MaxRev = 2
INVARIANT
  AuditReflectsReality
CHECK_DEADLOCK FALSE
