SPECIFICATION Spec
CHECK_DEADLOCK FALSE
CONSTANTS
  Tickets = {t1}
  Owners = {o1}
  PlannedOwner = o1
  Terms = {m1}
  TheTerms = m1
  None = None
  Planning = Planning
  Question1 = q1
  MaxAutoSteps = 1
  Obedient = FALSE
  Registered <- RegisteredOf
PROPERTY KeepsGates
