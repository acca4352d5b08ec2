SPECIFICATION Spec
CONSTANTS
  r1 = r1
  r2 = r2
  w = w
  p1 = p1
  p2 = p2
  NoThread = NoThread
  NoReturn = NoReturn
  NoAudit = NoAudit
  Threads = {r1, w}
  Returners = {r1}
  Returns <- MCReturns
  Plans <- MCPlans
  Proposals = {p1, p2}
  DependsOn <- MCDependsOn
  PortChecksRevision = FALSE
INVARIANT
  PendingAuditNamesMain
PROPERTIES
  IntegratedOnce
  IntegratesInTurn
  ImplementsGate
  AuditRequestedOnce
