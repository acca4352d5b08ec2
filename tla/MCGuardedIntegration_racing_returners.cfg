SPECIFICATION Spec
CONSTANTS
  r1 = r1
  r2 = r2
  w = w
  p1 = p1
  p2 = p2
  NoThread = NoThread
  NoReturn = NoReturn
  NoAudit = NoAudit
  Threads = {r1, r2}
  Returners = {r1, r2}
  Returns <- MCReturnsRacing
  Plans <- MCPlans
  Proposals = {p1}
  DependsOn <- MCDependsOn
  PortChecksRevision = FALSE
INVARIANT
  IntegrationExclusive
PROPERTY
  MainNeverRegresses
