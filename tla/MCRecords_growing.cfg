SPECIFICATION MCSpec
CHECK_DEADLOCK FALSE
CONSTANTS
  p1 = p1
  p2 = p2
  None = None
  Policies = {p1, p2}
  OtherPolicies = {p3}
  Incoming <- MixedEvents
  Required <- OneOrTwo
  Target <- Two
  Cap <- One
  EventIds = {e1, e2, e3}
  Codes = {"PAUSE"}
  MaxEvents = 4
  Callers = {ann, bob, rev}
  Architects = {ann, bob}
  ContextRefs = {ctx, foreign}
  TheContext = ctx
  Stages = {"ARCHITECTURE", "CONTEXT", "SPEC"}
  Manifests <- TwoManifests
  MaxEditions = 1
  Sources = {"spec", "ticket"}
  RequiredSources <- SpecificationThenTicket
  CitedEvents = {e1}
  Consumers = {c1}
  TokensOf <- TokensPerRevision
  TokenBudget = 3
  MaxRevision = 2
INVARIANTS CountsAreSound AuditExplains
PROPERTIES ContextIsControlled InvalidationHolds
