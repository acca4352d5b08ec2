SPECIFICATION MCSpec
CHECK_DEADLOCK FALSE
CONSTANTS
  Tickets = {t1}
  Owners = {o1}
  PlannedOwner = o1
  Terms = {w1, w2}
  Registered <- RegisteredOf
  None = None
  Clients = {c1}
  Asks = {k1}
  Confirms = {f1}
  RequestIds = {1}
  MaxOpenings = 2
  TheTicket = t1
  TheTerms = w1
  TheQuestion = k1
  MaxSignals = 0
  Agents = {a1}
  LeaseRefs = {l1}
  SideContexts = {s1}
  Lanes <- ThreeLanes
  ContextSources = {v1}
  Returns = {e1}
  FreshIds = TRUE
  MaxCrashes = 0
INVARIANT ReceiptConsumedOnce
