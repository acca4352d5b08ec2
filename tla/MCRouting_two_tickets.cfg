SPECIFICATION MCSpec
CHECK_DEADLOCK FALSE
CONSTANTS
  Tickets = {t1, t2}
  Owners = {o1}
  PlannedOwner = o1
  Terms = {w1, w2}
  Registered <- RegisteredOf
  None = None
  Clients = {c1}
  Asks = {k1, k2}
  Confirms = {f1}
  RequestIds = {1}
  MaxOpenings = 2
  TheTicket = t1
  TheTerms = w1
  TheQuestion = k1
  MaxSignals = 3
  Agents = {a1, a2}
  LeaseRefs = {l1, l2}
  SideContexts = {s1, s2, s3}
  Lanes <- ThreeLanes
  ContextSources = {v1, v2}
  Returns = {e1, e2}
  FreshIds = TRUE
  MaxCrashes = 2
INVARIANTS QuestionsAgree RoundIsSound
PROPERTIES KeepsDesk LastWordCounts ViewsEndForGood LeasesChangeHands
SYMMETRY Interchangeable
