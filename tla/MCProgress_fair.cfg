SPECIFICATION MCSpec
CHECK_DEADLOCK FALSE
CONSTANTS
  Refs = {e1, e2, e3}
  First = e1
  Receipts = {r1, r2}
  FirstReceipt = r1
  Base <- BaseOf
  Machines = {m1}
  Home = m1
  Luna = Luna
  Terra = Terra
  Models = {Luna, Terra}
  Nobody = Nobody
  Adopting = TRUE
  MaxCommits = 2
  MaxPlans = 2
  NoLease = NoLease
  None = None
  t1 = t1
  t2 = t2
  o1 = o1
  q1 = q1
  m = m
PROPERTIES
  SuccessionIsClean KeepsSuccession ReplacementsEnd
  IntegrationGoesOn SilenceIsNoticed QuestionCloses RunsEnd SignalEndsWait
