SPECIFICATION MCSpec
CHECK_DEADLOCK FALSE
CONSTANTS
  Refs = {e1, e2, e3}
  First = e1
  Receipts = {r1}
  FirstReceipt = r1
  Base <- FromTheStart
  Machines = {m1}
  Home = m1
  Luna = Luna
  Terra = Terra
  Models = {Luna, Terra}
  Nobody = Nobody
  Adopting = FALSE
  MaxCommits = 0
  MaxPlans = 2
  NoLease = NoLease
  LunaTotal = 1
  TerraInactivity = 2
  MaxClock = 4
  MaxLeases = 2
  MaxFacts = 2
INVARIANT PredecessorsAreSilent
PROPERTIES LeaseEndsInTime KeepsWatch
