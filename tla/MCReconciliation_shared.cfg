SPECIFICATION Spec
CHECK_DEADLOCK FALSE
CONSTANTS
  i1 = i1
  i2 = i2
  i3 = i3
  k1 = k1
  k2 = k2
  e1 = e1
  e2 = e2
  t1 = t1
  t2 = t2
  t3 = t3
  t4 = t4
  NoRef = NoRef
  Transactions <- MCTransactions
  Orders <- MCOrders
  TxOf <- MCTxOf
  Restored <- FromElsewhere
  Issues = {1, 2}
INVARIANTS KeySpentOnce RefundedOnceAfterConfirm ReplayIsApplied AccountsAgree
PROPERTY FollowsLifecycle
