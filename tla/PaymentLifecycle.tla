--------------------------- MODULE PaymentLifecycle ---------------------------
(***************************************************************************)
(* What the payment modules promise for each payment, an intent under an   *)
(* idempotency key: it moves from pending to confirmed or cancelled, and   *)
(* from confirmed to refunded, once.  Of the payments under one key at     *)
(* most one ever leaves pending, and of those of one intent at most one is *)
(* refunded.                                                               *)
(***************************************************************************)
CONSTANTS Payments

VARIABLE status

Settle(p) ==
  /\ \A q \in Payments : q.key = p.key => status[q] = "pending"
  /\ \E s \in {"confirmed", "cancelled"} : status' = [status EXCEPT ![p] = s]

Refund(p) ==
  /\ status[p] = "confirmed"
  /\ \A q \in Payments : q.intent = p.intent => status[q] # "refunded"
  /\ status' = [status EXCEPT ![p] = "refunded"]

Init == status = [p \in Payments |-> "pending"]

Next == \E p \in Payments : Settle(p) \/ Refund(p)

Spec == Init /\ [][Next]_status
=============================================================================
