--------------------------- MODULE MCReconciliation ---------------------------
(***************************************************************************)
(* A shop whose orders share what the contracts allow: an intent retried   *)
(* under a new key (first and again, second and elsewhere), a key reused   *)
(* for other intents, an entitlement of two intents (first, third).  The   *)
(* two payments of one intent are authorized under the same transaction,   *)
(* and of one of these a caller holds a confirmed value from elsewhere.    *)
(***************************************************************************)
EXTENDS Reconciliation, TLC

CONSTANTS i1, i2, i3, k1, k2, e1, e2, t1, t2, t3, t4

first == [intent |-> i1, key |-> k1, entitlement |-> e1]
again == [intent |-> i1, key |-> k2, entitlement |-> e1]
second == [intent |-> i2, key |-> k1, entitlement |-> e2]
elsewhere == [intent |-> i2, key |-> k2, entitlement |-> e2]
third == [intent |-> i3, key |-> k1, entitlement |-> e1]

MCOrders == {first, again, second, elsewhere, third}

(* A provider value for each order. *)
MCTxOf == (first :> t1) @@ (again :> t2) @@ (second :> t3) @@ (elsewhere :> t3) @@ (third :> t4)

MCTransactions == {t1, t2, t3, t4}
FromElsewhere == {elsewhere}

=============================================================================
