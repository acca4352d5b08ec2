---------------------------- MODULE PaymentLedger ----------------------------
(***************************************************************************)
(* payment_contracts/contracts.py and subscription_ledger/ledger.py: an    *)
(* append-only sequence of facts.  Every operation of SubscriptionLedger   *)
(* is a function from a ledger to the next one, with its acceptance        *)
(* condition; a rejected call returns the ledger it was given.             *)
(*                                                                         *)
(* An order is what a PaymentIntent says besides its status: the intent,   *)
(* the idempotency key and the entitlement it pays for.  Intents are       *)
(* immutable, so a call is given an order and the status of the value the  *)
(* caller happens to hold, which may be an old one.                        *)
(***************************************************************************)
EXTENDS Integers, Sequences

CONSTANTS
  Orders,   \* records [intent, key, entitlement]; ids may be shared
  NoRef     \* a reference a fact does not carry

ASSUME LedgerAssumption ==
  /\ \A o \in Orders : o = [intent |-> o.intent, key |-> o.key,
                            entitlement |-> o.entitlement]
  /\ \A o \in Orders : NoRef \notin {o.intent, o.key, o.entitlement}

IntentIds == {o.intent : o \in Orders}
IdempotencyKeys == {o.key : o \in Orders}
EntitlementIds == {o.entitlement : o \in Orders}

Statuses == {"pending", "confirmed", "cancelled", "refunded"}
EntitlementStatuses == {"active", "expired"}
PaymentKinds == {"payment_confirmed", "payment_cancelled", "payment_refunded"}

(* LedgerEvent without its sequence number, which is its position, and with *)
(* the references _validate_event_references demands of each kind.          *)
Facts ==
  [kind : PaymentKinds, intent : IntentIds, entitlement : {NoRef},
   key : IdempotencyKeys]
  \cup [kind : {"subscription_granted"}, intent : IntentIds,
        entitlement : EntitlementIds, key : IdempotencyKeys]
  \cup [kind : {"subscription_expired"}, intent : {NoRef},
        entitlement : EntitlementIds, key : {NoRef}]

(* PaymentIntent.can_transition_to. *)
CanTransition(from, to) ==
  \/ from = "pending" /\ to \in {"confirmed", "cancelled"}
  \/ from = "confirmed" /\ to = "refunded"

-----------------------------------------------------------------------------
PaymentFact(kind, o) ==
  [kind |-> kind, intent |-> o.intent, entitlement |-> NoRef, key |-> o.key]

GrantFact(o) ==
  [kind |-> "subscription_granted", intent |-> o.intent,
   entitlement |-> o.entitlement, key |-> o.key]

ExpiryFact(e) ==
  [kind |-> "subscription_expired", intent |-> NoRef, entitlement |-> e, key |-> NoRef]

(* Fault: a key counts as used once it has been granted. *)
HasGrantedKey(l, k) ==
  \E n \in DOMAIN l : l[n].key = k /\ l[n].kind = "subscription_granted"

HasKey(l, k) == \E n \in DOMAIN l : l[n].key = k

HasPaymentFact(l, kind, i) == \E n \in DOMAIN l : l[n].kind = kind /\ l[n].intent = i

HasEntitlementFact(l, kind, e) ==
  \E n \in DOMAIN l : l[n].kind = kind /\ l[n].entitlement = e

MayConfirm(l, o, s) == ~HasKey(l, o.key) /\ CanTransition(s, "confirmed")

Confirmed(l, o) == l \o <<PaymentFact("payment_confirmed", o), GrantFact(o)>>

(* Fault: cancelling trusts the status of the value it is given. *)
MayCancelByStatus(l, o, s) == CanTransition(s, "cancelled")

MayCancel(l, o, s) == ~HasKey(l, o.key) /\ CanTransition(s, "cancelled")

Cancelled(l, o) == Append(l, PaymentFact("payment_cancelled", o))

(* Fault: an earlier refund is looked up by key instead of intent. *)
MayRefundPerKey(l, o, s) ==
  /\ ~\E n \in DOMAIN l : l[n].kind = "payment_refunded" /\ l[n].key = o.key
  /\ CanTransition(s, "refunded")
  /\ HasPaymentFact(l, "payment_confirmed", o.intent)

MayRefund(l, o, s) ==
  /\ ~HasPaymentFact(l, "payment_refunded", o.intent)
  /\ CanTransition(s, "refunded")
  /\ HasPaymentFact(l, "payment_confirmed", o.intent)

Refunded(l, o) == Append(l, PaymentFact("payment_refunded", o))

MayExpire(l, e, s) ==
  /\ ~HasEntitlementFact(l, "subscription_expired", e)
  /\ s = "active"
  /\ HasEntitlementFact(l, "subscription_granted", e)

Expired(l, e) == Append(l, ExpiryFact(e))
=============================================================================
