---------------------------- MODULE Reconciliation ----------------------------
(***************************************************************************)
(* reconciliation/reconciliation.py over the ledger: provider events that  *)
(* come twice, late, under another id or with the wrong intent, mixed with *)
(* direct calls of the ledger.  The caller adopts every ledger and journal *)
(* it is returned, as the library's READMEs require, and keeps every       *)
(* intent value it was ever returned: any of them may be presented again.  *)
(* Calls that answer ManualReview, AlreadyProcessed or LedgerRejected      *)
(* change nothing, so they are the absence of a step.                      *)
(***************************************************************************)
EXTENDS PaymentLedger, FiniteSets

CONSTANTS
  Transactions,  \* ProviderTransactionIds
  TxOf,          \* order -> the transaction its authorization was given
  Issues,        \* tells apart the ids a provider may give one outcome
  Restored       \* orders whose confirmed intent a caller holds from the start

ASSUME ReconciliationAssumption ==
  /\ TxOf \in [Orders -> Transactions]
  /\ Restored \subseteq Orders

FinalStates == {"confirmed", "refunded"}
EventIds == FinalStates \X Transactions \X Issues
Records == [id : EventIds, tx : Transactions, intent : IntentIds, final : FinalStates]

(* An event of the provider about order o; the fake provider numbers only 1. *)
Event(o, final, n) ==
  [id |-> <<final, TxOf[o], n>>, tx |-> TxOf[o],
   intent |-> o.intent, key |-> o.key, final |-> final]

Events == {Event(o, final, n) : o \in Orders, final \in FinalStates, n \in Issues}

Record(e) == [id |-> e.id, tx |-> e.tx, intent |-> e.intent, final |-> e.final]

(* Fault: ownership is decided by the key alone. *)
MatchesKey(e, o) == e.key = o.key

Matches(e, o) == e.intent = o.intent /\ e.key = o.key

HasEventId(j, id) == \E n \in DOMAIN j : j[n].id = id

(* latest_final_state: the last record of the transaction says final. *)
LatestIs(j, tx, final) ==
  \E n \in DOMAIN j :
    /\ j[n].tx = tx /\ j[n].final = final
    /\ \A m \in DOMAIN j : m > n => j[m].tx # tx

(* Fault: a refunded transaction may be confirmed again. *)
NeverConflicts(j, e) == FALSE

Conflicts(j, e) == LatestIs(j, e.tx, "refunded") /\ e.final = "confirmed"

(* The answer is ReconciliationAlreadyProcessed. *)
Replayed(j, e, o) ==
  Matches(e, o) /\ (HasEventId(j, e.id) \/ LatestIs(j, e.tx, e.final))

(* reconcile_provider_event passes all its checks before the ledger's. *)
Reconcilable(j, e, o) == Matches(e, o) /\ ~Replayed(j, e, o) /\ ~Conflicts(j, e)

-----------------------------------------------------------------------------
VARIABLES
  ledger,   \* the SubscriptionLedger snapshot adopted
  journal,  \* the ReconciliationJournal snapshot adopted
  values    \* the intent values in callers' hands: <<order, status>>

vars == <<ledger, journal, values>>

Init ==
  /\ ledger = <<>> /\ journal = <<>>
  /\ values = (Orders \X {"pending"}) \cup (Restored \X {"confirmed"})

ConfirmPayment(o, s) ==
  /\ MayConfirm(ledger, o, s)
  /\ ledger' = Confirmed(ledger, o)
  /\ values' = values \cup {<<o, "confirmed">>}
  /\ UNCHANGED journal

CancelPayment(o, s) ==
  /\ MayCancel(ledger, o, s)
  /\ ledger' = Cancelled(ledger, o)
  /\ values' = values \cup {<<o, "cancelled">>}
  /\ UNCHANGED journal

RefundPayment(o, s) ==
  /\ MayRefund(ledger, o, s)
  /\ ledger' = Refunded(ledger, o)
  /\ values' = values \cup {<<o, "refunded">>}
  /\ UNCHANGED journal

ExpireEntitlement(e, s) ==
  /\ MayExpire(ledger, e, s)
  /\ ledger' = Expired(ledger, e)
  /\ UNCHANGED <<journal, values>>

ReconcileConfirmed(e, o, s) ==
  /\ e.final = "confirmed" /\ Reconcilable(journal, e, o)
  /\ MayConfirm(ledger, o, s)
  /\ ledger' = Confirmed(ledger, o)
  /\ values' = values \cup {<<o, "confirmed">>}
  /\ journal' = Append(journal, Record(e))

ReconcileRefunded(e, o, s) ==
  /\ e.final = "refunded" /\ Reconcilable(journal, e, o)
  /\ MayRefund(ledger, o, s)
  /\ ledger' = Refunded(ledger, o)
  /\ values' = values \cup {<<o, "refunded">>}
  /\ journal' = Append(journal, Record(e))

Next ==
  \/ \E v \in values :
       \/ ConfirmPayment(v[1], v[2])
       \/ CancelPayment(v[1], v[2])
       \/ RefundPayment(v[1], v[2])
       \/ \E e \in Events :
            ReconcileConfirmed(e, v[1], v[2]) \/ ReconcileRefunded(e, v[1], v[2])
  \/ \E e \in EntitlementIds, s \in EntitlementStatuses : ExpireEntitlement(e, s)

Spec == Init /\ [][Next]_vars

-----------------------------------------------------------------------------
TypeOK ==
  /\ ledger \in Seq(Facts)
  /\ journal \in Seq(Records)
  /\ values \subseteq Orders \X Statuses

(* An idempotency key grants once or cancels once, never both: whatever     *)
(* stale intent values are presented, at most one confirmation or           *)
(* cancellation carries it, and every confirmation is followed by the grant *)
(* it pays for, which no other event carries.                               *)
KeySpentOnce ==
  \A n \in DOMAIN ledger :
    /\ ledger[n].kind \in {"payment_confirmed", "payment_cancelled"} =>
         \A m \in DOMAIN ledger :
           /\ ledger[m].kind \in {"payment_confirmed", "payment_cancelled"}
           /\ ledger[m].key = ledger[n].key
           => m = n
    /\ ledger[n].kind = "payment_confirmed" =>
         /\ n + 1 \in DOMAIN ledger
         /\ ledger[n + 1].kind = "subscription_granted"
         /\ ledger[n + 1].intent = ledger[n].intent
         /\ ledger[n + 1].key = ledger[n].key
    /\ ledger[n].kind = "subscription_granted" =>
         n > 1 /\ ledger[n - 1].kind = "payment_confirmed"

(* A refund comes after a confirmation of its intent in the ledger, and an  *)
(* intent is refunded once, under whichever keys and by whichever way.      *)
RefundedOnceAfterConfirm ==
  \A n \in DOMAIN ledger : ledger[n].kind = "payment_refunded" =>
    /\ \E m \in 1 .. n - 1 :
         ledger[m].kind = "payment_confirmed" /\ ledger[m].intent = ledger[n].intent
    /\ \A m \in DOMAIN ledger :
         /\ ledger[m].kind = "payment_refunded"
         /\ ledger[m].intent = ledger[n].intent
         => m = n

(* An entitlement expires once, after it was granted. *)
ExpiredOnceAfterGrant ==
  \A n \in DOMAIN ledger : ledger[n].kind = "subscription_expired" =>
    /\ \E m \in 1 .. n - 1 :
         /\ ledger[m].kind = "subscription_granted"
         /\ ledger[m].entitlement = ledger[n].entitlement
    /\ \A m \in DOMAIN ledger :
         /\ ledger[m].kind = "subscription_expired"
         /\ ledger[m].entitlement = ledger[n].entitlement
         => m = n

(* A transaction's records are a confirmation, then a refund, or one of     *)
(* the two: a refunded transaction never regresses and no outcome of it is  *)
(* recorded twice, under whatever event ids and for whatever orders.        *)
NeverRegresses ==
  \A n \in DOMAIN journal : \A m \in 1 .. n - 1 :
    journal[m].tx = journal[n].tx =>
      journal[m].final = "confirmed" /\ journal[n].final = "refunded"

KindOf(final) == IF final = "confirmed" THEN "payment_confirmed" ELSE "payment_refunded"

(* Every record is backed by a ledger fact of its own: an intent has no     *)
(* more confirmations or refunds in the journal than in the ledger.         *)
RecordsBacked ==
  \A i \in IntentIds, final \in FinalStates :
    Cardinality({n \in DOMAIN journal :
                   journal[n].intent = i /\ journal[n].final = final})
      <= Cardinality({n \in DOMAIN ledger :
                        ledger[n].intent = i /\ ledger[n].kind = KindOf(final)})

(* The provider gives the transaction of o to no other payment. *)
OwnTransaction(o) ==
  \A p \in Orders : TxOf[p] = TxOf[o] => p.intent = o.intent /\ p.key = o.key

(* has_event_id: "whether an exact provider event has already been          *)
(* applied".  An event answered AlreadyProcessed, of a payment with a       *)
(* transaction of its own, has its fact, of its intent and its key, in the  *)
(* ledger.                                                                  *)
ReplayIsApplied ==
  \A o \in Orders, final \in FinalStates, n \in Issues :
    OwnTransaction(o) /\ Replayed(journal, Event(o, final, n), o) =>
      \E m \in DOMAIN ledger : ledger[m] = PaymentFact(KindOf(final), o)

(* What ledger and journal keep whatever the provider sends and whatever    *)
(* intent values are presented, also when it gives one transaction to all.  *)
AccountsAgree ==
  /\ TypeOK /\ KeySpentOnce /\ RefundedOnceAfterConfirm /\ ExpiredOnceAfterGrant
  /\ NeverRegresses /\ RecordsBacked

-----------------------------------------------------------------------------
(* No caller holds a confirmed value of the intent from another ledger. *)
NotRestored(o) == \A r \in Restored : r.intent # o.intent

Payments == {[intent |-> o.intent, key |-> o.key] : o \in {q \in Orders : NotRestored(q)}}

(* The ledger's account of a payment, and the status it amounts to. *)
Says(p, kind) == \E n \in DOMAIN ledger : ledger[n] = PaymentFact(kind, p)

LedgerStatus(p) ==
  CASE Says(p, "payment_refunded") -> "refunded"
    [] Says(p, "payment_confirmed") /\ ~Says(p, "payment_refunded") -> "confirmed"
    [] Says(p, "payment_cancelled") /\ ~Says(p, "payment_confirmed")
         /\ ~Says(p, "payment_refunded") -> "cancelled"
    [] OTHER -> "pending"

(* Every payment lives the life of PaymentIntent.can_transition_to in the   *)
(* ledger, whatever old values of it are presented and whatever the         *)
(* provider repeats, unless a confirmed value of it came from elsewhere.    *)
Lifecycle == INSTANCE PaymentLifecycle
               WITH status <- [p \in Payments |-> LedgerStatus(p)]

FollowsLifecycle == Lifecycle!Spec
=============================================================================
