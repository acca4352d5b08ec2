------------------------ MODULE ReconciliationProofs ------------------------
(***************************************************************************)
(* Theorems about Reconciliation, for any orders, however they share       *)
(* intents, keys and entitlements, any transactions and any restored       *)
(* values.                                                                 *)
(***************************************************************************)
EXTENDS Reconciliation, FiniteSetTheorems, TLAPS

LEMMA FactShapes ==
  ASSUME NEW o \in Orders, NEW kind \in PaymentKinds, NEW e \in EntitlementIds
  PROVE  PaymentFact(kind, o) \in Facts /\ GrantFact(o) \in Facts /\ ExpiryFact(e) \in Facts
BY DEF PaymentFact, GrantFact, ExpiryFact, Facts, PaymentKinds, IntentIds,
       IdempotencyKeys, EntitlementIds

LEMMA AppendShape ==
  ASSUME NEW S, NEW l \in Seq(S), NEW f \in S
  PROVE  /\ Append(l, f) \in Seq(S)
         /\ Len(l) \in Nat /\ DOMAIN l = 1 .. Len(l)
         /\ DOMAIN Append(l, f) = 1 .. Len(l) + 1
         /\ \A n \in DOMAIN l : Append(l, f)[n] = l[n]
         /\ Append(l, f)[Len(l) + 1] = f
OBVIOUS

LEMMA ConfirmedShape ==
  ASSUME NEW l \in Seq(Facts), NEW o \in Orders
  PROVE  /\ Confirmed(l, o) \in Seq(Facts)
         /\ Len(l) \in Nat /\ DOMAIN l = 1 .. Len(l)
         /\ DOMAIN Confirmed(l, o) = 1 .. Len(l) + 2
         /\ \A n \in DOMAIN l : Confirmed(l, o)[n] = l[n]
         /\ Confirmed(l, o)[Len(l) + 1] = PaymentFact("payment_confirmed", o)
         /\ Confirmed(l, o)[Len(l) + 2] = GrantFact(o)
<1> DEFINE p == PaymentFact("payment_confirmed", o)
           g == GrantFact(o)
<1>1. p \in Facts /\ g \in Facts
  <2>1. o.entitlement \in EntitlementIds /\ "payment_confirmed" \in PaymentKinds
    BY DEF EntitlementIds, PaymentKinds
  <2> QED BY <2>1, FactShapes
<1> HIDE DEF p, g
<1>2. <<p, g>> \in Seq(Facts) /\ Len(<<p, g>>) = 2
      /\ <<p, g>>[1] = p /\ <<p, g>>[2] = g
  BY <1>1
<1>3. l \o <<p, g>> \in Seq(Facts) /\ Len(l \o <<p, g>>) = Len(l) + 2
  BY <1>2
<1>4. /\ \A n \in 1 .. Len(l) : (l \o <<p, g>>)[n] = l[n]
      /\ (l \o <<p, g>>)[Len(l) + 1] = p
      /\ (l \o <<p, g>>)[Len(l) + 2] = g
  BY <1>2, <1>3
<1> QED BY <1>3, <1>4 DEF Confirmed, p, g

-----------------------------------------------------------------------------
(* The ledger's part of a step: the only ways the ledger grows. *)
Grants == \E o \in Orders : ~HasKey(ledger, o.key) /\ ledger' = Confirmed(ledger, o)
Cancels == \E o \in Orders : ~HasKey(ledger, o.key) /\ ledger' = Cancelled(ledger, o)
Refunds ==
  \E o \in Orders :
    /\ ~HasPaymentFact(ledger, "payment_refunded", o.intent)
    /\ HasPaymentFact(ledger, "payment_confirmed", o.intent)
    /\ ledger' = Refunded(ledger, o)
Expires ==
  \E e \in EntitlementIds :
    /\ ~HasEntitlementFact(ledger, "subscription_expired", e)
    /\ HasEntitlementFact(ledger, "subscription_granted", e)
    /\ ledger' = Expired(ledger, e)

(* The journal's part: the record of an event that is neither known, nor    *)
(* the last outcome of its transaction, nor in conflict with it.            *)
JournalsEvent(e, o) ==
  /\ ~Replayed(journal, e, o) /\ Matches(e, o) /\ ~Conflicts(journal, e)
  /\ journal' = Append(journal, Record(e))
RecordsEvent == \E e \in Events, o \in Orders : JournalsEvent(e, o)

LEMMA StepParts ==
  ASSUME TypeOK, [Next]_vars
  PROVE  /\ Grants \/ Cancels \/ Refunds \/ Expires \/ UNCHANGED ledger
         /\ RecordsEvent \/ UNCHANGED journal
         /\ values' \subseteq Orders \X Statuses
<1>1. CASE UNCHANGED vars
  BY <1>1 DEF vars, TypeOK
<1>2. ASSUME NEW v \in values,
             \/ ConfirmPayment(v[1], v[2]) \/ CancelPayment(v[1], v[2])
             \/ RefundPayment(v[1], v[2])
      PROVE  /\ Grants \/ Cancels \/ Refunds
             /\ UNCHANGED journal
             /\ values' \subseteq Orders \X Statuses
  <2>1. v[1] \in Orders
    BY DEF TypeOK
  <2> QED BY <1>2, <2>1 DEF ConfirmPayment, CancelPayment, RefundPayment, MayConfirm,
       MayCancel, MayRefund, Grants, Cancels, Refunds, TypeOK, Statuses
<1>3. ASSUME NEW v \in values, NEW e \in Events,
             ReconcileConfirmed(e, v[1], v[2]) \/ ReconcileRefunded(e, v[1], v[2])
      PROVE  /\ Grants \/ Refunds
             /\ RecordsEvent
             /\ values' \subseteq Orders \X Statuses
  <2>1. v[1] \in Orders
    BY DEF TypeOK
  <2>2. JournalsEvent(e, v[1])
    BY <1>3 DEF ReconcileConfirmed, ReconcileRefunded, Reconcilable, JournalsEvent
  <2> QED BY <1>3, <2>1, <2>2 DEF ReconcileConfirmed, ReconcileRefunded, MayConfirm,
       MayRefund, Grants, Refunds, RecordsEvent, TypeOK, Statuses
<1>4. ASSUME NEW e \in EntitlementIds, NEW s \in EntitlementStatuses,
             ExpireEntitlement(e, s)
      PROVE  Expires /\ UNCHANGED <<journal, values>>
  BY <1>4 DEF ExpireEntitlement, MayExpire, Expires
<1> QED BY <1>1, <1>2, <1>3, <1>4 DEF Next, TypeOK

LEMMA TypeStep == TypeOK /\ [Next]_vars => TypeOK'
<1> SUFFICES ASSUME TypeOK, [Next]_vars PROVE TypeOK'
  OBVIOUS
<1>1. ledger' \in Seq(Facts)
  <2>1. CASE Grants
    BY <2>1, ConfirmedShape DEF Grants, TypeOK
  <2>2. CASE Cancels
    <3>1. "payment_cancelled" \in PaymentKinds
      BY DEF PaymentKinds
    <3>2. PICK o \in Orders : ledger' = Append(ledger, PaymentFact("payment_cancelled", o))
      BY <2>2 DEF Cancels, Cancelled
    <3>3. PaymentFact("payment_cancelled", o) \in Facts
      BY <3>1, FactShapes DEF EntitlementIds
    <3> QED BY <3>2, <3>3 DEF TypeOK
  <2>3. CASE Refunds
    <3>1. "payment_refunded" \in PaymentKinds
      BY DEF PaymentKinds
    <3>2. PICK o \in Orders : ledger' = Append(ledger, PaymentFact("payment_refunded", o))
      BY <2>3 DEF Refunds, Refunded
    <3>3. PaymentFact("payment_refunded", o) \in Facts
      BY <3>1, FactShapes DEF EntitlementIds
    <3> QED BY <3>2, <3>3 DEF TypeOK
  <2>4. CASE Expires
    <3>1. PICK e \in EntitlementIds : ledger' = Append(ledger, ExpiryFact(e))
      BY <2>4 DEF Expires, Expired
    <3>2. ExpiryFact(e) \in Facts
      BY DEF ExpiryFact, Facts
    <3> QED BY <3>1, <3>2 DEF TypeOK
  <2> QED BY <2>1, <2>2, <2>3, <2>4, StepParts DEF TypeOK
<1>2. journal' \in Seq(Records)
  <2>1. CASE RecordsEvent
    <3>1. PICK e \in Events : journal' = Append(journal, Record(e))
      BY <2>1 DEF RecordsEvent, JournalsEvent
    <3>2. Record(e) \in Records
      BY ReconciliationAssumption DEF Events, Event, Record, Records, EventIds, IntentIds
    <3> QED BY <3>1, <3>2 DEF TypeOK
  <2> QED BY <2>1, StepParts DEF TypeOK
<1> QED BY <1>1, <1>2, StepParts DEF TypeOK

(* Ledger, journal and intent values keep their types: in particular every  *)
(* fact appended carries the references LedgerEvent's validator demands.    *)
THEOREM PaymentsTypeCorrect == Spec => []TypeOK
<1>1. Init => TypeOK
  BY ReconciliationAssumption DEF Init, TypeOK, Statuses
<1> QED BY <1>1, TypeStep, PTL DEF Spec

-----------------------------------------------------------------------------
(* What a step leaves in place and what it adds to the ledger. *)
LEMMA GrownLedger ==
  ASSUME TypeOK, NEW f \in Facts, ledger' = Append(ledger, f)
  PROVE  /\ Len(ledger) \in Nat /\ DOMAIN ledger = 1 .. Len(ledger)
         /\ DOMAIN ledger' = 1 .. Len(ledger) + 1
         /\ \A n \in DOMAIN ledger : ledger'[n] = ledger[n]
         /\ ledger'[Len(ledger) + 1] = f
BY AppendShape DEF TypeOK

LEMMA CancelAppends ==
  ASSUME Cancels
  PROVE  \E o \in Orders :
           /\ PaymentFact("payment_cancelled", o) \in Facts
           /\ ledger' = Append(ledger, PaymentFact("payment_cancelled", o))
           /\ ~HasKey(ledger, o.key)
<1>1. \A o \in Orders : PaymentFact("payment_cancelled", o) \in Facts
  BY FactShapes DEF EntitlementIds, PaymentKinds
<1> QED BY <1>1 DEF Cancels, Cancelled

LEMMA RefundAppends ==
  ASSUME Refunds
  PROVE  \E o \in Orders :
           /\ PaymentFact("payment_refunded", o) \in Facts
           /\ ledger' = Append(ledger, PaymentFact("payment_refunded", o))
           /\ ~HasPaymentFact(ledger, "payment_refunded", o.intent)
           /\ HasPaymentFact(ledger, "payment_confirmed", o.intent)
<1>1. \A o \in Orders : PaymentFact("payment_refunded", o) \in Facts
  BY FactShapes DEF EntitlementIds, PaymentKinds
<1> QED BY <1>1 DEF Refunds, Refunded

LEMMA ExpiryAppends ==
  ASSUME Expires
  PROVE  \E e \in EntitlementIds :
           /\ ExpiryFact(e) \in Facts
           /\ ledger' = Append(ledger, ExpiryFact(e))
           /\ ~HasEntitlementFact(ledger, "subscription_expired", e)
           /\ HasEntitlementFact(ledger, "subscription_granted", e)
<1>1. \A e \in EntitlementIds : ExpiryFact(e) \in Facts
  BY DEF ExpiryFact, Facts
<1> QED BY <1>1 DEF Expires, Expired

Spends(kind) == kind \in {"payment_confirmed", "payment_cancelled"}

(* The two halves of KeySpentOnce. *)
OneSpender ==
  \A n, m \in DOMAIN ledger :
    Spends(ledger[n].kind) /\ Spends(ledger[m].kind) /\ ledger[m].key = ledger[n].key
    => m = n

GrantsFollow ==
  \A n \in DOMAIN ledger :
    /\ ledger[n].kind = "payment_confirmed" =>
         /\ n + 1 \in DOMAIN ledger
         /\ ledger[n + 1].kind = "subscription_granted"
         /\ ledger[n + 1].intent = ledger[n].intent
         /\ ledger[n + 1].key = ledger[n].key
    /\ ledger[n].kind = "subscription_granted" =>
         n > 1 /\ ledger[n - 1].kind = "payment_confirmed"

LEMMA KeyHalves == KeySpentOnce <=> OneSpender /\ GrantsFollow
BY DEF KeySpentOnce, OneSpender, GrantsFollow, Spends

LEMMA OneSpenderAppend ==
  ASSUME TypeOK, OneSpender, NEW f \in Facts, ledger' = Append(ledger, f),
         Spends(f.kind) => \A n \in DOMAIN ledger : ledger[n].key # f.key
  PROVE  OneSpender'
<1>1. /\ Len(ledger) \in Nat /\ DOMAIN ledger = 1 .. Len(ledger)
      /\ DOMAIN ledger' = 1 .. Len(ledger) + 1
      /\ \A n \in DOMAIN ledger : ledger'[n] = ledger[n]
      /\ ledger'[Len(ledger) + 1] = f
  BY GrownLedger
<1> SUFFICES ASSUME NEW n \in DOMAIN ledger', NEW m \in DOMAIN ledger',
                    Spends(ledger'[n].kind), Spends(ledger'[m].kind),
                    ledger'[m].key = ledger'[n].key
             PROVE  m = n
  BY DEF OneSpender, Spends
<1>2. CASE n \in DOMAIN ledger /\ m \in DOMAIN ledger
  BY <1>1, <1>2 DEF OneSpender
<1>3. CASE n = Len(ledger) + 1 \/ m = Len(ledger) + 1
  BY <1>1, <1>3
<1> QED BY <1>1, <1>2, <1>3

LEMMA OneSpenderStep ==
  ASSUME TypeOK, OneSpender, [Next]_vars
  PROVE  OneSpender'
<1>1. CASE Grants
  <2>1. PICK o \in Orders : ~HasKey(ledger, o.key) /\ ledger' = Confirmed(ledger, o)
    BY <1>1 DEF Grants
  <2>2. \A n \in DOMAIN ledger : ledger[n].key # o.key
    BY <2>1 DEF HasKey
  <2>3. /\ Len(ledger) \in Nat /\ DOMAIN ledger = 1 .. Len(ledger)
        /\ DOMAIN ledger' = 1 .. Len(ledger) + 2
        /\ \A n \in DOMAIN ledger : ledger'[n] = ledger[n]
        /\ ledger'[Len(ledger) + 1] = PaymentFact("payment_confirmed", o)
        /\ ledger'[Len(ledger) + 2] = GrantFact(o)
    BY <2>1, ConfirmedShape DEF TypeOK
  <2>4. /\ ledger'[Len(ledger) + 1].key = o.key
        /\ ~Spends(ledger'[Len(ledger) + 2].kind)
    BY <2>3 DEF PaymentFact, GrantFact, Spends
  <2> SUFFICES ASSUME NEW n \in DOMAIN ledger', NEW m \in DOMAIN ledger',
                      Spends(ledger'[n].kind), Spends(ledger'[m].kind),
                      ledger'[m].key = ledger'[n].key
               PROVE  m = n
    BY DEF OneSpender, Spends
  <2>5. n # Len(ledger) + 2 /\ m # Len(ledger) + 2
    BY <2>4
  <2>6. /\ n \in DOMAIN ledger \/ n = Len(ledger) + 1
        /\ m \in DOMAIN ledger \/ m = Len(ledger) + 1
    BY <2>3, <2>5
  <2>7. CASE n \in DOMAIN ledger /\ m \in DOMAIN ledger
    BY <2>3, <2>7 DEF OneSpender
  <2> QED BY <2>2, <2>3, <2>4, <2>6, <2>7
<1>2. CASE Cancels
  <2>1. PICK o \in Orders :
           /\ PaymentFact("payment_cancelled", o) \in Facts
           /\ ledger' = Append(ledger, PaymentFact("payment_cancelled", o))
           /\ ~HasKey(ledger, o.key)
    BY <1>2, CancelAppends
  <2>2. \A n \in DOMAIN ledger :
           ledger[n].key # PaymentFact("payment_cancelled", o).key
    BY <2>1 DEF HasKey, PaymentFact
  <2> QED BY <2>1, <2>2, OneSpenderAppend
<1>3. CASE Refunds
  <2>1. PICK o \in Orders :
           /\ PaymentFact("payment_refunded", o) \in Facts
           /\ ledger' = Append(ledger, PaymentFact("payment_refunded", o))
    BY <1>3, RefundAppends
  <2>2. ~Spends(PaymentFact("payment_refunded", o).kind)
    BY DEF PaymentFact, Spends
  <2> QED BY <2>1, <2>2, OneSpenderAppend
<1>4. CASE Expires
  <2>1. PICK e \in EntitlementIds :
           ExpiryFact(e) \in Facts /\ ledger' = Append(ledger, ExpiryFact(e))
    BY <1>4, ExpiryAppends
  <2>2. ~Spends(ExpiryFact(e).kind)
    BY DEF ExpiryFact, Spends
  <2> QED BY <2>1, <2>2, OneSpenderAppend
<1>5. CASE UNCHANGED ledger
  BY <1>5 DEF OneSpender, Spends
<1> QED BY <1>1, <1>2, <1>3, <1>4, <1>5, StepParts

LEMMA GrantsFollowAppend ==
  ASSUME TypeOK, GrantsFollow, NEW f \in Facts, ledger' = Append(ledger, f),
         f.kind \notin {"payment_confirmed", "subscription_granted"}
  PROVE  GrantsFollow'
<1>1. /\ Len(ledger) \in Nat /\ DOMAIN ledger = 1 .. Len(ledger)
      /\ DOMAIN ledger' = 1 .. Len(ledger) + 1
      /\ \A n \in DOMAIN ledger : ledger'[n] = ledger[n]
      /\ ledger'[Len(ledger) + 1] = f
  BY GrownLedger
<1> QED BY <1>1 DEF GrantsFollow

LEMMA GrantsFollowStep ==
  ASSUME TypeOK, GrantsFollow, [Next]_vars
  PROVE  GrantsFollow'
<1>1. CASE Grants
  <2>1. PICK o \in Orders : ledger' = Confirmed(ledger, o)
    BY <1>1 DEF Grants
  <2>2. /\ Len(ledger) \in Nat /\ DOMAIN ledger = 1 .. Len(ledger)
        /\ DOMAIN ledger' = 1 .. Len(ledger) + 2
        /\ \A n \in DOMAIN ledger : ledger'[n] = ledger[n]
        /\ ledger'[Len(ledger) + 1] = PaymentFact("payment_confirmed", o)
        /\ ledger'[Len(ledger) + 2] = GrantFact(o)
    BY <2>1, ConfirmedShape DEF TypeOK
  <2> QED BY <2>2 DEF GrantsFollow, PaymentFact, GrantFact
<1>2. CASE Cancels \/ Refunds \/ Expires
  <2>1. PICK f \in Facts : /\ ledger' = Append(ledger, f)
                           /\ f.kind \notin {"payment_confirmed", "subscription_granted"}
    BY <1>2, CancelAppends, RefundAppends, ExpiryAppends DEF PaymentFact, ExpiryFact
  <2> QED BY <2>1, GrantsFollowAppend
<1>3. CASE UNCHANGED ledger
  BY <1>3 DEF GrantsFollow
<1> QED BY <1>1, <1>2, <1>3, StepParts

(* However many stale or restored values of however many orders that share  *)
(* a key are presented, directly or with provider events, the key grants    *)
(* once or cancels once.                                                    *)
THEOREM KeysAreSpentOnce == Spec => []KeySpentOnce
<1>1. Init => TypeOK /\ OneSpender /\ GrantsFollow
  BY ReconciliationAssumption DEF Init, TypeOK, Statuses, OneSpender, GrantsFollow
<1>2. TypeOK /\ OneSpender /\ GrantsFollow /\ [Next]_vars
        => (TypeOK /\ OneSpender /\ GrantsFollow)'
  BY TypeStep, OneSpenderStep, GrantsFollowStep
<1> QED BY <1>1, <1>2, KeyHalves, PTL DEF Spec

-----------------------------------------------------------------------------
LEMMA RefundedAppend ==
  ASSUME TypeOK, RefundedOnceAfterConfirm, NEW f \in Facts, ledger' = Append(ledger, f),
         f.kind = "payment_refunded" =>
           /\ HasPaymentFact(ledger, "payment_confirmed", f.intent)
           /\ ~HasPaymentFact(ledger, "payment_refunded", f.intent)
  PROVE  RefundedOnceAfterConfirm'
<1>1. /\ Len(ledger) \in Nat /\ DOMAIN ledger = 1 .. Len(ledger)
      /\ DOMAIN ledger' = 1 .. Len(ledger) + 1
      /\ \A n \in DOMAIN ledger : ledger'[n] = ledger[n]
      /\ ledger'[Len(ledger) + 1] = f
  BY GrownLedger
<1> SUFFICES ASSUME NEW n \in DOMAIN ledger', ledger'[n].kind = "payment_refunded"
             PROVE  /\ \E m \in 1 .. n - 1 :
                         /\ ledger'[m].kind = "payment_confirmed"
                         /\ ledger'[m].intent = ledger'[n].intent
                    /\ \A m \in DOMAIN ledger' :
                         /\ ledger'[m].kind = "payment_refunded"
                         /\ ledger'[m].intent = ledger'[n].intent
                         => m = n
  BY DEF RefundedOnceAfterConfirm
<1>2. CASE n \in DOMAIN ledger
  <2>1. PICK m \in 1 .. n - 1 : /\ ledger[m].kind = "payment_confirmed"
                                /\ ledger[m].intent = ledger[n].intent
    BY <1>1, <1>2 DEF RefundedOnceAfterConfirm
  <2>2. ledger'[m] = ledger[m] /\ ledger'[n] = ledger[n]
    BY <1>1, <1>2
  <2>3. ASSUME NEW q \in DOMAIN ledger', ledger'[q].kind = "payment_refunded",
               ledger'[q].intent = ledger'[n].intent
        PROVE  q = n
    <3>1. CASE q \in DOMAIN ledger
      BY <1>1, <1>2, <2>3, <3>1 DEF RefundedOnceAfterConfirm
    <3>2. CASE q = Len(ledger) + 1
      BY <1>1, <1>2, <2>2, <2>3, <3>2 DEF HasPaymentFact
    <3> QED BY <1>1, <3>1, <3>2
  <2> QED BY <2>1, <2>2, <2>3
<1>3. CASE n = Len(ledger) + 1
  <2>1. /\ HasPaymentFact(ledger, "payment_confirmed", f.intent)
        /\ ~HasPaymentFact(ledger, "payment_refunded", f.intent)
    BY <1>1, <1>3
  <2>2. PICK m \in DOMAIN ledger : /\ ledger[m].kind = "payment_confirmed"
                                   /\ ledger[m].intent = f.intent
    BY <2>1 DEF HasPaymentFact
  <2>3. m \in 1 .. n - 1 /\ ledger'[m] = ledger[m] /\ ledger'[n] = f
    BY <1>1, <1>3, <2>2
  <2>4. ASSUME NEW q \in DOMAIN ledger', ledger'[q].kind = "payment_refunded",
               ledger'[q].intent = f.intent
        PROVE  q = n
    BY <1>1, <1>3, <2>1, <2>4 DEF HasPaymentFact
  <2> QED BY <2>2, <2>3, <2>4
<1> QED BY <1>1, <1>2, <1>3

LEMMA RefundedStep ==
  ASSUME TypeOK, RefundedOnceAfterConfirm, [Next]_vars
  PROVE  RefundedOnceAfterConfirm'
<1>1. CASE Grants
  <2>1. PICK o \in Orders : ledger' = Confirmed(ledger, o)
    BY <1>1 DEF Grants
  <2>2. /\ Len(ledger) \in Nat /\ DOMAIN ledger = 1 .. Len(ledger)
        /\ DOMAIN ledger' = 1 .. Len(ledger) + 2
        /\ \A n \in DOMAIN ledger : ledger'[n] = ledger[n]
        /\ ledger'[Len(ledger) + 1] = PaymentFact("payment_confirmed", o)
        /\ ledger'[Len(ledger) + 2] = GrantFact(o)
    BY <2>1, ConfirmedShape DEF TypeOK
  <2>3. \A n \in DOMAIN ledger' : ledger'[n].kind = "payment_refunded" => n \in DOMAIN ledger
    BY <2>2 DEF PaymentFact, GrantFact
  <2> QED BY <2>2, <2>3 DEF RefundedOnceAfterConfirm
<1>2. CASE Cancels \/ Refunds \/ Expires
  <2>1. PICK f \in Facts :
           /\ ledger' = Append(ledger, f)
           /\ f.kind = "payment_refunded" =>
                 /\ HasPaymentFact(ledger, "payment_confirmed", f.intent)
                 /\ ~HasPaymentFact(ledger, "payment_refunded", f.intent)
    BY <1>2, CancelAppends, RefundAppends, ExpiryAppends DEF PaymentFact, ExpiryFact
  <2> QED BY <2>1, RefundedAppend
<1>3. CASE UNCHANGED ledger
  BY <1>3 DEF RefundedOnceAfterConfirm
<1> QED BY <1>1, <1>2, <1>3, StepParts

(* An intent is refunded at most once and only after the ledger confirmed   *)
(* it, also when the confirmed value presented was restored from elsewhere. *)
THEOREM RefundsAreEarned == Spec => []RefundedOnceAfterConfirm
<1>1. Init => TypeOK /\ RefundedOnceAfterConfirm
  BY ReconciliationAssumption DEF Init, TypeOK, Statuses, RefundedOnceAfterConfirm
<1>2. TypeOK /\ RefundedOnceAfterConfirm /\ [Next]_vars
        => (TypeOK /\ RefundedOnceAfterConfirm)'
  BY TypeStep, RefundedStep
<1> QED BY <1>1, <1>2, PTL DEF Spec

-----------------------------------------------------------------------------
(* The last outcome of a transaction exists as soon as it has a record. *)
LEMMA LastOutcome ==
  ASSUME TypeOK, NeverRegresses, NEW n \in DOMAIN journal
  PROVE  \/ LatestIs(journal, journal[n].tx, "refunded")
         \/ LatestIs(journal, journal[n].tx, "confirmed")
<1>1. DOMAIN journal = 1 .. Len(journal) /\ Len(journal) \in Nat
  BY DEF TypeOK
<1>2. CASE \E m \in DOMAIN journal : m > n /\ journal[m].tx = journal[n].tx
  <2>1. PICK m \in DOMAIN journal : m > n /\ journal[m].tx = journal[n].tx
    BY <1>2
  <2>2. journal[m].final = "refunded"
    BY <1>1, <2>1 DEF NeverRegresses
  <2>3. \A q \in DOMAIN journal : q > m => journal[q].tx # journal[n].tx
    BY <1>1, <2>1, <2>2 DEF NeverRegresses
  <2> QED BY <2>1, <2>2, <2>3 DEF LatestIs
<1>3. CASE ~\E m \in DOMAIN journal : m > n /\ journal[m].tx = journal[n].tx
  <2>1. journal[n] \in Records
    BY <1>1 DEF TypeOK
  <2> QED BY <1>3, <2>1 DEF LatestIs, Records, FinalStates
<1> QED BY <1>2, <1>3

LEMMA RegressStep ==
  ASSUME TypeOK, NeverRegresses, [Next]_vars
  PROVE  NeverRegresses'
<1>1. CASE RecordsEvent
  <2>1. PICK e \in Events, o \in Orders : JournalsEvent(e, o)
    BY <1>1 DEF RecordsEvent
  <2>2. /\ ~LatestIs(journal, e.tx, e.final)
        /\ ~(LatestIs(journal, e.tx, "refunded") /\ e.final = "confirmed")
        /\ e.final \in FinalStates
    BY <2>1 DEF JournalsEvent, Replayed, Conflicts, Events, Event
  <2>3. Record(e) \in Records
    BY ReconciliationAssumption DEF Events, Event, Record, Records, EventIds, IntentIds
  <2>4. /\ Len(journal) \in Nat /\ DOMAIN journal = 1 .. Len(journal)
        /\ DOMAIN journal' = 1 .. Len(journal) + 1
        /\ \A n \in DOMAIN journal : journal'[n] = journal[n]
        /\ journal'[Len(journal) + 1] = Record(e)
    BY <2>1, <2>3, AppendShape DEF JournalsEvent, TypeOK
  <2>5. ASSUME NEW m \in DOMAIN journal, journal[m].tx = e.tx
        PROVE  journal[m].final = "confirmed" /\ e.final = "refunded"
    <3>1. ~LatestIs(journal, e.tx, "refunded")
      BY <2>2 DEF FinalStates
    <3>2. LatestIs(journal, e.tx, "confirmed")
      BY <2>5, <3>1, LastOutcome
    <3>3. e.final = "refunded"
      BY <2>2, <3>2 DEF FinalStates
    <3>4. PICK n \in DOMAIN journal :
             /\ journal[n].tx = e.tx /\ journal[n].final = "confirmed"
             /\ \A q \in DOMAIN journal : q > n => journal[q].tx # e.tx
      BY <3>2 DEF LatestIs
    <3>5. m = n
      BY <2>4, <2>5, <3>4 DEF NeverRegresses
    <3> QED BY <3>3, <3>4, <3>5
  <2> SUFFICES ASSUME NEW n \in DOMAIN journal', NEW m \in 1 .. n - 1,
                      journal'[m].tx = journal'[n].tx
               PROVE  journal'[m].final = "confirmed" /\ journal'[n].final = "refunded"
    BY DEF NeverRegresses
  <2>6. CASE n \in DOMAIN journal
    BY <2>4, <2>6 DEF NeverRegresses
  <2>7. CASE n = Len(journal) + 1
    BY <2>4, <2>5, <2>7 DEF Record
  <2> QED BY <2>4, <2>6, <2>7
<1>2. CASE UNCHANGED journal
  BY <1>2 DEF NeverRegresses
<1> QED BY <1>1, <1>2, StepParts

(* Whatever a provider repeats, reorders or issues under a new id, and      *)
(* whichever orders share a transaction, a refunded transaction is not      *)
(* confirmed again and no outcome of one is recorded twice.                 *)
THEOREM TransactionsNeverRegress == Spec => []NeverRegresses
<1>1. Init => TypeOK /\ NeverRegresses
  BY ReconciliationAssumption DEF Init, TypeOK, Statuses, NeverRegresses
<1>2. TypeOK /\ NeverRegresses /\ [Next]_vars => (TypeOK /\ NeverRegresses)'
  BY TypeStep, RegressStep
<1> QED BY <1>1, <1>2, PTL DEF Spec

-----------------------------------------------------------------------------
(* The facts of a ledger stay where they are. *)
LedgerKept ==
  \A n \in DOMAIN ledger : n \in DOMAIN ledger' /\ ledger'[n] = ledger[n]

LEMMA LedgerGrows ==
  ASSUME TypeOK, [Next]_vars
  PROVE  LedgerKept
<1>1. CASE Grants
  BY <1>1, ConfirmedShape DEF Grants, TypeOK, LedgerKept
<1>2. CASE Cancels \/ Refunds \/ Expires
  <2>1. PICK f \in Facts : ledger' = Append(ledger, f)
    BY <1>2, CancelAppends, RefundAppends, ExpiryAppends
  <2> QED BY <2>1, GrownLedger DEF LedgerKept
<1>3. CASE UNCHANGED ledger
  BY <1>3 DEF LedgerKept
<1> QED BY <1>1, <1>2, <1>3, StepParts

(* The ledger and the journal move together: an event is recorded in the    *)
(* step that appends its fact, for the intent it was matched with.          *)
AppliesEvent(e, o) ==
  /\ JournalsEvent(e, o)
  /\ \/ e.final = "confirmed" /\ ~HasKey(ledger, o.key) /\ ledger' = Confirmed(ledger, o)
     \/ e.final = "refunded" /\ ledger' = Refunded(ledger, o)

LEMMA JointStep ==
  ASSUME TypeOK, [Next]_vars
  PROVE  UNCHANGED journal \/ \E e \in Events, o \in Orders : AppliesEvent(e, o)
<1>1. ASSUME NEW v \in values, NEW e \in Events,
             ReconcileConfirmed(e, v[1], v[2]) \/ ReconcileRefunded(e, v[1], v[2])
      PROVE  v[1] \in Orders /\ AppliesEvent(e, v[1])
  BY <1>1 DEF ReconcileConfirmed, ReconcileRefunded, Reconcilable, JournalsEvent,
              AppliesEvent, TypeOK, MayConfirm
<1>2. ASSUME NEW v \in values,
             \/ ConfirmPayment(v[1], v[2]) \/ CancelPayment(v[1], v[2])
             \/ RefundPayment(v[1], v[2])
      PROVE  UNCHANGED journal
  BY <1>2 DEF ConfirmPayment, CancelPayment, RefundPayment
<1> QED BY <1>1, <1>2 DEF Next, vars, ExpireEntitlement

LEMMA AppliedFact ==
  ASSUME TypeOK, NEW e \in Events, NEW o \in Orders, AppliesEvent(e, o)
  PROVE  Len(ledger) + 1 \in DOMAIN ledger'
         /\ ledger'[Len(ledger) + 1] = PaymentFact(KindOf(e.final), o)
<1>1. CASE e.final = "confirmed"
  <2>1. ledger' = Confirmed(ledger, o)
    BY <1>1 DEF AppliesEvent
  <2> QED BY <1>1, <2>1, ConfirmedShape DEF TypeOK, KindOf
<1>2. CASE e.final = "refunded"
  <2>1. ledger' = Append(ledger, PaymentFact("payment_refunded", o))
    BY <1>2 DEF AppliesEvent, Refunded
  <2>2. PaymentFact("payment_refunded", o) \in Facts
    BY FactShapes DEF PaymentKinds, EntitlementIds
  <2> QED BY <1>2, <2>1, <2>2, GrownLedger DEF KindOf
<1> QED BY <1>1, <1>2 DEF Events, Event, FinalStates

LEMMA RecordAppended ==
  ASSUME TypeOK, NEW e \in Events, NEW o \in Orders, JournalsEvent(e, o)
  PROVE  /\ Record(e) \in Records
         /\ Len(journal) \in Nat /\ DOMAIN journal = 1 .. Len(journal)
         /\ DOMAIN journal' = 1 .. Len(journal) + 1
         /\ \A n \in DOMAIN journal : journal'[n] = journal[n]
         /\ journal'[Len(journal) + 1] = Record(e)
<1>1. Record(e) \in Records
  BY ReconciliationAssumption DEF Events, Event, Record, Records, EventIds, IntentIds
<1> QED BY <1>1, AppendShape DEF JournalsEvent, TypeOK

(* Every record has the transaction of an order whose fact is in the ledger, *)
(* and an id the provider gives that order's outcome.                        *)
RecordsApplied ==
  \A n \in DOMAIN journal : \E o \in Orders :
    /\ journal[n].tx = TxOf[o]
    /\ journal[n].id[1] = journal[n].final /\ journal[n].id[2] = TxOf[o]
    /\ \E m \in DOMAIN ledger : ledger[m] = PaymentFact(KindOf(journal[n].final), o)

LEMMA AppliedStep ==
  ASSUME TypeOK, RecordsApplied, [Next]_vars
  PROVE  RecordsApplied'
<1> SUFFICES ASSUME NEW n \in DOMAIN journal'
             PROVE  \E o \in Orders :
                      /\ journal'[n].tx = TxOf[o]
                      /\ journal'[n].id[1] = journal'[n].final
                      /\ journal'[n].id[2] = TxOf[o]
                      /\ \E m \in DOMAIN ledger' :
                           ledger'[m] = PaymentFact(KindOf(journal'[n].final), o)
  BY DEF RecordsApplied
<1>1. CASE n \in DOMAIN journal /\ journal'[n] = journal[n]
  BY <1>1, LedgerGrows DEF RecordsApplied, LedgerKept
<1>2. CASE \E e \in Events, o \in Orders : AppliesEvent(e, o)
  <2>1. PICK e \in Events, o \in Orders : AppliesEvent(e, o)
    BY <1>2
  <2>2. JournalsEvent(e, o)
    BY <2>1 DEF AppliesEvent
  <2>3. CASE n = Len(journal) + 1
    <3>1. journal'[n] = Record(e)
      BY <2>2, <2>3, RecordAppended
    <3>2. PICK p \in Orders : \E final \in FinalStates, i \in Issues : e = Event(p, final, i)
      BY DEF Events
    <3>3. /\ Record(e).tx = TxOf[p] /\ Record(e).final = e.final
          /\ Record(e).id[1] = e.final /\ Record(e).id[2] = TxOf[p]
      BY <3>2 DEF Event, Record
    <3>4. PaymentFact(KindOf(e.final), o) = PaymentFact(KindOf(e.final), p)
      BY <2>2, <3>2 DEF JournalsEvent, Matches, Event, PaymentFact
    <3>5. \E m \in DOMAIN ledger' : ledger'[m] = PaymentFact(KindOf(e.final), p)
      BY <2>1, <3>4, AppliedFact
    <3> QED BY <3>1, <3>3, <3>5
  <2> QED BY <1>1, <2>2, <2>3, RecordAppended
<1> QED BY <1>1, <1>2, JointStep

LEMMA ReplayFound ==
  ASSUME TypeOK, RecordsApplied
  PROVE  ReplayIsApplied
<1> SUFFICES ASSUME NEW o \in Orders, NEW final \in FinalStates, NEW i \in Issues,
                    OwnTransaction(o), Replayed(journal, Event(o, final, i), o)
             PROVE  \E m \in DOMAIN ledger : ledger[m] = PaymentFact(KindOf(final), o)
  BY DEF ReplayIsApplied
<1>1. PICK n \in DOMAIN journal :
         \/ journal[n].id = <<final, TxOf[o], i>>
         \/ journal[n].tx = TxOf[o] /\ journal[n].final = final
  BY DEF Replayed, HasEventId, LatestIs, Event
<1>2. PICK p \in Orders :
         /\ journal[n].tx = TxOf[p]
         /\ journal[n].id[1] = journal[n].final /\ journal[n].id[2] = TxOf[p]
         /\ \E m \in DOMAIN ledger : ledger[m] = PaymentFact(KindOf(journal[n].final), p)
  BY DEF RecordsApplied
<1>3. journal[n].final = final /\ TxOf[p] = TxOf[o]
  BY <1>1, <1>2
<1>4. PaymentFact(KindOf(final), p) = PaymentFact(KindOf(final), o)
  BY <1>3 DEF OwnTransaction, PaymentFact
<1> QED BY <1>2, <1>3, <1>4

(* reconcile_provider_event answers AlreadyProcessed only for an outcome    *)
(* whose fact, of the event's intent and key, is in the ledger, if no other *)
(* payment has the transaction of this one.                                 *)
THEOREM ReplaysAreApplied == Spec => []ReplayIsApplied
<1>1. Init => TypeOK /\ RecordsApplied
  BY ReconciliationAssumption DEF Init, TypeOK, Statuses, RecordsApplied
<1>2. TypeOK /\ RecordsApplied /\ [Next]_vars => (TypeOK /\ RecordsApplied)'
  BY TypeStep, AppliedStep
<1>3. TypeOK /\ RecordsApplied => ReplayIsApplied
  BY ReplayFound
<1> QED BY <1>1, <1>2, <1>3, PTL DEF Spec

-----------------------------------------------------------------------------
LEMMA ExpiredAppend ==
  ASSUME TypeOK, ExpiredOnceAfterGrant, NEW f \in Facts, ledger' = Append(ledger, f),
         f.kind = "subscription_expired" =>
           /\ HasEntitlementFact(ledger, "subscription_granted", f.entitlement)
           /\ ~HasEntitlementFact(ledger, "subscription_expired", f.entitlement)
  PROVE  ExpiredOnceAfterGrant'
<1>1. /\ Len(ledger) \in Nat /\ DOMAIN ledger = 1 .. Len(ledger)
      /\ DOMAIN ledger' = 1 .. Len(ledger) + 1
      /\ \A n \in DOMAIN ledger : ledger'[n] = ledger[n]
      /\ ledger'[Len(ledger) + 1] = f
  BY GrownLedger
<1> SUFFICES ASSUME NEW n \in DOMAIN ledger', ledger'[n].kind = "subscription_expired"
             PROVE  /\ \E m \in 1 .. n - 1 :
                         /\ ledger'[m].kind = "subscription_granted"
                         /\ ledger'[m].entitlement = ledger'[n].entitlement
                    /\ \A m \in DOMAIN ledger' :
                         /\ ledger'[m].kind = "subscription_expired"
                         /\ ledger'[m].entitlement = ledger'[n].entitlement
                         => m = n
  BY DEF ExpiredOnceAfterGrant
<1>2. CASE n \in DOMAIN ledger
  <2>1. PICK m \in 1 .. n - 1 : /\ ledger[m].kind = "subscription_granted"
                                /\ ledger[m].entitlement = ledger[n].entitlement
    BY <1>1, <1>2 DEF ExpiredOnceAfterGrant
  <2>2. ledger'[m] = ledger[m] /\ ledger'[n] = ledger[n]
    BY <1>1, <1>2
  <2>3. ASSUME NEW q \in DOMAIN ledger', ledger'[q].kind = "subscription_expired",
               ledger'[q].entitlement = ledger'[n].entitlement
        PROVE  q = n
    <3>1. CASE q \in DOMAIN ledger
      BY <1>1, <1>2, <2>3, <3>1 DEF ExpiredOnceAfterGrant
    <3>2. CASE q = Len(ledger) + 1
      BY <1>1, <1>2, <2>2, <2>3, <3>2 DEF HasEntitlementFact
    <3> QED BY <1>1, <3>1, <3>2
  <2> QED BY <2>1, <2>2, <2>3
<1>3. CASE n = Len(ledger) + 1
  <2>1. /\ HasEntitlementFact(ledger, "subscription_granted", f.entitlement)
        /\ ~HasEntitlementFact(ledger, "subscription_expired", f.entitlement)
    BY <1>1, <1>3
  <2>2. PICK m \in DOMAIN ledger : /\ ledger[m].kind = "subscription_granted"
                                   /\ ledger[m].entitlement = f.entitlement
    BY <2>1 DEF HasEntitlementFact
  <2>3. m \in 1 .. n - 1 /\ ledger'[m] = ledger[m] /\ ledger'[n] = f
    BY <1>1, <1>3, <2>2
  <2>4. ASSUME NEW q \in DOMAIN ledger', ledger'[q].kind = "subscription_expired",
               ledger'[q].entitlement = f.entitlement
        PROVE  q = n
    BY <1>1, <1>3, <2>1, <2>4 DEF HasEntitlementFact
  <2> QED BY <2>2, <2>3, <2>4
<1> QED BY <1>1, <1>2, <1>3

LEMMA ExpiredStep ==
  ASSUME TypeOK, ExpiredOnceAfterGrant, [Next]_vars
  PROVE  ExpiredOnceAfterGrant'
<1>1. CASE Grants
  <2>1. PICK o \in Orders : ledger' = Confirmed(ledger, o)
    BY <1>1 DEF Grants
  <2>2. /\ Len(ledger) \in Nat /\ DOMAIN ledger = 1 .. Len(ledger)
        /\ DOMAIN ledger' = 1 .. Len(ledger) + 2
        /\ \A n \in DOMAIN ledger : ledger'[n] = ledger[n]
        /\ ledger'[Len(ledger) + 1] = PaymentFact("payment_confirmed", o)
        /\ ledger'[Len(ledger) + 2] = GrantFact(o)
    BY <2>1, ConfirmedShape DEF TypeOK
  <2>3. \A n \in DOMAIN ledger' :
           ledger'[n].kind = "subscription_expired" => n \in DOMAIN ledger
    BY <2>2 DEF PaymentFact, GrantFact
  <2> QED BY <2>2, <2>3 DEF ExpiredOnceAfterGrant
<1>2. CASE Cancels \/ Refunds \/ Expires
  <2>1. PICK f \in Facts :
           /\ ledger' = Append(ledger, f)
           /\ f.kind = "subscription_expired" =>
                 /\ HasEntitlementFact(ledger, "subscription_granted", f.entitlement)
                 /\ ~HasEntitlementFact(ledger, "subscription_expired", f.entitlement)
    BY <1>2, CancelAppends, RefundAppends, ExpiryAppends DEF PaymentFact, ExpiryFact
  <2> QED BY <2>1, ExpiredAppend
<1>3. CASE UNCHANGED ledger
  BY <1>3 DEF ExpiredOnceAfterGrant
<1> QED BY <1>1, <1>2, <1>3, StepParts

-----------------------------------------------------------------------------
(* The records and the facts of one outcome of an intent. *)
RecordsOf(i, final) ==
  {n \in DOMAIN journal : journal[n].intent = i /\ journal[n].final = final}
FactsOf(i, final) ==
  {n \in DOMAIN ledger : ledger[n].intent = i /\ ledger[n].kind = KindOf(final)}

LEMMA OutcomesFinite ==
  ASSUME TypeOK, NEW i, NEW final
  PROVE  /\ IsFiniteSet(RecordsOf(i, final)) /\ Cardinality(RecordsOf(i, final)) \in Nat
         /\ IsFiniteSet(FactsOf(i, final)) /\ Cardinality(FactsOf(i, final)) \in Nat
<1>1. IsFiniteSet(DOMAIN journal) /\ IsFiniteSet(DOMAIN ledger)
  BY FS_Interval DEF TypeOK
<1>2. IsFiniteSet(RecordsOf(i, final)) /\ IsFiniteSet(FactsOf(i, final))
  BY <1>1, FS_Subset DEF RecordsOf, FactsOf
<1> QED BY <1>2, FS_CardinalityType

LEMMA BackedStep ==
  ASSUME TypeOK, TypeOK', RecordsBacked, [Next]_vars
  PROVE  RecordsBacked'
<1> SUFFICES ASSUME NEW i \in IntentIds, NEW final \in FinalStates
             PROVE  Cardinality(RecordsOf(i, final)') <= Cardinality(FactsOf(i, final)')
  BY DEF RecordsBacked, RecordsOf, FactsOf
<1>1. Cardinality(RecordsOf(i, final)) <= Cardinality(FactsOf(i, final))
  BY DEF RecordsBacked, RecordsOf, FactsOf
<1>2. /\ IsFiniteSet(RecordsOf(i, final)) /\ Cardinality(RecordsOf(i, final)) \in Nat
      /\ IsFiniteSet(FactsOf(i, final)) /\ Cardinality(FactsOf(i, final)) \in Nat
  BY OutcomesFinite
<1>3. IsFiniteSet(RecordsOf(i, final)') /\ IsFiniteSet(FactsOf(i, final)')
      /\ Cardinality(RecordsOf(i, final)') \in Nat /\ Cardinality(FactsOf(i, final)') \in Nat
  <2>1. IsFiniteSet(DOMAIN journal') /\ IsFiniteSet(DOMAIN ledger')
    BY FS_Interval DEF TypeOK
  <2>2. IsFiniteSet(RecordsOf(i, final)') /\ IsFiniteSet(FactsOf(i, final)')
    BY <2>1, FS_Subset DEF RecordsOf, FactsOf
  <2> QED BY <2>2, FS_CardinalityType
<1>4. FactsOf(i, final) \subseteq FactsOf(i, final)'
  BY LedgerGrows DEF LedgerKept, FactsOf
<1>5. Cardinality(FactsOf(i, final)) <= Cardinality(FactsOf(i, final)')
  BY <1>3, <1>4, FS_Subset
<1>6. CASE RecordsOf(i, final)' \subseteq RecordsOf(i, final)
  <2>1. Cardinality(RecordsOf(i, final)') <= Cardinality(RecordsOf(i, final))
    BY <1>2, <1>6, FS_Subset
  <2> QED BY <1>1, <1>2, <1>3, <1>5, <2>1
<1>7. CASE UNCHANGED journal
  BY <1>6, <1>7 DEF RecordsOf
<1>8. ASSUME NEW e \in Events, NEW o \in Orders, AppliesEvent(e, o)
      PROVE  Cardinality(RecordsOf(i, final)') <= Cardinality(FactsOf(i, final)')
  <2> DEFINE r == Len(journal) + 1
             f == Len(ledger) + 1
  <2>1. JournalsEvent(e, o)
    BY <1>8 DEF AppliesEvent
  <2>2. /\ DOMAIN journal = 1 .. Len(journal) /\ Len(journal) \in Nat
        /\ DOMAIN journal' = 1 .. r /\ journal'[r] = Record(e)
        /\ \A n \in DOMAIN journal : journal'[n] = journal[n]
    BY <2>1, RecordAppended
  <2>3. CASE e.intent = i /\ e.final = final
    <3>1. RecordsOf(i, final)' \subseteq RecordsOf(i, final) \cup {r}
      BY <2>2 DEF RecordsOf
    <3>2. r \notin RecordsOf(i, final)
      BY <2>2 DEF RecordsOf
    <3>3. f \in FactsOf(i, final)' /\ f \notin FactsOf(i, final)
      <4>1. f \in DOMAIN ledger' /\ ledger'[f] = PaymentFact(KindOf(final), o)
        BY <1>8, <2>3, AppliedFact
      <4>2. o.intent = i
        BY <2>1, <2>3 DEF JournalsEvent, Matches
      <4>3. f \notin DOMAIN ledger
        BY DEF TypeOK
      <4> QED BY <4>1, <4>2, <4>3 DEF FactsOf, PaymentFact
    <3>4. /\ IsFiniteSet(RecordsOf(i, final) \cup {r})
          /\ Cardinality(RecordsOf(i, final) \cup {r}) = Cardinality(RecordsOf(i, final)) + 1
      BY <1>2, <3>2, FS_AddElement
    <3>5. /\ IsFiniteSet(FactsOf(i, final) \cup {f})
          /\ Cardinality(FactsOf(i, final) \cup {f}) = Cardinality(FactsOf(i, final)) + 1
      BY <1>2, <3>3, FS_AddElement
    <3>6. Cardinality(RecordsOf(i, final)') <= Cardinality(RecordsOf(i, final) \cup {r})
      BY <3>1, <3>4, FS_Subset
    <3>7. Cardinality(FactsOf(i, final) \cup {f}) <= Cardinality(FactsOf(i, final)')
      BY <1>3, <1>4, <3>3, FS_Subset
    <3> QED BY <1>1, <1>2, <1>3, <3>4, <3>5, <3>6, <3>7
  <2>4. CASE ~(e.intent = i /\ e.final = final)
    BY <1>6, <2>2, <2>4 DEF RecordsOf, Record
  <2> QED BY <2>3, <2>4
<1> QED BY <1>7, <1>8, JointStep

(* Ledger and journal agree whatever orders share, one transaction for all  *)
(* of them included: keys are spent once, refunds and expiries are earned   *)
(* and happen once, a transaction never regresses, and the journal records  *)
(* no outcome of an intent that the ledger does not hold.                   *)
THEOREM AccountsAlwaysAgree == Spec => []AccountsAgree
<1>1. Init => TypeOK /\ ExpiredOnceAfterGrant /\ RecordsBacked
  <2> SUFFICES ASSUME Init PROVE TypeOK /\ ExpiredOnceAfterGrant /\ RecordsBacked
    OBVIOUS
  <2>1. TypeOK /\ ExpiredOnceAfterGrant
    BY ReconciliationAssumption DEF Init, TypeOK, Statuses, ExpiredOnceAfterGrant
  <2>2. ASSUME NEW i, NEW final
        PROVE  RecordsOf(i, final) = {} /\ FactsOf(i, final) = {}
    BY DEF Init, RecordsOf, FactsOf
  <2>3. RecordsBacked
    <3> SUFFICES ASSUME NEW i \in IntentIds, NEW final \in FinalStates
                 PROVE  Cardinality(RecordsOf(i, final)) <= Cardinality(FactsOf(i, final))
      BY DEF RecordsBacked, RecordsOf, FactsOf
    <3>1. /\ Cardinality(RecordsOf(i, final)) = 0
          /\ Cardinality(FactsOf(i, final)) = 0
      BY <2>2, FS_EmptySet
    <3> QED BY <3>1
  <2> QED BY <2>1, <2>3
<1>2. /\ TypeOK /\ ExpiredOnceAfterGrant /\ RecordsBacked /\ [Next]_vars
      => (TypeOK /\ ExpiredOnceAfterGrant /\ RecordsBacked)'
  BY TypeStep, ExpiredStep, BackedStep
<1>3. TypeOK /\ KeySpentOnce /\ RefundedOnceAfterConfirm /\ ExpiredOnceAfterGrant
        /\ NeverRegresses /\ RecordsBacked => AccountsAgree
  BY DEF AccountsAgree
<1> QED BY <1>1, <1>2, <1>3, KeysAreSpentOnce, RefundsAreEarned,
           TransactionsNeverRegress, PTL DEF Spec

-----------------------------------------------------------------------------
(* The refinement of PaymentLifecycle. *)
PaymentOf(o) == [intent |-> o.intent, key |-> o.key]

(* A caller holds a confirmed value only of an order the ledger confirmed,  *)
(* unless it came from elsewhere.                                           *)
HeldValuesPaid ==
  \A o \in Orders :
    NotRestored(o) /\ <<o, "confirmed">> \in values => Says(o, "payment_confirmed")

(* A refund that is asked with such a value. *)
RefundsPaid ==
  \E o \in Orders :
    /\ NotRestored(o) => Says(o, "payment_confirmed")
    /\ ~HasPaymentFact(ledger, "payment_refunded", o.intent)
    /\ ledger' = Refunded(ledger, o)

LEMMA PaidStepParts ==
  ASSUME TypeOK, HeldValuesPaid, [Next]_vars
  PROVE  Grants \/ Cancels \/ RefundsPaid \/ Expires \/ UNCHANGED ledger
<1>1. ASSUME NEW v \in values, MayRefund(ledger, v[1], v[2]), ledger' = Refunded(ledger, v[1])
      PROVE  RefundsPaid
  <2>1. v[2] = "confirmed" /\ v[1] \in Orders /\ v = <<v[1], v[2]>>
    BY <1>1 DEF MayRefund, CanTransition, TypeOK
  <2> QED BY <1>1, <2>1 DEF HeldValuesPaid, RefundsPaid, MayRefund
<1>2. ASSUME NEW v \in values, RefundPayment(v[1], v[2])
      PROVE  RefundsPaid
  BY <1>1, <1>2 DEF RefundPayment
<1>3. ASSUME NEW v \in values, NEW e \in Events, ReconcileRefunded(e, v[1], v[2])
      PROVE  RefundsPaid
  BY <1>1, <1>3 DEF ReconcileRefunded
<1>4. ASSUME NEW v \in values,
             ConfirmPayment(v[1], v[2]) \/ CancelPayment(v[1], v[2])
      PROVE  Grants \/ Cancels
  BY <1>4 DEF TypeOK, ConfirmPayment, CancelPayment, MayConfirm, MayCancel, Grants, Cancels
<1>5. ASSUME NEW v \in values, NEW e \in Events, ReconcileConfirmed(e, v[1], v[2])
      PROVE  Grants
  BY <1>5 DEF TypeOK, ReconcileConfirmed, MayConfirm, Grants
<1>6. ASSUME NEW e \in EntitlementIds, NEW s \in EntitlementStatuses, ExpireEntitlement(e, s)
      PROVE  Expires
  BY <1>6 DEF ExpireEntitlement, MayExpire, Expires
<1> QED BY <1>2, <1>3, <1>4, <1>5, <1>6 DEF Next, vars

LEMMA HeldPaidStep ==
  ASSUME TypeOK, HeldValuesPaid, [Next]_vars
  PROVE  HeldValuesPaid'
<1> SUFFICES ASSUME NEW o \in Orders, <<o, "confirmed">> \in values'
             PROVE  NotRestored(o) =>
                      \E n \in DOMAIN ledger' : ledger'[n] = PaymentFact("payment_confirmed", o)
  BY DEF HeldValuesPaid, Says
<1>1. CASE <<o, "confirmed">> \in values
  BY <1>1, LedgerGrows DEF HeldValuesPaid, Says, LedgerKept
<1>2. CASE <<o, "confirmed">> \notin values
  <2>1. ledger' = Confirmed(ledger, o)
    BY <1>2 DEF Next, vars, ConfirmPayment, CancelPayment, RefundPayment,
                ExpireEntitlement, ReconcileConfirmed, ReconcileRefunded
  <2> QED BY <2>1, ConfirmedShape DEF TypeOK
<1> QED BY <1>1, <1>2

(* After the step the ledger says of each payment what it said, and besides *)
(* it kind of o.                                                            *)
NowSays(o, kind) ==
  \A p \in Payments, k \in PaymentKinds :
    (\E n \in DOMAIN ledger' : ledger'[n] = PaymentFact(k, p))
      <=> Says(p, k) \/ (k = kind /\ p = PaymentOf(o))

LEMMA SameFact ==
  ASSUME NEW o \in Orders, NEW p \in Payments, NEW k, NEW kind
  PROVE  PaymentFact(kind, o) = PaymentFact(k, p) <=> k = kind /\ p = PaymentOf(o)
BY DEF PaymentFact, Payments, PaymentOf

LEMMA PaymentListed ==
  ASSUME NEW o \in Orders
  PROVE  PaymentOf(o) \in Payments <=> NotRestored(o)
BY DEF PaymentOf, Payments, NotRestored

LEMMA PaymentAppended ==
  ASSUME TypeOK, NEW o \in Orders, NEW kind \in PaymentKinds,
         ledger' = Append(ledger, PaymentFact(kind, o))
  PROVE  NowSays(o, kind)
<1>1. PaymentFact(kind, o) \in Facts
  BY FactShapes DEF EntitlementIds
<1>2. /\ Len(ledger) \in Nat /\ DOMAIN ledger = 1 .. Len(ledger)
      /\ DOMAIN ledger' = 1 .. Len(ledger) + 1
      /\ \A n \in DOMAIN ledger : ledger'[n] = ledger[n]
      /\ ledger'[Len(ledger) + 1] = PaymentFact(kind, o)
  BY <1>1, GrownLedger
<1>3. ASSUME NEW p \in Payments, NEW k \in PaymentKinds
      PROVE  (\E n \in DOMAIN ledger' : ledger'[n] = PaymentFact(k, p))
               <=> Says(p, k) \/ PaymentFact(kind, o) = PaymentFact(k, p)
  <2>1. DOMAIN ledger' = DOMAIN ledger \cup {Len(ledger) + 1}
    BY <1>2
  <2> QED BY <1>2, <2>1 DEF Says
<1> QED BY <1>3, SameFact DEF NowSays

LEMMA PaymentConfirmed ==
  ASSUME TypeOK, NEW o \in Orders, ledger' = Confirmed(ledger, o)
  PROVE  NowSays(o, "payment_confirmed")
<1> DEFINE l == Len(ledger)
<1>1. /\ l \in Nat /\ DOMAIN ledger = 1 .. l
      /\ DOMAIN ledger' = 1 .. l + 2
      /\ \A n \in DOMAIN ledger : ledger'[n] = ledger[n]
      /\ ledger'[l + 1] = PaymentFact("payment_confirmed", o)
      /\ ledger'[l + 2] = GrantFact(o)
  BY ConfirmedShape DEF TypeOK
<1>2. DOMAIN ledger' = DOMAIN ledger \cup {l + 1, l + 2}
  BY <1>1
<1>3. ASSUME NEW p \in Payments, NEW k \in PaymentKinds
      PROVE  (\E n \in DOMAIN ledger' : ledger'[n] = PaymentFact(k, p))
               <=> Says(p, k) \/ PaymentFact("payment_confirmed", o) = PaymentFact(k, p)
  <2>1. ledger'[l + 2] # PaymentFact(k, p)
    BY <1>1 DEF GrantFact, PaymentFact, PaymentKinds
  <2> QED BY <1>1, <1>2, <2>1 DEF Says
<1> QED BY <1>3, SameFact DEF NowSays

(* What a payment's status is before and after such a step. *)
LEMMA StatusOf ==
  ASSUME NEW p \in Payments
  PROVE  /\ LedgerStatus(p) = "pending" <=>
              \A k \in PaymentKinds : ~Says(p, k)
         /\ LedgerStatus(p) = "confirmed" <=>
              Says(p, "payment_confirmed") /\ ~Says(p, "payment_refunded")
         /\ LedgerStatus(p) = "cancelled" <=>
              /\ Says(p, "payment_cancelled")
              /\ ~Says(p, "payment_confirmed") /\ ~Says(p, "payment_refunded")
         /\ LedgerStatus(p) = "refunded" <=> Says(p, "payment_refunded")
BY DEF LedgerStatus, PaymentKinds

LEMMA StatusNext ==
  ASSUME NEW o \in Orders, NotRestored(o), NEW kind \in PaymentKinds, NowSays(o, kind)
  PROVE  /\ \A p \in Payments : p # PaymentOf(o) => LedgerStatus(p)' = LedgerStatus(p)
         /\ PaymentOf(o) \in Payments
         /\ LedgerStatus(PaymentOf(o)) = "pending" =>
              LedgerStatus(PaymentOf(o))' =
                CASE kind = "payment_confirmed" -> "confirmed"
                  [] kind = "payment_cancelled" -> "cancelled"
                  [] kind = "payment_refunded" -> "refunded"
         /\ kind = "payment_refunded" => LedgerStatus(PaymentOf(o))' = "refunded"
<1>1. ASSUME NEW p \in Payments, p # PaymentOf(o)
      PROVE  LedgerStatus(p)' = LedgerStatus(p)
  <2>1. \A k \in PaymentKinds : Says(p, k)' <=> Says(p, k)
    BY <1>1 DEF NowSays, Says
  <2> QED BY <2>1 DEF LedgerStatus, PaymentKinds
<1>2. PaymentOf(o) \in Payments
  BY PaymentListed
<1>3. \A k \in PaymentKinds :
         Says(PaymentOf(o), k)' <=> Says(PaymentOf(o), k) \/ k = kind
  BY <1>2 DEF NowSays, Says
<1>4. ASSUME LedgerStatus(PaymentOf(o)) = "pending"
      PROVE  \A k \in PaymentKinds : Says(PaymentOf(o), k)' <=> k = kind
  BY <1>2, <1>3, <1>4, StatusOf
<1> QED BY <1>1, <1>2, <1>3, <1>4 DEF LedgerStatus, PaymentKinds

StatusMap == [p \in Payments |-> LedgerStatus(p)]

(* A fact about a payment that is not followed changes none that is. *)
LEMMA RestoredStutters ==
  ASSUME NEW o \in Orders, ~NotRestored(o), NEW kind \in PaymentKinds, NowSays(o, kind)
  PROVE  StatusMap' = StatusMap
<1>1. \A p \in Payments, k \in PaymentKinds : Says(p, k)' <=> Says(p, k)
  BY PaymentListed DEF NowSays, Says
<1>2. \A p \in Payments : LedgerStatus(p)' = LedgerStatus(p)
  BY <1>1 DEF LedgerStatus, PaymentKinds
<1> QED BY <1>2 DEF StatusMap

LEMMA SettleRefines ==
  ASSUME NEW o \in Orders, NotRestored(o),
         NEW kind \in {"payment_confirmed", "payment_cancelled"},
         ~HasKey(ledger, o.key), NowSays(o, kind)
  PROVE  Lifecycle!Next
<1>1. kind \in PaymentKinds
  BY DEF PaymentKinds
<1>2. ASSUME NEW q \in Payments, q.key = o.key
      PROVE  LedgerStatus(q) = "pending"
  <2>1. \A k \in PaymentKinds : ~Says(q, k)
    BY <1>2 DEF HasKey, Says, PaymentFact
  <2> QED BY <2>1, StatusOf
<1>3. PaymentOf(o) \in Payments /\ PaymentOf(o).key = o.key
  BY <1>1, StatusNext DEF PaymentOf
<1>4. PICK s \in {"confirmed", "cancelled"} : LedgerStatus(PaymentOf(o))' = s
  BY <1>1, <1>2, <1>3, StatusNext
<1>5. StatusMap' = [StatusMap EXCEPT ![PaymentOf(o)] = s]
  BY <1>1, <1>3, <1>4, StatusNext DEF StatusMap
<1>6. \A q \in Payments : q.key = PaymentOf(o).key => StatusMap[q] = "pending"
  BY <1>2, <1>3 DEF StatusMap
<1>7. Lifecycle!Settle(PaymentOf(o))
  BY <1>5, <1>6 DEF Lifecycle!Settle, StatusMap
<1> QED BY <1>3, <1>7 DEF Lifecycle!Next

LEMMA RefundRefines ==
  ASSUME NEW o \in Orders, NotRestored(o), Says(o, "payment_confirmed"),
         ~HasPaymentFact(ledger, "payment_refunded", o.intent),
         NowSays(o, "payment_refunded")
  PROVE  Lifecycle!Next
<1>1. "payment_refunded" \in PaymentKinds
  BY DEF PaymentKinds
<1>2. /\ PaymentOf(o) \in Payments /\ PaymentOf(o).intent = o.intent
      /\ LedgerStatus(PaymentOf(o))' = "refunded"
      /\ \A p \in Payments : p # PaymentOf(o) => LedgerStatus(p)' = LedgerStatus(p)
  BY <1>1, StatusNext DEF PaymentOf
<1>3. ASSUME NEW q \in Payments, q.intent = o.intent
      PROVE  ~Says(q, "payment_refunded") /\ LedgerStatus(q) # "refunded"
  <2>1. ~Says(q, "payment_refunded")
    BY <1>3 DEF HasPaymentFact, Says, PaymentFact
  <2> QED BY <2>1, StatusOf
<1>4. LedgerStatus(PaymentOf(o)) = "confirmed"
  <2>1. Says(PaymentOf(o), "payment_confirmed")
    BY DEF Says, PaymentOf, PaymentFact
  <2> QED BY <1>2, <1>3, <2>1, StatusOf
<1>5. StatusMap' = [StatusMap EXCEPT ![PaymentOf(o)] = "refunded"]
  BY <1>2 DEF StatusMap
<1>6. /\ StatusMap[PaymentOf(o)] = "confirmed"
      /\ \A q \in Payments : q.intent = PaymentOf(o).intent => StatusMap[q] # "refunded"
  BY <1>2, <1>3, <1>4 DEF StatusMap
<1>7. Lifecycle!Refund(PaymentOf(o))
  BY <1>5, <1>6 DEF Lifecycle!Refund, StatusMap
<1> QED BY <1>2, <1>7 DEF Lifecycle!Next

LEMMA ExpiryStutters ==
  ASSUME TypeOK, Expires
  PROVE  StatusMap' = StatusMap
<1>1. PICK e \in EntitlementIds :
         ExpiryFact(e) \in Facts /\ ledger' = Append(ledger, ExpiryFact(e))
  BY ExpiryAppends
<1>2. /\ DOMAIN ledger' = DOMAIN ledger \cup {Len(ledger) + 1}
      /\ \A n \in DOMAIN ledger : ledger'[n] = ledger[n]
      /\ ledger'[Len(ledger) + 1] = ExpiryFact(e)
  <2>1. /\ Len(ledger) \in Nat /\ DOMAIN ledger = 1 .. Len(ledger)
        /\ DOMAIN ledger' = 1 .. Len(ledger) + 1
        /\ \A n \in DOMAIN ledger : ledger'[n] = ledger[n]
        /\ ledger'[Len(ledger) + 1] = ExpiryFact(e)
    BY <1>1, GrownLedger
  <2> QED BY <2>1
<1>3. \A p \in Payments, k \in PaymentKinds : Says(p, k)' <=> Says(p, k)
  BY <1>2 DEF Says, ExpiryFact, PaymentFact, PaymentKinds
<1>4. \A p \in Payments : LedgerStatus(p)' = LedgerStatus(p)
  BY <1>3 DEF LedgerStatus, PaymentKinds
<1> QED BY <1>4 DEF StatusMap

(* Every payment lives the life of can_transition_to in the ledger,         *)
(* whatever old values are presented and whatever the provider repeats,     *)
(* unless callers start with a confirmed value of its intent from another   *)
(* ledger.                                                                  *)
THEOREM PaymentsFollowLifecycle == Spec => FollowsLifecycle
<1>1. Init => TypeOK /\ HeldValuesPaid
  BY ReconciliationAssumption DEF Init, TypeOK, Statuses, HeldValuesPaid, NotRestored
<1>2. TypeOK /\ HeldValuesPaid /\ [Next]_vars => (TypeOK /\ HeldValuesPaid)'
  BY TypeStep, HeldPaidStep
<1>3. Init => Lifecycle!Init
  BY DEF Init, Lifecycle!Init, LedgerStatus, Says
<1>4. TypeOK /\ HeldValuesPaid /\ [Next]_vars
        => Lifecycle!Next \/ StatusMap' = StatusMap
  <2> SUFFICES ASSUME TypeOK, HeldValuesPaid, [Next]_vars
               PROVE  Lifecycle!Next \/ StatusMap' = StatusMap
    OBVIOUS
  <2>1. CASE Grants
    <3>1. PICK o \in Orders : ~HasKey(ledger, o.key) /\ ledger' = Confirmed(ledger, o)
      BY <2>1 DEF Grants
    <3>2. NowSays(o, "payment_confirmed") /\ "payment_confirmed" \in PaymentKinds
      BY <3>1, PaymentConfirmed DEF PaymentKinds
    <3> QED BY <3>1, <3>2, SettleRefines, RestoredStutters
  <2>2. CASE Cancels
    <3>1. PICK o \in Orders :
             /\ ~HasKey(ledger, o.key)
             /\ ledger' = Append(ledger, PaymentFact("payment_cancelled", o))
      BY <2>2 DEF Cancels, Cancelled
    <3>2. NowSays(o, "payment_cancelled") /\ "payment_cancelled" \in PaymentKinds
      BY <3>1, PaymentAppended DEF PaymentKinds
    <3> QED BY <3>1, <3>2, SettleRefines, RestoredStutters
  <2>3. CASE RefundsPaid
    <3>1. PICK o \in Orders :
             /\ NotRestored(o) => Says(o, "payment_confirmed")
             /\ ~HasPaymentFact(ledger, "payment_refunded", o.intent)
             /\ ledger' = Append(ledger, PaymentFact("payment_refunded", o))
      BY <2>3 DEF RefundsPaid, Refunded
    <3>2. NowSays(o, "payment_refunded") /\ "payment_refunded" \in PaymentKinds
      BY <3>1, PaymentAppended DEF PaymentKinds
    <3> QED BY <3>1, <3>2, RefundRefines, RestoredStutters
  <2>4. CASE Expires
    BY <2>4, ExpiryStutters
  <2>5. CASE UNCHANGED ledger
    BY <2>5 DEF StatusMap, LedgerStatus, Says
  <2> QED BY <2>1, <2>2, <2>3, <2>4, <2>5, PaidStepParts
<1>5. TypeOK /\ HeldValuesPaid /\ [Next]_vars => [Lifecycle!Next]_StatusMap
  BY <1>4
<1> QED BY <1>1, <1>2, <1>3, <1>5, PTL DEF Spec, FollowsLifecycle, Lifecycle!Spec, StatusMap
=============================================================================
