--------------------------- MODULE SupervisionLease ---------------------------
(***************************************************************************)
(* supervision_policy.py and deadline_contracts.py: the lease under which  *)
(* one execution of a ticket is supervised.  The reducer is pure; the      *)
(* facts it is given occur at an instant of a clock and may be delivered   *)
(* late, out of order, again or never.  The deadline timer is one-shot and  *)
(* replaced when it is armed again; its signals are not lost.               *)
(*                                                                         *)
(* The composition that holds the lease is not part of the repository: it  *)
(* is modelled from the contracts it must fill.  A lease is a record, its  *)
(* deadline always origin plus duration, as its validator demands; the     *)
(* count of resets, which nothing reads, is left out.                      *)
(***************************************************************************)
EXTENDS Integers, FiniteSets

CONSTANTS
  Luna, Terra,         \* SupervisionClass
  LunaTotal,           \* _LUNA_TOTAL_MS, in clock ticks
  TerraInactivity,     \* _TERRA_INACTIVITY_MS, in clock ticks
  NoLease,
  MaxClock,            \* bound of the clock
  MaxLeases,           \* bound of the executions of the ticket
  MaxFacts             \* bound of the facts on their way to the reducer

LeaseAssumption ==
  /\ Luna # Terra
  /\ LunaTotal \in Nat \ {0} /\ TerraInactivity \in Nat \ {0}
  /\ MaxClock \in Nat /\ MaxLeases \in Nat /\ MaxFacts \in Nat

Classes == {Luna, Terra}
Lifecycles == {"ACTIVE", "DIAGNOSIS_PENDING", "CLOSED"}
FactKinds == {"EXACT_REF_ADVANCED", "TASK_STOPPED_INCOMPLETE", "DEADLINE_FIRED",
              "DIAGNOSIS_STOPPED_INCOMPLETE", "TERMINAL_HANDOFF"}
Verdicts == {"LEASE_STARTED", "SILENT_ACTIVITY_RECORDED", "WAKE_REVIEWER_DIAGNOSIS",
             "CONTINUE_IMPLEMENTATION", "TICKET_DEFECT_COMPLEXITY_EXCEEDED",
             "MODEL_CAPABILITY_INSUFFICIENT", "LEASE_CLOSED"}
Facts == [kind : FactKinds, at : Nat]

Duration(class) == IF class = Luna THEN LunaTotal ELSE TerraInactivity

Deadline(l) == l.origin + Duration(l.class)

(* SupervisionLease.lease_policy_is_exact: Luna is neither continued nor    *)
(* diagnosed, Terra is continued at most once.                              *)
Leases == {l \in [class : Classes, lifecycle : Lifecycles, origin : Nat, continues : 0..1] :
             l.class = Luna => l.continues = 0 /\ l.lifecycle # "DIAGNOSIS_PENDING"}

NoLeaseAssumption == NoLease \notin Leases

VARIABLES
  clock,
  lease,      \* the lease of the current execution
  override,   \* ModelOverrideState: "none", "ACTIVE" or "EXPIRED"
  timer,      \* the instants at which the armed timer fires: none or one
  facts,      \* what has occurred in this execution and may still be told
  lastSeen,   \* the latest activity or continuation the reducer counted
  handedOff,  \* the reducer was told of the handoff and did not reject it
  began,      \* when this execution was started
  asked,      \* the reviewer was woken and has not answered
  verdict,    \* the last decision of the reducer that was no rejection
  starts      \* how many executions were started

vars == <<clock, lease, override, timer, facts, lastSeen, handedOff, began, asked, verdict, starts>>

Init ==
  /\ clock = 0
  /\ lease = NoLease
  /\ override = "none"
  /\ timer = {}
  /\ facts = {}
  /\ lastSeen = 0 /\ handedOff = FALSE /\ began = 0
  /\ asked = FALSE
  /\ verdict = "none"
  /\ starts = 0

Supervised == lease # NoLease
Open == Supervised /\ lease.lifecycle # "CLOSED"

-----------------------------------------------------------------------------
(* The world: time passes, the task and the reviewer do things. *)

Tick ==
  /\ clock < MaxClock
  /\ clock' = clock + 1
  /\ UNCHANGED <<lease, override, timer, facts, lastSeen, handedOff, began, asked, verdict, starts>>

Occurs(kind) ==
  /\ Cardinality(facts) < MaxFacts
  /\ facts' = facts \cup {[kind |-> kind, at |-> clock]}
  /\ UNCHANGED <<clock, lease, override, lastSeen, handedOff, began, verdict, starts>>

TaskActs(kind) == Open /\ Occurs(kind) /\ UNCHANGED <<timer, asked>>

(* ReviewerDiagnosisRequest: one answer to every wake. *)
ReviewerAnswers ==
  /\ Open /\ asked
  /\ asked' = FALSE
  /\ Occurs("DIAGNOSIS_STOPPED_INCOMPLETE")
  /\ UNCHANGED timer

(* DeadlineSignal: a signal names the lease and the instant, not the deadline. *)
Fire ==
  /\ \E d \in timer : clock >= d
  /\ timer' = {}
  /\ facts' = facts \cup {[kind |-> "DEADLINE_FIRED", at |-> clock]}
  /\ UNCHANGED <<clock, lease, override, lastSeen, handedOff, began, asked, verdict, starts>>

(* DeadlineArmRequest: only an active lease is armed; an older timer of the *)
(* lease is replaced.  A lease that has ended is cancelled.                 *)
ArmDeadline ==
  /\ Open /\ lease.lifecycle = "ACTIVE"
  /\ timer' = {Deadline(lease)}
  /\ UNCHANGED <<clock, lease, override, facts, lastSeen, handedOff, began, asked, verdict, starts>>

CancelDeadline ==
  /\ Supervised /\ ~Open
  /\ timer' = {}
  /\ UNCHANGED <<clock, lease, override, facts, lastSeen, handedOff, began, asked, verdict, starts>>

-----------------------------------------------------------------------------
(* start_supervision_lease with complete evidence; with any other there is  *)
(* no lease.  The facts and the timer of an earlier execution name another  *)
(* lease and are not given to this one's reducer.                           *)
Start(class) ==
  /\ ~Open /\ starts < MaxLeases
  /\ lease' = [class |-> class, lifecycle |-> "ACTIVE", origin |-> clock, continues |-> 0]
  /\ timer' = {} /\ facts' = {}
  /\ lastSeen' = clock /\ handedOff' = FALSE /\ began' = clock
  /\ asked' = FALSE
  /\ verdict' = "LEASE_STARTED"
  /\ starts' = starts + 1
  /\ UNCHANGED <<clock, override>>

(* An observation is lost. *)
Lose(f) ==
  /\ f \in facts /\ f.kind # "DEADLINE_FIRED"
  /\ facts' = facts \ {f}
  /\ UNCHANGED <<clock, lease, override, timer, lastSeen, handedOff, began, asked, verdict, starts>>

(* Fault: a timer that was armed before the lease was renewed is believed. *)
AcceptsAnySignal(l, f) ==
  /\ l.lifecycle # "CLOSED" /\ f.at >= l.origin
  /\ f.kind \in {"EXACT_REF_ADVANCED", "TASK_STOPPED_INCOMPLETE", "DEADLINE_FIRED"} =>
       l.lifecycle = "ACTIVE"
  /\ f.kind = "EXACT_REF_ADVANCED" => f.at <= Deadline(l)
  /\ f.kind = "DIAGNOSIS_STOPPED_INCOMPLETE" =>
       l.class = Terra /\ l.lifecycle = "DIAGNOSIS_PENDING"

(* The guards of reduce_supervision_lease, for a fact and a lease. *)
Accepts(l, f) ==
  /\ l.lifecycle # "CLOSED" /\ f.at >= l.origin
  /\ f.kind \in {"EXACT_REF_ADVANCED", "TASK_STOPPED_INCOMPLETE", "DEADLINE_FIRED"} =>
       l.lifecycle = "ACTIVE"
  /\ f.kind = "EXACT_REF_ADVANCED" => f.at <= Deadline(l)
  /\ f.kind = "DEADLINE_FIRED" => f.at >= Deadline(l)
  /\ f.kind = "DIAGNOSIS_STOPPED_INCOMPLETE" =>
       l.class = Terra /\ l.lifecycle = "DIAGNOSIS_PENDING"

(* A fact reaches the reducer, which answers v.  It may be told again. *)
Told(f, v) ==
  /\ Supervised /\ f \in facts
  /\ facts' \in {facts, facts \ {f}}
  /\ verdict' = v
  /\ UNCHANGED <<clock, timer, began, starts>>

Counts(f) ==
  /\ lastSeen' = IF f.at > lastSeen THEN f.at ELSE lastSeen
  /\ UNCHANGED handedOff

(* _event_rejected: the lease stays as it is.  The answer names no override: *)
(* a caller that adopts it as a whole has none afterwards.                   *)
RejectFact(f) ==
  /\ Told(f, verdict)
  /\ ~Accepts(lease, f)
  /\ override' \in {override, "none"}
  /\ UNCHANGED <<lease, asked, lastSeen, handedOff>>

(* Fault: activity also renews the lease of a Luna role. *)
RecordActivityOfAnyone(f) ==
  /\ f.kind = "EXACT_REF_ADVANCED"
  /\ Told(f, "SILENT_ACTIVITY_RECORDED")
  /\ Accepts(lease, f)
  /\ lease' = [lease EXCEPT !.origin = f.at]
  /\ UNCHANGED <<override, asked>>
  /\ Counts(f)

(* Fault: activity gives the role its continuation back. *)
RecordActivityForgiving(f) ==
  /\ f.kind = "EXACT_REF_ADVANCED"
  /\ Told(f, "SILENT_ACTIVITY_RECORDED")
  /\ Accepts(lease, f)
  /\ lease' = IF lease.class = Luna THEN lease
              ELSE [lease EXCEPT !.origin = f.at, !.continues = 0]
  /\ UNCHANGED <<override, asked>>
  /\ Counts(f)

(* EXACT_REF_ADVANCED: a Terra lease starts anew, a Luna lease does not. *)
RecordActivity(f) ==
  /\ f.kind = "EXACT_REF_ADVANCED"
  /\ Told(f, "SILENT_ACTIVITY_RECORDED")
  /\ Accepts(lease, f)
  /\ lease' = IF lease.class = Luna THEN lease ELSE [lease EXCEPT !.origin = f.at]
  /\ UNCHANGED <<override, asked>>
  /\ Counts(f)

(* TASK_STOPPED_INCOMPLETE and DEADLINE_FIRED: the reviewer of a Terra role *)
(* is woken, ...                                                            *)
WakeReviewer(f) ==
  /\ f.kind \in {"TASK_STOPPED_INCOMPLETE", "DEADLINE_FIRED"}
  /\ Told(f, "WAKE_REVIEWER_DIAGNOSIS")
  /\ Accepts(lease, f) /\ lease.class = Terra
  /\ lease' = [lease EXCEPT !.lifecycle = "DIAGNOSIS_PENDING"]
  /\ asked' = TRUE
  /\ UNCHANGED <<override, lastSeen, handedOff>>

(* ... and for a Luna role the ticket is at fault. *)
FindTicketDefect(f) ==
  /\ f.kind \in {"TASK_STOPPED_INCOMPLETE", "DEADLINE_FIRED"}
  /\ Told(f, "TICKET_DEFECT_COMPLEXITY_EXCEEDED")
  /\ Accepts(lease, f) /\ lease.class = Luna
  /\ lease' = [lease EXCEPT !.lifecycle = "CLOSED"]
  /\ UNCHANGED <<override, asked, lastSeen, handedOff>>

(* DIAGNOSIS_STOPPED_INCOMPLETE: the first is followed by a continuation, *)
ContinueImplementation(f) ==
  /\ f.kind = "DIAGNOSIS_STOPPED_INCOMPLETE"
  /\ Told(f, "CONTINUE_IMPLEMENTATION")
  /\ Accepts(lease, f) /\ lease.continues = 0
  /\ lease' = [lease EXCEPT !.lifecycle = "ACTIVE", !.origin = f.at, !.continues = 1]
  /\ UNCHANGED <<override, asked>>
  /\ Counts(f)

(* the second is the end. *)
FindModelInsufficient(f) ==
  /\ f.kind = "DIAGNOSIS_STOPPED_INCOMPLETE"
  /\ Told(f, "MODEL_CAPABILITY_INSUFFICIENT")
  /\ Accepts(lease, f) /\ lease.continues > 0
  /\ lease' = [lease EXCEPT !.lifecycle = "CLOSED"]
  /\ UNCHANGED <<override, asked, lastSeen, handedOff>>

Expired(o) == IF o = "ACTIVE" THEN "EXPIRED" ELSE o

(* TERMINAL_HANDOFF: whatever is pending, the lease and its override end. *)
HandOff(f) ==
  /\ f.kind = "TERMINAL_HANDOFF"
  /\ Told(f, "LEASE_CLOSED")
  /\ Accepts(lease, f)
  /\ lease' = [lease EXCEPT !.lifecycle = "CLOSED"]
  /\ override' = Expired(override)
  /\ UNCHANGED asked
  /\ handedOff' = TRUE /\ UNCHANGED lastSeen

(* close_supervision_lease: the binding was revoked.  The override stays. *)
CloseLease ==
  /\ Open
  /\ lease' = [lease EXCEPT !.lifecycle = "CLOSED"]
  /\ verdict' = "LEASE_CLOSED"
  /\ UNCHANGED <<clock, override, timer, facts, lastSeen, handedOff, began, asked, starts>>

(* resolve_ticket_repair of a defect that is no independently observable    *)
(* part: the ticket gets one Terra override.  A ticket that is split, or    *)
(* split along no approved dimension, gets none.                            *)
RepairTicket ==
  /\ ~Open /\ verdict = "TICKET_DEFECT_COMPLEXITY_EXCEEDED"
  /\ override' = "ACTIVE"
  /\ UNCHANGED <<clock, lease, timer, facts, lastSeen, handedOff, began, asked, verdict, starts>>

-----------------------------------------------------------------------------
Reduce(f) ==
  \/ RejectFact(f) \/ RecordActivity(f) \/ WakeReviewer(f) \/ FindTicketDefect(f)
  \/ ContinueImplementation(f) \/ FindModelInsufficient(f) \/ HandOff(f)

World ==
  \/ Tick \/ ReviewerAnswers \/ Fire
  \/ \E kind \in {"EXACT_REF_ADVANCED", "TASK_STOPPED_INCOMPLETE", "TERMINAL_HANDOFF"} :
       TaskActs(kind)

Next ==
  \/ World \/ ArmDeadline \/ CancelDeadline \/ CloseLease \/ RepairTicket
  \/ \E class \in Classes : Start(class)
  \/ \E f \in facts : Reduce(f) \/ Lose(f)

Spec == Init /\ [][Next]_vars

(* Time passes; the composition arms an active lease whose deadline no      *)
(* timer has, the timer fires, and its signals reach the reducer.           *)
Fairness ==
  /\ WF_vars(Tick)
  /\ WF_vars(ArmDeadline /\ timer # {Deadline(lease)})
  /\ WF_vars(Fire)
  /\ \A t \in 0..MaxClock : WF_vars(Reduce([kind |-> "DEADLINE_FIRED", at |-> t]))

FairSpec == Spec /\ Fairness

-----------------------------------------------------------------------------
TypeOK ==
  /\ clock \in 0..MaxClock
  /\ lease \in Leases \cup {NoLease}
  /\ override \in {"none", "ACTIVE", "EXPIRED"}
  /\ timer \subseteq Nat /\ Cardinality(timer) <= 1
  /\ facts \subseteq Facts
  /\ {lastSeen, began} \subseteq 0..MaxClock
  /\ handedOff \in BOOLEAN
  /\ asked \in BOOLEAN
  /\ verdict \in Verdicts \cup {"none"}
  /\ starts \in 0..MaxLeases

(* A lease is given up at a deadline only when it was due: no activity the   *)
(* reducer counted, in whatever order it was told, lies less than the whole *)
(* duration before the signal, and a Luna role had its total time.  Early   *)
(* signals and those of a timer armed for an older deadline end nothing.    *)
ExpiryIsEarned ==
  [][\A f \in facts :
       f.kind = "DEADLINE_FIRED" /\ (WakeReviewer(f) \/ FindTicketDefect(f)) =>
         /\ f.at >= began + Duration(lease.class)
         /\ lease.class = Terra => f.at >= lastSeen + TerraInactivity]_vars

(* ModelOverrideState: the one-ticket override does not outlive the handoff *)
(* of the execution it was used for, and neither does the lease, whatever   *)
(* the lease was waiting for.                                               *)
HandoffEndsTicket ==
  handedOff => ~Open /\ override # "ACTIVE"

(* A lease ends in time: at a deadline that was due, and at the handoff.    *)
LeaseEndsInTime == [](TypeOK /\ HandoffEndsTicket) /\ ExpiryIsEarned

(* The states of SilenceWatch. *)
Watch ==
  CASE ~Supervised -> "none"
    [] Supervised /\ ~Open -> "ended"
    [] Open /\ lease.lifecycle = "ACTIVE" -> IF lease.continues = 0 THEN "first" ELSE "last"
    [] OTHER -> IF lease.continues = 0 THEN "diagnosing" ELSE "diagnosing_again"

Promise == INSTANCE SilenceWatch
             WITH class <- IF Supervised THEN lease.class ELSE NoLease, watch <- Watch

(* At most one continuation per execution and no way back from the end,     *)
(* with facts late, reordered or repeated.                                  *)
KeepsWatch == Promise!Spec

(* A role that stays silent past its deadline is noticed, and a Luna role   *)
(* whose total time is over is ended whatever it does, although signals of  *)
(* older timers are refused on the way.                                     *)
SilenceIsNoticed ==
  /\ Open /\ lease.lifecycle = "ACTIVE" /\ clock >= Deadline(lease)
       ~> ~Open \/ lease.lifecycle # "ACTIVE" \/ clock < Deadline(lease)
  /\ Open /\ lease.class = Luna /\ clock >= began + LunaTotal
       ~> ~Open

=============================================================================
