------------------------- MODULE GuardedIntegration -------------------------
(***************************************************************************)
(* GuardedIntegrationCoordinator of workflow_router/guarded_integration.py *)
(* and the Router adapter around it.  Threads call handle_return,          *)
(* retry_pending_audit and handle_audit.  Only the audit admission runs    *)
(* under the coordinator's RLock, so only those sections are atomic: every *)
(* other read, write or call of an injected port is a step of its own, and *)
(* the calls of different threads interleave between the steps.            *)
(*                                                                         *)
(* The fingerprints, owner, reviewer and context identities a return is    *)
(* matched on are folded into the ticket, correlation and revision of its  *)
(* plan.  Error codes are folded into the one decision "halt".             *)
(***************************************************************************)
EXTENDS Integers

CONSTANTS
  Threads,             \* callers of the coordinator
  Returners,           \* the threads that may call handle_return
  Returns,             \* the ImplementationReturnEvents that can be received
  Plans,               \* the CollaborationDispatchPlans given to __init__
  Proposals,           \* the dependent proposals
  DependsOn,           \* proposal -> the ticket it waits for
  PortChecksRevision,  \* the port itself refuses a stale expected revision
  NoThread, NoReturn, NoAudit

Correlations == {e.correlation : e \in Returns}
EventIds == {e.event_id : e \in Returns}
Tickets == {e.ticket : e \in Returns}
Revisions == Nat

(* PendingAudit: the integrated return that waits for its Grill audit. *)
Audits == [ticket : Tickets, correlation : Correlations, revision : Revisions]

ASSUME ReturnsAssumption ==
  \A e \in Returns : e.expected \in Revisions /\ e.completed \in BOOLEAN
ASSUME RolesAssumption == Returners \subseteq Threads /\ PortChecksRevision \in BOOLEAN
ASSUME SentinelsAssumption ==
  NoThread \notin Threads /\ NoReturn \notin Returns /\ NoAudit \notin Audits
(* __init__ refuses a second dispatch plan for a ticket. *)
ASSUME OnePlanPerTicket == \A p, q \in Plans : p.ticket = q.ticket => p = q

VARIABLES
  (* the coordinator's attributes *)
  main,        \* MainSnapshot
  seen,        \* _seen_correlations
  seenEvents,  \* _seen_event_ids
  pending,     \* _pending_audit
  delivery,    \* _audit_delivery_state
  woken,       \* the proposals in state WOKEN
  (* the injected ports *)
  repo,        \* the revision the integration port has really reached
  lock,        \* the holder of the integration lock
  (* one call in progress per thread *)
  pc, event, audit, view, awoken, decision,
  (* what the callers and ports have observed *)
  integrated,  \* correlations the port completed
  requested,   \* correlations whose audit request the sink accepted
  announced,   \* INTEGRATION_COMPLETED events handed to the Router
  reviewed,    \* AUDIT_COMPLETED events handed to the Router
  corrected    \* correction routes handed out

coordinator == <<main, seen, seenEvents, pending, delivery, woken>>
ports == <<repo, lock>>
locals == <<event, audit, view, awoken, decision>>
history == <<integrated, requested, announced, reviewed, corrected>>
vars == <<coordinator, ports, pc, locals, history>>

DeliveryStates == {"retryable", "delivering", "delivered"}
Decisions ==
  {"none", "halt", "pending_audit", "integration_completed",
   "code_review", "correction"}

(* Where a thread can be interrupted by another one. *)
Locations ==
  {"idle", "duplicate", "pending", "admit", "revision", "clean", "acquire",
   "integrate", "publish", "open", "deliver", "request", "accepted",
   "refused", "scan", "wake", "release"}

Init ==
  /\ main \in [revision : {0}, clean : BOOLEAN, conflict : BOOLEAN]
  /\ seen = {} /\ seenEvents = {}
  /\ pending = NoAudit
  /\ delivery = "retryable"
  /\ woken \in SUBSET Proposals
  /\ repo = 0
  /\ lock = NoThread
  /\ pc = [t \in Threads |-> "idle"]
  /\ event = [t \in Threads |-> NoReturn]
  /\ audit = [t \in Threads |-> NoAudit]
  /\ view = [t \in Threads |-> {}]
  /\ awoken = [t \in Threads |-> {}]
  /\ decision = [t \in Threads |-> "none"]
  /\ integrated = {} /\ requested = {}
  /\ announced = {} /\ reviewed = {} /\ corrected = {}

-----------------------------------------------------------------------------
Goto(t, l) == pc' = [pc EXCEPT ![t] = l]

(* Go on with the call, keeping its local variables. *)
Proceed(t, l) == Goto(t, l) /\ UNCHANGED locals

(* The call of t ends with decision d; its local variables are dropped. *)
Finish(t, d) ==
  /\ Goto(t, "idle")
  /\ decision' = [decision EXCEPT ![t] = d]
  /\ event' = [event EXCEPT ![t] = NoReturn]
  /\ audit' = [audit EXCEPT ![t] = NoAudit]
  /\ view' = [view EXCEPT ![t] = {}]
  /\ awoken' = [awoken EXCEPT ![t] = {}]

(* GuardedIntegrationRouterAdapter._integration_event_for: the Router event *)
(* is built from the decision the call really returns.                      *)
Announce(t, d) ==
  announced' = IF d = "integration_completed"
               THEN announced \cup {audit[t].correlation} ELSE announced

(* The return is the exact match of one confirmed, active dispatch plan. *)
MatchesTrustedDispatch(e) ==
  \E p \in Plans : /\ p.ticket = e.ticket
                   /\ p.correlation = e.correlation
                   /\ p.expected = e.expected
                   /\ p.confirmed

IsDuplicate(e) == e.correlation \in seen \/ e.event_id \in seenEvents

(* consume_return and handle_return without a usable event: no source, a    *)
(* source that raises, no event, an event that fails its own validation, is *)
(* not a completed return, or matches no trusted plan.                      *)
RejectReturn(t) ==
  /\ pc[t] = "idle" /\ t \in Returners
  /\ decision' = [decision EXCEPT ![t] = "halt"]
  /\ UNCHANGED <<coordinator, ports, pc, event, audit, view, awoken, history>>

(* handle_return up to its first read of shared state. *)
HandleReturn(t, e) ==
  /\ pc[t] = "idle" /\ t \in Returners
  /\ e.completed /\ MatchesTrustedDispatch(e)
  /\ Goto(t, "duplicate")
  /\ event' = [event EXCEPT ![t] = e]
  /\ decision' = [decision EXCEPT ![t] = "none"]
  /\ UNCHANGED <<coordinator, ports, audit, view, awoken, history>>

CheckDuplicate(t) ==
  /\ pc[t] = "duplicate"
  /\ \/ IsDuplicate(event[t]) /\ Finish(t, "halt")
     \/ ~IsDuplicate(event[t]) /\ Proceed(t, "pending")
  /\ UNCHANGED <<coordinator, ports, history>>

CheckPending(t) ==
  /\ pc[t] = "pending"
  /\ \/ pending # NoAudit /\ Finish(t, "halt")
     \/ pending = NoAudit /\ Proceed(t, "admit")
  /\ UNCHANGED <<coordinator, ports, history>>

(* Fault: the correlation is not recorded. *)
AdmitEventOnly(t) ==
  /\ pc[t] = "admit"
  /\ seenEvents' = seenEvents \cup {event[t].event_id}
  /\ Proceed(t, "revision")
  /\ UNCHANGED <<main, seen, pending, delivery, woken, ports, history>>

(* From here on the return is spent, whatever the remaining guards say. *)
Admit(t) ==
  /\ pc[t] = "admit"
  /\ seen' = seen \cup {event[t].correlation}
  /\ seenEvents' = seenEvents \cup {event[t].event_id}
  /\ Proceed(t, "revision")
  /\ UNCHANGED <<main, pending, delivery, woken, ports, history>>

(* Fault: the expected revision is not compared. *)
CheckRevisionDropped(t) ==
  /\ pc[t] = "revision"
  /\ Proceed(t, "clean")
  /\ UNCHANGED <<coordinator, ports, history>>

CheckRevision(t) ==
  /\ pc[t] = "revision"
  /\ \/ event[t].expected # main.revision /\ Finish(t, "halt")
     \/ event[t].expected = main.revision /\ Proceed(t, "clean")
  /\ UNCHANGED <<coordinator, ports, history>>

CheckClean(t) ==
  /\ pc[t] = "clean"
  /\ \/ (~main.clean \/ main.conflict) /\ Finish(t, "halt")
     \/ main.clean /\ ~main.conflict /\ Proceed(t, "acquire")
  /\ UNCHANGED <<coordinator, ports, history>>

(* Faults: the lock is not exclusive, or a refused caller waits for it. *)
TryAcquireShared(t) ==
  /\ pc[t] = "acquire"
  /\ lock' = t
  /\ Proceed(t, "integrate")
  /\ UNCHANGED <<coordinator, repo, history>>

AcquireWaits(t) ==
  /\ pc[t] = "acquire"
  /\ lock = NoThread
  /\ lock' = t
  /\ Proceed(t, "integrate")
  /\ UNCHANGED <<coordinator, repo, history>>

(* try_acquire never waits; it may raise, or be refused to an owner outside *)
(* this coordinator.                                                        *)
TryAcquire(t) ==
  /\ pc[t] = "acquire"
  /\ \/ /\ lock = NoThread
        /\ lock' = t
        /\ Proceed(t, "integrate")
     \/ Finish(t, "halt") /\ UNCHANGED lock
  /\ UNCHANGED <<coordinator, repo, history>>

-----------------------------------------------------------------------------
(* The injected port.  It completes with a fresh revision, or refuses, or   *)
(* raises (also after its work was done).                                   *)
IntegrationCompletes(t) ==
  /\ pc[t] = "integrate"
  /\ PortChecksRevision => event[t].expected = repo
  /\ repo' = repo + 1
  /\ audit' = [audit EXCEPT ![t] = [ticket |-> event[t].ticket,
                                    correlation |-> event[t].correlation,
                                    revision |-> repo + 1]]
  /\ integrated' = integrated \cup {event[t].correlation}
  /\ Goto(t, "publish")
  /\ UNCHANGED <<coordinator, lock, event, view, awoken, decision>>
  /\ UNCHANGED <<requested, announced, reviewed, corrected>>

IntegrationFails(t) ==
  /\ pc[t] = "integrate"
  /\ \/ UNCHANGED <<repo, integrated>>
     \/ /\ PortChecksRevision => event[t].expected = repo
        /\ repo' = repo + 1
        /\ integrated' = integrated \cup {event[t].correlation}
  /\ decision' = [decision EXCEPT ![t] = "halt"]
  /\ Goto(t, "release")
  /\ UNCHANGED <<coordinator, lock, event, audit, view, awoken>>
  /\ UNCHANGED <<requested, announced, reviewed, corrected>>

(* Fault: the snapshot keeps the revision it had. *)
PublishCleanOnly(t) ==
  /\ pc[t] = "publish"
  /\ main' = [main EXCEPT !.clean = TRUE, !.conflict = FALSE]
  /\ Proceed(t, "open")
  /\ UNCHANGED <<seen, seenEvents, pending, delivery, woken, ports, history>>

PublishMain(t) ==
  /\ pc[t] = "publish"
  /\ main' = [revision |-> audit[t].revision, clean |-> TRUE, conflict |-> FALSE]
  /\ Proceed(t, "open")
  /\ UNCHANGED <<seen, seenEvents, pending, delivery, woken, ports, history>>

(* First section under the admission lock: the audit becomes pending. *)
OpenAudit(t) ==
  /\ pc[t] = "open"
  /\ pending' = audit[t]
  /\ delivery' = "retryable"
  /\ Proceed(t, "deliver")
  /\ UNCHANGED <<main, seen, seenEvents, woken, ports, history>>

-----------------------------------------------------------------------------
(* retry_pending_audit, called by its own thread or by handle_return. *)
RetryPendingAudit(t) ==
  /\ pc[t] = "idle"
  /\ Goto(t, "deliver")
  /\ decision' = [decision EXCEPT ![t] = "none"]
  /\ UNCHANGED <<coordinator, ports, event, audit, view, awoken, history>>

(* retry_pending_audit returns d: to its caller, or inside handle_return to *)
(* the release of the integration lock.                                     *)
EndDelivery(t, d) ==
  IF event[t] = NoReturn
  THEN Finish(t, d) /\ Announce(t, d)
  ELSE /\ Goto(t, "release")
       /\ decision' = [decision EXCEPT ![t] = d]
       /\ UNCHANGED <<event, audit, view, awoken, announced>>

(* Fault: a delivery in progress does not stop a second one. *)
AdmitSecondDelivery(t) ==
  /\ pc[t] = "deliver"
  /\ \/ /\ pending = NoAudit
        /\ EndDelivery(t, "halt")
        /\ UNCHANGED delivery
     \/ /\ pending # NoAudit /\ delivery = "delivered"
        /\ EndDelivery(t, "pending_audit")
        /\ UNCHANGED delivery
     \/ /\ pending # NoAudit /\ delivery # "delivered"
        /\ delivery' = "delivering"
        /\ audit' = [audit EXCEPT ![t] = pending]
        /\ Goto(t, "request")
        /\ UNCHANGED <<event, view, awoken, decision, announced>>
  /\ UNCHANGED <<main, seen, seenEvents, pending, woken, ports>>
  /\ UNCHANGED <<integrated, requested, reviewed, corrected>>

(* Its first section under the admission lock. *)
AdmitDelivery(t) ==
  /\ pc[t] = "deliver"
  /\ \/ /\ pending = NoAudit \/ delivery = "delivering"
        /\ EndDelivery(t, "halt")
        /\ UNCHANGED delivery
     \/ /\ pending # NoAudit /\ delivery = "delivered"
        /\ EndDelivery(t, "pending_audit")
        /\ UNCHANGED delivery
     \/ /\ pending # NoAudit /\ delivery = "retryable"
        /\ delivery' = "delivering"
        /\ audit' = [audit EXCEPT ![t] = pending]
        /\ Goto(t, "request")
        /\ UNCHANGED <<event, view, awoken, decision, announced>>
  /\ UNCHANGED <<main, seen, seenEvents, pending, woken, ports>>
  /\ UNCHANGED <<integrated, requested, reviewed, corrected>>

(* The sink is called without the admission lock. *)
RequestAudit(t) ==
  /\ pc[t] = "request"
  /\ requested' = requested \cup {audit[t].correlation}
  /\ Proceed(t, "accepted")
  /\ UNCHANGED <<coordinator, ports, integrated, announced, reviewed, corrected>>

RequestAuditRaises(t) ==
  /\ pc[t] = "request"
  /\ Proceed(t, "refused")
  /\ UNCHANGED <<coordinator, ports, history>>

MarkRetryable(t) ==
  /\ pc[t] = "refused"
  /\ delivery' = "retryable"
  /\ EndDelivery(t, "halt")
  /\ UNCHANGED <<main, seen, seenEvents, pending, woken, ports>>
  /\ UNCHANGED <<integrated, requested, reviewed, corrected>>

MarkDelivered(t) ==
  /\ pc[t] = "accepted"
  /\ delivery' = "delivered"
  /\ Proceed(t, "scan")
  /\ UNCHANGED <<main, seen, seenEvents, pending, woken, ports, history>>

(* _wake_dependents reads the proposals tuple, builds a new one and stores  *)
(* it, all outside the admission lock.                                      *)
ScanProposals(t) ==
  /\ pc[t] = "scan"
  /\ view' = [view EXCEPT ![t] = woken]
  /\ awoken' = [awoken EXCEPT ![t] =
                  {p \in Proposals \ woken : DependsOn[p] = audit[t].ticket}]
  /\ Goto(t, "wake")
  /\ UNCHANGED <<coordinator, ports, event, audit, decision, history>>

WakeDependents(t) ==
  /\ pc[t] = "wake"
  /\ woken' = view[t] \cup awoken[t]
  /\ EndDelivery(t, "integration_completed")
  /\ UNCHANGED <<main, seen, seenEvents, pending, delivery, ports>>
  /\ UNCHANGED <<integrated, requested, reviewed, corrected>>

(* The finally clause of handle_return.  When release raises, the call      *)
(* halts whatever it achieved, and the lock may stay held.                  *)
ReleaseLock(t) ==
  /\ pc[t] = "release"
  /\ \/ /\ lock' = NoThread
        /\ Finish(t, decision[t])
        /\ Announce(t, decision[t])
     \/ /\ lock' \in {lock, NoThread}
        /\ Finish(t, "halt")
        /\ UNCHANGED announced
  /\ UNCHANGED <<coordinator, repo, integrated, requested, reviewed, corrected>>

-----------------------------------------------------------------------------
(* handle_audit is one section under the admission lock.  Any correlation   *)
(* may be named, at any time.                                               *)
AuditRefused(t, c) ==
  /\ pc[t] = "idle"
  /\ \/ pending = NoAudit
     \/ pending # NoAudit /\ pending.correlation # c
     \/ delivery # "delivered"
  /\ decision' = [decision EXCEPT ![t] = "halt"]
  /\ UNCHANGED <<coordinator, ports, pc, event, audit, view, awoken, history>>

Decide(t, c, approved) ==
  \/ /\ approved
     /\ reviewed' = reviewed \cup {c}
     /\ decision' = [decision EXCEPT ![t] = "code_review"]
     /\ UNCHANGED corrected
  \/ /\ ~approved
     /\ corrected' = corrected \cup {c}
     /\ decision' = [decision EXCEPT ![t] = "correction"]
     /\ UNCHANGED reviewed

(* Fault: a decision does not consume the pending audit. *)
HandleAuditKeepsPending(t, c, approved) ==
  /\ pc[t] = "idle"
  /\ pending # NoAudit /\ pending.correlation = c
  /\ delivery = "delivered"
  /\ Decide(t, c, approved)
  /\ UNCHANGED <<coordinator, ports, pc, event, audit>>
  /\ UNCHANGED <<view, awoken, integrated, requested, announced>>

HandleAudit(t, c, approved) ==
  /\ pc[t] = "idle"
  /\ pending # NoAudit /\ pending.correlation = c
  /\ delivery = "delivered"
  /\ pending' = NoAudit
  /\ delivery' = "retryable"
  /\ Decide(t, c, approved)
  /\ UNCHANGED <<main, seen, seenEvents, woken, ports, pc, event, audit>>
  /\ UNCHANGED <<view, awoken, integrated, requested, announced>>

-----------------------------------------------------------------------------
(* The rest of a call that has started. *)
Continue(t) ==
  \/ CheckDuplicate(t) \/ CheckPending(t) \/ Admit(t)
  \/ CheckRevision(t) \/ CheckClean(t) \/ TryAcquire(t)
  \/ IntegrationCompletes(t) \/ IntegrationFails(t)
  \/ PublishMain(t) \/ OpenAudit(t)
  \/ AdmitDelivery(t) \/ RequestAudit(t) \/ RequestAuditRaises(t)
  \/ MarkRetryable(t) \/ MarkDelivered(t)
  \/ ScanProposals(t) \/ WakeDependents(t) \/ ReleaseLock(t)

Call(t) ==
  \/ RejectReturn(t)
  \/ \E e \in Returns : HandleReturn(t, e)
  \/ RetryPendingAudit(t)
  \/ \E c \in Correlations : AuditRefused(t, c)
  \/ \E c \in Correlations, approved \in BOOLEAN : HandleAudit(t, c, approved)

Next == \E t \in Threads : Call(t) \/ Continue(t)

Spec == Init /\ [][Next]_vars

-----------------------------------------------------------------------------
TypeOK ==
  /\ main \in [revision : Revisions, clean : BOOLEAN, conflict : BOOLEAN]
  /\ seen \subseteq Correlations /\ seenEvents \subseteq EventIds
  /\ pending \in Audits \cup {NoAudit}
  /\ delivery \in DeliveryStates
  /\ woken \subseteq Proposals
  /\ repo \in Revisions
  /\ lock \in Threads \cup {NoThread}
  /\ pc \in [Threads -> Locations]
  /\ event \in [Threads -> Returns \cup {NoReturn}]
  /\ audit \in [Threads -> Audits \cup {NoAudit}]
  /\ view \in [Threads -> SUBSET Proposals]
  /\ awoken \in [Threads -> SUBSET Proposals]
  /\ decision \in [Threads -> Decisions]
  /\ integrated \subseteq Correlations /\ requested \subseteq Correlations
  /\ announced \subseteq Correlations
  /\ reviewed \subseteq Correlations /\ corrected \subseteq Correlations

(* The steps between try_acquire and release. *)
HoldsLock(t) ==
  /\ event[t] # NoReturn
  /\ pc[t] \notin {"duplicate", "pending", "admit", "revision", "clean", "acquire"}

(* The integration port, the main snapshot and the first audit delivery of *)
(* a return are never run by two handle_return calls at once.              *)
IntegrationExclusive ==
  \A s, t \in Threads : HoldsLock(s) /\ HoldsLock(t) => s = t

(* Thread t makes the port integrate its return in this step. *)
Integrates(t) == pc[t] = "integrate" /\ repo' # repo

(* A correlation is integrated at most once, however often its return is   *)
(* received.                                                               *)
IntegratedOnce ==
  [][\A t \in Threads : Integrates(t) => event[t].correlation \notin integrated]_vars

(* Nothing is integrated while an audit is pending. *)
NoIntegrationWhilePending ==
  [][\A t \in Threads : Integrates(t) => pending = NoAudit]_vars

(* A return is integrated only onto the main revision it was written for,   *)
(* as the snapshot has it when the port runs.                               *)
NoStaleIntegration ==
  [][\A t \in Threads : Integrates(t) => event[t].expected = main.revision]_vars

(* The main snapshot never goes back to an earlier revision. *)
MainNeverRegresses == [][main'.revision >= main.revision]_vars

(* A pending audit is given up only by its own audit decision, after the    *)
(* sink accepted its request; another return never replaces it.             *)
PendingAuditKept ==
  [][pending \notin {NoAudit, pending'} =>
       pending' = NoAudit /\ pending.correlation \in requested]_vars

(* The sink accepts one audit request per correlation: retries, racing      *)
(* retries included, never ask again for what was accepted.                 *)
AuditRequestedOnce ==
  [][\A t \in Threads : pc[t] = "request" /\ pc'[t] = "accepted" =>
       audit[t].correlation \notin requested]_vars

(* The pending audit names the revision the main snapshot is at. *)
PendingAuditNamesMain ==
  pending # NoAudit => pending.revision = main.revision

(* At most one INTEGRATION_COMPLETED event per correlation, and only for a  *)
(* return whose audit request was accepted.                                 *)
AnnouncedOnce ==
  [][\A t \in Threads :
       pc[t] # "idle" /\ pc'[t] = "idle" /\ decision'[t] = "integration_completed" =>
         audit[t].correlation \in requested \ announced]_vars

(* Returns are integrated one by one: never while an audit is pending, only *)
(* onto the revision they were written for, and each is announced once.     *)
IntegratesInTurn == []TypeOK /\ NoIntegrationWhilePending /\ NoStaleIntegration /\ AnnouncedOnce

(* A proposal that was woken is never put back to planned. *)
WokenStaysWoken == [][woken \subseteq woken']_vars

(* Refinement: the gate a planner sees through pending, delivery and the    *)
(* decisions handed out.                                                    *)
Phase(c) ==
  CASE c \in reviewed -> "reviewed"
    [] c \in corrected -> "corrected"
    [] pending # NoAudit /\ pending.correlation = c ->
         IF delivery = "delivered" THEN "delivered" ELSE "integrated"
    [] OTHER -> "outside"

Gate == INSTANCE AuditGate WITH phase <- [c \in Correlations |-> Phase(c)]

(* With one thread handling returns, the coordinator implements the gate,   *)
(* whatever the threads that retry and audit do.                            *)
ImplementsGate == Gate!Spec

(***************************************************************************)
(* Fairness.  A started call goes on (the interpreter schedules its thread *)
(* and the ports answer), a caller keeps retrying a pending audit, and the *)
(* sink does not refuse for ever.                                          *)
(***************************************************************************)
RunningCalls == \A t \in Threads : WF_vars(Continue(t))

Fairness ==
  /\ RunningCalls
  /\ \A t \in Threads \ Returners : WF_vars(RetryPendingAudit(t))
  /\ \A t \in Threads : SF_vars(RequestAudit(t))

FairSpec == Spec /\ Fairness

(* Every call returns: none waits for the lock, not even for one that a     *)
(* failed release left held, nor for another delivery.                      *)
CallsReturn == \A t \in Threads : pc[t] # "idle" ~> pc[t] = "idle"

(* A pending audit is in the end accepted by a sink that recovers: a        *)
(* delivery that failed never leaves the admission closed.                  *)
PendingAuditDelivered ==
  \A c \in Correlations :
    (pending # NoAudit /\ pending.correlation = c) ~> c \in requested

=============================================================================
