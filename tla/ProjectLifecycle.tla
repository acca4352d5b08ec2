--------------------------- MODULE ProjectLifecycle ---------------------------
(***************************************************************************)
(* A project under the router: private_router.py AutomaticContinuationRunner *)
(* drives its lanes over RouterEngine, the planning lane from the intake and *)
(* one lane per dispatched ticket.  A run goes on while actions are granted, *)
(* and pauses for a human, at a halt or at its ceiling.                     *)
(*                                                                         *)
(* The executor behind the runner is not part of the repository.  Obedient, *)
(* it returns an event that the last decision expects; otherwise any event  *)
(* but no authority, which only humans and auditors have.  A request's stage *)
(* is the one the project was granted.                                      *)
(***************************************************************************)
EXTENDS RouterEngine

CONSTANTS
  Planning,     \* the planning lane; a ticket names its own lane
  Question1,    \* the id every dispatch question is asked under
  TheTerms,
  MaxAutoSteps, \* run_until_pause's max_auto_steps
  Obedient      \* what the executor returns

ASSUME LifecycleAssumption ==
  /\ Planning \notin Tickets
  /\ TheTerms \in Terms
  /\ MaxAutoSteps \in Nat \ {0}
  /\ Obedient \in BOOLEAN

Lanes == Tickets \cup {Planning}

VARIABLES
  stage,      \* the stage each lane was granted; "none" without a lane
  mode,       \* where the run of a lane is
  steps,      \* auto_steps of that run
  event,      \* the next event to route
  authority,  \* RouterState.authority_state of that request
  decision,   \* the latest decision of the lane
  expected,   \* the events the latest decision that was followed expects
  pending,    \* the dispatch question open for each ticket
  approved,   \* lanes whose specification a human approved, not yet planned
  confirmed,  \* tickets whose dispatch a human confirmed, not yet dispatched
  audited     \* lanes an auditor approved, not yet in review

run == <<mode, steps, event, authority>>
gates == <<approved, confirmed, audited>>
vars == <<stage, mode, steps, event, authority, decision, expected, pending, approved,
          confirmed, audited>>

Modes == {"idle", "routing", "granted", "waiting", "halted"}

Init ==
  /\ stage = [l \in Lanes |-> IF l = Planning THEN "INTAKE" ELSE "none"]
  /\ mode = [l \in Lanes |-> "idle"]
  /\ steps = [l \in Lanes |-> 0]
  /\ event = [l \in Lanes |-> None]
  /\ authority = [l \in Lanes |-> "NOT_REQUIRED"]
  /\ decision = [l \in Lanes |-> Halted]
  /\ expected = [l \in Lanes |-> {}]
  /\ pending = [t \in Tickets |-> None]
  /\ approved = {} /\ confirmed = {} /\ audited = {}

-----------------------------------------------------------------------------
(* Requests.  Every source is available once; the ticket source is the      *)
(* ticket the request is about.                                             *)

TicketOf(l, e) ==
  CASE e.proposal # None -> e.proposal.ticket
    [] e.receipt # None -> e.receipt.ticket
    [] OTHER -> IF l = Planning THEN CHOOSE t \in Tickets : TRUE ELSE l

StateOf(l) ==
  LET t == TicketOf(l, event[l])
  IN  [PlainState(stage[l], authority[l],
                  {[kind |-> k, id |-> IF k = "TICKET" THEN t ELSE k] : k \in ArtifactKinds})
         EXCEPT !.pending = pending[t]]

AskEvent(t) ==
  [PlainEvent("TICKET_DISPATCH_REQUIRED") EXCEPT
     !.id = Question1,
     !.proposal = [ticket |-> t, question |-> Question1, owner |-> PlannedOwner, opened |-> TRUE],
     !.handoff = [ticket |-> t, owner |-> PlannedOwner, terms |-> TheTerms]]

(* What an event carries is not None. *)
ASSUME AskAssumption ==
  \A t \in Tickets : AskEvent(t).proposal # None /\ AskEvent(t).handoff # None

ConfirmEvent(t, answer) ==
  [PlainEvent("IMPLEMENTATION_DISPATCH_CONFIRMED") EXCEPT
     !.receipt = pending[t], !.confirmation = answer]

(* The event of a kind as a lane's executor may send it.  A ticket lane has  *)
(* no handle on the planning lane: dispatches are asked by the latter.      *)
EventsOf(l, kind) ==
  CASE kind = "TICKET_DISPATCH_REQUIRED" ->
         IF l = Planning THEN {AskEvent(t) : t \in Tickets} ELSE {}
    [] kind = "IMPLEMENTATION_RETURNED" ->
         {[PlainEvent(kind) EXCEPT !.returned = r] : r \in {"COMPLETED", "BLOCKED"}}
    [] kind = "ACTION_COMPLETED" /\ ~Obedient ->
         {[PlainEvent(kind) EXCEPT !.evidence = a] : a \in Actions \cup {"none"}}
    [] OTHER -> {PlainEvent(kind)}

HumanKinds == {"APPROVAL_GRANTED", "APPROVAL_DENIED", "OWNER_INPUT_PROVIDED",
               "IMPLEMENTATION_DISPATCH_CONFIRMED", "AUDIT_COMPLETED"}

(* What may follow a decision.  A lane that was just created is worked on;  *)
(* an obedient executor does not ask again for a dispatch that is open.     *)
Returned(l) ==
  IF ~Obedient THEN UNION {EventsOf(l, k) : k \in EventKinds \ {"AUDIT_COMPLETED"}}
  ELSE UNION {{e \in EventsOf(l, k) : e.proposal # None => pending[e.proposal.ticket] = None} :
                k \in expected[l] \ HumanKinds}

Worked == EventsOf(Planning, "IMPLEMENTATION_RETURNED")
          \cup {PlainEvent("ACTION_COMPLETED"), PlainEvent("REQUIREMENT_CHANGED")}

-----------------------------------------------------------------------------
(* run_until_pause begins with a request. *)

Begin(l, e, a) ==
  /\ stage[l] \notin {"none", "STOPPED"} /\ mode[l] \in {"idle", "waiting", "halted"}
  /\ mode' = [mode EXCEPT ![l] = "routing"]
  /\ steps' = [steps EXCEPT ![l] = 0]
  /\ event' = [event EXCEPT ![l] = e]
  /\ authority' = [authority EXCEPT ![l] = a]
  /\ UNCHANGED <<stage, decision, expected, pending>>

Waits(l, kind) == mode[l] \in {"waiting", "halted"} /\ kind \in expected[l]

StartProject ==
  /\ mode[Planning] = "idle"
  /\ Begin(Planning, PlainEvent("INTAKE"), "NOT_REQUIRED")
  /\ UNCHANGED gates

WorkTicket(t) ==
  /\ stage[t] = "IMPLEMENT" /\ mode[t] \in {"idle", "halted"}
  /\ \E e \in Worked : Begin(t, e, "NOT_REQUIRED")
  /\ UNCHANGED gates

OwnerAnswers(l) ==
  /\ Waits(l, "OWNER_INPUT_PROVIDED")
  /\ Begin(l, PlainEvent("OWNER_INPUT_PROVIDED"), "NOT_REQUIRED")
  /\ UNCHANGED gates

ApproveSpecification(l) ==
  /\ Waits(l, "APPROVAL_GRANTED")
  /\ Begin(l, PlainEvent("APPROVAL_GRANTED"), "APPROVED")
  /\ approved' = approved \cup {l}
  /\ UNCHANGED <<confirmed, audited>>

DenySpecification(l) ==
  /\ Waits(l, "APPROVAL_DENIED")
  /\ Begin(l, PlainEvent("APPROVAL_DENIED"), "DENIED")
  /\ UNCHANGED gates

ConfirmDispatch(l, t) ==
  /\ Waits(l, "IMPLEMENTATION_DISPATCH_CONFIRMED") /\ pending[t] # None
  /\ Begin(l, ConfirmEvent(t, "POSITIVE"), "APPROVED")
  /\ confirmed' = confirmed \cup {t}
  /\ UNCHANGED <<approved, audited>>

RefuseDispatch(l, t) ==
  /\ Waits(l, "IMPLEMENTATION_DISPATCH_CONFIRMED") /\ pending[t] # None
  /\ Begin(l, ConfirmEvent(t, "NEGATIVE"), "APPROVED")
  /\ UNCHANGED gates

(* The integration of a returned ticket is announced and audited in a lane  *)
(* at rest in GRILL.                                                        *)
Returning == \E t \in Tickets : stage[t] \in {"SMOKE_TEST", "REVIEW", "HANDOFF"}

AnnounceIntegration(l) ==
  /\ stage[l] = "GRILL" /\ Returning
  /\ Begin(l, PlainEvent("INTEGRATION_COMPLETED"), "NOT_REQUIRED")
  /\ UNCHANGED gates

ApproveAudit(l) ==
  /\ stage[l] = "GRILL" /\ Returning
  /\ Begin(l, PlainEvent("AUDIT_COMPLETED"), "APPROVED")
  /\ audited' = audited \cup {l}
  /\ UNCHANGED <<approved, confirmed>>

(* A run that was halted or cut off at its ceiling is begun again.          *)
Resume(l) ==
  /\ mode[l] = "halted"
  /\ \E e \in Returned(l) : Begin(l, e, "NOT_REQUIRED")
  /\ UNCHANGED gates

AskAgain(l) ==
  /\ mode[l] = "halted" /\ stage[l] = "TICKETS"
  /\ \E e \in EventsOf(l, "TICKET_DISPATCH_REQUIRED") :
       pending[e.proposal.ticket] = None /\ Begin(l, e, "NOT_REQUIRED")
  /\ UNCHANGED gates

-----------------------------------------------------------------------------
(* One round of the loop. *)

(* _dispatch_plan: the lane of a dispatched ticket has a life of its own and *)
(* begins anew.                                                             *)
NewLanes(d) == IF d.lane = None THEN {} ELSE {d.lane.ticket}

Grant(l, d) ==
  LET new == NewLanes(d)
      With(f, mine, created) ==
        [k \in Lanes |-> IF k \in new THEN created ELSE IF k = l THEN mine ELSE f[k]]
  IN  /\ stage' = With(stage, d.next, "IMPLEMENT")
      /\ mode' = With(mode, "granted", "idle")
      /\ expected' = With(expected, d.expected, {})
      /\ approved' = approved \ (new \cup IF d.next = "TICKETS" THEN {l} ELSE {})
      /\ audited' = audited \ (new \cup IF d.next = "REVIEW" THEN {l} ELSE {})
      /\ confirmed' = confirmed \ new
      /\ pending' = [t \in Tickets |-> IF t \in new THEN None ELSE pending[t]]

(* A routed request is done with; the one that ended a lane is kept.        *)
Forget(l) == event' = [event EXCEPT ![l] = None]

GoOn(l, d) ==
  /\ d.continuation = "AUTO_CONTINUE"
  /\ IF steps[l] >= MaxAutoSteps
     THEN /\ mode' = [mode EXCEPT ![l] = "halted"]
          /\ UNCHANGED <<stage, expected, gates, pending>>
     ELSE Grant(l, d)
  /\ Forget(l)

Wait(l, d) ==
  /\ d.continuation = "WAIT_FOR_HUMAN"
  /\ expected' = [expected EXCEPT ![l] = d.expected]
  /\ mode' = [mode EXCEPT ![l] = "waiting"]
  /\ pending' = IF d.pending = None THEN pending
                ELSE [pending EXCEPT ![d.pending.ticket] = d.pending]
  /\ Forget(l)
  /\ UNCHANGED <<stage, gates>>

(* A failed confirmation discards its question. *)
Halt(l, d) ==
  /\ d.continuation = "HALT"
  /\ mode' = [mode EXCEPT ![l] = "halted"]
  /\ stage' = IF d.outcome = "STOP" THEN [stage EXCEPT ![l] = "STOPPED"] ELSE stage
  /\ pending' = IF event[l].kind # "IMPLEMENTATION_DISPATCH_CONFIRMED" THEN pending
                ELSE [pending EXCEPT ![TicketOf(l, event[l])] = None]
  /\ IF d.outcome = "STOP" THEN UNCHANGED event ELSE Forget(l)
  /\ UNCHANGED <<expected, gates>>

(* The client routes the request of the round. *)
Route(l) ==
  /\ mode[l] = "routing"
  /\ \E s \in {StateOf(l)}, e \in {event[l]} : \E d \in {Decide(s, e)} :
       /\ decision' = [decision EXCEPT ![l] = d]
       /\ GoOn(l, d) \/ Wait(l, d) \/ Halt(l, d)
  /\ UNCHANGED <<steps, authority>>

(* Fault: a retry starts the count anew. *)
ExecuteUncounted(l) ==
  /\ mode[l] = "granted"
  /\ \/ mode' = [mode EXCEPT ![l] = "halted"] /\ UNCHANGED <<steps, event, authority>>
     \/ /\ \E e \in Returned(l) : event' = [event EXCEPT ![l] = e]
        /\ mode' = [mode EXCEPT ![l] = "routing"]
        /\ steps' = IF decision[l].outcome = "RETRY" THEN [steps EXCEPT ![l] = 0]
                    ELSE [steps EXCEPT ![l] = @ + 1]
        /\ authority' = [authority EXCEPT ![l] = "NOT_REQUIRED"]
  /\ UNCHANGED <<stage, decision, expected, pending, gates>>

(* The executor returns the next request, or raises. *)
Execute(l) ==
  /\ mode[l] = "granted"
  /\ \/ mode' = [mode EXCEPT ![l] = "halted"] /\ UNCHANGED <<steps, event, authority>>
     \/ /\ \E e \in Returned(l) : event' = [event EXCEPT ![l] = e]
        /\ mode' = [mode EXCEPT ![l] = "routing"]
        /\ steps' = [steps EXCEPT ![l] = @ + 1]
        /\ authority' = [authority EXCEPT ![l] = "NOT_REQUIRED"]
  /\ UNCHANGED <<stage, decision, expected, pending, gates>>

Runner(l) == Route(l) \/ Execute(l)

People(l) ==
  \/ OwnerAnswers(l) \/ ApproveSpecification(l) \/ DenySpecification(l)
  \/ \E t \in Tickets : ConfirmDispatch(l, t) \/ RefuseDispatch(l, t)
  \/ AnnounceIntegration(l) \/ ApproveAudit(l) \/ Resume(l) \/ AskAgain(l)

Next ==
  \/ StartProject
  \/ \E t \in Tickets : WorkTicket(t)
  \/ \E l \in Lanes : Runner(l) \/ People(l)

Spec == Init /\ [][Next]_vars

(* run_until_pause is one loop without a wait, and the executor returns. *)
Fairness == \A l \in Lanes : WF_vars(Runner(l))
FairSpec == Spec /\ Fairness

-----------------------------------------------------------------------------
(* What every decision was: its own contract and those of the response and  *)
(* the plan made from it accept it.                                         *)
TypeOK ==
  /\ stage \in [Lanes -> Stages \cup {"none"}]
  /\ mode \in [Lanes -> Modes]
  /\ steps \in [Lanes -> 0..MaxAutoSteps]
  /\ authority \in [Lanes -> Authorities]
  /\ \A l \in Lanes : event[l] # None => event[l].kind \in EventKinds
  /\ \A l \in Lanes : ValidDecision(decision[l])
  /\ expected \in [Lanes -> SUBSET EventKinds]
  /\ pending \in [Tickets -> Dispatches({Question1}) \cup {None}]
  /\ approved \subseteq Lanes /\ audited \subseteq Lanes /\ confirmed \subseteq Tickets

Phase(l) ==
  LET s == stage[l] IN
  CASE s = "none" -> "none"
    [] s = "TICKETS" -> "planned"
    [] s \in {"IMPLEMENT", "SMOKE_TEST"} -> "building"
    [] s = "REVIEW" -> "checked"
    [] s = "HANDOFF" -> "delivering"
    [] s = "STOPPED" -> IF event[l].kind = "WAYFINDER_NO_GO" THEN "abandoned" ELSE "delivered"
    [] OTHER -> "planning"

Gates == INSTANCE DeliveryGates WITH phase <- [l \in Lanes |-> Phase(l)]

(* Whatever events an executor returns, it gets no lane past a gate: no      *)
(* ticket without an approved specification, no building without a          *)
(* confirmed dispatch, no delivery without a check and a review.            *)
KeepsGates == Gates!Spec

(* An executor that returns what the last decision expects is never refused: *)
(* a lane halts only on a blocked return, a refusal of the human, or the    *)
(* end of its work.                                                         *)
ExpectedIsRouted ==
  [][\A l \in Lanes :
       Route(l) /\ decision'[l].continuation = "HALT" =>
         \/ decision'[l].outcome = "STOP"
         \/ event[l].returned = "BLOCKED"
         \/ event[l].kind = "APPROVAL_DENIED"
         \/ event[l].confirmation = "NEGATIVE"]_vars

(* Every decision is valid, and what it expects is routed. *)
RoutesWhatItExpects == []TypeOK /\ ExpectedIsRouted

(* "Continue while exactly one valid action is granted": a run ends, with a *)
(* human, a halt or the ceiling, whatever loops the profile has.            *)
RunsEnd ==
  \A l \in Lanes : mode[l] \in {"routing", "granted"} ~> mode[l] \notin {"routing", "granted"}

=============================================================================
