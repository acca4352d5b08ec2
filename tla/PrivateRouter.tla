---------------------------- MODULE PrivateRouter ----------------------------
(***************************************************************************)
(* private_router.py: clients of the private service that owns the pending  *)
(* dispatch questions.  A client's route() is one synchronous call: the     *)
(* request may never reach the service, or its answer may be lost after the *)
(* service has changed its state; callers retry, and more than one client   *)
(* may speak for one project.  The service is the in-memory one of the      *)
(* repository, keyed here within one account and project.                   *)
(*                                                                         *)
(* What route() returns to its caller is left out: the plan a wait leaves   *)
(* with the client is in plans, and a halt with any of its error codes      *)
(* leaves nothing.                                                          *)
(*                                                                         *)
(* Only the two dispatch events touch that state; every other event is      *)
(* decided by RouterEngine alone.  The decision id of the service is a      *)
(* function of the event, so of the client's correlation checks only the    *)
(* one on the request id can refuse.                                        *)
(***************************************************************************)
EXTENDS RouterEngine

CONSTANTS
  Clients,
  Asks,          \* event ids of dispatch questions: the correlation ids
  Confirms,      \* event ids of confirmations
  RequestIds,
  MaxOpenings    \* bound: how often a question may be opened

ASSUME PrivateRouterAssumption ==
  /\ Asks \cap Confirms = {}
  /\ MaxOpenings \in Nat

Events == Asks \cup Confirms
Pending == {d \in Dispatches(Asks) : d.question = d.correlation}

ASSUME NoneAssumption == None \notin Asks /\ None \notin Pending

NoPlans == [k \in Asks |-> None]

VARIABLES
  byCorrelation,  \* _pending_dispatches
  byTicket,       \* _pending_dispatches_by_ticket
  plans,          \* each client's _pending_dispatch_plans
  requestFor,     \* each client's _request_for_event
  rendered,       \* the questions some client has put to the human
  receipts,       \* the receipts issued on a positive answer
  opened,         \* how often the service opened each question
  lanes           \* how many lanes the service granted for each question

service == <<byCorrelation, byTicket, opened, lanes>>
client == <<plans, requestFor>>
vars == <<byCorrelation, byTicket, plans, requestFor, rendered, receipts, opened, lanes>>

Init ==
  /\ byCorrelation = [k \in Asks |-> None]
  /\ byTicket = [t \in Tickets |-> None]
  /\ plans = [c \in Clients |-> NoPlans]
  /\ requestFor = [c \in Clients |-> [e \in Events |-> None]]
  /\ rendered = {} /\ receipts = {}
  /\ opened = [k \in Asks |-> 0]
  /\ lanes = [k \in Asks |-> 0]

-----------------------------------------------------------------------------
(* Requests. *)

AskEvent(k, t, terms) ==
  [PlainEvent("TICKET_DISPATCH_REQUIRED") EXCEPT
     !.id = k,
     !.proposal = [ticket |-> t, question |-> k, owner |-> PlannedOwner, opened |-> TRUE],
     !.handoff = [ticket |-> t, owner |-> PlannedOwner, terms |-> terms]]

(* A confirmation with no receipt withdraws the question of its ticket. *)
ConfirmEvent(id, receipt, confirmation) ==
  [PlainEvent("IMPLEMENTATION_DISPATCH_CONFIRMED") EXCEPT
     !.id = id, !.receipt = receipt, !.confirmation = confirmation]

(* _private_artifact_refs and RouterState: the ticket named by the request  *)
(* is the one source.                                                       *)
StateFor(ticket, authority, pending) ==
  [PlainState("TICKETS", authority, {[kind |-> "TICKET", id |-> ticket]}) EXCEPT
     !.pending = pending]

-----------------------------------------------------------------------------
(* FakePrivateRouterService.decide *)

(* Fault: the question of a ticket is looked up by its correlation only. *)
PendingForByCorrelation(e, t) ==
  IF e.kind = "TICKET_DISPATCH_REQUIRED" THEN byCorrelation[e.id]
  ELSE IF e.receipt # None THEN byCorrelation[e.receipt.correlation] ELSE None

(* _pending_dispatch_for *)
PendingFor(e, t) ==
  IF e.kind = "TICKET_DISPATCH_REQUIRED"
  THEN IF byTicket[t] # None THEN byTicket[t] ELSE byCorrelation[e.id]
  ELSE IF e.receipt # None THEN byCorrelation[e.receipt.correlation] ELSE None

(* Fault: a consumed question stays in the index of tickets. *)
RemoveByCorrelation(p) ==
  /\ byCorrelation' = [byCorrelation EXCEPT ![p.correlation] = None]
  /\ UNCHANGED byTicket

(* The end of _consume_pending_dispatch and of _discard_pending_dispatch. *)
Remove(p) ==
  /\ byCorrelation' = [byCorrelation EXCEPT ![p.correlation] = None]
  /\ byTicket' = IF byTicket[p.ticket] = p THEN [byTicket EXCEPT ![p.ticket] = None] ELSE byTicket

Store(p) ==
  /\ byCorrelation' = [byCorrelation EXCEPT ![p.correlation] = p]
  /\ byTicket' = [byTicket EXCEPT ![p.ticket] = p]

(* Fault: a confirmation is dropped with the question its receipt names only. *)
FailedQuestionOfReceipt(e, t) ==
  IF e.receipt = None THEN None ELSE byCorrelation[e.receipt.correlation]

(* The question a failed confirmation discards: the receipt's, else the one *)
(* of the receipt's ticket, else the one of the request's ticket.           *)
FailedQuestion(e, t) ==
  LET named == IF e.receipt = None THEN None ELSE byCorrelation[e.receipt.correlation]
      ofReceipt == IF e.receipt = None THEN None ELSE byTicket[e.receipt.ticket]
  IN  CASE named # None -> named
        [] named = None /\ ofReceipt # None -> ofReceipt
        [] OTHER -> byTicket[t]

RetryPermitted(e) == \E r \in RulesFor("TICKETS", e.kind) : r.outcome = "RETRY"

Consume(e) ==
  /\ Remove(byCorrelation[e.receipt.correlation])
  /\ lanes' = [lanes EXCEPT ![e.receipt.correlation] = @ + 1]
  /\ UNCHANGED opened

Open(p) ==
  /\ opened[p.correlation] < MaxOpenings
  /\ Store(p)
  /\ opened' = [opened EXCEPT ![p.correlation] = @ + 1]
  /\ UNCHANGED lanes

DiscardFailed(e, t) ==
  /\ IF FailedQuestion(e, t) = None THEN UNCHANGED <<byCorrelation, byTicket>>
                                    ELSE Remove(FailedQuestion(e, t))
  /\ UNCHANGED <<opened, lanes>>

(* The decision of a permitted request and what it does to the service. *)
Served(e, t, authority) == Decide(StateFor(t, authority, PendingFor(e, t)), e)

ServiceStep(e, t, decision) ==
  \/ decision.continuation = "AUTO_CONTINUE" /\ Consume(e)
  \/ decision.continuation = "WAIT_FOR_HUMAN" /\ Open(decision.pending)
  \/ /\ decision.continuation = "HALT"
     /\ e.kind = "IMPLEMENTATION_DISPATCH_CONFIRMED" /\ ~RetryPermitted(e)
     /\ DiscardFailed(e, t)
  \/ /\ decision.continuation = "HALT"
     /\ e.kind = "TICKET_DISPATCH_REQUIRED" \/ RetryPermitted(e)
     /\ UNCHANGED service

-----------------------------------------------------------------------------
(* PrivateRouterClient.route *)

Registers(e) ==
  e.kind = "TICKET_DISPATCH_REQUIRED" =>
    /\ e.handoff.ticket = e.proposal.ticket /\ e.handoff.owner = e.proposal.owner
    /\ Approves(e.proposal.ticket, e.proposal.owner, e.handoff.terms)

(* A request that carries a receipt closes the client's plan first. *)
PlansWithout(c, e) ==
  IF e.receipt = None THEN plans[c] ELSE [plans[c] EXCEPT ![e.receipt.correlation] = None]

(* POLICY_BLOCKED *)
RefusedLocally(e) ==
  /\ ~Registers(e)
  /\ UNCHANGED <<service, client>>

(* SERVICE_UNAVAILABLE: the call raised, before the service saw the request *)
(* or after.                                                                *)
Unreached(c, e) ==
  /\ Registers(e)
  /\ plans' = [plans EXCEPT ![c] = PlansWithout(c, e)]
  /\ UNCHANGED <<service, requestFor>>

Unanswered(c, e, t, authority) ==
  /\ Registers(e)
  /\ ServiceStep(e, t, Served(e, t, authority))
  /\ plans' = [plans EXCEPT ![c] = PlansWithout(c, e)]
  /\ UNCHANGED requestFor

Correlates(c, e, request) == requestFor[c][e.id] \in {None, request}

(* The answer is used only if the request id is the first this event came   *)
(* with; any other is RESPONSE_INVALID.                                     *)
Receive(c, e, request, decision) ==
  IF ~Correlates(c, e, request)
  THEN /\ plans' = [plans EXCEPT ![c] = PlansWithout(c, e)]
       /\ UNCHANGED requestFor
  ELSE /\ requestFor' = [requestFor EXCEPT ![c][e.id] = request]
       /\ IF decision.continuation = "WAIT_FOR_HUMAN"
          THEN plans' = [plans EXCEPT ![c] =
                           [PlansWithout(c, e) EXCEPT ![e.id] = decision.pending]]
          ELSE plans' = [plans EXCEPT ![c] = PlansWithout(c, e)]

Answered(c, e, t, authority, request) ==
  /\ Registers(e)
  /\ ServiceStep(e, t, Served(e, t, authority))
  /\ Receive(c, e, request, Served(e, t, authority))

(* Entitlement is denied before anything is read. *)
Denied(c, e, request) ==
  /\ Registers(e)
  /\ UNCHANGED service
  /\ Receive(c, e, request, Halted)

Route(c, e, t, authority, request) ==
  /\ \/ RefusedLocally(e)
     \/ Unreached(c, e)
     \/ Unanswered(c, e, t, authority)
     \/ Denied(c, e, request)
     \/ Answered(c, e, t, authority, request)
  /\ UNCHANGED <<rendered, receipts>>

AskDispatch(c) ==
  \E k \in Asks, t \in Tickets, terms \in Terms, request \in RequestIds :
    Route(c, AskEvent(k, t, terms), t, "NOT_REQUIRED", request)

ConfirmDispatch(c) ==
  \E id \in Confirms, r \in receipts, authority \in {"APPROVED", "PENDING"},
     request \in RequestIds :
    Route(c, ConfirmEvent(id, r, "POSITIVE"), r.ticket, authority, request)

Withdraw(c, t) ==
  \E id \in Confirms, request \in RequestIds :
    Route(c, ConfirmEvent(id, None, "NEGATIVE"), t, "APPROVED", request)

-----------------------------------------------------------------------------
(* render_dispatch_response: the text a client shows for a plan it owns. *)
Render(c, k) ==
  /\ plans[c][k] # None
  /\ rendered' = rendered \cup {plans[c][k]}
  /\ UNCHANGED <<service, client, receipts>>

(* The human says yes to a rendered question, and a receipt is issued. *)
IssueReceipt ==
  \E q \in rendered \ receipts :
    /\ receipts' = receipts \cup {q}
    /\ UNCHANGED <<service, client, rendered>>

Next ==
  \/ \E c \in Clients : AskDispatch(c) \/ ConfirmDispatch(c)
  \/ \E c \in Clients, t \in Tickets : Withdraw(c, t)
  \/ \E c \in Clients, k \in Asks : Render(c, k)
  \/ IssueReceipt

Spec == Init /\ [][Next]_vars

(* A caller that was left without a plan withdraws the question of its      *)
(* ticket, and the service answers some call in the end.                    *)
Fairness ==
  \A t \in Tickets :
    WF_vars(\E c \in Clients, id \in Confirms, request \in RequestIds :
              /\ byTicket[t] # None
              /\ Answered(c, ConfirmEvent(id, None, "NEGATIVE"), t, "APPROVED", request)
              /\ UNCHANGED <<rendered, receipts>>)

FairSpec == Spec /\ Fairness

-----------------------------------------------------------------------------
Maybe(S) == S \cup {None}

TypeOK ==
  /\ byCorrelation \in [Asks -> Maybe(Pending)]
  /\ byTicket \in [Tickets -> Maybe(Pending)]
  /\ plans \in [Clients -> [Asks -> Maybe(Pending)]]
  /\ requestFor \in [Clients -> [Events -> Maybe(RequestIds)]]
  /\ rendered \subseteq Pending /\ receipts \subseteq rendered
  /\ opened \in [Asks -> 0..MaxOpenings] /\ lanes \in [Asks -> Nat]

(* The two indexes name the same questions: a ticket's question is found by *)
(* its correlation and the other way round, whatever was asked again,       *)
(* answered late or lost, so no ticket has two live questions and none is   *)
(* left behind under one key.                                               *)
IndexesAgree ==
  /\ \A t \in Tickets : byTicket[t] # None =>
       byTicket[t].ticket = t /\ byCorrelation[byTicket[t].correlation] = byTicket[t]
  /\ \A k \in Asks : byCorrelation[k] # None =>
       byCorrelation[k].correlation = k /\ byTicket[byCorrelation[k].ticket] = byCorrelation[k]

(* Every lane was granted to an open question, was put to a human and was   *)
(* answered: however often a receipt is routed again, no question has more  *)
(* lanes than openings, nor a lane without a receipt.                       *)
LanesAreAnswered ==
  \A k \in Asks :
    /\ lanes[k] + (IF byCorrelation[k] # None THEN 1 ELSE 0) <= opened[k]
    /\ lanes[k] > 0 => \E r \in receipts : r.correlation = k

(* What the service keeps and what it granted agree. *)
QuestionsAgree == TypeOK /\ IndexesAgree /\ LanesAreAnswered

(* The tickets' questions go through the desk one at a time: asked when     *)
(* none is open, closed by the answer that grants the lane or by a failed   *)
(* confirmation.                                                            *)
Desk == INSTANCE DispatchDesk WITH Questions <- Asks, granted <- lanes,
          open <- [t \in Tickets |-> IF byTicket[t] = None THEN None ELSE byTicket[t].correlation]

KeepsDesk == Desk!Spec

(* No question stays open for good: when its answer was lost and no client  *)
(* holds it, it is still cleared by its ticket.                             *)
QuestionCloses == \A t \in Tickets : byTicket[t] # None ~> byTicket[t] = None

(* What a doc says of receipts: a replayed one halts. *)
ReceiptConsumedOnce == \A k \in Asks : lanes[k] <= 1

=============================================================================
