----------------------------- MODULE RoutingProofs -----------------------------
(***************************************************************************)
(* Theorems about PrivateRouter, for any tickets, owners, terms, registry, *)
(* clients and event ids and however often a question may be opened; about *)
(* ApprovalRound, for any number of signals and lost workers; about        *)
(* AgentContext, for any agents, references, lanes, owners, sources and    *)
(* returns; and about the three side by side.                              *)
(***************************************************************************)
EXTENDS MCRouting, FiniteSetTheorems, SequenceTheorems, WellFoundedInduction, TLAPS

-----------------------------------------------------------------------------
(* The rules of the two dispatch events. *)

LEMMA DispatchRules ==
  ASSUME NEW r \in Rules, r.stage = "TICKETS"
  PROVE  /\ r.event = "TICKET_DISPATCH_REQUIRED" =>
              r.receipt = FALSE /\ r.human = TRUE /\ r.outcome = "SUSPEND"
         /\ r.event = "IMPLEMENTATION_DISPATCH_CONFIRMED" =>
              r.receipt = TRUE /\ r.human = FALSE /\ r.outcome = "ADVANCE"
<1>1. r \notin DiscoveryRules
  BY DEF DiscoveryRules, Rule, Advance, Accepting, AskHuman
<1>2. r \notin DeliveryRules
  BY DEF DeliveryRules, Rule, Advance, Accepting, Approved
<1>3. CASE r \in SpecificationRules
  <2>1. /\ Accepting(AskHuman("SPEC", "ACTION_COMPLETED", "SPEC"), "DOCUMENTATION").stage = "SPEC"
        /\ Approved(Advance("SPEC", "APPROVAL_GRANTED", "TICKETS", "SPEC")).stage = "SPEC"
    BY DEF Rule, Advance, Accepting, Approved, AskHuman
  <2> DEFINE ask == [AskHuman("TICKETS", "TICKET_DISPATCH_REQUIRED", "TICKET")
                       EXCEPT !.handoff = TRUE]
             confirm == [Approved(Advance("TICKETS", "IMPLEMENTATION_DISPATCH_CONFIRMED",
                                          "GRILL", "TICKET")) EXCEPT !.receipt = TRUE]
  <2>2. /\ ask.event = "TICKET_DISPATCH_REQUIRED"
        /\ ask.receipt = FALSE /\ ask.human = TRUE /\ ask.outcome = "SUSPEND"
    BY DEF Rule, AskHuman
  <2>3. /\ confirm.event = "IMPLEMENTATION_DISPATCH_CONFIRMED"
        /\ confirm.receipt = TRUE /\ confirm.human = FALSE /\ confirm.outcome = "ADVANCE"
    BY DEF Rule, Advance, Approved
  <2>4. r = ask \/ r = confirm
    BY <1>3, <2>1 DEF SpecificationRules
  <2> HIDE DEF ask, confirm
  <2> QED  BY <2>2, <2>3, <2>4
<1> QED  BY <1>1, <1>2, <1>3 DEF Rules

LEMMA DecideFollows ==
  ASSUME NEW s, NEW e, Decide(s, e) # Halted
  PROVE  \E r \in RulesFor(s.stage, e.kind) : Admits(r, s, e) /\ Decide(s, e) = DecideBy(r, s, e)
<1> DEFINE admitting == {r \in RulesFor(s.stage, e.kind) : Admits(r, s, e)}
<1>1. admitting # {}
  BY DEF Decide
<1>2. (CHOOSE r \in admitting : TRUE) \in admitting
  BY <1>1
<1>3. Decide(s, e) = DecideBy(CHOOSE r \in admitting : TRUE, s, e)
  BY <1>1 DEF Decide
<1> HIDE DEF admitting
<1>4. \E r \in admitting : Decide(s, e) = DecideBy(r, s, e)
  BY <1>2, <1>3
<1> QED  BY <1>4 DEF admitting

LEMMA HaltedHalts == Halted.continuation = "HALT" /\ Halted.pending = None
BY DEF Halted

(* A dispatch question is opened or halted, ... *)
LEMMA AskDecided ==
  ASSUME NEW s, NEW e, s.stage = "TICKETS", e.kind = "TICKET_DISPATCH_REQUIRED",
         NEW d, d = Decide(s, e)
  PROVE  /\ d.continuation # "AUTO_CONTINUE"
         /\ d.continuation = "WAIT_FOR_HUMAN" => OpensQuestion(s, e) /\ d.pending = Question(e)
<1>1. CASE d = Halted
  BY <1>1, HaltedHalts
<1>2. CASE d # Halted
  <2>1. PICK r \in RulesFor(s.stage, e.kind) : d = DecideBy(r, s, e)
    BY <1>2, DecideFollows
  <2>2. r.receipt = FALSE /\ r.human = TRUE /\ r.outcome = "SUSPEND"
    BY <2>1, DispatchRules DEF RulesFor
  <2>3. d = IF OpensQuestion(s, e) THEN [Follow(r) EXCEPT !.pending = Question(e)] ELSE Halted
    BY <2>1, <2>2 DEF DecideBy
  <2>4. Follow(r).continuation = "WAIT_FOR_HUMAN"
    BY <2>2 DEF Follow
  <2>5. OpensQuestion(s, e) /\ d = [Follow(r) EXCEPT !.pending = Question(e)]
    BY <1>2, <2>3
  <2>6. d.continuation = "WAIT_FOR_HUMAN" /\ d.pending = Question(e)
    BY <2>4, <2>5 DEF Follow
  <2> QED  BY <2>5, <2>6
<1> QED  BY <1>1, <1>2

(* ... a confirmation grants a lane or halts. *)
LEMMA ConfirmDecided ==
  ASSUME NEW s, NEW e, s.stage = "TICKETS", e.kind = "IMPLEMENTATION_DISPATCH_CONFIRMED",
         NEW d, d = Decide(s, e)
  PROVE  /\ d.continuation # "WAIT_FOR_HUMAN"
         /\ d.continuation = "AUTO_CONTINUE" => ReceiptPresented(s, e) /\ ReceiptMatches(s, e)
<1>1. CASE d = Halted
  BY <1>1, HaltedHalts
<1>2. CASE d # Halted
  <2>1. PICK r \in RulesFor(s.stage, e.kind) : Admits(r, s, e) /\ d = DecideBy(r, s, e)
    BY <1>2, DecideFollows
  <2>2. r.receipt = TRUE /\ r.human = FALSE /\ r.outcome = "ADVANCE"
    BY <2>1, DispatchRules DEF RulesFor
  <2>3. ReceiptMatches(s, e) /\ d = [Follow(r) EXCEPT !.lane = e.receipt]
    BY <1>2, <2>1, <2>2 DEF DecideBy
  <2>4. Follow(r).continuation = "AUTO_CONTINUE"
    BY <2>2 DEF Follow
  <2>5. ReceiptPresented(s, e)
    BY <2>1, <2>2 DEF Admits
  <2> QED  BY <2>3, <2>4, <2>5 DEF Follow
<1> QED  BY <1>1, <1>2

-----------------------------------------------------------------------------
(* The requests a client makes, and the state the service decides them in.  *)

LEMMA AskFields ==
  ASSUME NEW k, NEW t, NEW terms, NEW e, e = AskEvent(k, t, terms)
  PROVE  /\ e.kind = "TICKET_DISPATCH_REQUIRED" /\ e.id = k /\ e.receipt = None
         /\ e.proposal = [ticket |-> t, question |-> k, owner |-> PlannedOwner, opened |-> TRUE]
         /\ e.handoff = [ticket |-> t, owner |-> PlannedOwner, terms |-> terms]
BY DEF AskEvent, PlainEvent

LEMMA ConfirmFields ==
  ASSUME NEW id, NEW receipt, NEW confirmation, NEW e,
         e = ConfirmEvent(id, receipt, confirmation)
  PROVE  /\ e.kind = "IMPLEMENTATION_DISPATCH_CONFIRMED" /\ e.id = id /\ e.receipt = receipt
BY DEF ConfirmEvent, PlainEvent

LEMMA StateFields ==
  ASSUME NEW t, NEW authority, NEW pending, NEW s, s = StateFor(t, authority, pending)
  PROVE  s.stage = "TICKETS" /\ s.pending = pending
BY DEF StateFor, PlainState

(* What a request may be. *)
IsAsk(e, t) == \E k \in Asks, terms \in Terms : t \in Tickets /\ e = AskEvent(k, t, terms)

IsConfirm(e, t) ==
  \E id \in Confirms, r \in receipts, confirmation \in {"POSITIVE"} :
    e = ConfirmEvent(id, r, confirmation) /\ t = r.ticket

IsWithdrawal(e, t) ==
  \E id \in Confirms, confirmation \in {"NEGATIVE"} :
    e = ConfirmEvent(id, None, confirmation) /\ t \in Tickets

(* What the service may do with one. *)
Opens(p) ==
  /\ p \in Pending /\ byTicket[p.ticket] = None /\ byCorrelation[p.correlation] = None
  /\ Open(p)

IsOpen(p) ==
  /\ p \in Pending
  /\ byCorrelation[p.correlation] = p /\ byTicket[p.ticket] = p

Grants(p) ==
  /\ IsOpen(p) /\ p \in receipts /\ Remove(p)
  /\ lanes' = [lanes EXCEPT ![p.correlation] = @ + 1]
  /\ UNCHANGED opened

Drops(p) == IsOpen(p) /\ Remove(p) /\ UNCHANGED <<opened, lanes>>

Serves == (\E p : Opens(p) \/ Grants(p) \/ Drops(p)) \/ UNCHANGED service

LEMMA PendingFields ==
  ASSUME NEW p \in Pending
  PROVE  /\ p.ticket \in Tickets /\ p.correlation \in Asks /\ p # None
         /\ p.question = p.correlation
BY NoneAssumption DEF Pending, Dispatches

(* A receipt that agrees with a question in every field is that question's. *)
LEMMA SameDispatch ==
  ASSUME NEW p \in Pending, NEW q \in Pending, p.ticket = q.ticket, p.question = q.question,
         p.owner = q.owner, p.terms = q.terms, p.correlation = q.correlation
  PROVE  p = q
BY DEF Pending, Dispatches

(* A question found under either index is open under both. *)
LEMMA FoundIsOpen ==
  ASSUME QuestionsAgree
  PROVE  /\ \A k \in Asks : byCorrelation[k] # None =>
              IsOpen(byCorrelation[k]) /\ byCorrelation[k].correlation = k
         /\ \A t \in Tickets : byTicket[t] # None => IsOpen(byTicket[t]) /\ byTicket[t].ticket = t
BY DEF QuestionsAgree, TypeOK, IndexesAgree, IsOpen, Maybe

LEMMA AskServed ==
  ASSUME QuestionsAgree, NEW e, NEW t, IsAsk(e, t), NEW authority,
         NEW d, d = Served(e, t, authority), ServiceStep(e, t, d)
  PROVE  /\ Serves /\ e.receipt = None /\ e.id \in Asks
         /\ d.continuation = "WAIT_FOR_HUMAN" => d.pending \in Pending
<1>1. PICK k \in Asks, terms \in Terms : t \in Tickets /\ e = AskEvent(k, t, terms)
  BY DEF IsAsk
<1>2. /\ e.kind = "TICKET_DISPATCH_REQUIRED" /\ e.id = k /\ e.receipt = None
      /\ e.proposal = [ticket |-> t, question |-> k, owner |-> PlannedOwner, opened |-> TRUE]
      /\ e.handoff = [ticket |-> t, owner |-> PlannedOwner, terms |-> terms]
  BY <1>1, AskFields
<1>3. PICK s : s = StateFor(t, authority, PendingFor(e, t))
  OBVIOUS
<1>4. s.stage = "TICKETS" /\ s.pending = PendingFor(e, t) /\ d = Decide(s, e)
  BY <1>3, StateFields DEF Served
<1>5. /\ d.continuation # "AUTO_CONTINUE"
      /\ d.continuation = "WAIT_FOR_HUMAN" => OpensQuestion(s, e) /\ d.pending = Question(e)
  BY <1>2, <1>4, AskDecided
<1>6. CASE d.continuation = "WAIT_FOR_HUMAN"
  <2>1. /\ d.pending = Question(e) /\ PendingFor(e, t) = None /\ Open(d.pending)
    BY <1>4, <1>5, <1>6 DEF OpensQuestion, ServiceStep
  <2>2. byTicket[t] = None /\ byCorrelation[k] = None
    BY <1>2, <2>1 DEF PendingFor
  <2>3. /\ d.pending = [ticket |-> t, question |-> k, owner |-> PlannedOwner, terms |-> terms,
                        correlation |-> k]
    BY <1>2, <2>1 DEF Question
  <2>4. d.pending \in Pending /\ d.pending.ticket = t /\ d.pending.correlation = k
    BY <1>1, <2>3, EngineAssumption DEF Pending, Dispatches
  <2> QED  BY <1>2, <2>1, <2>2, <2>4 DEF Serves, Opens
<1>7. CASE d.continuation # "WAIT_FOR_HUMAN"
  <2>1. UNCHANGED service
    BY <1>2, <1>5, <1>7 DEF ServiceStep
  <2> QED  BY <1>2, <1>7, <2>1 DEF Serves
<1> QED  BY <1>6, <1>7

LEMMA ConfirmServed ==
  ASSUME QuestionsAgree, NEW e, NEW t, IsConfirm(e, t) \/ IsWithdrawal(e, t), NEW authority,
         NEW d, d = Served(e, t, authority), ServiceStep(e, t, d)
  PROVE  /\ Serves /\ e.receipt \in receipts \cup {None} /\ e.id \in Confirms
         /\ d.continuation # "WAIT_FOR_HUMAN"
<1>1. /\ e.kind = "IMPLEMENTATION_DISPATCH_CONFIRMED" /\ e.id \in Confirms
      /\ e.receipt \in receipts \cup {None} /\ t \in Tickets
  BY ConfirmFields, PendingFields DEF IsConfirm, IsWithdrawal, QuestionsAgree, TypeOK
<1>2. PICK s : s = StateFor(t, authority, PendingFor(e, t))
  OBVIOUS
<1>3. s.stage = "TICKETS" /\ s.pending = PendingFor(e, t) /\ d = Decide(s, e)
  BY <1>2, StateFields DEF Served
<1>4. /\ d.continuation # "WAIT_FOR_HUMAN"
      /\ d.continuation = "AUTO_CONTINUE" => ReceiptPresented(s, e) /\ ReceiptMatches(s, e)
  BY <1>1, <1>3, ConfirmDecided
<1>5. CASE d.continuation = "AUTO_CONTINUE"
  <2>1. e.receipt # None /\ s.pending # None /\ ReceiptMatches(s, e) /\ Consume(e)
    BY <1>4, <1>5 DEF ReceiptPresented, ServiceStep
  <2>2. e.receipt \in Pending
    BY <1>1, <2>1 DEF QuestionsAgree, TypeOK
  <2>3. s.pending \in Pending /\ IsOpen(s.pending)
    <3>1. e.receipt.correlation \in Asks
      BY <2>2, PendingFields
    <3>2. s.pending = byCorrelation[e.receipt.correlation]
      BY <1>1, <1>3, <2>1 DEF PendingFor
    <3>3. s.pending \in Pending
      BY <2>1, <3>1, <3>2 DEF QuestionsAgree, TypeOK, Maybe
    <3> QED  BY <2>1, <3>1, <3>2, <3>3, FoundIsOpen
  <2>4. e.receipt = s.pending
    BY <2>1, <2>2, <2>3, SameDispatch DEF ReceiptMatches
  <2>5. Grants(e.receipt)
    <3>1. IsOpen(e.receipt)
      BY <2>3, <2>4
    <3> QED  BY <1>1, <2>1, <2>2, <3>1, PendingFields DEF Grants, Consume, IsOpen
  <2> QED  BY <1>1, <1>4, <2>5 DEF Serves
<1>6. CASE d.continuation # "AUTO_CONTINUE"
  <2>1. DiscardFailed(e, t) \/ UNCHANGED service
    BY <1>4, <1>6 DEF ServiceStep
  <2>2. FailedQuestion(e, t) # None => IsOpen(FailedQuestion(e, t))
    <3>1. e.receipt # None => e.receipt.correlation \in Asks /\ e.receipt.ticket \in Tickets
      BY <1>1, PendingFields DEF QuestionsAgree, TypeOK
    <3> QED  BY <1>1, <3>1, FoundIsOpen DEF FailedQuestion
  <2>3. Serves
    BY <2>1, <2>2 DEF Serves, Drops, DiscardFailed, service
  <2> QED  BY <1>1, <1>4, <2>3
<1> QED  BY <1>5, <1>6

-----------------------------------------------------------------------------
(* What the service does keeps its indexes and the lanes it granted sound. *)

ServiceOK ==
  /\ byCorrelation \in [Asks -> Maybe(Pending)]
  /\ byTicket \in [Tickets -> Maybe(Pending)]
  /\ opened \in [Asks -> 0..MaxOpenings] /\ lanes \in [Asks -> Nat]

LEMMA OpensKeeps ==
  ASSUME QuestionsAgree, NEW p, Opens(p), UNCHANGED receipts
  PROVE  ServiceOK' /\ IndexesAgree' /\ LanesAreAnswered'
<1>1. /\ p.ticket \in Tickets /\ p.correlation \in Asks /\ p # None /\ p \in Pending
      /\ byTicket[p.ticket] = None /\ byCorrelation[p.correlation] = None
      /\ opened[p.correlation] < MaxOpenings /\ ServiceOK
  BY PendingFields DEF Opens, Open, QuestionsAgree, TypeOK, ServiceOK
<1>2. /\ byCorrelation' = [byCorrelation EXCEPT ![p.correlation] = p]
      /\ byTicket' = [byTicket EXCEPT ![p.ticket] = p]
      /\ opened' = [opened EXCEPT ![p.correlation] = @ + 1] /\ lanes' = lanes
  BY DEF Opens, Open, Store
<1>3. ServiceOK'
  BY <1>1, <1>2, PrivateRouterAssumption DEF ServiceOK, Maybe
<1>4. IndexesAgree'
  BY <1>1, <1>2 DEF ServiceOK, QuestionsAgree, IndexesAgree
<1>5. ASSUME NEW k \in Asks
      PROVE  /\ lanes'[k] + (IF byCorrelation'[k] # None THEN 1 ELSE 0) <= opened'[k]
             /\ lanes'[k] > 0 => \E r \in receipts' : r.correlation = k
  <2>1. /\ lanes[k] + (IF byCorrelation[k] # None THEN 1 ELSE 0) <= opened[k]
        /\ lanes[k] > 0 => \E r \in receipts : r.correlation = k
        /\ lanes[k] \in Nat /\ opened[k] \in Nat
    BY <1>1 DEF QuestionsAgree, LanesAreAnswered, ServiceOK
  <2> QED  BY <1>1, <1>2, <2>1 DEF ServiceOK
<1> QED  BY <1>3, <1>4, <1>5 DEF LanesAreAnswered

LEMMA RemoveClears ==
  ASSUME QuestionsAgree, NEW p, IsOpen(p), Remove(p)
  PROVE  /\ byCorrelation' = [byCorrelation EXCEPT ![p.correlation] = None]
         /\ byTicket' = [byTicket EXCEPT ![p.ticket] = None]
         /\ p.ticket \in Tickets /\ p.correlation \in Asks /\ p # None
         /\ byCorrelation' \in [Asks -> Maybe(Pending)]
         /\ byTicket' \in [Tickets -> Maybe(Pending)]
         /\ IndexesAgree'
<1>1. /\ byCorrelation' = [byCorrelation EXCEPT ![p.correlation] = None]
      /\ byTicket' = [byTicket EXCEPT ![p.ticket] = None]
      /\ p.ticket \in Tickets /\ p.correlation \in Asks /\ p # None /\ ServiceOK
      /\ byCorrelation[p.correlation] = p /\ byTicket[p.ticket] = p
  BY PendingFields DEF IsOpen, Remove, QuestionsAgree, TypeOK, ServiceOK
<1>2. /\ byCorrelation' \in [Asks -> Maybe(Pending)]
      /\ byTicket' \in [Tickets -> Maybe(Pending)]
  BY <1>1 DEF ServiceOK, Maybe
<1>3. IndexesAgree'
  BY <1>1 DEF ServiceOK, QuestionsAgree, IndexesAgree
<1> QED  BY <1>1, <1>2, <1>3

LEMMA RemovalKeeps ==
  ASSUME QuestionsAgree, NEW p, Grants(p) \/ Drops(p), UNCHANGED receipts
  PROVE  ServiceOK' /\ IndexesAgree' /\ LanesAreAnswered'
<1>1. IsOpen(p) /\ Remove(p) /\ opened' = opened
  BY DEF Grants, Drops
<1>2. /\ byCorrelation' = [byCorrelation EXCEPT ![p.correlation] = None]
      /\ p.correlation \in Asks /\ p # None /\ byCorrelation[p.correlation] = p
      /\ byCorrelation' \in [Asks -> Maybe(Pending)]
      /\ byTicket' \in [Tickets -> Maybe(Pending)]
      /\ IndexesAgree' /\ ServiceOK
  BY <1>1, RemoveClears DEF IsOpen, QuestionsAgree, TypeOK, ServiceOK
<1>3. /\ Drops(p) => lanes' = lanes
      /\ Grants(p) => lanes' = [lanes EXCEPT ![p.correlation] = @ + 1] /\ p \in receipts
  BY DEF Grants, Drops
<1>4. ServiceOK'
  BY <1>1, <1>2, <1>3 DEF ServiceOK
<1>5. ASSUME NEW k \in Asks
      PROVE  /\ lanes'[k] + (IF byCorrelation'[k] # None THEN 1 ELSE 0) <= opened'[k]
             /\ lanes'[k] > 0 => \E r \in receipts' : r.correlation = k
  <2>1. /\ lanes[k] + (IF byCorrelation[k] # None THEN 1 ELSE 0) <= opened[k]
        /\ lanes[k] > 0 => \E r \in receipts : r.correlation = k
        /\ lanes[k] \in Nat /\ opened[k] \in Nat
    BY <1>2 DEF QuestionsAgree, LanesAreAnswered, ServiceOK
  <2>2. CASE k = p.correlation
    <3>1. byCorrelation[k] # None /\ byCorrelation'[k] = None
      BY <1>2, <2>2 DEF ServiceOK
    <3>2. lanes'[k] = lanes[k] \/ (lanes'[k] = lanes[k] + 1 /\ p \in receipts)
      BY <1>2, <1>3, <2>2 DEF ServiceOK
    <3> QED  BY <1>1, <2>1, <2>2, <3>1, <3>2
  <2>3. CASE k # p.correlation
    <3>1. byCorrelation'[k] = byCorrelation[k] /\ lanes'[k] = lanes[k]
      BY <1>2, <1>3, <2>3 DEF ServiceOK
    <3> QED  BY <1>1, <2>1, <3>1
  <2> QED  BY <2>2, <2>3
<1> QED  BY <1>2, <1>4, <1>5 DEF LanesAreAnswered

LEMMA ServiceKeeps ==
  ASSUME QuestionsAgree, Serves, UNCHANGED receipts
  PROVE  ServiceOK' /\ IndexesAgree' /\ LanesAreAnswered'
<1>1. CASE UNCHANGED service
  BY <1>1 DEF service, QuestionsAgree, TypeOK, ServiceOK, IndexesAgree, LanesAreAnswered
<1> QED  BY <1>1, OpensKeeps, RemovalKeeps DEF Serves

(* The client: what it keeps stays a question of its own, or nothing. *)
LEMMA PlansWithoutOK ==
  ASSUME QuestionsAgree, NEW c \in Clients, NEW e, e.receipt \in receipts \cup {None}
  PROVE  PlansWithout(c, e) \in [Asks -> Maybe(Pending)]
<1>1. plans[c] \in [Asks -> Maybe(Pending)]
  BY DEF QuestionsAgree, TypeOK
<1>2. e.receipt # None => e.receipt.correlation \in Asks
  BY PendingFields DEF QuestionsAgree, TypeOK
<1> QED  BY <1>1, <1>2 DEF PlansWithout, Maybe

LEMMA ReceiveKeeps ==
  ASSUME QuestionsAgree, NEW c \in Clients, NEW e, e.receipt \in receipts \cup {None},
         e.id \in Events, NEW request \in RequestIds, NEW d, Receive(c, e, request, d),
         d.continuation = "WAIT_FOR_HUMAN" => e.id \in Asks /\ d.pending \in Pending
  PROVE  /\ plans' \in [Clients -> [Asks -> Maybe(Pending)]]
         /\ requestFor' \in [Clients -> [Events -> Maybe(RequestIds)]]
<1>1. /\ plans \in [Clients -> [Asks -> Maybe(Pending)]]
      /\ requestFor \in [Clients -> [Events -> Maybe(RequestIds)]]
  BY DEF QuestionsAgree, TypeOK
<1>2. PlansWithout(c, e) \in [Asks -> Maybe(Pending)]
  BY PlansWithoutOK
<1>3. d.continuation = "WAIT_FOR_HUMAN" =>
        [PlansWithout(c, e) EXCEPT ![e.id] = d.pending] \in [Asks -> Maybe(Pending)]
  BY <1>2 DEF Maybe
<1>4. plans' \in [Clients -> [Asks -> Maybe(Pending)]]
  BY <1>1, <1>2, <1>3 DEF Receive
<1>5. requestFor' = requestFor \/ requestFor' = [requestFor EXCEPT ![c][e.id] = request]
  BY DEF Receive
<1>6. requestFor' \in [Clients -> [Events -> Maybe(RequestIds)]]
  BY <1>1, <1>5 DEF Maybe
<1> QED  BY <1>4, <1>6

LEMMA RouteStep ==
  ASSUME QuestionsAgree, NEW c \in Clients, NEW e, NEW t,
         IsAsk(e, t) \/ IsConfirm(e, t) \/ IsWithdrawal(e, t),
         NEW authority, NEW request \in RequestIds, Route(c, e, t, authority, request)
  PROVE  Serves /\ QuestionsAgree'
<1>1. /\ e.receipt \in receipts \cup {None} /\ e.id \in Events
  <2>1. CASE IsAsk(e, t)
    <3>1. PICK k \in Asks, terms \in Terms : e = AskEvent(k, t, terms)
      BY <2>1 DEF IsAsk
    <3>2. e.id = k /\ e.receipt = None
      BY <3>1 DEF AskEvent, PlainEvent
    <3> QED  BY <3>2 DEF Events
  <2>2. CASE IsConfirm(e, t) \/ IsWithdrawal(e, t)
    BY <2>2, ConfirmFields DEF IsConfirm, IsWithdrawal, Events
  <2> QED  BY <2>1, <2>2
<1>2. UNCHANGED <<rendered, receipts>>
  BY DEF Route
<1>3. PlansWithout(c, e) \in [Asks -> Maybe(Pending)]
  BY <1>1, PlansWithoutOK
<1> DEFINE ClientOK == /\ plans' \in [Clients -> [Asks -> Maybe(Pending)]]
                       /\ requestFor' \in [Clients -> [Events -> Maybe(RequestIds)]]
<1>4. ASSUME RefusedLocally(e)
      PROVE  Serves /\ ClientOK
  BY <1>4 DEF RefusedLocally, Serves, client, QuestionsAgree, TypeOK
<1>5. ASSUME Unreached(c, e)
      PROVE  Serves /\ ClientOK
  BY <1>3, <1>5 DEF Unreached, Serves, QuestionsAgree, TypeOK
<1>6. ASSUME Denied(c, e, request)
      PROVE  Serves /\ ClientOK
  <2>1. ClientOK
    BY <1>1, <1>6, ReceiveKeeps, HaltedHalts DEF Denied
  <2> QED  BY <1>6, <2>1 DEF Denied, Serves
<1>7. ASSUME ServiceStep(e, t, Served(e, t, authority))
      PROVE  /\ Serves
             /\ Served(e, t, authority).continuation = "WAIT_FOR_HUMAN" =>
                  e.id \in Asks /\ Served(e, t, authority).pending \in Pending
  BY <1>7, AskServed, ConfirmServed
<1>8. ASSUME Unanswered(c, e, t, authority)
      PROVE  Serves /\ ClientOK
  BY <1>3, <1>7, <1>8 DEF Unanswered, QuestionsAgree, TypeOK
<1>9. ASSUME Answered(c, e, t, authority, request)
      PROVE  Serves /\ ClientOK
  <2>1. ClientOK
    BY <1>1, <1>7, <1>9, ReceiveKeeps DEF Answered
  <2> QED  BY <1>7, <1>9, <2>1 DEF Answered
<1>10. Serves /\ ClientOK
  BY <1>4, <1>5, <1>6, <1>8, <1>9 DEF Route
<1>11. ServiceOK' /\ IndexesAgree' /\ LanesAreAnswered'
  BY <1>2, <1>10, ServiceKeeps
<1> QED  BY <1>2, <1>10, <1>11 DEF ServiceOK, QuestionsAgree, TypeOK

LEMMA NextStep ==
  ASSUME QuestionsAgree, Next
  PROVE  Serves /\ QuestionsAgree'
<1>1. ASSUME NEW c \in Clients, AskDispatch(c)
      PROVE  Serves /\ QuestionsAgree'
  <2>1. PICK k \in Asks, t \in Tickets, terms \in Terms, request \in RequestIds :
          Route(c, AskEvent(k, t, terms), t, "NOT_REQUIRED", request)
    BY <1>1 DEF AskDispatch
  <2>2. IsAsk(AskEvent(k, t, terms), t)
    BY DEF IsAsk
  <2> QED  BY <2>1, <2>2, RouteStep
<1>2. ASSUME NEW c \in Clients, ConfirmDispatch(c)
      PROVE  Serves /\ QuestionsAgree'
  <2>1. PICK id \in Confirms, r \in receipts, authority \in {"APPROVED", "PENDING"},
             request \in RequestIds :
          Route(c, ConfirmEvent(id, r, "POSITIVE"), r.ticket, authority, request)
    BY <1>2 DEF ConfirmDispatch
  <2>2. IsConfirm(ConfirmEvent(id, r, "POSITIVE"), r.ticket)
    BY DEF IsConfirm
  <2> QED  BY <2>1, <2>2, RouteStep
<1>3. ASSUME NEW c \in Clients, NEW t \in Tickets, Withdraw(c, t)
      PROVE  Serves /\ QuestionsAgree'
  <2>1. PICK id \in Confirms, request \in RequestIds :
          Route(c, ConfirmEvent(id, None, "NEGATIVE"), t, "APPROVED", request)
    BY <1>3 DEF Withdraw
  <2>2. IsWithdrawal(ConfirmEvent(id, None, "NEGATIVE"), t)
    BY DEF IsWithdrawal
  <2> QED  BY <2>1, <2>2, RouteStep
<1>4. ASSUME NEW c \in Clients, NEW k \in Asks, Render(c, k)
      PROVE  Serves /\ QuestionsAgree'
  <2>1. plans[c][k] \in Pending
    BY <1>4 DEF Render, QuestionsAgree, TypeOK, Maybe
  <2>2. TypeOK' /\ UNCHANGED <<byCorrelation, byTicket, opened, lanes, receipts>>
    BY <1>4, <2>1 DEF Render, service, client, QuestionsAgree, TypeOK
  <2> QED  BY <2>2 DEF Serves, service, QuestionsAgree, IndexesAgree, LanesAreAnswered
<1>5. ASSUME IssueReceipt
      PROVE  Serves /\ QuestionsAgree'
  <2>1. /\ TypeOK' /\ UNCHANGED <<byCorrelation, byTicket, opened, lanes>>
        /\ receipts \subseteq receipts'
    BY <1>5 DEF IssueReceipt, service, client, QuestionsAgree, TypeOK
  <2> QED  BY <2>1 DEF Serves, service, QuestionsAgree, IndexesAgree, LanesAreAnswered
<1> QED  BY <1>1, <1>2, <1>3, <1>4, <1>5 DEF Next

LEMMA InitInv == Init => QuestionsAgree
BY PrivateRouterAssumption
   DEF Init, QuestionsAgree, TypeOK, IndexesAgree, LanesAreAnswered, NoPlans, Maybe

LEMMA InvStep == QuestionsAgree /\ [Next]_vars => QuestionsAgree'
<1> SUFFICES ASSUME QuestionsAgree, [Next]_vars PROVE QuestionsAgree'
  OBVIOUS
<1>1. CASE UNCHANGED vars
  BY <1>1 DEF vars, QuestionsAgree, TypeOK, IndexesAgree, LanesAreAnswered
<1> QED  BY <1>1, NextStep

(* Whatever clients ask, answer, repeat or withdraw, and whatever calls are *)
(* lost: the indexes of the service name the same questions, and a lane was *)
(* granted to an open question that a human answered.                       *)
THEOREM QuestionsAlwaysAgree == Spec => []QuestionsAgree
BY InitInv, InvStep, PTL DEF Spec

-----------------------------------------------------------------------------
(* DispatchDesk. *)
Board == [t \in Tickets |-> IF byTicket[t] = None THEN None ELSE byTicket[t].correlation]

LEMMA OnBoard ==
  ASSUME QuestionsAgree, NEW t \in Tickets
  PROVE  /\ byTicket[t] = None => Board[t] = None
         /\ byTicket[t] # None => Board[t] = byTicket[t].correlation /\ Board[t] # None
BY PendingFields, NoneAssumption DEF QuestionsAgree, TypeOK, Maybe, Board

LEMMA OpenAsks ==
  ASSUME QuestionsAgree, NEW p, Opens(p)
  PROVE  p.ticket \in Tickets /\ p.correlation \in Asks /\ Desk!Ask(p.ticket, p.correlation)
<1>1. /\ p.ticket \in Tickets /\ p.correlation \in Asks /\ p # None
      /\ byTicket[p.ticket] = None /\ byCorrelation[p.correlation] = None
      /\ byTicket' = [byTicket EXCEPT ![p.ticket] = p] /\ lanes' = lanes
      /\ byTicket \in [Tickets -> Maybe(Pending)]
  BY PendingFields DEF Opens, Open, Store, QuestionsAgree, TypeOK
<1>2. Board[p.ticket] = None
  BY <1>1, OnBoard
<1>3. ASSUME NEW u \in Tickets
      PROVE  Board[u] # p.correlation
  BY <1>1, OnBoard, NoneAssumption DEF QuestionsAgree, IndexesAgree
<1>4. Board' = [Board EXCEPT ![p.ticket] = p.correlation]
  BY <1>1 DEF Board
<1> QED  BY <1>1, <1>2, <1>3, <1>4 DEF Desk!Ask, Board

LEMMA RemovalCloses ==
  ASSUME QuestionsAgree, NEW p, IsOpen(p), Remove(p)
  PROVE  p.ticket \in Tickets /\ Board[p.ticket] = p.correlation /\ Desk!Close(p.ticket)
<1>1. /\ p.ticket \in Tickets /\ byTicket[p.ticket] = p /\ p # None
      /\ byTicket' = [byTicket EXCEPT ![p.ticket] = None]
      /\ byTicket \in [Tickets -> Maybe(Pending)]
  BY RemoveClears DEF IsOpen, QuestionsAgree, TypeOK
<1>2. Board[p.ticket] = p.correlation /\ Board[p.ticket] # None
  BY <1>1, OnBoard
<1>3. Board' = [Board EXCEPT ![p.ticket] = None]
  BY <1>1 DEF Board
<1> QED  BY <1>1, <1>2, <1>3 DEF Desk!Close, Board

LEMMA ServiceIsDesk ==
  ASSUME QuestionsAgree, Serves
  PROVE  [Desk!Next]_(Desk!vars)
<1>1. ASSUME NEW p, Opens(p)
      PROVE  Desk!Next
  BY <1>1, OpenAsks DEF Desk!Next
<1>2. ASSUME NEW p, Grants(p)
      PROVE  Desk!Next
  <2>1. /\ p.ticket \in Tickets /\ Board[p.ticket] = p.correlation /\ Desk!Close(p.ticket)
        /\ lanes' = [lanes EXCEPT ![p.correlation] = @ + 1]
    BY <1>2, RemovalCloses DEF Grants
  <2>2. Desk!Grant(p.ticket)
    BY <2>1 DEF Desk!Grant, Board
  <2> QED  BY <2>1, <2>2 DEF Desk!Next
<1>3. ASSUME NEW p, Drops(p)
      PROVE  Desk!Next
  BY <1>3, RemovalCloses DEF Drops, Desk!Drop, Desk!Next
<1>4. CASE UNCHANGED service
  BY <1>4 DEF service, Desk!vars
<1> QED  BY <1>1, <1>2, <1>3, <1>4 DEF Serves

(* The service implements DispatchDesk: a ticket has at most one question   *)
(* open, and a lane is granted only by answering the one that is open.      *)
THEOREM RouterKeepsDesk == Spec => KeepsDesk
<1>1. Init => Desk!Init
  BY DEF Init, Desk!Init
<1>2. QuestionsAgree /\ [Next]_vars => [Desk!Next]_(Desk!vars)
  <2>1. QuestionsAgree /\ Next => [Desk!Next]_(Desk!vars)
    BY NextStep, ServiceIsDesk
  <2>2. UNCHANGED vars => UNCHANGED Desk!vars
    BY DEF vars, Desk!vars
  <2> QED  BY <2>1, <2>2
<1> QED  BY <1>1, <1>2, QuestionsAlwaysAgree, PTL DEF Spec, KeepsDesk, Desk!Spec

-----------------------------------------------------------------------------
(* The approval round.  What a rule of the table decides, ...               *)

GoesOn(r) ==
  r.human = FALSE /\ r.outcome \in {"ADVANCE", "RETRY"} /\ r.next \in Round!Granted
WaitsForHuman(r) == r.human = TRUE /\ r.outcome = "SUSPEND" /\ r.next = "none"
Stops(r) == r.human = FALSE /\ r.outcome = "STOP" /\ r.next = "STOPPED"

ByApproval(r) ==
  /\ r.stage = "SPEC" /\ r.source = "SPEC" /\ r.outcome = "ADVANCE" /\ r.human = FALSE
  /\ r.authority = {"APPROVED"} /\ r.evidence = {} /\ r.handoff = FALSE /\ r.receipt = FALSE

Tabled(r) ==
  /\ GoesOn(r) \/ WaitsForHuman(r) \/ Stops(r)
  /\ r.human = TRUE /\ r.stage = "SPEC" => r.source = "SPEC"
  /\ r.event = "APPROVAL_GRANTED" => ByApproval(r)
  /\ r.event # "APPROVAL_DENIED"

LEMMA DiscoveryTabled ==
  ASSUME NEW r \in Round!DiscoveryRules
  PROVE  Tabled(r)
BY DEF Round!DiscoveryRules, Round!Rule, Round!Advance, Round!Accepting, Round!AskHuman, Tabled,
       GoesOn, WaitsForHuman, Stops, Round!Granted

LEMMA SpecificationTabled ==
  ASSUME NEW r \in Round!SpecificationRules
  PROVE  Tabled(r)
BY DEF Round!SpecificationRules, Round!Rule, Round!Advance, Round!Accepting, Round!Approved,
       Round!AskHuman, Tabled, GoesOn, WaitsForHuman, Stops, ByApproval, Round!Granted

LEMMA DeliveryTabled ==
  ASSUME NEW r \in Round!DeliveryRules
  PROVE  Tabled(r)
BY DEF Round!DeliveryRules, Round!Rule, Round!Advance, Round!Accepting, Round!Approved, Tabled,
       GoesOn, WaitsForHuman, Stops, Round!Granted

LEMMA RoundTable ==
  ASSUME NEW r \in Round!Rules
  PROVE  Tabled(r)
BY DiscoveryTabled, SpecificationTabled, DeliveryTabled DEF Round!Rules

LEMMA ApprovalIsTabled ==
  \E r \in Round!Rules : r.stage = "SPEC" /\ r.event = "APPROVAL_GRANTED" /\ ByApproval(r)
<1> DEFINE r == Round!Approved(Round!Advance("SPEC", "APPROVAL_GRANTED", "TICKETS", "SPEC"))
<1>1. r \in Round!Rules
  BY DEF Round!Rules, Round!SpecificationRules
<1>2. r.stage = "SPEC" /\ r.event = "APPROVAL_GRANTED" /\ ByApproval(r)
  BY DEF ByApproval, Round!Approved, Round!Advance, Round!Rule
<1> QED  BY <1>1, <1>2

LEMMA RoundFollows ==
  ASSUME NEW s, NEW e, Round!Decide(s, e) # Round!Halted
  PROVE  \E r \in Round!Rules : /\ r.stage = s.stage /\ r.event = e.kind
                                /\ Round!Admits(r, s, e)
                                /\ Round!Decide(s, e) = Round!DecideBy(r, s, e)
<1> DEFINE admitting == {r \in Round!RulesFor(s.stage, e.kind) : Round!Admits(r, s, e)}
<1>1. admitting # {}
  BY DEF Round!Decide
<1>2. (CHOOSE r \in admitting : TRUE) \in admitting
  BY <1>1
<1>3. Round!Decide(s, e) = Round!DecideBy(CHOOSE r \in admitting : TRUE, s, e)
  BY <1>1 DEF Round!Decide
<1> HIDE DEF admitting
<1>4. \E r \in admitting : Round!Decide(s, e) = Round!DecideBy(r, s, e)
  BY <1>2, <1>3
<1> QED  BY <1>4 DEF admitting, Round!RulesFor

(* ... and where nothing is registered nobody is asked about a dispatch.    *)
LEMMA RoundDecided ==
  ASSUME NEW s, s.pending = None, NEW e, NEW d, d = Round!Decide(s, e)
  PROVE  \/ d = Round!Halted
         \/ \E r \in Round!Rules : /\ r.stage = s.stage /\ r.event = e.kind
                                   /\ Round!Admits(r, s, e) /\ d = Round!Follow(r)
<1> SUFFICES ASSUME d # Round!Halted
             PROVE  \E r \in Round!Rules : /\ r.stage = s.stage /\ r.event = e.kind
                                           /\ Round!Admits(r, s, e) /\ d = Round!Follow(r)
  OBVIOUS
<1>1. PICK r \in Round!Rules : /\ r.stage = s.stage /\ r.event = e.kind
                               /\ Round!Admits(r, s, e) /\ d = Round!DecideBy(r, s, e)
  BY RoundFollows
<1>2. ~r.receipt
  BY <1>1 DEF Round!Admits, Round!ReceiptPresented
<1>3. ~Round!OpensQuestion(s, e)
  BY DEF Round!OpensQuestion, Round!Approves
<1>4. d = Round!Follow(r)
  BY <1>1, <1>2, <1>3 DEF Round!DecideBy
<1> QED  BY <1>1, <1>4

LEMMA RoundFollow ==
  ASSUME NEW r \in Round!Rules, NEW d, d = Round!Follow(r)
  PROVE  /\ d.outcome = r.outcome /\ d.next = r.next
         /\ WaitsForHuman(r) => d.continuation = "WAIT_FOR_HUMAN"
         /\ GoesOn(r) => d.continuation = "AUTO_CONTINUE"
         /\ Stops(r) => d.continuation = "HALT"
         /\ Round!ValidDecision(d) /\ d \in Round!Decisions
<1>1. GoesOn(r) \/ WaitsForHuman(r) \/ Stops(r)
  BY RoundTable DEF Tabled
<1>2. /\ d.outcome = r.outcome /\ d.next = r.next /\ d.pending = None /\ d.lane = None
      /\ d.expected = Round!ExpectedReturns(r)
      /\ WaitsForHuman(r) => d.continuation = "WAIT_FOR_HUMAN"
      /\ GoesOn(r) => d.continuation = "AUTO_CONTINUE"
      /\ Stops(r) => d.continuation = "HALT"
  BY DEF Round!Follow, WaitsForHuman, GoesOn, Stops
<1>3. Round!ExpectedReturns(r) \in SUBSET Round!EventKinds
  BY DEF Round!ExpectedReturns, Round!EventKinds
<1>4. /\ r.outcome \in {"ADVANCE", "RETRY", "SUSPEND", "STOP"}
      /\ r.next \in Round!Stages \cup {"none"}
  BY <1>1 DEF GoesOn, WaitsForHuman, Stops, Round!Granted, Round!Stages
<1>5. d \in Round!Decisions
  BY <1>1, <1>2, <1>3, <1>4 DEF Round!Follow, Round!Decisions
<1>6. Round!ValidDecision(d)
  BY <1>1, <1>2 DEF GoesOn, WaitsForHuman, Stops, Round!ValidDecision
<1> QED  BY <1>2, <1>5, <1>6

LEMMA RoundAdmits ==
  ASSUME NEW s, NEW e, NEW q \in Round!Rules, q.stage = s.stage, q.event = e.kind,
         Round!Admits(q, s, e)
  PROVE  \E r \in Round!Rules : /\ r.stage = s.stage /\ r.event = e.kind
                                /\ Round!Decide(s, e) = Round!DecideBy(r, s, e)
<1> DEFINE admitting == {r \in Round!RulesFor(s.stage, e.kind) : Round!Admits(r, s, e)}
<1>1. admitting # {}
  BY DEF Round!RulesFor
<1>2. (CHOOSE r \in admitting : TRUE) \in admitting
  BY <1>1
<1>3. Round!Decide(s, e) = Round!DecideBy(CHOOSE r \in admitting : TRUE, s, e)
  BY <1>1 DEF Round!Decide
<1> HIDE DEF admitting
<1>4. \E r \in admitting : Round!Decide(s, e) = Round!DecideBy(r, s, e)
  BY <1>2, <1>3
<1> QED  BY <1>4 DEF admitting, Round!RulesFor

(* The two rounds of one workflow: the gate's source is required by both.   *)
Sourced == Round!Cardinality(Round!Sources(input.state, "SPEC")) = 1

LEMMA InputFields ==
  ASSUME input \in Round!Inputs
  PROVE  /\ input.state.pending = None /\ input.state.delivery = "POC"
         /\ input.state.topology = "planned"
         /\ \A authority : LET s == [input.state EXCEPT !.authority = authority] IN
              /\ s.stage = input.state.stage /\ s.sources = input.state.sources
              /\ s.authority = authority
              /\ s.pending = None /\ s.delivery = "POC" /\ s.topology = "planned"
<1>1. PICK stage, sources : input.state = Round!PlainState(stage, "NOT_REQUIRED", sources)
  BY DEF Round!Inputs
<1> QED  BY <1>1 DEF Round!PlainState

LEMMA HaltsSoundly ==
  ASSUME NEW d, d = Round!Halted
  PROVE  d.continuation = "HALT" /\ Round!ValidDecision(d) /\ d \in Round!Decisions
BY DEF Round!Halted, Round!ValidDecision, Round!Decisions

LEMMA FirstRound ==
  ASSUME input \in Round!Inputs, NEW d, d = Round!RoundOf(None)
  PROVE  /\ Round!ValidDecision(d) /\ d \in Round!Decisions /\ d # None
         /\ d.continuation = "WAIT_FOR_HUMAN" /\ input.state.stage = "SPEC" => Sourced
<1>1. None \notin Round!Decisions
  BY RoundAssumption DEF Round!ApprovalAssumption
<1>2. PICK s, e : s = input.state /\ e = input.event
  OBVIOUS
<1>3. d = Round!Decide(s, e) /\ s.pending = None
  BY <1>2, InputFields DEF Round!RoundOf
<1>4. CASE d = Round!Halted
  BY <1>1, <1>4, HaltsSoundly
<1>5. ASSUME NEW r \in Round!Rules, r.stage = s.stage, Round!Admits(r, s, e), d = Round!Follow(r)
      PROVE  /\ Round!ValidDecision(d) /\ d \in Round!Decisions /\ d # None
             /\ d.continuation = "WAIT_FOR_HUMAN" /\ s.stage = "SPEC" => Sourced
  <2>1. Round!ValidDecision(d) /\ d \in Round!Decisions /\ d # None
    BY <1>1, <1>5, RoundFollow
  <2>2. Tabled(r)
    BY RoundTable
  <2>3. ASSUME d.continuation = "WAIT_FOR_HUMAN", s.stage = "SPEC"
        PROVE  Sourced
    <3>1. r.human = TRUE
      BY <1>5, <2>2, <2>3, RoundFollow DEF Tabled, WaitsForHuman
    <3>2. r.source = "SPEC"
      BY <1>5, <2>2, <2>3, <3>1 DEF Tabled
    <3> QED  BY <1>2, <1>5, <3>2 DEF Round!Admits, Sourced
  <2> QED  BY <2>1, <2>3
<1> QED  BY <1>2, <1>3, <1>4, <1>5, RoundDecided

LEMMA SecondRound ==
  ASSUME input \in Round!Inputs, input.state.stage = "SPEC" => Sourced,
         NEW signal \in Round!Signals, NEW d, d = Round!RoundOf(signal)
  PROVE  /\ Round!ValidDecision(d) /\ d \in Round!Decisions /\ d # None
         /\ d.continuation \in {"AUTO_CONTINUE", "HALT"}
         /\ d.continuation = "AUTO_CONTINUE" <=>
              signal = "APPROVAL_GRANTED" /\ input.state.stage = "SPEC"
<1>1. None \notin Round!Decisions /\ signal # None
  BY RoundAssumption DEF Round!ApprovalAssumption
<1>2. PICK s, e : /\ s = [input.state EXCEPT !.authority = Round!AuthorityOf(signal)]
                  /\ e = Round!PlainEvent(signal)
  OBVIOUS
<1>3. d = Round!Decide(s, e) /\ e.kind = signal
  BY <1>1, <1>2 DEF Round!RoundOf, Round!PlainEvent
<1>4. /\ s.pending = None /\ s.stage = input.state.stage /\ s.delivery = "POC"
      /\ s.topology = "planned" /\ s.authority = Round!AuthorityOf(signal)
      /\ Round!Sources(s, "SPEC") = Round!Sources(input.state, "SPEC")
  BY <1>2, InputFields DEF Round!Sources
<1>5. ASSUME d # Round!Halted
      PROVE  /\ Round!ValidDecision(d) /\ d \in Round!Decisions /\ d # None
             /\ d.continuation = "AUTO_CONTINUE"
             /\ signal = "APPROVAL_GRANTED" /\ input.state.stage = "SPEC"
  <2>1. PICK r \in Round!Rules : r.stage = s.stage /\ r.event = signal /\ d = Round!Follow(r)
    BY <1>3, <1>4, <1>5, RoundDecided
  <2>2. Tabled(r)
    BY RoundTable
  <2>3. signal = "APPROVAL_GRANTED" /\ ByApproval(r)
    BY <2>1, <2>2 DEF Tabled, Round!Signals
  <2>4. GoesOn(r)
    BY <2>2, <2>3 DEF Tabled, ByApproval, WaitsForHuman, Stops
  <2> QED  BY <1>1, <1>4, <2>1, <2>3, <2>4, RoundFollow DEF ByApproval
<1>6. ASSUME signal = "APPROVAL_GRANTED", input.state.stage = "SPEC"
      PROVE  d # Round!Halted
  <2>1. PICK q \in Round!Rules : /\ q.stage = "SPEC" /\ q.event = "APPROVAL_GRANTED"
                                 /\ ByApproval(q)
    BY ApprovalIsTabled
  <2>2. Round!Admits(q, s, e)
    <3>1. s.authority \in q.authority
      BY <1>4, <1>6, <2>1 DEF ByApproval, Round!AuthorityOf
    <3>2. e.returned = "none" /\ e.handoff = None /\ e.evidence = "none"
      BY <1>2 DEF Round!PlainEvent
    <3>3. Round!Cardinality(Round!Sources(s, q.source)) = 1
      BY <1>4, <1>6, <2>1 DEF ByApproval, Sourced
    <3> QED  BY <1>4, <1>6, <2>1, <3>1, <3>2, <3>3 DEF Round!Admits, ByApproval
  <2>3. PICK r \in Round!Rules : r.event = signal /\ d = Round!DecideBy(r, s, e)
    BY <1>3, <1>4, <1>6, <2>1, <2>2, RoundAdmits
  <2>4. Tabled(r)
    BY RoundTable
  <2>5. ByApproval(r)
    BY <1>6, <2>3, <2>4 DEF Tabled
  <2>6. d = Round!Follow(r)
    BY <1>3, <1>6, <2>3, <2>5 DEF Round!DecideBy, ByApproval
  <2>7. d.outcome = "ADVANCE"
    BY <2>5, <2>6, RoundFollow DEF ByApproval
  <2> QED  BY <2>7 DEF Round!Halted
<1>7. CASE d = Round!Halted
  <2>1. /\ Round!ValidDecision(d) /\ d \in Round!Decisions /\ d # None
        /\ d.continuation = "HALT"
    BY <1>1, <1>7, HaltsSoundly
  <2>2. ~(signal = "APPROVAL_GRANTED" /\ input.state.stage = "SPEC")
    BY <1>6, <1>7
  <2> QED  BY <2>1, <2>2
<1> QED  BY <1>5, <1>7

-----------------------------------------------------------------------------
(* One activation of the workflow.                                          *)

Recorded ==
  [signal : Round!Signals, answer : {None}] \cup [signal : {None}, answer : Round!Decisions]

Workers ==
  [pc : {"start", "routing", "waiting", "resuming", "done"},
   pending : Round!Decisions \cup {None}, approval : Round!Signals \cup {None},
   used : Round!Signals \cup {None}, result : Round!Decisions \cup {None}]

(* The decision of the first round, and whether it waits for a human.       *)
First == Round!RoundOf(None)
Suspends == First.continuation = "WAIT_FOR_HUMAN"

(* What a workflow object holds where it stands. *)
Beginning(w) ==
  w.pc \in {"start", "routing"} /\ w.pending = None /\ w.used = None /\ w.result = None
Waiting(w) ==
  /\ w.pc = "waiting" /\ Suspends /\ w.pending = First
  /\ w.approval = None /\ w.used = None /\ w.result = None
Resuming(w) ==
  /\ w.pc = "resuming" /\ Suspends /\ w.pending = First
  /\ w.used \in Round!Signals /\ w.result = None
Undisturbed(w) ==
  w.pc = "done" /\ ~Suspends /\ w.pending = None /\ w.used = None /\ w.result = First
Resumed(w) ==
  /\ w.pc = "done" /\ Suspends /\ w.pending = First
  /\ w.used \in Round!Signals /\ w.result = Round!RoundOf(w.used)

Shaped(w) ==
  /\ w \in Workers
  /\ Beginning(w) \/ Waiting(w) \/ Resuming(w) \/ Undisturbed(w) \/ Resumed(w)

(* w has been told what v knew, or the last signal of the batch.            *)
Told(v, batch, w) ==
  \/ w.approval = v.approval /\ Round!SignalsOf(batch) = {}
  \/ \E i \in Round!SignalsOf(batch) :
       /\ w.approval = batch[i].signal /\ w.approval \in Round!Signals
       /\ \A j \in Round!SignalsOf(batch) : j <= i

LEMMA GreatestExists ==
  ASSUME NEW n \in Nat, NEW S \in SUBSET (1..n), S # {}
  PROVE  \E x \in S : \A y \in S : x >= y
<1> DEFINE D == {n - x : x \in S}
<1>1. D \subseteq Nat /\ D # {}
  <2>1. \A x \in S : n - x \in Nat
    OBVIOUS
  <2>2. PICK x : x \in S
    OBVIOUS
  <2>3. n - x \in D
    BY <2>2
  <2> QED  BY <2>1, <2>3
<1>2. PICK d \in D : \A e \in D : ~(<<e, d>> \in OpToRel(<, Nat))
  BY <1>1, WFMin, NatLessThanWellFounded
<1>3. \A e \in D : ~(e < d)
  BY <1>1, <1>2 DEF OpToRel
<1>4. PICK x \in S : d = n - x
  OBVIOUS
<1>5. ASSUME NEW y \in S
      PROVE  x >= y
  <2>1. n - y \in D /\ ~(n - y < n - x)
    BY <1>3, <1>4
  <2> QED  BY <2>1
<1> QED  BY <1>5

LEMMA Signalled ==
  ASSUME NEW w \in Workers, NEW batch \in Seq(Recorded), NEW v, v = Round!WithSignals(w, batch)
  PROVE  /\ v \in Workers /\ v.pc = w.pc /\ v.pending = w.pending
         /\ v.used = w.used /\ v.result = w.result
         /\ Told(w, batch, v)
<1> DEFINE S == Round!SignalsOf(batch)
<1>1. CASE S = {}
  BY <1>1 DEF Round!WithSignals, Told
<1>2. CASE S # {}
  <2>1. S \in SUBSET (1..Len(batch)) /\ Len(batch) \in Nat
    BY DEF Round!SignalsOf
  <2>2. PICK i : i = Round!Max(S)
    OBVIOUS
  <2>3. i \in S /\ \A j \in S : i >= j
    <3> HIDE DEF S
    <3> QED  BY <1>2, <2>1, <2>2, GreatestExists DEF Round!Max
  <2>4. \A j \in S : j <= i
    BY <2>1, <2>3
  <2>5. v = [w EXCEPT !.approval = batch[i].signal]
    BY <1>2, <2>2 DEF Round!WithSignals
  <2>6. batch[i] \in Recorded /\ batch[i].signal # None
    BY <2>1, <2>3 DEF Round!SignalsOf, Round!IsSignal
  <2>7. batch[i].signal \in Round!Signals
    BY <2>6 DEF Recorded
  <2> HIDE DEF S
  <2>8. /\ v \in Workers /\ v.pc = w.pc /\ v.pending = w.pending
        /\ v.used = w.used /\ v.result = w.result /\ v.approval = batch[i].signal
    BY <2>5, <2>7 DEF Workers
  <2> QED  BY <2>3, <2>4, <2>7, <2>8 DEF Told, S
<1> QED  BY <1>1, <1>2

LEMMA AnswerGiven ==
  ASSUME NEW batch \in Seq(Recorded), NEW a, a = Round!AnswerOf(batch)
  PROVE  \/ a = None
         \/ \E i \in DOMAIN batch :
              batch[i].signal = None /\ a = batch[i].answer /\ a \in Round!Decisions
<1> SUFFICES ASSUME a # None
             PROVE  \E i \in DOMAIN batch :
                      batch[i].signal = None /\ a = batch[i].answer /\ a \in Round!Decisions
  OBVIOUS
<1> DEFINE All == {batch[i] : i \in DOMAIN batch}
<1>1. \E i \in DOMAIN batch : ~Round!IsSignal(batch[i])
  BY DEF Round!AnswerOf
<1>2. PICK x : x = CHOOSE y \in All : ~Round!IsSignal(y)
  OBVIOUS
<1>3. x \in All /\ ~Round!IsSignal(x)
  <2>1. \E y \in All : ~Round!IsSignal(y)
    BY <1>1
  <2> HIDE DEF All
  <2> QED  BY <1>2, <2>1
<1>4. a = x.answer
  BY <1>1, <1>2 DEF Round!AnswerOf
<1>5. PICK i \in DOMAIN batch : x = batch[i]
  BY <1>3
<1>6. batch[i] \in Recorded /\ batch[i].signal = None
  BY <1>3, <1>5 DEF Round!IsSignal
<1>7. batch[i].answer \in Round!Decisions
  <2>1. None \notin Round!Signals
    BY RoundAssumption DEF Round!ApprovalAssumption
  <2> QED  BY <1>6, <2>1 DEF Recorded
<1> QED  BY <1>4, <1>5, <1>6, <1>7

(* Going on from a wait, and from anywhere else.                            *)
LEMMA Resumes ==
  ASSUME NEW w \in Workers, NEW n, n = Round!Resume(w)
  PROVE  /\ w.pc # "waiting" \/ w.approval = None => n = w
         /\ w.pc = "waiting" /\ w.approval # None =>
              /\ n \in Workers /\ n.pc = "resuming" /\ n.used = w.approval
              /\ n.pending = w.pending /\ n.approval = w.approval /\ n.result = w.result
<1>1. CASE w.pc = "waiting" /\ w.approval # None
  <2>1. n = [w EXCEPT !.pc = "resuming", !.used = w.approval]
    BY <1>1 DEF Round!Resume
  <2> QED  BY <1>1, <2>1 DEF Workers
<1>2. CASE w.pc # "waiting" \/ w.approval = None
  BY <1>2 DEF Round!Resume
<1> QED  BY <1>1, <1>2

(* Where an activation with an answer, or None, may take the workflow.      *)
Moves(w, a, n) ==
  \/ w.pc = "start" /\ n.pc = "routing" /\ n.used = None
  \/ w.pc = "routing" /\ a = None /\ n.pc = "routing" /\ n.used = None
  \/ w.pc = "routing" /\ a # None /\ n.pc \in {"waiting", "done"} /\ n.used = None
  \/ /\ w.pc = "routing" /\ a # None
     /\ n.pc = "resuming" /\ n.used = n.approval /\ n.used \in Round!Signals
  \/ w.pc = "waiting" /\ n.pc = "waiting" /\ n.used = None
  \/ w.pc = "waiting" /\ n.pc = "resuming" /\ n.used = n.approval /\ n.used \in Round!Signals
  \/ w.pc = "resuming" /\ a = None /\ n.pc = "resuming" /\ n.used = w.used
  \/ w.pc = "resuming" /\ a # None /\ n.pc = "done" /\ n.used = w.used
  \/ w.pc = "done" /\ n.pc = "done" /\ n.used = w.used

(* The answer, if there is one, is to the round that was asked for.         *)
Awaited(w, a) ==
  a # None => w.pc \in {"routing", "resuming"} /\ a = Round!RoundOf(w.used)

LEMMA Activated ==
  ASSUME input \in Round!Inputs, NEW w, Shaped(w), NEW batch \in Seq(Recorded),
         NEW a, a = Round!AnswerOf(batch), Awaited(w, a),
         NEW n, n = Round!Activate(w, batch)
  PROVE  Shaped(n) /\ Told(w, batch, n) /\ Moves(w, a, n)
<1>1. PICK v : v = Round!WithSignals(w, batch)
  OBVIOUS
<1>2. w \in Workers
  BY DEF Shaped
<1>3. /\ v \in Workers /\ v.pc = w.pc /\ v.pending = w.pending
      /\ v.used = w.used /\ v.result = w.result /\ Told(w, batch, v)
  BY <1>1, <1>2, Signalled
<1>4. n = Round!Run(v, a)
  BY <1>1 DEF Round!Activate
<1>5. None \notin Round!Signals /\ None \notin Round!Decisions
  BY RoundAssumption DEF Round!ApprovalAssumption
<1>6. a = None \/ a \in Round!Decisions
  BY AnswerGiven
<1>7. n.approval = v.approval => Told(w, batch, n)
  BY <1>3 DEF Told
<1>8. CASE w.pc = "start"
  <2>1. n = [v EXCEPT !.pc = "routing"]
    BY <1>3, <1>4, <1>8 DEF Round!Run
  <2>2. /\ n \in Workers /\ n.pc = "routing" /\ n.pending = w.pending /\ n.used = w.used
        /\ n.result = w.result /\ n.approval = v.approval
    BY <1>3, <2>1 DEF Workers
  <2>3. Beginning(w)
    BY <1>8 DEF Shaped, Waiting, Resuming, Undisturbed, Resumed
  <2> QED  BY <1>7, <1>8, <2>2, <2>3 DEF Shaped, Beginning, Moves
<1>9. CASE w.pc = "routing"
  <2>1. Beginning(w)
    BY <1>9 DEF Shaped, Waiting, Resuming, Undisturbed, Resumed
  <2>2. CASE a = None
    <3>1. n = v
      BY <1>3, <1>4, <1>9, <2>2, Resumes DEF Round!Run
    <3> QED  BY <1>3, <1>7, <1>9, <2>1, <2>2, <3>1 DEF Shaped, Beginning, Moves
  <2>3. CASE a # None /\ ~Suspends
    <3>1. a = First /\ a \in Round!Decisions /\ a.continuation # "WAIT_FOR_HUMAN"
      BY <1>6, <2>1, <2>3 DEF Awaited, First, Suspends, Beginning
    <3>2. n = [v EXCEPT !.pc = "done", !.result = a]
      BY <1>3, <1>4, <1>9, <2>3, <3>1 DEF Round!Run
    <3>3. /\ n \in Workers /\ n.pc = "done" /\ n.pending = w.pending /\ n.used = w.used
          /\ n.result = First /\ n.approval = v.approval
      BY <1>3, <3>1, <3>2 DEF Workers
    <3> QED  BY <1>7, <1>9, <2>1, <2>3, <3>3 DEF Shaped, Beginning, Undisturbed, Moves
  <2>4. CASE a # None /\ Suspends
    <3>1. a = First /\ a \in Round!Decisions /\ a.continuation = "WAIT_FOR_HUMAN"
      BY <1>6, <2>1, <2>4 DEF Awaited, First, Suspends, Beginning
    <3>2. PICK u : u = [v EXCEPT !.pc = "waiting", !.pending = a]
      OBVIOUS
    <3>3. n = Round!Resume(u)
      BY <1>3, <1>4, <1>9, <2>4, <3>1, <3>2 DEF Round!Run, Round!Wait
    <3>4. /\ u \in Workers /\ u.pc = "waiting" /\ u.pending = First /\ u.used = None
          /\ u.result = None /\ u.approval = v.approval
      BY <1>3, <2>1, <3>1, <3>2 DEF Workers, Beginning
    <3>5. CASE u.approval = None
      <4>1. n = u
        BY <3>3, <3>4, <3>5, Resumes
      <4> QED  BY <1>7, <1>9, <2>4, <3>4, <3>5, <4>1 DEF Shaped, Waiting, Moves
    <3>6. CASE u.approval # None
      <4>1. /\ n \in Workers /\ n.pc = "resuming" /\ n.used = u.approval
            /\ n.pending = First /\ n.approval = v.approval /\ n.result = None
        BY <3>3, <3>4, <3>6, Resumes
      <4>2. n.used \in Round!Signals
        BY <3>4, <3>6, <4>1 DEF Workers
      <4> QED  BY <1>7, <1>9, <2>4, <3>4, <4>1, <4>2 DEF Shaped, Resuming, Moves
    <3> QED  BY <3>5, <3>6
  <2> QED  BY <2>2, <2>3, <2>4
<1>10. CASE w.pc = "waiting"
  <2>1. Waiting(w)
    BY <1>10 DEF Shaped, Beginning, Resuming, Undisturbed, Resumed
  <2>2. n = Round!Resume(v)
    BY <1>3, <1>4, <1>10 DEF Round!Run
  <2>3. CASE v.approval = None
    <3>1. n = v
      BY <1>3, <2>2, <2>3, Resumes
    <3> QED  BY <1>3, <1>7, <1>10, <2>1, <2>3, <3>1 DEF Shaped, Waiting, Moves
  <2>4. CASE v.approval # None
    <3>1. /\ n \in Workers /\ n.pc = "resuming" /\ n.used = v.approval
          /\ n.pending = w.pending /\ n.approval = v.approval /\ n.result = w.result
      BY <1>3, <1>10, <2>2, <2>4, Resumes
    <3>2. n.used \in Round!Signals
      BY <1>3, <2>4, <3>1 DEF Workers
    <3> QED  BY <1>7, <1>10, <2>1, <3>1, <3>2 DEF Shaped, Waiting, Resuming, Moves
  <2> QED  BY <2>3, <2>4
<1>11. CASE w.pc = "resuming"
  <2>1. Resuming(w)
    BY <1>11 DEF Shaped, Beginning, Waiting, Undisturbed, Resumed
  <2>2. CASE a = None
    <3>1. n = v
      BY <1>3, <1>4, <1>11, <2>2, Resumes DEF Round!Run
    <3> QED  BY <1>3, <1>7, <1>11, <2>1, <2>2, <3>1 DEF Shaped, Resuming, Moves
  <2>3. CASE a # None
    <3>1. n = [v EXCEPT !.pc = "done", !.result = a]
      BY <1>3, <1>4, <1>11, <2>3 DEF Round!Run
    <3>2. a = Round!RoundOf(w.used) /\ a \in Round!Decisions
      BY <1>6, <2>3 DEF Awaited
    <3>3. /\ n \in Workers /\ n.pc = "done" /\ n.pending = w.pending /\ n.used = w.used
          /\ n.result = a /\ n.approval = v.approval
      BY <1>3, <3>1, <3>2 DEF Workers
    <3> QED  BY <1>7, <1>11, <2>1, <2>3, <3>2, <3>3 DEF Shaped, Resuming, Resumed, Moves
  <2> QED  BY <2>2, <2>3
<1>12. CASE w.pc = "done"
  <2>1. n = v
    BY <1>3, <1>4, <1>12, Resumes DEF Round!Run
  <2>2. Undisturbed(w) \/ Resumed(w)
    BY <1>12 DEF Shaped, Beginning, Waiting, Resuming
  <2> QED  BY <1>3, <1>7, <1>12, <2>1, <2>2 DEF Shaped, Undisturbed, Resumed, Moves
<1> QED  BY <1>2, <1>8, <1>9, <1>10, <1>11, <1>12 DEF Workers

-----------------------------------------------------------------------------
(* What a worker has applied, from the first batch on.                      *)

(* w knows the last signal of the first n batches. *)
Heard(w, h, n) ==
  IF w.approval = None THEN \A b \in 1..n : Round!SignalsOf(h[b]) = {}
  ELSE \E b \in 1..n : \E i \in Round!SignalsOf(h[b]) :
         /\ h[b][i].signal = w.approval
         /\ \A c \in b..n : \A j \in Round!SignalsOf(h[c]) : c = b /\ j <= i

(* A workflow goes on with the signal it knows. *)
Entered(v, w) ==
  w.pc = "resuming" /\ v.pc # "resuming" => w.used = w.approval /\ w.approval \in Round!Signals

(* The workflow objects of one worker after each batch; a signal that was   *)
(* used stays the one that is used.                                         *)
Chain(ws, h) ==
  /\ DOMAIN ws = 0..Len(h) /\ ws[0] = Round!Fresh
  /\ \A i \in 0..Len(h) : ws[i].used # None => ws[Len(h)].used = ws[i].used
  /\ \A i \in 0..Len(h) : Heard(ws[i], h, i)
  /\ \A i \in 1..Len(h) : ws[i] = Round!Activate(ws[i - 1], h[i]) /\ Entered(ws[i - 1], ws[i])

LEMMA HeardStays ==
  ASSUME NEW w, NEW h, NEW g, NEW n \in Nat, \A b \in 1..n : g[b] = h[b], Heard(w, h, n)
  PROVE  Heard(w, g, n)
<1>1. CASE w.approval = None
  BY <1>1 DEF Heard
<1>2. CASE w.approval # None
  <2>1. PICK b \in 1..n : \E i \in Round!SignalsOf(h[b]) :
          /\ h[b][i].signal = w.approval
          /\ \A c \in b..n : \A j \in Round!SignalsOf(h[c]) : c = b /\ j <= i
    BY <1>2 DEF Heard
  <2>2. g[b] = h[b] /\ \A c \in b..n : g[c] = h[c]
    OBVIOUS
  <2> QED  BY <1>2, <2>1, <2>2 DEF Heard
<1> QED  BY <1>1, <1>2

LEMMA HeardGrows ==
  ASSUME NEW v, NEW w, NEW h, NEW n \in Nat, Heard(v, h, n), Told(v, h[n + 1], w)
  PROVE  Heard(w, h, n + 1)
<1> DEFINE batch == h[n + 1]
<1>0. None \notin Round!Signals
  BY RoundAssumption DEF Round!ApprovalAssumption
<1>1. CASE w.approval = v.approval /\ Round!SignalsOf(batch) = {} /\ v.approval = None
  <2>1. \A b \in 1..n : Round!SignalsOf(h[b]) = {}
    BY <1>1 DEF Heard
  <2>2. \A b \in 1..(n + 1) : b \in 1..n \/ b = n + 1
    OBVIOUS
  <2> QED  BY <1>1, <2>1, <2>2 DEF Heard
<1>2. CASE w.approval = v.approval /\ Round!SignalsOf(batch) = {} /\ v.approval # None
  <2>1. PICK b \in 1..n : \E i \in Round!SignalsOf(h[b]) :
          /\ h[b][i].signal = w.approval
          /\ \A c \in b..n : \A j \in Round!SignalsOf(h[c]) : c = b /\ j <= i
    BY <1>2 DEF Heard
  <2>2. \A c \in b..(n + 1) : c \in b..n \/ c = n + 1
    OBVIOUS
  <2>3. b \in 1..(n + 1)
    OBVIOUS
  <2> QED  BY <1>2, <2>1, <2>2, <2>3 DEF Heard
<1>3. ASSUME NEW i \in Round!SignalsOf(batch), w.approval = batch[i].signal,
             w.approval \in Round!Signals, \A j \in Round!SignalsOf(batch) : j <= i
      PROVE  Heard(w, h, n + 1)
  <2>1. w.approval # None /\ n + 1 \in 1..(n + 1) /\ \A c \in (n + 1)..(n + 1) : c = n + 1
    BY <1>0, <1>3
  <2> QED  BY <1>3, <2>1 DEF Heard
<1> QED  BY <1>1, <1>2, <1>3 DEF Told

LEMMA ChainGrows ==
  ASSUME NEW h \in Seq(Seq(Recorded)), NEW batch \in Seq(Recorded), NEW ws, Chain(ws, h),
         NEW n, n = Round!Activate(ws[Len(h)], batch), Told(ws[Len(h)], batch, n),
         Entered(ws[Len(h)], n), ws[Len(h)].used # None => n.used = ws[Len(h)].used,
         NEW vs, vs = [i \in 0..(Len(h) + 1) |-> IF i = Len(h) + 1 THEN n ELSE ws[i]]
  PROVE  Chain(vs, Append(h, batch))
<1>1. PICK N \in Nat : N = Len(h)
  OBVIOUS
<1>2. PICK g : g = Append(h, batch)
  OBVIOUS
<1>3. Len(g) = N + 1 /\ g[N + 1] = batch /\ \A i \in 1..N : g[i] = h[i]
  BY <1>1, <1>2
<1>4. DOMAIN vs = 0..(N + 1) /\ vs[N + 1] = n /\ \A i \in 0..N : vs[i] = ws[i] /\ i # N + 1
  BY <1>1
<1>5. /\ DOMAIN ws = 0..N /\ ws[0] = Round!Fresh
      /\ \A i \in 0..N : ws[i].used # None => ws[N].used = ws[i].used
      /\ \A i \in 0..N : Heard(ws[i], h, i)
      /\ \A i \in 1..N : ws[i] = Round!Activate(ws[i - 1], h[i]) /\ Entered(ws[i - 1], ws[i])
  BY <1>1 DEF Chain
<1>6. /\ n = Round!Activate(ws[N], batch) /\ Told(ws[N], batch, n)
      /\ Entered(ws[N], n) /\ (ws[N].used # None => n.used = ws[N].used)
  BY <1>1
<1>7. \A i \in 0..(N + 1) : i \in 0..N \/ i = N + 1
  OBVIOUS
<1>8. \A i \in 0..(N + 1) : vs[i].used # None => vs[N + 1].used = vs[i].used
  BY <1>4, <1>5, <1>6, <1>7
<1>9. ASSUME NEW i \in 0..N
      PROVE  Heard(ws[i], g, i)
  <2>1. i \in Nat /\ \A b \in 1..i : g[b] = h[b]
    BY <1>3
  <2> QED  BY <1>5, <2>1, HeardStays
<1>10. Heard(n, g, N + 1)
  <2>1. Heard(ws[N], g, N) /\ Told(ws[N], g[N + 1], n)
    BY <1>3, <1>6, <1>9
  <2> QED  BY <2>1, HeardGrows
<1>11. \A i \in 0..(N + 1) : Heard(vs[i], g, i)
  BY <1>4, <1>7, <1>9, <1>10
<1>12. ASSUME NEW i \in 1..(N + 1)
       PROVE  vs[i] = Round!Activate(vs[i - 1], g[i]) /\ Entered(vs[i - 1], vs[i])
  <2>1. CASE i \in 1..N
    <3>1. vs[i] = ws[i] /\ vs[i - 1] = ws[i - 1] /\ g[i] = h[i]
      BY <1>3, <1>4, <2>1
    <3> QED  BY <1>5, <2>1, <3>1
  <2>2. CASE i = N + 1
    <3>1. i - 1 = N /\ N \in 0..N
      BY <2>2
    <3> QED  BY <1>3, <1>4, <1>6, <2>2, <3>1
  <2> QED  BY <2>1, <2>2
<1>13. vs[0] = Round!Fresh
  BY <1>4, <1>5
<1> QED  BY <1>2, <1>3, <1>4, <1>8, <1>11, <1>12, <1>13 DEF Chain

-----------------------------------------------------------------------------
(* The inductive invariant.                                                 *)

(* What was asked for and what is still to be handed over is known from the *)
(* workflow object f of a worker that has applied every batch.              *)
Frontier(f) ==
  /\ scheduled = IF f.pc = "start" THEN <<>> ELSE IF f.used = None THEN <<None>>
                 ELSE <<None, f.used>>
  /\ \/ answered = Len(scheduled)
     \/ f.pc \in {"routing", "resuming"} /\ answered + 1 = Len(scheduled)
  /\ \A i \in DOMAIN queue : queue[i].signal = None =>
       /\ f.pc \in {"routing", "resuming"} /\ answered = Len(scheduled)
       /\ queue[i].answer = Round!RoundOf(f.used)

RoundTyped ==
  /\ input \in Round!Inputs
  /\ history \in Seq(Seq(Recorded)) /\ queue \in Seq(Recorded)
  /\ at \in 0..Len(history) /\ answered \in Nat

(* ws are the workflow objects that the batches lead through.               *)
Leads(ws) ==
  /\ Chain(ws, history)
  /\ \A i \in 0..Len(history) : Shaped(ws[i])
  /\ wf = ws[at]
  /\ Frontier(ws[Len(history)])

RoundInv == RoundTyped /\ \E ws : Leads(ws)

LEMMA SameInput ==
  ASSUME input' = input
  PROVE  /\ \A x : Round!RoundOf(x)' = Round!RoundOf(x)
         /\ \A w : Shaped(w)' <=> Shaped(w)
<1>1. \A x : Round!RoundOf(x)' = Round!RoundOf(x)
  BY DEF Round!RoundOf
<1>2. First' = First
  BY DEF First, Round!RoundOf
<1>3. \A w : /\ Waiting(w)' <=> Waiting(w)
             /\ Resuming(w)' <=> Resuming(w)
             /\ Undisturbed(w)' <=> Undisturbed(w)
             /\ Resumed(w)' <=> Resumed(w)
  BY <1>1, <1>2 DEF Waiting, Resuming, Undisturbed, Resumed, Suspends
<1>4. \A w : Shaped(w)' <=> Shaped(w)
  BY <1>3 DEF Shaped
<1> QED  BY <1>1, <1>4

LEMMA RoundInit == Round!Init => RoundInv
<1> SUFFICES ASSUME Round!Init PROVE RoundInv
  OBVIOUS
<1>1. /\ input \in Round!Inputs /\ history = <<>> /\ queue = <<>> /\ scheduled = <<>>
      /\ answered = 0 /\ at = 0 /\ wf = Round!Fresh
  BY DEF Round!Init
<1>2. PICK f : f = Round!Fresh
  OBVIOUS
<1>3. /\ f \in Workers /\ f.pc = "start" /\ f.approval = None /\ f.used = None
      /\ f.pending = None /\ f.result = None
  BY <1>2 DEF Round!Fresh, Workers
<1>4. Shaped(f)
  BY <1>3 DEF Shaped, Beginning
<1>5. PICK ws : ws = [i \in 0..0 |-> f]
  OBVIOUS
<1>6. Len(history) = 0 /\ DOMAIN ws = 0..0 /\ \A i \in 0..0 : ws[i] = f /\ i = 0
  BY <1>1, <1>5
<1>7. Heard(f, history, 0)
  BY <1>3 DEF Heard
<1>8. Chain(ws, history)
  BY <1>2, <1>3, <1>6, <1>7 DEF Chain
<1>9. Frontier(f)
  BY <1>1, <1>3 DEF Frontier
<1>10. Leads(ws)
  BY <1>1, <1>2, <1>4, <1>6, <1>8, <1>9 DEF Leads
<1>11. RoundTyped
  BY <1>1 DEF RoundTyped
<1> QED  BY <1>10, <1>11 DEF RoundInv

(* A step that hands nothing over: the batches lead to the same objects.    *)
LEMMA SameBatches ==
  ASSUME RoundTyped, NEW ws, Leads(ws), UNCHANGED <<input, history>>,
         queue' \in Seq(Recorded), at' \in 0..Len(history), answered' \in Nat, wf' = ws[at'],
         Frontier(ws[Len(history)])'
  PROVE  RoundInv'
<1>1. RoundTyped'
  BY DEF RoundTyped
<1>2. Chain(ws, history')
  BY DEF Leads
<1>3. \A i \in 0..Len(history') : Shaped(ws[i])'
  BY SameInput DEF Leads
<1>4. Leads(ws)'
  BY <1>2, <1>3 DEF Leads
<1> QED  BY <1>1, <1>4 DEF RoundInv

LEMMA RoundSubmits ==
  ASSUME RoundTyped, NEW ws, Leads(ws), NEW signal \in Round!Signals, Round!Submit(signal)
  PROVE  RoundInv' /\ wf' = wf
<1>1. /\ queue' = Append(queue, Round!Event(signal, None))
      /\ UNCHANGED <<input, history, scheduled, answered, wf, at>>
  BY DEF Round!Submit
<1>2. PICK x : x = Round!Event(signal, None)
  OBVIOUS
<1>3. x \in Recorded /\ x.signal = signal /\ signal # None
  BY <1>2, RoundAssumption DEF Round!Event, Recorded, Round!ApprovalAssumption
<1>4. /\ queue \in Seq(Recorded) /\ queue' = Append(queue, x)
      /\ at \in 0..Len(history) /\ answered \in Nat
  BY <1>1, <1>2 DEF RoundTyped
<1>5. /\ queue' \in Seq(Recorded) /\ DOMAIN queue' = 1..(Len(queue) + 1)
      /\ queue'[Len(queue) + 1] = x /\ \A i \in 1..Len(queue) : queue'[i] = queue[i]
  BY <1>3, <1>4
<1>6. PICK f : f = ws[Len(history)]
  OBVIOUS
<1>7. Frontier(f)'
  <2>1. Frontier(f)
    BY <1>6 DEF Leads
  <2>2. \A i \in DOMAIN queue' : queue'[i].signal = None => i \in DOMAIN queue
    BY <1>3, <1>4, <1>5
  <2>3. \A i \in DOMAIN queue : queue'[i] = queue[i]
    BY <1>4, <1>5
  <2>4. Round!RoundOf(f.used)' = Round!RoundOf(f.used)
    BY <1>1, SameInput
  <2> QED  BY <1>1, <2>1, <2>2, <2>3, <2>4 DEF Frontier
<1>8. wf' = ws[at']
  BY <1>1 DEF Leads
<1>9. Frontier(ws[Len(history)])'
  BY <1>1, <1>6, <1>7
<1> QED  BY <1>1, <1>4, <1>5, <1>8, <1>9, SameBatches

LEMMA RoundExecutes ==
  ASSUME RoundTyped, NEW ws, Leads(ws), Round!Execute
  PROVE  RoundInv' /\ wf' = wf
<1>1. /\ answered < Len(scheduled)
      /\ queue' = Append(queue, Round!Event(None, Round!RoundOf(scheduled[answered + 1])))
      /\ answered' = answered + 1
      /\ UNCHANGED <<input, history, scheduled, wf, at>>
  BY DEF Round!Execute
<1>2. PICK f : f = ws[Len(history)]
  OBVIOUS
<1>3. /\ Frontier(f) /\ Shaped(f) /\ input \in Round!Inputs
      /\ queue \in Seq(Recorded) /\ at \in 0..Len(history) /\ answered \in Nat
  BY <1>2 DEF Leads, RoundTyped
<1>4. /\ f.pc \in {"routing", "resuming"} /\ answered + 1 = Len(scheduled)
      /\ scheduled = IF f.used = None THEN <<None>> ELSE <<None, f.used>>
  BY <1>1, <1>3 DEF Frontier
<1>5. scheduled[answered + 1] = f.used
  <2>1. CASE f.used = None
    BY <1>4, <2>1
  <2>2. CASE f.used # None
    BY <1>4, <2>2
  <2> QED  BY <2>1, <2>2
<1>6. PICK x : x = Round!Event(None, Round!RoundOf(f.used))
  OBVIOUS
<1>7. Round!RoundOf(f.used) \in Round!Decisions
  <2>1. CASE f.pc = "routing"
    BY <1>3, <2>1, FirstRound DEF Shaped, Beginning, Waiting, Resuming, Undisturbed, Resumed
  <2>2. CASE f.pc = "resuming"
    <3>1. Resuming(f)
      BY <1>3, <2>2 DEF Shaped, Beginning, Waiting, Undisturbed, Resumed
    <3>2. input.state.stage = "SPEC" => Sourced
      BY <1>3, <3>1, FirstRound DEF Resuming, Suspends, First
    <3> QED  BY <1>3, <3>1, <3>2, SecondRound DEF Resuming
  <2> QED  BY <1>4, <2>1, <2>2
<1>8. x \in Recorded /\ x.signal = None /\ x.answer = Round!RoundOf(f.used)
  BY <1>6, <1>7 DEF Round!Event, Recorded
<1>9. /\ queue' = Append(queue, x) /\ queue' \in Seq(Recorded)
      /\ DOMAIN queue' = 1..(Len(queue) + 1) /\ queue'[Len(queue) + 1] = x
      /\ \A i \in 1..Len(queue) : queue'[i] = queue[i]
  <2>1. queue' = Append(queue, x)
    BY <1>1, <1>5, <1>6
  <2> QED  BY <1>3, <1>8, <2>1
<1>10. \A i \in DOMAIN queue : queue[i].signal # None
  BY <1>3, <1>4 DEF Frontier
<1>11. Frontier(f)'
  <2>1. \A i \in DOMAIN queue' : queue'[i].signal = None => queue'[i] = x
    BY <1>3, <1>9, <1>10
  <2>2. Round!RoundOf(f.used)' = Round!RoundOf(f.used)
    BY <1>1, SameInput
  <2>3. answered' = Len(scheduled') /\ scheduled' = scheduled
    BY <1>1, <1>4
  <2> QED  BY <1>4, <1>8, <2>1, <2>2, <2>3 DEF Frontier
<1>12. wf' = ws[at'] /\ at' \in 0..Len(history) /\ answered' \in Nat
  BY <1>1, <1>3 DEF Leads
<1>13. Frontier(ws[Len(history)])'
  BY <1>1, <1>2, <1>11
<1> QED  BY <1>1, <1>9, <1>12, <1>13, SameBatches

LEMMA RoundReplays ==
  ASSUME RoundTyped, NEW ws, Leads(ws), Round!Replay
  PROVE  RoundInv' /\ Entered(wf, wf') /\ Heard(wf', history', at')
<1>1. /\ at < Len(history) /\ wf' = Round!Activate(wf, history[at + 1]) /\ at' = at + 1
      /\ UNCHANGED <<input, queue, history, scheduled, answered>>
  BY DEF Round!Replay
<1>2. /\ at \in 0..Len(history) /\ Len(history) \in Nat /\ answered \in Nat
      /\ queue \in Seq(Recorded)
  BY DEF RoundTyped
<1>3. at + 1 \in 1..Len(history) /\ at + 1 \in 0..Len(history) /\ (at + 1) - 1 = at
  BY <1>1, <1>2
<1>4. /\ ws[at + 1] = Round!Activate(ws[at], history[at + 1]) /\ Entered(ws[at], ws[at + 1])
      /\ Heard(ws[at + 1], history, at + 1) /\ wf = ws[at]
  BY <1>3 DEF Leads, Chain
<1>5. wf' = ws[at']
  BY <1>1, <1>4
<1>6. Frontier(ws[Len(history)])'
  <2>1. PICK f : f = ws[Len(history)]
    OBVIOUS
  <2>2. Frontier(f)
    BY <2>1 DEF Leads
  <2>3. Frontier(f)'
    BY <1>1, <2>2, SameInput DEF Frontier
  <2> QED  BY <1>1, <2>1, <2>3
<1>7. RoundInv'
  BY <1>1, <1>2, <1>3, <1>5, <1>6, SameBatches
<1> QED  BY <1>1, <1>4, <1>7

LEMMA RoundCrashes ==
  ASSUME RoundTyped, NEW ws, Leads(ws), Round!Crash
  PROVE  RoundInv' /\ wf'.pc = "start"
<1>1. /\ wf' = Round!Fresh /\ at' = 0
      /\ UNCHANGED <<input, queue, history, scheduled, answered>>
  BY DEF Round!Crash
<1>2. Len(history) \in Nat /\ answered \in Nat /\ queue \in Seq(Recorded)
  BY DEF RoundTyped
<1>3. wf' = ws[at'] /\ at' \in 0..Len(history)
  BY <1>1, <1>2 DEF Leads, Chain
<1>4. Frontier(ws[Len(history)])'
  <2>1. PICK f : f = ws[Len(history)]
    OBVIOUS
  <2>2. Frontier(f)
    BY <2>1 DEF Leads
  <2>3. Frontier(f)'
    BY <1>1, <2>2, SameInput DEF Frontier
  <2> QED  BY <1>1, <2>1, <2>3
<1>5. RoundInv'
  BY <1>1, <1>2, <1>3, <1>4, SameBatches
<1> QED  BY <1>1, <1>5 DEF Round!Fresh

LEMMA RoundDelivers ==
  ASSUME RoundTyped, NEW ws, Leads(ws), Round!Deliver
  PROVE  RoundInv' /\ Entered(wf, wf') /\ Heard(wf', history', at')
<1>1. PICK n : n = Round!Activate(wf, queue)
  OBVIOUS
<1>2. /\ at = Len(history) /\ wf' = n
      /\ scheduled' = IF n.pc # wf.pc /\ n.pc \in {"routing", "resuming"}
                      THEN Append(scheduled, n.used) ELSE scheduled
      /\ history' = Append(history, queue) /\ at' = at + 1 /\ queue' = <<>>
      /\ UNCHANGED <<input, answered>>
  BY <1>1 DEF Round!Deliver
<1>3. /\ input \in Round!Inputs /\ history \in Seq(Seq(Recorded)) /\ queue \in Seq(Recorded)
      /\ answered \in Nat /\ Len(history) \in Nat
  BY DEF RoundTyped
<1>4. PICK f : f = ws[Len(history)]
  OBVIOUS
<1>5. wf = f /\ Shaped(f) /\ Frontier(f) /\ Chain(ws, history)
  BY <1>2, <1>3, <1>4 DEF Leads
<1>6. PICK a : a = Round!AnswerOf(queue)
  OBVIOUS
<1>7. Awaited(f, a) /\ (a # None => answered = Len(scheduled))
  BY <1>3, <1>5, <1>6, AnswerGiven DEF Awaited, Frontier
<1>8. Shaped(n) /\ Told(f, queue, n) /\ Moves(f, a, n)
  BY <1>1, <1>3, <1>5, <1>6, <1>7, Activated
<1>9. f.pc \in {"start", "routing", "waiting"} => f.used = None
  BY <1>5 DEF Shaped, Beginning, Waiting, Resuming, Undisturbed, Resumed
<1>10. f.used # None => n.used = f.used
  BY <1>8, <1>9 DEF Moves
<1>11. Entered(f, n)
  BY <1>8 DEF Moves, Entered
<1>12. PICK vs : vs = [i \in 0..(Len(history) + 1) |-> IF i = Len(history) + 1 THEN n ELSE ws[i]]
  OBVIOUS
<1>13. Chain(vs, history')
  BY <1>1, <1>2, <1>3, <1>4, <1>5, <1>8, <1>10, <1>11, <1>12, ChainGrows
<1>14. /\ Len(history') = Len(history) + 1 /\ vs[Len(history')] = n
       /\ \A i \in 0..Len(history) : vs[i] = ws[i]
       /\ \A i \in 0..Len(history') : i \in 0..Len(history) \/ i = Len(history')
       /\ history' \in Seq(Seq(Recorded)) /\ at' = Len(history')
  BY <1>2, <1>3, <1>12
<1>15. ASSUME NEW i \in 0..Len(history')
       PROVE  Shaped(vs[i])'
  <2>1. Shaped(vs[i])
    BY <1>8, <1>14 DEF Leads
  <2> QED  BY <1>2, <2>1, SameInput
<1>16. Frontier(n)'
  <2>1. /\ scheduled = IF f.pc = "start" THEN <<>> ELSE IF f.used = None THEN <<None>>
                       ELSE <<None, f.used>>
        /\ \/ answered = Len(scheduled)
           \/ f.pc \in {"routing", "resuming"} /\ answered + 1 = Len(scheduled)
    BY <1>5 DEF Frontier
  <2>2. /\ scheduled' = IF n.pc # f.pc /\ n.pc \in {"routing", "resuming"}
                        THEN Append(scheduled, n.used) ELSE scheduled
        /\ answered' = answered /\ DOMAIN queue' = {}
    BY <1>2, <1>5
  <2>3. None \notin Round!Signals
    BY RoundAssumption DEF Round!ApprovalAssumption
  <2>4. /\ scheduled' = IF n.pc = "start" THEN <<>> ELSE IF n.used = None THEN <<None>>
                        ELSE <<None, n.used>>
        /\ \/ answered' = Len(scheduled')
           \/ n.pc \in {"routing", "resuming"} /\ answered' + 1 = Len(scheduled')
    <3>1. CASE f.pc = "start" /\ n.pc = "routing" /\ n.used = None
      BY <1>3, <2>1, <2>2, <3>1
    <3>2. CASE f.pc = "routing" /\ a = None /\ n.pc = "routing" /\ n.used = None
      BY <1>9, <2>1, <2>2, <3>2
    <3>3. CASE f.pc = "routing" /\ a # None /\ n.pc \in {"waiting", "done"} /\ n.used = None
      BY <1>7, <1>9, <2>1, <2>2, <3>3
    <3>4. CASE f.pc = "routing" /\ a # None /\ n.pc = "resuming" /\ n.used \in Round!Signals
      BY <1>7, <1>9, <2>1, <2>2, <2>3, <3>4
    <3>5. CASE f.pc = "waiting" /\ n.pc = "waiting" /\ n.used = None
      BY <1>9, <2>1, <2>2, <3>5
    <3>6. CASE f.pc = "waiting" /\ n.pc = "resuming" /\ n.used \in Round!Signals
      BY <1>9, <2>1, <2>2, <2>3, <3>6
    <3>7. CASE f.pc = "resuming" /\ a = None /\ n.pc = "resuming" /\ n.used = f.used
      BY <2>1, <2>2, <3>7
    <3>8. CASE f.pc = "resuming" /\ a # None /\ n.pc = "done" /\ n.used = f.used
      BY <1>7, <2>1, <2>2, <3>8
    <3>9. CASE f.pc = "done" /\ n.pc = "done" /\ n.used = f.used
      BY <2>1, <2>2, <3>9
    <3> QED  BY <1>8, <3>1, <3>2, <3>3, <3>4, <3>5, <3>6, <3>7, <3>8, <3>9 DEF Moves
  <2> QED  BY <2>2, <2>4 DEF Frontier
<1>17. Leads(vs)'
  <2>1. wf' = vs[at']
    BY <1>2, <1>14
  <2>2. \A i \in 0..Len(history') : Shaped(vs[i])'
    BY <1>15
  <2>3. Frontier(vs[Len(history)])'
    BY <1>14, <1>16
  <2> QED  BY <1>13, <2>1, <2>2, <2>3 DEF Leads
<1>18. RoundTyped'
  BY <1>2, <1>3, <1>14 DEF RoundTyped
<1>19. Heard(n, history', at')
  BY <1>13, <1>14, <1>3 DEF Chain
<1> QED  BY <1>2, <1>5, <1>11, <1>17, <1>18, <1>19 DEF RoundInv

(* A step keeps the invariant, and a step that goes on goes on with the     *)
(* last signal.                                                             *)
GoesOnWithLast ==
  wf'.pc = "resuming" /\ wf.pc # "resuming" => Round!UsesLastWord'

LEMMA LastIsUsed ==
  ASSUME RoundInv', Entered(wf, wf'), Heard(wf', history', at')
  PROVE  GoesOnWithLast
<1> SUFFICES ASSUME wf'.pc = "resuming", wf.pc # "resuming" PROVE Round!UsesLastWord'
  BY DEF GoesOnWithLast
<1>1. wf'.used = wf'.approval /\ wf'.approval \in Round!Signals
  BY DEF Entered
<1>2. wf'.approval # None
  BY <1>1, RoundAssumption DEF Round!ApprovalAssumption
<1> QED  BY <1>1, <1>2 DEF Heard, Round!UsesLastWord

LEMMA RoundStep ==
  ASSUME RoundInv, [Round!Next]_(Round!vars)
  PROVE  RoundInv' /\ GoesOnWithLast
<1>1. PICK ws : Leads(ws)
  BY DEF RoundInv
<1>2. RoundTyped
  BY DEF RoundInv
<1>3. CASE UNCHANGED Round!vars
  <2>1. UNCHANGED <<input, queue, history, scheduled, answered, wf, at>>
    BY <1>3 DEF Round!vars
  <2>2. PICK f : f = ws[Len(history)]
    OBVIOUS
  <2>3. Frontier(f)
    BY <1>1, <2>2 DEF Leads
  <2>4. Frontier(f)'
    BY <2>1, <2>3, SameInput DEF Frontier
  <2>5. Frontier(ws[Len(history)])'
    BY <2>1, <2>2, <2>4
  <2>6. /\ queue' \in Seq(Recorded) /\ at' \in 0..Len(history) /\ answered' \in Nat
        /\ wf' = ws[at']
    BY <1>1, <1>2, <2>1 DEF RoundTyped, Leads
  <2>7. RoundInv'
    BY <1>1, <1>2, <2>1, <2>5, <2>6, SameBatches
  <2> QED  BY <2>1, <2>7 DEF GoesOnWithLast
<1>4. ASSUME NEW signal \in Round!Signals, Round!Submit(signal)
      PROVE  RoundInv' /\ GoesOnWithLast
  BY <1>1, <1>2, <1>4, RoundSubmits DEF GoesOnWithLast
<1>5. CASE Round!Execute
  BY <1>1, <1>2, <1>5, RoundExecutes DEF GoesOnWithLast
<1>6. CASE Round!Deliver
  BY <1>1, <1>2, <1>6, RoundDelivers, LastIsUsed
<1>7. CASE Round!Replay
  BY <1>1, <1>2, <1>7, RoundReplays, LastIsUsed
<1>8. CASE Round!Crash
  BY <1>1, <1>2, <1>8, RoundCrashes DEF GoesOnWithLast
<1> QED  BY <1>3, <1>4, <1>5, <1>6, <1>7, <1>8 DEF Round!Next

LEMMA RoundInvIsSound == RoundInv => RoundIsSound
<1> SUFFICES ASSUME RoundInv PROVE RoundIsSound
  OBVIOUS
<1>1. PICK ws : Leads(ws)
  BY DEF RoundInv
<1>2. /\ input \in Round!Inputs /\ at \in 0..Len(history) /\ answered \in Nat
      /\ Len(history) \in Nat
  BY DEF RoundInv, RoundTyped
<1>3. Shaped(wf) /\ wf \in Workers
  BY <1>1, <1>2 DEF Leads, Shaped
<1>4. PICK f : f = ws[Len(history)]
  OBVIOUS
<1>5. Frontier(f) /\ Shaped(f) /\ (wf.used # None => f.used = wf.used)
  BY <1>1, <1>2, <1>4 DEF Leads, Chain
<1>6. None \notin Round!Signals /\ None \notin Round!Decisions
  BY RoundAssumption DEF Round!ApprovalAssumption
<1>7. Round!ValidDecision(First) /\ First \in Round!Decisions /\ First # None
  BY <1>2, FirstRound DEF First
<1>8. ASSUME NEW signal \in Round!Signals, Suspends, NEW d, d = Round!RoundOf(signal)
      PROVE  /\ Round!ValidDecision(d) /\ d # None
             /\ d.continuation \in {"AUTO_CONTINUE", "HALT"}
             /\ d.continuation = "AUTO_CONTINUE" <=>
                  signal = "APPROVAL_GRANTED" /\ input.state.stage = "SPEC"
  <2>1. input.state.stage = "SPEC" => Sourced
    BY <1>2, <1>8, FirstRound DEF Suspends, First
  <2> QED  BY <1>2, <1>8, <2>1, SecondRound
<1>9. Round!TypeOK
  <2>1. wf.pending # None => Round!Terminal(wf.pending) = "waiting"
    BY <1>3, <1>7 DEF Shaped, Beginning, Waiting, Resuming, Undisturbed, Resumed, Suspends,
                      Round!Terminal
  <2>2. wf.result # None => Round!ValidDecision(wf.result)
    BY <1>3, <1>7, <1>8 DEF Shaped, Beginning, Waiting, Resuming, Undisturbed, Resumed
  <2>3. answered \in 0..Len(scheduled)
    <3>1. Len(scheduled) \in Nat /\ answered <= Len(scheduled)
      BY <1>2, <1>5 DEF Frontier
    <3> QED  BY <1>2, <3>1
  <2> QED  BY <1>2, <1>3, <2>1, <2>2, <2>3 DEF Round!TypeOK, Workers
<1>10. Round!GateNeedsGrant
  <2> SUFFICES ASSUME wf.pc = "done", wf.pending # None
               PROVE  /\ Round!Terminal(wf.result) = "continue" <=>
                           wf.used = "APPROVAL_GRANTED" /\ input.state.stage = "SPEC"
                      /\ Round!Terminal(wf.result) # "waiting"
    BY DEF Round!GateNeedsGrant
  <2>1. Resumed(wf)
    BY <1>3 DEF Shaped, Beginning, Waiting, Resuming, Undisturbed
  <2>2. PICK d : d = wf.result
    OBVIOUS
  <2>3. /\ d # None /\ d.continuation \in {"AUTO_CONTINUE", "HALT"}
        /\ d.continuation = "AUTO_CONTINUE" <=>
             wf.used = "APPROVAL_GRANTED" /\ input.state.stage = "SPEC"
    BY <1>8, <2>1, <2>2 DEF Resumed
  <2> QED  BY <2>2, <2>3 DEF Round!Terminal
<1>11. Round!ReplayAgrees
  <2>1. Len(scheduled) <= 2
    BY <1>5 DEF Frontier
  <2>2. ASSUME wf.used # None
        PROVE  Len(scheduled) = 2 /\ scheduled[2] = wf.used
    <3>1. f.used = wf.used /\ f.used # None
      BY <1>5, <2>2
    <3>2. f.pc # "start"
      BY <1>5, <3>1 DEF Shaped, Beginning, Waiting, Resuming, Undisturbed, Resumed
    <3>3. scheduled = <<None, f.used>>
      BY <1>5, <3>1, <3>2 DEF Frontier
    <3> QED  BY <3>1, <3>3
  <2> QED  BY <2>1, <2>2 DEF Round!ReplayAgrees
<1> QED  BY <1>9, <1>10, <1>11 DEF RoundIsSound, Round!RoundIsSound

(* However many signals come and whenever, and however often a worker is    *)
(* lost: a round is asked for again only with one signal, which every       *)
(* worker that replays agrees on, and only a grant of a specification gets  *)
(* it past the gate.                                                        *)
THEOREM RoundsAreSound == Round!Spec => []RoundIsSound
BY RoundInit, RoundStep, RoundInvIsSound, PTL DEF Round!Spec

(* A workflow that goes on does so with the last of the signals its worker  *)
(* had been handed, whether they came with the answer or before it, and     *)
(* also where it replays what another worker did.                           *)
THEOREM LastWordAlwaysCounts == Round!Spec => LastWordCounts
<1>1. RoundInv /\ [Round!Next]_(Round!vars) =>
        [wf'.pc = "resuming" /\ wf.pc # "resuming" => Round!UsesLastWord']_(Round!vars)
  BY RoundStep DEF GoesOnWithLast
<1> QED  BY <1>1, RoundInit, RoundStep, PTL
         DEF Round!Spec, LastWordCounts, Round!LastWordCounts


-----------------------------------------------------------------------------
(* What the host keeps: a lease that was a candidate once.                  *)
KeptLifecycles == {"ACTIVE", "CLOSED", "INVALIDATED"}
KeptLeases == {Context!WithLifecycle(l, life) : l \in Context!Candidates, life \in KeptLifecycles}

LeasesTyped ==
  /\ current \in {Context!NoLease} \cup KeptLeases
  /\ held \in [Agents -> {Context!NoLease} \cup Context!Candidates]

(* Side contexts tell apart the leases that can still be used: the one that *)
(* works has not ended, one the host still keeps afterwards has, and so has *)
(* every lease an agent holds that is not the current one.                  *)
EndedIsKnown ==
  /\ ended \subseteq used
  /\ current # Context!NoLease => current.side \in used
  /\ current.lifecycle = "ACTIVE" => current.side \notin ended
  /\ current # Context!NoLease /\ current.lifecycle # "ACTIVE" => current.side \in ended
  /\ \A a \in Agents : held[a] \in {Context!NoLease, current} \/ held[a].side \in ended

AgentInv == LeasesTyped /\ EndedIsKnown

LEMMA CandidateFields ==
  ASSUME NEW l \in Context!Candidates
  PROVE  /\ l.ref # None /\ l.side \in SideContexts /\ l.side # None
         /\ l.lifecycle = "ACTIVE" /\ l.side # l.invalidates
         /\ l # Context!NoLease /\ l \in KeptLeases
<1>1. /\ l \in [ref : LeaseRefs, lifecycle : {"ACTIVE"}, lane : Lanes, owner : Owners,
                source : ContextSources, side : SideContexts, return : Returns,
                invalidates : {None} \cup SideContexts]
      /\ l.side # l.invalidates
  BY DEF Context!Candidates
<1>2. l = Context!WithLifecycle(l, "ACTIVE")
  BY <1>1 DEF Context!WithLifecycle
<1>3. l \in KeptLeases
  BY <1>2 DEF KeptLeases, KeptLifecycles
<1> QED  BY <1>1, <1>3, ContextAssumption DEF Context!AgentContextAssumption, Context!NoLease

LEMMA KeptFields ==
  ASSUME NEW l \in KeptLeases, NEW life \in KeptLifecycles
  PROVE  /\ l.ref # None /\ l.side \in SideContexts /\ l.side # None
         /\ l.lifecycle \in KeptLifecycles /\ l # Context!NoLease
         /\ l.lifecycle = "ACTIVE" => l \in Context!Candidates
         /\ Context!WithLifecycle(l, "ACTIVE") \in Context!Candidates
         /\ Context!WithLifecycle(l, life) \in KeptLeases
         /\ Context!WithLifecycle(l, life).lifecycle = life
         /\ Context!WithLifecycle(l, life).side = l.side
<1>1. PICK c \in Context!Candidates, was \in KeptLifecycles : l = Context!WithLifecycle(c, was)
  BY DEF KeptLeases
<1>2. c \in [ref : LeaseRefs, lifecycle : {"ACTIVE"}, lane : Lanes, owner : Owners,
             source : ContextSources, side : SideContexts, return : Returns,
             invalidates : {None} \cup SideContexts]
  BY DEF Context!Candidates
<1>3. l.ref = c.ref /\ l.side = c.side /\ l.lifecycle = was
  BY <1>1, <1>2 DEF Context!WithLifecycle
<1>4. /\ Context!WithLifecycle(l, "ACTIVE") = c
      /\ Context!WithLifecycle(l, life) = Context!WithLifecycle(c, life)
  BY <1>1, <1>2 DEF Context!WithLifecycle
<1>5. /\ Context!WithLifecycle(c, life).lifecycle = life
      /\ Context!WithLifecycle(c, life).side = c.side
  BY <1>2 DEF Context!WithLifecycle
<1>6. was = "ACTIVE" => l = c
  BY <1>1, <1>2 DEF Context!WithLifecycle
<1>7. Context!WithLifecycle(c, life) \in KeptLeases
  BY DEF KeptLeases
<1>8. l # Context!NoLease
  BY <1>3, CandidateFields DEF Context!NoLease
<1> QED  BY <1>3, <1>4, <1>5, <1>6, <1>7, <1>8, CandidateFields

LEMMA RequestFields ==
  ASSUME NEW a \in Agents, NEW q \in Context!RequestsOf(a)
  PROVE  /\ q.operation \in Context!Operations /\ q.upstream \in Context!Upstream
         /\ q.operation = "OPEN" => q.ref = None
         /\ q.operation # "OPEN" =>
              held[a] # Context!NoLease /\ q.ref = held[a].ref /\ q.side = held[a].side
         /\ q.operation # "CLOSE" /\ q.upstream = "CURRENT" => q.candidate \in Context!Candidates
BY DEF Context!RequestsOf, Context!Request, Context!Operations, Context!Upstream, Context!NoLease

-----------------------------------------------------------------------------
(* What a step makes of the leases: it lets them be, ...                    *)
Rests ==
  /\ UNCHANGED <<current, used, ended>>
  /\ \A a \in Agents : held'[a] = held[a] \/ held'[a] = current
  /\ held' \in [Agents -> {Context!NoLease} \cup Context!Candidates]
  /\ last' # last => held[last'.agent] = current

(* ... opens one where the host keeps none, ...                             *)
OpensLease(a, c) ==
  /\ current = Context!NoLease
  /\ current' = c
  /\ held' = [held EXCEPT ![a] = c]
  /\ used' = used \cup {c.side}
  /\ ended' = ended
  /\ last'.operation = "OPEN"

(* ... puts another in the place of the one its holder works under, ...     *)
Replaces(a, c) ==
  /\ current.lifecycle = "ACTIVE" /\ held[a] = current
  /\ c.side # current.side /\ c.invalidates = current.side
  /\ c.lane # current.lane => Context!SameSwitchBinding(current, c)
  /\ current' = c
  /\ held' = [held EXCEPT ![a] = c]
  /\ used' = used \cup {c.side}
  /\ ended' = ended \cup {current.side}
  /\ last'.agent = a

(* ... or ends it, by its holder or by a requirement that changed.          *)
Ends(a, life) ==
  /\ current.lifecycle = "ACTIVE"
  /\ current' = Context!WithLifecycle(current, life)
  /\ used' = used
  /\ ended' = ended \cup {current.side}
  /\ \/ UNCHANGED <<held, last>>
     \/ /\ held[a] = current
        /\ held' = [held EXCEPT ![a] = Context!NoLease]
        /\ last'.agent = a

(* A refusal keeps the lease, and marks it ended only where it is.          *)
LEMMA RefusalIs ==
  ASSUME AgentInv, NEW a \in Agents, NEW q \in Context!RequestsOf(a), Context!Ask(a, q),
         ~Context!Decide(q, current).allowed
  PROVE  Rests \/ Ends(a, "INVALIDATED")
<1> DEFINE outcome == Context!Decide(q, current)
<1>1. /\ current' = Context!Kept(outcome) /\ ended' = ended \cup Context!Ended(outcome)
      /\ used' = used \cup ({outcome.active.side} \ {None})
      /\ held' = held /\ last' = last
  BY DEF Context!Ask
<1>2. \/ outcome = Context!Refused(current)
      \/ outcome = Context!Refused(Context!EndedByChange(current))
  BY RequestFields DEF Context!Decide, Context!Admit, Context!Open, Context!Close,
      Context!Resume, Context!RebindCorrection, Context!SwitchTicket,
       Context!Allowed, Context!Refused, Context!Operations
<1> HIDE DEF outcome
<1>3. used' = used
  BY <1>1, <1>2 DEF Context!Refused, Context!NoLease
<1>4. CASE outcome = Context!Refused(current)
  <2>1. current' = current /\ Context!Ended(outcome) \subseteq ended
    BY <1>1, <1>4, KeptFields DEF Context!Refused, Context!Kept, Context!Ended,
        Context!NoLease, AgentInv, LeasesTyped,
         EndedIsKnown
  <2> QED  BY <1>1, <1>3, <2>1 DEF Rests, AgentInv, LeasesTyped
<1>5. CASE /\ outcome = Context!Refused(Context!EndedByChange(current))
           /\ outcome # Context!Refused(current)
  <2>1. current.lifecycle = "ACTIVE"
    BY <1>5 DEF Context!EndedByChange
  <2>2. current \in KeptLeases
    BY <2>1 DEF AgentInv, LeasesTyped, Context!NoLease
  <2>3. outcome = Context!Refused(Context!WithLifecycle(current, "INVALIDATED"))
    BY <1>5, <2>1 DEF Context!EndedByChange
  <2>4. /\ Context!WithLifecycle(current, "INVALIDATED").lifecycle = "INVALIDATED"
        /\ Context!WithLifecycle(current, "INVALIDATED").side = current.side
    BY <2>2, KeptFields DEF KeptLifecycles
  <2>5. /\ current' = Context!WithLifecycle(current, "INVALIDATED")
        /\ Context!Ended(outcome) = {current.side}
    BY <1>1, <2>3, <2>4 DEF Context!Refused, Context!Kept, Context!Ended
  <2> QED  BY <1>1, <1>3, <2>1, <2>5 DEF Ends
<1> QED  BY <1>2, <1>4, <1>5

(* Only a lease that works lets an agent do more than open one, and only    *)
(* the agent that holds that very lease.                                    *)
LEMMA HolderIsCurrent ==
  ASSUME AgentInv, NEW a \in Agents, NEW q \in Context!RequestsOf(a),
         Context!Decide(q, current).allowed,
         q.operation # "OPEN"
  PROVE  /\ current.lifecycle = "ACTIVE" /\ held[a] = current
         /\ Context!Decide(q, current) = Context!Admit(q, current) /\ q.upstream = "CURRENT"
         /\ current \in Context!Candidates /\ current \in KeptLeases
<1>1. /\ current # Context!NoLease /\ current.lifecycle \notin {"CLOSED", "INVALIDATED"}
      /\ q.ref = current.ref /\ q.side = current.side
      /\ Context!Decide(q, current) = Context!Admit(q, current) /\ q.upstream = "CURRENT"
  BY RequestFields DEF Context!Decide, Context!Refused, Context!Upstream
<1>2. current \in KeptLeases /\ current.lifecycle = "ACTIVE" /\ current \in Context!Candidates
  BY <1>1, KeptFields DEF AgentInv, LeasesTyped, KeptLifecycles
<1>3. held[a] # Context!NoLease /\ held[a].side = current.side
  BY <1>1, RequestFields
<1> QED  BY <1>1, <1>2, <1>3 DEF AgentInv, EndedIsKnown

(* A request that is allowed.                                               *)
LEMMA AllowanceIs ==
  ASSUME FreshIds, AgentInv, NEW a \in Agents, NEW q \in Context!RequestsOf(a), Context!Ask(a, q),
         Context!Decide(q, current).allowed
  PROVE  \/ Rests \/ Ends(a, "CLOSED")
         \/ /\ q.candidate \in Context!Candidates /\ q.candidate.side \notin ended
            /\ OpensLease(a, q.candidate) \/ Replaces(a, q.candidate)
<1> DEFINE outcome == Context!Decide(q, current)
           c == q.candidate
<1>1. /\ current' = Context!Kept(outcome) /\ ended' = ended \cup Context!Ended(outcome)
      /\ used' = used \cup ({outcome.active.side} \ {None})
      /\ held' = [held EXCEPT ![a] = outcome.active]
      /\ last' = [agent |-> a, operation |-> q.operation]
  BY DEF Context!Ask
<1>2. q.operation \in Context!Operations
  BY RequestFields
<1>3. CASE q.operation = "OPEN"
  <2>1. outcome = Context!Open(q, current) /\ q.upstream = "CURRENT"
    BY <1>3, RequestFields DEF Context!Decide, Context!Admit, Context!Refused, Context!Upstream
  <2>2. current = Context!NoLease /\ outcome = Context!Allowed(Context!NoLease, c)
    BY <2>1 DEF Context!Open, Context!Refused
  <2>3. c \in Context!Candidates /\ c.side \notin ended
    BY <1>3, <2>1, RequestFields DEF Context!Ask
  <2> HIDE DEF outcome, c
  <2>4. Context!Kept(outcome) = c /\ Context!Ended(outcome) = {} /\ outcome.active = c
    BY <2>2, <2>3, CandidateFields DEF Context!Kept, Context!Ended, Context!Allowed,
        Context!NoLease
  <2>5. {c.side} \ {None} = {c.side}
    BY <2>3, CandidateFields
  <2>6. OpensLease(a, c)
    BY <1>1, <1>3, <2>2, <2>4, <2>5 DEF OpensLease
  <2> QED  BY <2>3, <2>6 DEF c
<1>4. CASE q.operation # "OPEN"
  <2>1. /\ current.lifecycle = "ACTIVE" /\ held[a] = current
        /\ outcome = Context!Admit(q, current) /\ q.upstream = "CURRENT"
        /\ current \in Context!Candidates /\ current \in KeptLeases
    BY <1>4, HolderIsCurrent
  <2>2. current # Context!NoLease /\ current.side # None /\ current.side \in used
    BY <2>1, CandidateFields DEF AgentInv, EndedIsKnown
  <2>3. CASE q.operation = "RESUME"
    <3>1. outcome = Context!Allowed(current, current)
      BY <2>1, <2>3 DEF Context!Admit, Context!Resume, Context!Refused
    <3> HIDE DEF outcome
    <3>2. /\ Context!Kept(outcome) = current /\ Context!Ended(outcome) = {}
          /\ outcome.active = current
      BY <2>1, <2>2, <3>1 DEF Context!Kept, Context!Ended, Context!Allowed
    <3>3. used' = used /\ held' = [held EXCEPT ![a] = current]
      BY <1>1, <2>2, <3>2
    <3>4. \A b \in Agents : held'[b] = held[b] \/ held'[b] = current
      BY <3>3 DEF AgentInv, LeasesTyped
    <3>5. held' \in [Agents -> {Context!NoLease} \cup Context!Candidates]
      BY <2>1, <3>3 DEF AgentInv, LeasesTyped
    <3>6. last'.agent = a
      BY <1>1
    <3>7. Rests
      BY <1>1, <2>1, <3>2, <3>3, <3>4, <3>5, <3>6 DEF Rests
    <3> QED  BY <3>7
  <2>4. CASE q.operation = "CLOSE"
    <3>1. outcome = Context!Allowed(Context!WithLifecycle(current, "CLOSED"), Context!NoLease)
      BY <2>1, <2>4 DEF Context!Admit, Context!Close
    <3> HIDE DEF outcome
    <3>2. /\ Context!WithLifecycle(current, "CLOSED").lifecycle = "CLOSED"
          /\ Context!WithLifecycle(current, "CLOSED").side = current.side
      BY <2>1, KeptFields DEF KeptLifecycles
    <3>3. /\ Context!Kept(outcome) = Context!WithLifecycle(current, "CLOSED")
          /\ Context!Ended(outcome) = {current.side} /\ outcome.active = Context!NoLease
      BY <3>1, <3>2 DEF Context!Kept, Context!Ended, Context!Allowed
    <3>4. used' = used
      BY <1>1, <3>3 DEF Context!NoLease
    <3>5. Ends(a, "CLOSED")
      BY <1>1, <2>1, <3>3, <3>4 DEF Ends
    <3> QED  BY <3>5
  <2>5. CASE q.operation \in {"REBIND_CORRECTION", "SWITCH_TICKET"}
    <3>1. c \in Context!Candidates /\ c.side \notin ended
      BY <2>1, <2>5, RequestFields DEF Context!Ask
    <3>2. PICK life \in {"CLOSED", "INVALIDATED"} :
             outcome = Context!Allowed(Context!WithLifecycle(current, life), c)
      BY <2>1, <2>5 DEF Context!Admit, Context!RebindCorrection, Context!SwitchTicket,
          Context!Refused
    <3>3. /\ c.side # current.side /\ c.invalidates = current.side
          /\ c.lane # current.lane => Context!SameSwitchBinding(current, c)
      BY <2>1, <2>5 DEF Context!Admit, Context!RebindCorrection, Context!SwitchTicket,
          Context!Refused,
           Context!FreshCorrectionValues, Context!FreshSwitchValues,
           Context!SameCorrectionBinding
    <3> HIDE DEF outcome, c
    <3>4. /\ Context!WithLifecycle(current, life).lifecycle = life
          /\ Context!WithLifecycle(current, life).side = current.side
      <4>1. life \in KeptLifecycles
        BY DEF KeptLifecycles
      <4> QED  BY ONLY <2>1, <4>1, KeptFields
    <3>5. /\ Context!Kept(outcome) = c /\ Context!Ended(outcome) = {current.side}
          /\ outcome.active = c
      BY <3>1, <3>2, <3>4, CandidateFields DEF Context!Kept, Context!Ended, Context!Allowed
    <3>6. {c.side} \ {None} = {c.side}
      BY <3>1, CandidateFields
    <3>7. Replaces(a, c)
      BY <1>1, <2>1, <3>1, <3>3, <3>5, <3>6 DEF Replaces
    <3> QED  BY <3>1, <3>7 DEF c
  <2> QED  BY <1>2, <1>4, <2>3, <2>4, <2>5 DEF Context!Operations
<1> QED  BY <1>3, <1>4

(* Every step, without the reducing of requests.                            *)
LeaseStep ==
  \/ Rests \/ Context!Retire
  \/ \E a \in Agents, c \in Context!Candidates :
       c.side \notin ended /\ (OpensLease(a, c) \/ Replaces(a, c))
  \/ \E a \in Agents, life \in {"CLOSED", "INVALIDATED"} : Ends(a, life)

LEMMA StepIs ==
  ASSUME FreshIds, AgentInv, [Context!Next]_(Context!vars)
  PROVE  LeaseStep
<1>1. CASE UNCHANGED Context!vars
  BY <1>1 DEF Context!vars, LeaseStep, Rests, AgentInv, LeasesTyped
<1>2. CASE Context!Retire
  BY <1>2 DEF LeaseStep
<1>3. ASSUME NEW a \in Agents, Context!HandOver(a)
      PROVE  LeaseStep
  <2>1. current \in Context!Candidates
    BY <1>3, KeptFields DEF Context!HandOver, AgentInv, LeasesTyped, Context!NoLease,
        KeptLifecycles
  <2>2. held' = [held EXCEPT ![a] = current]
    BY <1>3 DEF Context!HandOver
  <2>3. held' \in [Agents -> {Context!NoLease} \cup Context!Candidates]
    BY <2>1, <2>2 DEF AgentInv, LeasesTyped
  <2>4. \A b \in Agents : held'[b] = held[b] \/ held'[b] = current
    BY <2>2 DEF AgentInv, LeasesTyped
  <2> QED  BY <1>3, <2>3, <2>4 DEF Context!HandOver, LeaseStep, Rests
<1>4. ASSUME NEW a \in Agents, NEW q \in Context!RequestsOf(a), Context!Ask(a, q)
      PROVE  LeaseStep
  <2>1. CASE Context!Decide(q, current).allowed
    BY <1>4, <2>1, AllowanceIs DEF LeaseStep
  <2>2. CASE ~Context!Decide(q, current).allowed
    BY <1>4, <2>2, RefusalIs DEF LeaseStep
  <2> QED  BY <2>1, <2>2
<1> QED  BY <1>1, <1>2, <1>3, <1>4 DEF Context!Next

-----------------------------------------------------------------------------
(* The invariant. *)
LEMMA AgentInit == Context!Init => AgentInv
BY DEF Context!Init, AgentInv, LeasesTyped, EndedIsKnown, Context!NoLease

LEMMA EndedLease ==
  ASSUME AgentInv, current.lifecycle = "ACTIVE", NEW life \in {"CLOSED", "INVALIDATED"}
  PROVE  /\ current \in KeptLeases /\ current \in Context!Candidates
         /\ Context!WithLifecycle(current, life) \in KeptLeases
         /\ Context!WithLifecycle(current, life).lifecycle = life
         /\ Context!WithLifecycle(current, life).side = current.side
         /\ Context!WithLifecycle(current, life) # Context!NoLease
<1>1. current \in KeptLeases /\ life \in KeptLifecycles
  BY DEF AgentInv, LeasesTyped, Context!NoLease, KeptLifecycles
<1>2. life # "NONE"
  OBVIOUS
<1> QED  BY <1>1, <1>2, KeptFields DEF Context!NoLease

LEMMA LeaseStepKeeps ==
  ASSUME AgentInv, LeaseStep
  PROVE  AgentInv'
<1> USE DEF AgentInv, LeasesTyped, EndedIsKnown
<1>1. CASE Rests
  BY <1>1 DEF Rests
<1>2. CASE Context!Retire
  BY <1>2 DEF Context!Retire, Context!NoLease
<1>3. ASSUME NEW a \in Agents, NEW c \in Context!Candidates, c.side \notin ended, OpensLease(a, c)
      PROVE  AgentInv'
  <2>1. LeasesTyped'
    BY <1>3, CandidateFields DEF OpensLease
  <2>2. \A b \in Agents : held'[b] \in {Context!NoLease, current'} \/ held'[b].side \in ended'
    BY <1>3 DEF OpensLease
  <2>3. /\ ended' \subseteq used' /\ current'.lifecycle = "ACTIVE"
        /\ current'.side \in used' /\ current'.side \notin ended'
    BY <1>3, CandidateFields DEF OpensLease
  <2> QED  BY <2>1, <2>2, <2>3
<1>4. ASSUME NEW a \in Agents, NEW c \in Context!Candidates, c.side \notin ended, Replaces(a, c)
      PROVE  AgentInv'
  <2>1. LeasesTyped'
    BY <1>4, CandidateFields DEF Replaces
  <2>2. \A b \in Agents : held'[b] \in {Context!NoLease, current'} \/ held'[b].side \in ended'
    BY <1>4 DEF Replaces
  <2>3. current # Context!NoLease
    BY <1>4 DEF Replaces, Context!NoLease
  <2>4. /\ ended' \subseteq used' /\ current'.lifecycle = "ACTIVE"
        /\ current'.side \in used' /\ current'.side \notin ended'
    BY <1>4, <2>3, CandidateFields DEF Replaces
  <2> QED  BY <2>1, <2>2, <2>4
<1>5. ASSUME NEW a \in Agents, NEW life \in {"CLOSED", "INVALIDATED"}, Ends(a, life)
      PROVE  AgentInv'
  <2>1. /\ current' \in KeptLeases /\ current'.side = current.side
        /\ current'.lifecycle = life /\ current # Context!NoLease
    BY <1>5, EndedLease DEF Ends, Context!NoLease
  <2>2. held' \in [Agents -> {Context!NoLease} \cup Context!Candidates]
    BY <1>5 DEF Ends
  <2>3. \A b \in Agents : held'[b] \in {Context!NoLease, current} \/ held'[b].side \in ended
    BY <1>5 DEF Ends
  <2>4. \A b \in Agents : held'[b] = Context!NoLease \/ held'[b].side \in ended'
    BY <1>5, <2>3 DEF Ends
  <2>5. ended' \subseteq used' /\ current'.side \in used' /\ current'.side \in ended'
    BY <1>5, <2>1 DEF Ends
  <2> QED  BY <2>1, <2>2, <2>4, <2>5
<1> QED  BY <1>1, <1>2, <1>3, <1>4, <1>5 DEF LeaseStep

LEMMA AgentInvariance ==
  ASSUME FreshIds
  PROVE  Context!Spec => []AgentInv
<1>1. AgentInv /\ [Context!Next]_(Context!vars) => AgentInv'
  BY StepIs, LeaseStepKeeps
<1> QED  BY <1>1, AgentInit, PTL DEF Context!Spec

-----------------------------------------------------------------------------
(* A lease changes hands only through the one that holds it: an agent whose *)
(* lease was replaced, closed or invalidated under it may neither go on     *)
(* with nor correct, leave or close the one that came after; and a switch   *)
(* leaves no branch or receipt of the first ticket to the second.           *)
THEOREM LeasesKeepHands ==
  ASSUME FreshIds
  PROVE  Context!Spec => LeasesChangeHands
<1>1. AgentInv => Context!TypeOK
  <2> SUFFICES ASSUME AgentInv PROVE Context!TypeOK
    OBVIOUS
  <2>1. \/ current = Context!NoLease
        \/ Context!WithLifecycle(current, "ACTIVE") \in Context!Candidates
    BY KeptFields DEF AgentInv, LeasesTyped, KeptLifecycles
  <2> QED  BY <2>1 DEF Context!TypeOK, AgentInv, LeasesTyped, EndedIsKnown
<1>2. AgentInv /\ [Context!Next]_(Context!vars) =>
        [\A a \in Agents :
           (/\ last' # last
            /\ last'.agent = a
            /\ last'.operation # "OPEN") => held[a] = current]_(Context!vars)
  <2> SUFFICES ASSUME AgentInv, [Context!Next]_(Context!vars), NEW a \in Agents,
                      last' # last, last'.agent = a, last'.operation # "OPEN"
               PROVE  held[a] = current
    OBVIOUS
  <2>1. LeaseStep
    BY StepIs
  <2> QED  BY <2>1 DEF LeaseStep, Rests, Context!Retire, OpensLease, Replaces, Ends
<1>3. AgentInv /\ [Context!Next]_(Context!vars) =>
        [(/\ current.lifecycle = "ACTIVE"
          /\ current'.lifecycle = "ACTIVE"
          /\ current.lane.ticket # current'.lane.ticket)
         => /\ current.lane.branch # current'.lane.branch
            /\ current.lane.receipt # current'.lane.receipt
            /\ current'.invalidates = current.side]_(Context!vars)
  <2> SUFFICES ASSUME AgentInv, [Context!Next]_(Context!vars), current.lifecycle = "ACTIVE",
                      current'.lifecycle = "ACTIVE",
                      current.lane.ticket # current'.lane.ticket
               PROVE  /\ current.lane.branch # current'.lane.branch
                      /\ current.lane.receipt # current'.lane.receipt
                      /\ current'.invalidates = current.side
    OBVIOUS
  <2>1. LeaseStep
    BY StepIs
  <2>2. ~Rests /\ ~Context!Retire
    BY DEF Rests, Context!Retire
  <2>3. ASSUME NEW a \in Agents, NEW c \in Context!Candidates PROVE ~OpensLease(a, c)
    BY DEF OpensLease, Context!NoLease
  <2>4. ASSUME NEW a \in Agents, NEW life \in {"CLOSED", "INVALIDATED"} PROVE ~Ends(a, life)
    BY EndedLease DEF Ends
  <2>5. PICK a \in Agents, c \in Context!Candidates : Replaces(a, c)
    BY <2>1, <2>2, <2>3, <2>4 DEF LeaseStep
  <2>6. current' = c /\ c.lane # current.lane /\ c.invalidates = current.side
    BY <2>5 DEF Replaces
  <2> QED  BY <2>5, <2>6 DEF Replaces, Context!SameSwitchBinding
<1>4. Context!Spec => []Context!TypeOK
  BY <1>1, AgentInvariance, PTL
<1>5. Context!Spec => Context!HoldersActOnCurrent
  BY <1>2, AgentInvariance, PTL DEF Context!Spec, Context!HoldersActOnCurrent
<1>6. Context!Spec => Context!SwitchesAreClean
  BY <1>3, AgentInvariance, PTL DEF Context!Spec, Context!SwitchesAreClean
<1> QED  BY <1>4, <1>5, <1>6 DEF LeasesChangeHands, Context!LeasesChangeHands

-----------------------------------------------------------------------------
(* The refinement of WorkingView. *)
LEMMA ViewStep ==
  ASSUME AgentInv, AgentInv', LeaseStep
  PROVE  [Context!Views!Next]_<<Context!Working, current # Context!NoLease, ended>>
<1>1. CASE Rests
  BY <1>1 DEF Rests, Context!Working
<1>2. CASE Context!Retire
  <2>1. /\ current.lifecycle # "ACTIVE" /\ current # Context!NoLease /\ current' = Context!NoLease
        /\ ended' = ended /\ current'.lifecycle # "ACTIVE"
    BY <1>2 DEF Context!Retire, Context!NoLease
  <2> QED  BY <2>1 DEF Context!Views!Next, Context!Views!PutAway, Context!Working
<1>3. ASSUME NEW a \in Agents, NEW c \in Context!Candidates, c.side \notin ended, OpensLease(a, c)
      PROVE  Context!Views!Start
  <2>1. /\ current = Context!NoLease /\ current' = c /\ c # Context!NoLease /\ ended' = ended
        /\ c.lifecycle = "ACTIVE" /\ c.side \in SideContexts
    BY <1>3, CandidateFields DEF OpensLease
  <2>2. Context!Working' = c.side
    BY <2>1 DEF Context!Working
  <2> QED  BY <1>3, <2>1, <2>2 DEF Context!Views!Start
<1>4. ASSUME NEW a \in Agents, NEW c \in Context!Candidates, c.side \notin ended, Replaces(a, c)
      PROVE  Context!Views!Replace
  <2>1. current \in Context!Candidates
    BY <1>4, EndedLease DEF Replaces
  <2>2. /\ current' = c /\ c # Context!NoLease /\ ended' = ended \cup {current.side}
        /\ c.lifecycle = "ACTIVE" /\ c.side \in SideContexts /\ c.side # current.side
        /\ current # Context!NoLease /\ current.side # None
    BY <1>4, <2>1, CandidateFields DEF Replaces
  <2>3. Context!Working = current.side /\ Context!Working' = c.side
    BY <1>4, <2>2 DEF Context!Working, Replaces
  <2> QED  BY <1>4, <2>2, <2>3 DEF Context!Views!Replace
<1>5. ASSUME NEW a \in Agents, NEW life \in {"CLOSED", "INVALIDATED"}, Ends(a, life)
      PROVE  Context!Views!End
  <2>1. /\ current \in Context!Candidates
        /\ current' # Context!NoLease /\ current'.lifecycle # "ACTIVE"
        /\ ended' = ended \cup {current.side}
    BY <1>5, EndedLease DEF Ends
  <2>2. current # Context!NoLease /\ current.side # None
    BY <2>1, CandidateFields
  <2>3. Context!Working = current.side /\ Context!Working' = None
    BY <1>5, <2>1 DEF Context!Working, Ends
  <2> QED  BY <2>1, <2>2, <2>3 DEF Context!Views!End
<1> QED  BY <1>1, <1>2, <1>3, <1>4, <1>5 DEF LeaseStep, Context!Views!Next

(* One working view at a time, and none that ended works again, whatever    *)
(* the agents that still hold an old lease ask for and in whatever order.   *)
THEOREM ViewsStayEnded ==
  ASSUME FreshIds
  PROVE  Context!Spec => ViewsEndForGood
<1>1. Context!Init => Context!Views!Init
  BY DEF Context!Init, Context!Views!Init, Context!Working, Context!NoLease
<1>2. AgentInv /\ AgentInv' /\ [Context!Next]_(Context!vars) =>
        [Context!Views!Next]_<<Context!Working, current # Context!NoLease, ended>>
  BY StepIs, ViewStep
<1> QED  BY <1>1, <1>2, AgentInvariance, PTL DEF Context!Spec, ViewsEndForGood,
    Context!ViewsEndForGood, Context!Views!Spec, Context!Views!vars

-----------------------------------------------------------------------------
(* Side by side, the router, the approval round and the agents behave as    *)
(* each does alone: what holds of one holds of the composition, of the      *)
(* agents where the host gives out fresh side contexts.                     *)
THEOREM RoutingIsSafe ==
  MCSpec => /\ []QuestionsAgree /\ KeepsDesk /\ []RoundIsSound /\ LastWordCounts
            /\ FreshIds => ViewsEndForGood /\ LeasesChangeHands
<1>1. MCInit => Init /\ Round!Init /\ Context!Init
  BY DEF MCInit
<1>2. [MCNext]_<<moving, vars, roundVars, contextVars>> =>
        [Next]_vars /\ [Round!Next]_(Round!vars) /\ [Context!Next]_(Context!vars)
  BY DEF MCNext, roundVars, contextVars, Round!vars, Context!vars
<1>3. MCSpec => Spec /\ Round!Spec /\ Context!Spec
  BY <1>1, <1>2, PTL DEF MCSpec, Spec, Round!Spec, Context!Spec
<1>4. FreshIds => (Context!Spec => ViewsEndForGood /\ LeasesChangeHands)
  BY ViewsStayEnded, LeasesKeepHands
<1> QED  BY <1>3, <1>4, QuestionsAlwaysAgree, RouterKeepsDesk, RoundsAreSound,
            LastWordAlwaysCounts

=============================================================================
