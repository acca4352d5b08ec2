------------------------ MODULE ProjectLifecycleProofs ------------------------
(***************************************************************************)
(* Theorems about ProjectLifecycle, for any tickets, owners, terms,        *)
(* registry and ceiling, and for any executor, obedient or not.            *)
(***************************************************************************)
EXTENDS ProjectLifecycle, FiniteSetTheorems, TLAPS

AskKind == "TICKET_DISPATCH_REQUIRED"
ConfirmKind == "IMPLEMENTATION_DISPATCH_CONFIRMED"
PlanningStages == {"INTAKE", "WAYFINDER", "ARCHITECTURE", "GRILL", "CONTEXT", "SPEC"}
BuildingStages == {"IMPLEMENT", "SMOKE_TEST"}

-----------------------------------------------------------------------------
(* The transition table by what its rules do to a gate. *)

(* A rule that goes on without a receipt. *)
GoesOnBy(r) ==
  /\ r.human = FALSE /\ r.receipt = FALSE /\ r.outcome \in {"ADVANCE", "RETRY"}
  /\ r.event \notin {AskKind, ConfirmKind}
  /\ \/ r.stage \in PlanningStages \ {"SPEC"} /\ r.next \in PlanningStages \ {"INTAKE"}
     \/ /\ r.stage = "SPEC" /\ r.event = "APPROVAL_GRANTED" /\ r.next = "TICKETS"
        /\ r.authority = {"APPROVED"}
     \/ /\ r.stage = "GRILL" /\ r.event = "AUDIT_COMPLETED" /\ r.next = "REVIEW"
        /\ r.authority = {"APPROVED"}
     \/ r.stage \in BuildingStages /\ r.next \in BuildingStages
     \/ r.stage = "SMOKE_TEST" /\ r.next = "REVIEW"
     \/ r.stage = "REVIEW" /\ r.next = "HANDOFF"
     \/ r.stage = "IMPLEMENT" /\ r.next = "GRILL"

WaitsBy(r) == r.human = TRUE /\ r.receipt = FALSE /\ r.outcome = "SUSPEND" /\ r.next = "none"

StopsBy(r) ==
  /\ r.human = FALSE /\ r.receipt = FALSE /\ r.outcome = "STOP" /\ r.next = "STOPPED"
  /\ \/ r.stage = "WAYFINDER" /\ r.event = "WAYFINDER_NO_GO"
     \/ r.stage = "HANDOFF" /\ r.event = "ACTION_COMPLETED"

DispatchesBy(r) ==
  /\ r.human = FALSE /\ r.receipt = TRUE /\ r.outcome = "ADVANCE"
  /\ r.stage = "TICKETS" /\ r.event = ConfirmKind /\ r.next = "GRILL"

LEMMA DiscoveryTable ==
  ASSUME NEW r \in DiscoveryRules
  PROVE  GoesOnBy(r) \/ WaitsBy(r) \/ StopsBy(r)
BY DEF DiscoveryRules, Rule, Advance, Accepting, AskHuman, GoesOnBy, WaitsBy, StopsBy,
       PlanningStages, AskKind, ConfirmKind

LEMMA SpecificationTable ==
  ASSUME NEW r \in SpecificationRules
  PROVE  GoesOnBy(r) \/ WaitsBy(r) \/ DispatchesBy(r)
BY DEF SpecificationRules, Rule, Advance, Accepting, Approved, AskHuman, GoesOnBy, WaitsBy,
       DispatchesBy, AskKind, ConfirmKind

LEMMA DeliveryTable ==
  ASSUME NEW r \in DeliveryRules
  PROVE  GoesOnBy(r) \/ StopsBy(r)
BY DEF DeliveryRules, Rule, Advance, Accepting, Approved, GoesOnBy, StopsBy,
       PlanningStages, BuildingStages, AskKind, ConfirmKind

LEMMA RuleTable ==
  ASSUME NEW r \in Rules
  PROVE  GoesOnBy(r) \/ WaitsBy(r) \/ StopsBy(r) \/ DispatchesBy(r)
BY DiscoveryTable, SpecificationTable, DeliveryTable DEF Rules

(* Only a finished specification lets an approval be expected, and only a   *)
(* dispatch question a confirmation.                                        *)
LEMMA ReturnsExpected ==
  ASSUME NEW r \in Rules
  PROVE  /\ ExpectedReturns(r) \subseteq EventKinds
         /\ "APPROVAL_GRANTED" \in ExpectedReturns(r)
              => r.stage = "SPEC" /\ r.event = "ACTION_COMPLETED"
         /\ ConfirmKind \in ExpectedReturns(r) => r.event = AskKind
<1>1. ExpectedReturns(r) \subseteq EventKinds
  BY DEF ExpectedReturns, EventKinds
<1>2. "APPROVAL_GRANTED" \in ExpectedReturns(r)
        => r.stage = "SPEC" /\ r.event = "ACTION_COMPLETED"
  BY DEF ExpectedReturns
<1>3. ConfirmKind \in ExpectedReturns(r) => r.event = AskKind
  BY DEF ExpectedReturns, ConfirmKind, AskKind
<1> QED BY <1>1, <1>2, <1>3

-----------------------------------------------------------------------------
(* The four kinds of decisions, by what a lane and its gates see of them. *)

(* The moves that are no gate of the workflow. *)
FreeMove(from, to) ==
  \/ from \in PlanningStages /\ to \in PlanningStages \ {"INTAKE"}
  \/ from \in BuildingStages /\ to \in BuildingStages

GatedMove(s, e, to) ==
  \/ s.stage = "SPEC" /\ e.kind = "APPROVAL_GRANTED" /\ s.authority = "APPROVED" /\ to = "TICKETS"
  \/ s.stage = "GRILL" /\ e.kind = "AUDIT_COMPLETED" /\ s.authority = "APPROVED" /\ to = "REVIEW"
  \/ s.stage = "SMOKE_TEST" /\ to = "REVIEW"
  \/ s.stage = "REVIEW" /\ to = "HANDOFF"
  \/ s.stage = "IMPLEMENT" /\ to = "GRILL"

ExpectsNoHuman(d) ==
  d.expected \subseteq EventKinds \ {"APPROVAL_GRANTED", ConfirmKind}

Moving(s, e, d) ==
  /\ d.continuation = "AUTO_CONTINUE" /\ d.outcome \in {"ADVANCE", "RETRY"}
  /\ d.pending = None /\ d.lane = None
  /\ ExpectsNoHuman(d)
  /\ FreeMove(s.stage, d.next) \/ GatedMove(s, e, d.next)

Dispatching(s, e, d) ==
  /\ d.continuation = "AUTO_CONTINUE" /\ d.outcome \in {"ADVANCE", "RETRY"}
  /\ d.pending = None
  /\ s.stage = "TICKETS" /\ e.kind = ConfirmKind
  /\ e.receipt # None /\ e.confirmation = "POSITIVE"
  /\ d.lane = e.receipt /\ d.next = "GRILL"
  /\ ExpectsNoHuman(d)

Asking(s, e, d) ==
  /\ d.continuation = "WAIT_FOR_HUMAN" /\ d.outcome = "SUSPEND" /\ d.next = "none"
  /\ d.lane = None
  /\ d.pending = None \/ (e.kind = AskKind /\ d.pending = Question(e))
  /\ d.expected \subseteq EventKinds
  /\ "APPROVAL_GRANTED" \in d.expected => s.stage = "SPEC"
  /\ ConfirmKind \in d.expected => e.kind = AskKind

Stopping(s, e, d) ==
  /\ d.continuation = "HALT" /\ d.outcome = "STOP" /\ d.next = "STOPPED"
  /\ d.pending = None /\ d.lane = None
  /\ \/ s.stage = "WAYFINDER" /\ e.kind = "WAYFINDER_NO_GO"
     \/ s.stage = "HANDOFF" /\ e.kind = "ACTION_COMPLETED"

LEMMA DecideFollows ==
  ASSUME NEW s, NEW e, Decide(s, e) # Halted
  PROVE  \E r \in Rules : /\ r.stage = s.stage /\ r.event = e.kind
                          /\ Admits(r, s, e) /\ Decide(s, e) = DecideBy(r, s, e)
<1> DEFINE admitting == {r \in RulesFor(s.stage, e.kind) : Admits(r, s, e)}
<1>1. admitting # {}
  BY DEF Decide
<1>2. (CHOOSE r \in admitting : TRUE) \in admitting
  BY <1>1
<1>3. Decide(s, e) = DecideBy(CHOOSE r \in admitting : TRUE, s, e)
  BY <1>1 DEF Decide
<1> HIDE DEF admitting
<1>4. \E r \in admitting : Decide(s, e) = DecideBy(r, s, e)
  BY <1>2, <1>3
<1> QED BY <1>4 DEF admitting, RulesFor

LEMMA FollowFields ==
  ASSUME NEW r
  PROVE  /\ Follow(r).outcome = r.outcome /\ Follow(r).next = r.next
         /\ Follow(r).pending = None /\ Follow(r).lane = None
         /\ Follow(r).expected = ExpectedReturns(r)
         /\ r.human = TRUE /\ r.outcome = "SUSPEND"
              => Follow(r).continuation = "WAIT_FOR_HUMAN"
         /\ r.human = FALSE /\ r.outcome \in {"ADVANCE", "RETRY"}
              => Follow(r).continuation = "AUTO_CONTINUE"
         /\ r.human = FALSE /\ r.outcome \notin {"ADVANCE", "RETRY"}
              => Follow(r).continuation = "HALT"
BY DEF Follow

LEMMA Decided ==
  ASSUME NEW s, NEW e, NEW d, d = Decide(s, e)
  PROVE  \/ d = Halted \/ Moving(s, e, d) \/ Dispatching(s, e, d)
         \/ Asking(s, e, d) \/ Stopping(s, e, d)
<1> SUFFICES ASSUME d # Halted
             PROVE  \/ Moving(s, e, d) \/ Dispatching(s, e, d)
                    \/ Asking(s, e, d) \/ Stopping(s, e, d)
  OBVIOUS
<1>1. PICK r \in Rules : /\ r.stage = s.stage /\ r.event = e.kind
                         /\ Admits(r, s, e) /\ d = DecideBy(r, s, e)
  BY DecideFollows
<1>2. s.authority \in r.authority /\ (r.receipt => ReceiptPresented(s, e))
  BY <1>1 DEF Admits
<1>3. CASE GoesOnBy(r)
  <2>1. d = Follow(r)
    BY <1>1, <1>3 DEF GoesOnBy, DecideBy, AskKind
  <2>2. ExpectsNoHuman(d)
    BY <1>3, <2>1, FollowFields, ReturnsExpected DEF ExpectsNoHuman, GoesOnBy, BuildingStages
  <2>3. FreeMove(s.stage, d.next) \/ GatedMove(s, e, d.next)
    BY <1>1, <1>2, <1>3, <2>1, FollowFields DEF GoesOnBy, FreeMove, GatedMove
  <2> QED BY <1>3, <2>1, <2>2, <2>3, FollowFields DEF Moving, GoesOnBy
<1>4. CASE WaitsBy(r)
  <2>1. d = Follow(r) \/ (e.kind = AskKind /\ d = [Follow(r) EXCEPT !.pending = Question(e)])
    BY <1>1, <1>4 DEF WaitsBy, DecideBy, AskKind
  <2>2. /\ d.continuation = Follow(r).continuation /\ d.outcome = Follow(r).outcome
        /\ d.next = Follow(r).next /\ d.lane = Follow(r).lane
        /\ d.expected = Follow(r).expected
        /\ d.pending = Follow(r).pending \/ (e.kind = AskKind /\ d.pending = Question(e))
    BY <2>1 DEF Follow
  <2> QED BY <1>1, <1>4, <2>2, FollowFields, ReturnsExpected DEF Asking, WaitsBy
<1>5. CASE StopsBy(r)
  <2>1. d = Follow(r)
    BY <1>1, <1>5 DEF StopsBy, DecideBy, AskKind
  <2> QED BY <1>1, <1>5, <2>1, FollowFields DEF Stopping, StopsBy
<1>6. CASE DispatchesBy(r)
  <2>1. d = [Follow(r) EXCEPT !.lane = e.receipt]
    BY <1>1, <1>6 DEF DispatchesBy, DecideBy, AskKind, ConfirmKind
  <2>2. /\ d.continuation = Follow(r).continuation /\ d.outcome = Follow(r).outcome
        /\ d.next = Follow(r).next /\ d.pending = Follow(r).pending
        /\ d.expected = Follow(r).expected
        /\ d.lane = e.receipt
    BY <2>1 DEF Follow
  <2>3. ExpectsNoHuman(d)
    BY <1>6, <2>2, FollowFields, ReturnsExpected
       DEF ExpectsNoHuman, DispatchesBy, AskKind, ConfirmKind
  <2> QED BY <1>1, <1>2, <1>6, <2>2, <2>3, FollowFields
          DEF Dispatching, DispatchesBy, ReceiptPresented
<1> QED BY <1>3, <1>4, <1>5, <1>6, RuleTable

LEMMA ValidDecided ==
  ASSUME NEW s, NEW e, NEW d, d = Decide(s, e)
  PROVE  /\ ValidDecision(d)
         /\ d.expected \subseteq EventKinds
         /\ d.continuation \in {"AUTO_CONTINUE", "WAIT_FOR_HUMAN", "HALT"}
<1>1. CASE d = Halted
  BY <1>1 DEF Halted, ValidDecision
<1>2. CASE Moving(s, e, d) \/ Dispatching(s, e, d)
  <2>1. d.next \in Granted
    BY <1>2 DEF Moving, Dispatching, FreeMove, GatedMove, Granted, PlanningStages,
                BuildingStages
  <2> QED BY <1>2, <2>1 DEF Moving, Dispatching, ValidDecision, ExpectsNoHuman
<1>3. CASE Asking(s, e, d)
  BY <1>3 DEF Asking, ValidDecision
<1>4. CASE Stopping(s, e, d)
  <2>1. d # Halted
    BY <1>4 DEF Stopping, Halted
  <2>2. PICK r \in Rules : d = DecideBy(r, s, e)
    BY <2>1, DecideFollows
  <2>3. d.expected \subseteq EventKinds
    BY <2>1, <2>2, ReturnsExpected DEF DecideBy, Follow
  <2> QED BY <1>4, <2>3 DEF Stopping, ValidDecision
<1> QED BY <1>1, <1>2, <1>3, <1>4, Decided

-----------------------------------------------------------------------------
(* The inductive invariant. *)

IsAsk(e) == \E t \in Tickets : e = AskEvent(t)

IsConfirmation(e) ==
  \E p \in Dispatches({Question1}), answer \in {"POSITIVE", "NEGATIVE"} :
    /\ e = [PlainEvent(ConfirmKind) EXCEPT !.receipt = p, !.confirmation = answer]
    /\ answer = "POSITIVE" => p.ticket \in confirmed

IsPlain(e) == e.kind # AskKind /\ e.receipt = None

(* What a lane may be routing: its executor's events, and what people gave  *)
(* it, which the gates know of.  Only the planning lane asks for dispatches *)
(* and has them confirmed.                                                  *)
RequestsEarned ==
  \A l \in Lanes : mode[l] = "routing" =>
    /\ event[l].kind \in EventKinds
    /\ IsPlain(event[l]) \/ (l = Planning /\ (IsAsk(event[l]) \/ IsConfirmation(event[l])))
    /\ authority[l] = "APPROVED" =>
         /\ event[l].kind = "APPROVAL_GRANTED" => l \in approved
         /\ event[l].kind = "AUDIT_COMPLETED" => l \in audited

(* An approval is expected of a finished specification only. *)
ExpectationsStand ==
  \A l \in Lanes :
    /\ "APPROVAL_GRANTED" \in expected[l] => stage[l] = "SPEC"
    /\ ConfirmKind \in expected[l] => l = Planning

(* A delivered lane rests for good; what is being built has no audit yet.   *)
LanesRest ==
  \A l \in Lanes :
    /\ stage[l] = "STOPPED" => mode[l] = "halted"
    /\ stage[l] \in BuildingStages => l \notin audited
    /\ mode[l] = "granted" => steps[l] < MaxAutoSteps

QuestionsNamed == \A t \in Tickets : pending[t] # None => pending[t].ticket = t

LifecycleInv ==
  /\ TypeOK /\ DOMAIN event = Lanes /\ DOMAIN decision = Lanes
  /\ RequestsEarned /\ ExpectationsStand /\ LanesRest /\ QuestionsNamed

LEMMA InitInv == Init => LifecycleInv
<1> SUFFICES ASSUME Init PROVE LifecycleInv
  OBVIOUS
<1>1. ValidDecision(Halted)
  BY DEF Halted, ValidDecision
<1>2. TypeOK
  BY <1>1, LifecycleAssumption DEF Init, TypeOK, Stages, Modes, Authorities
<1>3. RequestsEarned /\ ExpectationsStand /\ LanesRest /\ QuestionsNamed
  BY DEF Init, RequestsEarned, ExpectationsStand, LanesRest, QuestionsNamed, BuildingStages
<1> QED BY <1>2, <1>3 DEF Init, LifecycleInv

-----------------------------------------------------------------------------
(* The requests that begin a run or come back from an executor. *)

LEMMA EventsShape ==
  ASSUME NEW l \in Lanes, NEW kind \in EventKinds, NEW e \in EventsOf(l, kind)
  PROVE  /\ e.kind = kind
         /\ IsPlain(e) \/ (l = Planning /\ IsAsk(e))
<1>1. CASE kind = AskKind
  BY <1>1 DEF EventsOf, AskKind, IsAsk, AskEvent, PlainEvent
<1>2. CASE kind # AskKind
  <2>1. \/ \E r \in {"COMPLETED", "BLOCKED"} : e = [PlainEvent(kind) EXCEPT !.returned = r]
        \/ \E a \in Actions \cup {"none"} : e = [PlainEvent(kind) EXCEPT !.evidence = a]
        \/ e = PlainEvent(kind)
    BY <1>2 DEF EventsOf, AskKind
  <2>2. e.kind = kind /\ e.receipt = None
    BY <2>1 DEF PlainEvent
  <2> QED BY <1>2, <2>2 DEF IsPlain
<1> QED BY <1>1, <1>2

LEMMA ReturnedShape ==
  ASSUME TypeOK, NEW l \in Lanes, NEW e \in Returned(l)
  PROVE  /\ e.kind \in EventKinds
         /\ IsPlain(e) \/ (l = Planning /\ IsAsk(e))
<1>1. \E kind \in EventKinds : e \in EventsOf(l, kind)
  BY DEF Returned, TypeOK
<1> QED BY <1>1, EventsShape

(* The gates are opened by people while a run begins, and stay open. *)
GatesGrow ==
  /\ approved \subseteq approved' /\ approved' \subseteq Lanes
  /\ confirmed \subseteq confirmed' /\ confirmed' \subseteq Tickets
  /\ audited \subseteq audited' /\ audited' \subseteq Lanes
  /\ \A l \in Lanes : l \in audited' /\ l \notin audited => stage[l] \notin BuildingStages

LEMMA BeginKeeps ==
  ASSUME LifecycleInv, NEW l \in Lanes, NEW e, NEW a \in Authorities, Begin(l, e, a),
         e.kind \in EventKinds,
         \/ IsPlain(e)
         \/ l = Planning /\ (IsAsk(e) \/ IsConfirmation(e)'),
         a = "APPROVED" /\ e.kind = "APPROVAL_GRANTED" => l \in approved',
         a = "APPROVED" /\ e.kind = "AUDIT_COMPLETED" => l \in audited',
         GatesGrow
  PROVE  LifecycleInv'
<1>1. /\ mode' = [mode EXCEPT ![l] = "routing"] /\ steps' = [steps EXCEPT ![l] = 0]
      /\ event' = [event EXCEPT ![l] = e] /\ authority' = [authority EXCEPT ![l] = a]
      /\ UNCHANGED <<stage, decision, expected, pending>>
      /\ stage[l] \notin {"none", "STOPPED"}
  BY DEF Begin
<1>2. TypeOK /\ DOMAIN event = Lanes /\ DOMAIN decision = Lanes
  BY DEF LifecycleInv
<1>3. TypeOK'
  <2>1. steps' \in [Lanes -> 0..MaxAutoSteps]
    BY <1>1, <1>2, LifecycleAssumption DEF TypeOK
  <2>2. mode' \in [Lanes -> Modes] /\ authority' \in [Lanes -> Authorities]
    BY <1>1, <1>2 DEF TypeOK, Modes
  <2>3. \A k \in Lanes : event'[k] # None => event'[k].kind \in EventKinds
    BY <1>1, <1>2 DEF TypeOK
  <2>4. \A k \in Lanes : ValidDecision(decision'[k])
    BY <1>1, <1>2 DEF TypeOK
  <2> QED BY <1>1, <1>2, <2>1, <2>2, <2>3, <2>4 DEF TypeOK, GatesGrow
<1>4. RequestsEarned'
  <2> SUFFICES ASSUME NEW k \in Lanes, mode'[k] = "routing"
               PROVE  /\ event'[k].kind \in EventKinds
                      /\ \/ IsPlain(event'[k])
                         \/ k = Planning /\ (IsAsk(event'[k]) \/ IsConfirmation(event[k])')
                      /\ authority'[k] = "APPROVED" =>
                           /\ event'[k].kind = "APPROVAL_GRANTED" => k \in approved'
                           /\ event'[k].kind = "AUDIT_COMPLETED" => k \in audited'
    BY DEF RequestsEarned, IsPlain, IsAsk
  <2>1. CASE k = l
    <3>1. event'[k] = e /\ authority'[k] = a
      BY <1>1, <1>2, <2>1 DEF TypeOK
    <3> QED BY <2>1, <3>1 DEF IsConfirmation
  <2>2. CASE k # l
    <3>1. event'[k] = event[k] /\ authority'[k] = authority[k] /\ mode[k] = "routing"
      BY <1>1, <1>2, <2>2 DEF TypeOK
    <3>2. IsConfirmation(event[k]) => IsConfirmation(event[k])'
      BY <3>1 DEF IsConfirmation, GatesGrow
    <3> QED BY <3>1, <3>2 DEF LifecycleInv, RequestsEarned, GatesGrow
  <2> QED BY <2>1, <2>2
<1>5. ExpectationsStand' /\ QuestionsNamed'
  BY <1>1 DEF LifecycleInv, ExpectationsStand, QuestionsNamed
<1>6. LanesRest'
  BY <1>1, <1>2 DEF LifecycleInv, LanesRest, TypeOK, GatesGrow
<1> QED BY <1>1, <1>2, <1>3, <1>4, <1>5, <1>6 DEF LifecycleInv

-----------------------------------------------------------------------------
(* What a gate sees of the lanes: a phase changes with the stage alone, but *)
(* for the event a stopped lane keeps.                                      *)
PhaseMap == [l \in Lanes |-> Phase(l)]
GateVars == <<PhaseMap, approved, confirmed, audited>>

LEMMA PhaseKept ==
  ASSUME NEW l \in Lanes, stage'[l] = stage[l],
         stage[l] = "STOPPED" => event'[l] = event[l]
  PROVE  Phase(l)' = Phase(l)
BY DEF Phase

LEMMA BeginPhases ==
  ASSUME LifecycleInv, NEW l \in Lanes, NEW e, NEW a, Begin(l, e, a)
  PROVE  PhaseMap' = PhaseMap
<1>1. /\ stage' = stage /\ event' = [event EXCEPT ![l] = e] /\ stage[l] # "STOPPED"
      /\ DOMAIN event = Lanes
  BY DEF Begin, LifecycleInv
<1>2. \A k \in Lanes : Phase(k)' = Phase(k)
  BY <1>1, PhaseKept
<1> QED BY <1>2 DEF PhaseMap

(* A run that begins without a human's gate. *)
LEMMA BeginUngated ==
  ASSUME LifecycleInv, NEW l \in Lanes, NEW e, NEW a \in Authorities, Begin(l, e, a),
         UNCHANGED gates, e.kind \in EventKinds,
         IsPlain(e) \/ (l = Planning /\ (IsAsk(e) \/ IsConfirmation(e))),
         a = "APPROVED" => e.kind \notin {"APPROVAL_GRANTED", "AUDIT_COMPLETED"}
  PROVE  LifecycleInv' /\ UNCHANGED GateVars
<1>1. GatesGrow
  BY DEF gates, GatesGrow, LifecycleInv, TypeOK
<1>2. IsConfirmation(e) => IsConfirmation(e)'
  BY DEF gates, IsConfirmation
<1>3. LifecycleInv'
  BY <1>1, <1>2, BeginKeeps
<1> QED BY <1>3, BeginPhases DEF gates, GateVars

LEMMA PlainShape ==
  ASSUME NEW kind \in EventKinds, kind # AskKind
  PROVE  PlainEvent(kind).kind = kind /\ IsPlain(PlainEvent(kind))
BY DEF PlainEvent, IsPlain

LEMMA StartStep ==
  ASSUME LifecycleInv, StartProject
  PROVE  LifecycleInv' /\ UNCHANGED GateVars
<1>1. IsPlain(PlainEvent("INTAKE")) /\ PlainEvent("INTAKE").kind = "INTAKE"
  BY PlainShape DEF EventKinds, AskKind
<1>2. Planning \in Lanes /\ "INTAKE" \in EventKinds /\ "NOT_REQUIRED" \in Authorities
  BY DEF Lanes, EventKinds, Authorities
<1>3. Begin(Planning, PlainEvent("INTAKE"), "NOT_REQUIRED") /\ UNCHANGED gates
  BY DEF StartProject
<1> QED BY <1>1, <1>2, <1>3, BeginUngated

LEMMA WorkStep ==
  ASSUME LifecycleInv, NEW t \in Tickets, WorkTicket(t)
  PROVE  LifecycleInv' /\ UNCHANGED GateVars
<1>1. PICK e \in Worked : Begin(t, e, "NOT_REQUIRED")
  BY DEF WorkTicket
<1>2. IsPlain(e) /\ e.kind \in EventKinds
  <2>1. CASE e \in EventsOf(Planning, "IMPLEMENTATION_RETURNED")
    <3>1. "IMPLEMENTATION_RETURNED" \in EventKinds /\ "IMPLEMENTATION_RETURNED" # AskKind
      BY DEF EventKinds, AskKind
    <3>2. \E r \in {"COMPLETED", "BLOCKED"} :
             e = [PlainEvent("IMPLEMENTATION_RETURNED") EXCEPT !.returned = r]
      BY <2>1 DEF EventsOf
    <3>3. e.kind = "IMPLEMENTATION_RETURNED" /\ e.receipt = None
      BY <3>2 DEF PlainEvent
    <3> QED BY <3>1, <3>3 DEF IsPlain
  <2>2. CASE e \in {PlainEvent("ACTION_COMPLETED"), PlainEvent("REQUIREMENT_CHANGED")}
    BY <2>2, PlainShape DEF EventKinds, AskKind
  <2> QED BY <2>1, <2>2 DEF Worked
<1>3. t \in Lanes /\ "NOT_REQUIRED" \in Authorities /\ UNCHANGED gates
  BY DEF Lanes, Authorities, WorkTicket
<1> QED BY <1>1, <1>2, <1>3, BeginUngated

(* The answers that open no gate. *)
LEMMA AnswerStep ==
  ASSUME LifecycleInv, NEW l \in Lanes,
         OwnerAnswers(l) \/ DenySpecification(l) \/ AnnounceIntegration(l)
  PROVE  LifecycleInv' /\ UNCHANGED GateVars
<1>1. PICK kind \in {"OWNER_INPUT_PROVIDED", "APPROVAL_DENIED", "INTEGRATION_COMPLETED"},
           a \in {"NOT_REQUIRED", "DENIED"} :
        Begin(l, PlainEvent(kind), a)
  BY DEF OwnerAnswers, DenySpecification, AnnounceIntegration
<1>2. UNCHANGED gates
  BY DEF OwnerAnswers, DenySpecification, AnnounceIntegration
<1>3. kind \in EventKinds /\ kind # AskKind /\ a \in Authorities /\ a # "APPROVED"
  BY DEF EventKinds, AskKind, Authorities
<1> QED BY <1>1, <1>2, <1>3, PlainShape, BeginUngated

LEMMA ResumeStep ==
  ASSUME LifecycleInv, NEW l \in Lanes, Resume(l) \/ AskAgain(l)
  PROVE  LifecycleInv' /\ UNCHANGED GateVars
<1>1. PICK e : /\ Begin(l, e, "NOT_REQUIRED")
               /\ e \in Returned(l) \/ e \in EventsOf(l, AskKind)
  BY DEF Resume, AskAgain, AskKind
<1>2. e.kind \in EventKinds /\ (IsPlain(e) \/ (l = Planning /\ IsAsk(e)))
  <2>1. AskKind \in EventKinds
    BY DEF AskKind, EventKinds
  <2> QED BY <1>1, <2>1, EventsShape, ReturnedShape DEF LifecycleInv
<1>3. "NOT_REQUIRED" \in Authorities /\ UNCHANGED gates
  BY DEF Authorities, Resume, AskAgain
<1> QED BY <1>1, <1>2, <1>3, BeginUngated

LEMMA ConfirmationShape ==
  ASSUME LifecycleInv, NEW t \in Tickets, pending[t] # None,
         NEW answer \in {"POSITIVE", "NEGATIVE"}
  PROVE  /\ pending[t] \in Dispatches({Question1}) /\ pending[t].ticket = t
         /\ ConfirmEvent(t, answer) =
              [PlainEvent(ConfirmKind) EXCEPT !.receipt = pending[t], !.confirmation = answer]
         /\ ConfirmEvent(t, answer).kind = ConfirmKind
         /\ ConfirmKind \in EventKinds
BY DEF LifecycleInv, TypeOK, QuestionsNamed, ConfirmEvent, ConfirmKind, PlainEvent, EventKinds

LEMMA RefuseStep ==
  ASSUME LifecycleInv, NEW l \in Lanes, NEW t \in Tickets, RefuseDispatch(l, t)
  PROVE  LifecycleInv' /\ UNCHANGED GateVars
<1>1. /\ Begin(l, ConfirmEvent(t, "NEGATIVE"), "APPROVED") /\ UNCHANGED gates
      /\ pending[t] # None /\ l = Planning
  BY DEF RefuseDispatch, Waits, LifecycleInv, ExpectationsStand, ConfirmKind
<1>2. IsConfirmation(ConfirmEvent(t, "NEGATIVE"))
  BY <1>1, ConfirmationShape DEF IsConfirmation
<1>3. /\ ConfirmEvent(t, "NEGATIVE").kind = ConfirmKind /\ ConfirmKind \in EventKinds
      /\ ConfirmKind \notin {"APPROVAL_GRANTED", "AUDIT_COMPLETED"}
      /\ "APPROVED" \in Authorities
  BY <1>1, ConfirmationShape DEF ConfirmKind, Authorities
<1> QED BY <1>1, <1>2, <1>3, BeginUngated

LEMMA ConfirmStep ==
  ASSUME LifecycleInv, NEW l \in Lanes, NEW t \in Tickets, ConfirmDispatch(l, t)
  PROVE  LifecycleInv' /\ Gates!Confirm(t)
<1>1. /\ Begin(l, ConfirmEvent(t, "POSITIVE"), "APPROVED")
      /\ confirmed' = confirmed \cup {t} /\ UNCHANGED <<approved, audited>>
      /\ pending[t] # None /\ l = Planning
  BY DEF ConfirmDispatch, Waits, LifecycleInv, ExpectationsStand, ConfirmKind
<1>2. GatesGrow
  BY <1>1 DEF GatesGrow, LifecycleInv, TypeOK
<1>3. /\ ConfirmEvent(t, "POSITIVE").kind = ConfirmKind /\ ConfirmKind \in EventKinds
      /\ ConfirmKind \notin {"APPROVAL_GRANTED", "AUDIT_COMPLETED"}
      /\ "APPROVED" \in Authorities
  BY <1>1, ConfirmationShape DEF ConfirmKind, Authorities
<1>4. LifecycleInv'
  <2>1. PICK e : e = ConfirmEvent(t, "POSITIVE")
    OBVIOUS
  <2>2. IsConfirmation(e)'
    <3>1. \E p \in Dispatches({Question1}) :
             /\ e = [PlainEvent(ConfirmKind) EXCEPT !.receipt = p, !.confirmation = "POSITIVE"]
             /\ p.ticket \in confirmed'
      BY <1>1, <2>1, ConfirmationShape
    <3> QED BY <3>1 DEF IsConfirmation
  <2> QED BY <1>1, <1>2, <1>3, <2>1, <2>2, BeginKeeps
<1> QED BY <1>1, <1>4, BeginPhases DEF Gates!Confirm, PhaseMap

LEMMA ApproveStep ==
  ASSUME LifecycleInv, NEW l \in Lanes, ApproveSpecification(l)
  PROVE  LifecycleInv' /\ Gates!Approve(l)
<1>1. /\ Begin(l, PlainEvent("APPROVAL_GRANTED"), "APPROVED")
      /\ approved' = approved \cup {l} /\ UNCHANGED <<confirmed, audited>>
      /\ stage[l] = "SPEC"
  BY DEF ApproveSpecification, Waits, LifecycleInv, ExpectationsStand
<1>2. /\ PlainEvent("APPROVAL_GRANTED").kind = "APPROVAL_GRANTED"
      /\ IsPlain(PlainEvent("APPROVAL_GRANTED")) /\ "APPROVAL_GRANTED" \in EventKinds
      /\ "APPROVED" \in Authorities
  BY PlainShape DEF EventKinds, AskKind, Authorities
<1>3. GatesGrow
  BY <1>1 DEF GatesGrow, LifecycleInv, TypeOK
<1>4. LifecycleInv'
  BY <1>1, <1>2, <1>3, BeginKeeps
<1>5. PhaseMap[l] = "planning"
  BY <1>1 DEF PhaseMap, Phase
<1> QED BY <1>1, <1>4, <1>5, BeginPhases DEF Gates!Approve, PhaseMap

LEMMA AuditStep ==
  ASSUME LifecycleInv, NEW l \in Lanes, ApproveAudit(l)
  PROVE  LifecycleInv' /\ Gates!Audit(l)
<1>1. /\ Begin(l, PlainEvent("AUDIT_COMPLETED"), "APPROVED")
      /\ audited' = audited \cup {l} /\ UNCHANGED <<approved, confirmed>>
      /\ stage[l] = "GRILL"
  BY DEF ApproveAudit
<1>2. /\ PlainEvent("AUDIT_COMPLETED").kind = "AUDIT_COMPLETED"
      /\ IsPlain(PlainEvent("AUDIT_COMPLETED")) /\ "AUDIT_COMPLETED" \in EventKinds
      /\ "APPROVED" \in Authorities
  BY PlainShape DEF EventKinds, AskKind, Authorities
<1>3. GatesGrow
  BY <1>1 DEF GatesGrow, LifecycleInv, TypeOK, BuildingStages
<1>4. LifecycleInv'
  BY <1>1, <1>2, <1>3, BeginKeeps
<1>5. PhaseMap[l] = "planning"
  BY <1>1 DEF PhaseMap, Phase
<1> QED BY <1>1, <1>4, <1>5, BeginPhases DEF Gates!Audit, PhaseMap

-----------------------------------------------------------------------------
LEMMA ExecuteStep ==
  ASSUME LifecycleInv, NEW l \in Lanes, Execute(l)
  PROVE  LifecycleInv' /\ UNCHANGED GateVars
<1>1. /\ mode[l] = "granted" /\ UNCHANGED <<stage, decision, expected, pending, gates>>
      /\ TypeOK /\ DOMAIN event = Lanes /\ DOMAIN decision = Lanes
      /\ stage[l] # "STOPPED" /\ steps[l] < MaxAutoSteps
  BY DEF Execute, LifecycleInv, LanesRest
<1>2. ExpectationsStand' /\ QuestionsNamed'
  BY <1>1 DEF LifecycleInv, ExpectationsStand, QuestionsNamed
<1>3. CASE mode' = [mode EXCEPT ![l] = "halted"] /\ UNCHANGED <<steps, event, authority>>
  <2>1. TypeOK'
    BY <1>1, <1>3 DEF TypeOK, Modes, gates
  <2>2. RequestsEarned'
    BY <1>1, <1>3 DEF LifecycleInv, RequestsEarned, IsPlain, IsAsk, IsConfirmation, TypeOK, gates
  <2>3. LanesRest'
    BY <1>1, <1>3 DEF LifecycleInv, LanesRest, TypeOK, gates
  <2>4. PhaseMap' = PhaseMap
    BY <1>1, <1>3, PhaseKept DEF PhaseMap
  <2> QED BY <1>1, <1>2, <1>3, <2>1, <2>2, <2>3, <2>4 DEF LifecycleInv, GateVars, gates
<1>4. CASE /\ \E e \in Returned(l) : event' = [event EXCEPT ![l] = e]
           /\ mode' = [mode EXCEPT ![l] = "routing"]
           /\ steps' = [steps EXCEPT ![l] = @ + 1]
           /\ authority' = [authority EXCEPT ![l] = "NOT_REQUIRED"]
  <2>1. PICK e \in Returned(l) : event' = [event EXCEPT ![l] = e]
    BY <1>4
  <2>2. e.kind \in EventKinds /\ (IsPlain(e) \/ (l = Planning /\ IsAsk(e)))
    BY <1>1, ReturnedShape
  <2>3. TypeOK'
    <3>1. steps' \in [Lanes -> 0..MaxAutoSteps]
      <4>1. steps[l] + 1 \in 0..MaxAutoSteps
        BY <1>1, LifecycleAssumption DEF TypeOK
      <4> QED BY <1>1, <1>4, <4>1 DEF TypeOK
    <3>2. mode' \in [Lanes -> Modes] /\ authority' \in [Lanes -> Authorities]
      BY <1>1, <1>4 DEF TypeOK, Modes, Authorities
    <3>3. \A k \in Lanes : event'[k] # None => event'[k].kind \in EventKinds
      BY <1>1, <2>1, <2>2 DEF TypeOK
    <3>4. \A k \in Lanes : ValidDecision(decision'[k])
      BY <1>1 DEF TypeOK
    <3> QED BY <1>1, <3>1, <3>2, <3>3, <3>4 DEF TypeOK, gates
  <2>4. RequestsEarned'
    <3> SUFFICES ASSUME NEW k \in Lanes, mode'[k] = "routing"
                 PROVE  /\ event'[k].kind \in EventKinds
                        /\ \/ IsPlain(event'[k])
                           \/ k = Planning /\ (IsAsk(event'[k]) \/ IsConfirmation(event[k])')
                        /\ authority'[k] = "APPROVED" =>
                             /\ event'[k].kind = "APPROVAL_GRANTED" => k \in approved'
                             /\ event'[k].kind = "AUDIT_COMPLETED" => k \in audited'
      BY DEF RequestsEarned, IsPlain, IsAsk
    <3>1. CASE k = l
      <4>1. event'[k] = e /\ authority'[k] = "NOT_REQUIRED"
        BY <1>1, <1>4, <2>1, <3>1 DEF TypeOK
      <4> QED BY <2>2, <3>1, <4>1
    <3>2. CASE k # l
      <4>1. event'[k] = event[k] /\ authority'[k] = authority[k] /\ mode[k] = "routing"
        BY <1>1, <1>4, <2>1, <3>2 DEF TypeOK
      <4>2. IsConfirmation(event[k]) => IsConfirmation(event[k])'
        BY <1>1, <4>1 DEF IsConfirmation, gates
      <4> QED BY <1>1, <4>1, <4>2 DEF LifecycleInv, RequestsEarned, gates
    <3> QED BY <3>1, <3>2
  <2>5. LanesRest'
    BY <1>1, <1>4 DEF LifecycleInv, LanesRest, TypeOK, gates
  <2>6. PhaseMap' = PhaseMap
    BY <1>1, <2>1, PhaseKept DEF PhaseMap
  <2> QED BY <1>1, <1>2, <2>1, <2>3, <2>4, <2>5, <2>6 DEF LifecycleInv, GateVars, gates
<1> QED BY <1>3, <1>4 DEF Execute

-----------------------------------------------------------------------------
(* One round of the loop.  The lane leaves routing, and the lanes that go   *)
(* on routing keep what their requests rest on.                             *)
OthersRoute(l) ==
  /\ mode'[l] # "routing"
  /\ \A k \in Lanes \ {l} : mode'[k] = "routing" =>
       /\ mode[k] = "routing" /\ event'[k] = event[k] /\ authority'[k] = authority[k]
       /\ k \in approved => k \in approved'
       /\ k \in audited => k \in audited'
  /\ confirmed' = confirmed \/ l = Planning

LEMMA OthersKeep ==
  ASSUME LifecycleInv, NEW l \in Lanes, OthersRoute(l)
  PROVE  RequestsEarned'
<1> SUFFICES ASSUME NEW k \in Lanes, mode'[k] = "routing"
             PROVE  /\ event'[k].kind \in EventKinds
                    /\ \/ IsPlain(event'[k])
                       \/ k = Planning /\ (IsAsk(event'[k]) \/ IsConfirmation(event[k])')
                    /\ authority'[k] = "APPROVED" =>
                         /\ event'[k].kind = "APPROVAL_GRANTED" => k \in approved'
                         /\ event'[k].kind = "AUDIT_COMPLETED" => k \in audited'
  BY DEF RequestsEarned, IsPlain, IsAsk
<1>1. k # l
  BY DEF OthersRoute
<1>2. /\ mode[k] = "routing" /\ event'[k] = event[k] /\ authority'[k] = authority[k]
      /\ k \in approved => k \in approved'
      /\ k \in audited => k \in audited'
  BY <1>1 DEF OthersRoute
<1>3. k = Planning => confirmed' = confirmed
  BY <1>1 DEF OthersRoute
<1>4. k = Planning /\ IsConfirmation(event[k]) => IsConfirmation(event[k])'
  BY <1>2, <1>3 DEF IsConfirmation
<1> QED BY <1>2, <1>4 DEF LifecycleInv, RequestsEarned

LEMMA StateFields ==
  ASSUME NEW l \in Lanes, NEW s, s = StateOf(l)
  PROVE  s.stage = stage[l] /\ s.authority = authority[l]
BY DEF StateOf, PlainState

LEMMA RouteDecides ==
  ASSUME LifecycleInv, NEW l \in Lanes, Route(l)
  PROVE  \E s, d :
           /\ s.stage = stage[l] /\ s.authority = authority[l]
           /\ d = Decide(s, event[l])
           /\ decision' = [decision EXCEPT ![l] = d]
           /\ GoOn(l, d) \/ Wait(l, d) \/ Halt(l, d)
<1>1. PICK d : /\ d = Decide(StateOf(l), event[l])
               /\ decision' = [decision EXCEPT ![l] = d]
               /\ GoOn(l, d) \/ Wait(l, d) \/ Halt(l, d)
  BY DEF Route
<1>2. PICK s : s = StateOf(l)
  OBVIOUS
<1>3. s.stage = stage[l] /\ s.authority = authority[l]
  BY <1>2, StateFields
<1> QED BY <1>1, <1>2, <1>3

(* What every round leaves as it is, or keeps well typed. *)
LEMMA RouteFrame ==
  ASSUME LifecycleInv, NEW l \in Lanes, Route(l), NEW s, NEW d,
         d = Decide(s, event[l]), decision' = [decision EXCEPT ![l] = d]
  PROVE  /\ mode[l] = "routing" /\ stage[l] # "STOPPED"
         /\ UNCHANGED <<steps, authority>>
         /\ DOMAIN decision' = Lanes
         /\ \A k \in Lanes : ValidDecision(decision'[k])
         /\ d.expected \subseteq EventKinds
<1>1. mode[l] = "routing" /\ UNCHANGED <<steps, authority>>
  BY DEF Route
<1>2. ValidDecision(d) /\ d.expected \subseteq EventKinds
  BY ValidDecided
<1>3. DOMAIN decision = Lanes /\ \A k \in Lanes : ValidDecision(decision[k])
  BY DEF LifecycleInv, TypeOK
<1>4. DOMAIN decision' = Lanes /\ \A k \in Lanes : ValidDecision(decision'[k])
  BY <1>2, <1>3
<1> QED BY <1>1, <1>2, <1>4 DEF LifecycleInv, LanesRest

LEMMA CeilingStep ==
  ASSUME LifecycleInv, NEW l \in Lanes, Route(l), NEW s, NEW d,
         d = Decide(s, event[l]), decision' = [decision EXCEPT ![l] = d],
         mode' = [mode EXCEPT ![l] = "halted"], Forget(l),
         UNCHANGED <<stage, expected, gates, pending>>
  PROVE  LifecycleInv' /\ UNCHANGED GateVars
<1>1. /\ mode[l] = "routing" /\ stage[l] # "STOPPED" /\ UNCHANGED <<steps, authority>>
      /\ DOMAIN decision' = Lanes /\ \A k \in Lanes : ValidDecision(decision'[k])
  BY RouteFrame
<1>2. TypeOK /\ DOMAIN event = Lanes /\ event' = [event EXCEPT ![l] = None]
  BY DEF LifecycleInv, Forget
<1>3. TypeOK'
  BY <1>1, <1>2 DEF TypeOK, Modes, gates
<1>4. OthersRoute(l)
  BY <1>1, <1>2 DEF OthersRoute, TypeOK, gates
<1>5. ExpectationsStand' /\ QuestionsNamed'
  BY DEF LifecycleInv, ExpectationsStand, QuestionsNamed
<1>6. LanesRest'
  BY <1>1, <1>2 DEF LifecycleInv, LanesRest, TypeOK, gates
<1>7. PhaseMap' = PhaseMap
  BY <1>1, <1>2, PhaseKept DEF PhaseMap
<1> QED BY <1>1, <1>2, <1>3, <1>4, <1>5, <1>6, <1>7, OthersKeep
        DEF LifecycleInv, GateVars, gates

(* The question a waiting lane opens is one the planning lane asked. *)
LEMMA AskedQuestion ==
  ASSUME LifecycleInv, NEW l \in Lanes, mode[l] = "routing", event[l].kind = AskKind
  PROVE  l = Planning /\ Question(event[l]) \in Dispatches({Question1})
<1>1. ~IsPlain(event[l])
  BY DEF IsPlain
<1>2. ~IsConfirmation(event[l])
  BY DEF IsConfirmation, PlainEvent, ConfirmKind, AskKind
<1>3. l = Planning /\ IsAsk(event[l])
  BY <1>1, <1>2 DEF LifecycleInv, RequestsEarned
<1>4. PICK t \in Tickets : event[l] = AskEvent(t)
  BY <1>3 DEF IsAsk
<1>5. /\ event[l].proposal = [ticket |-> t, question |-> Question1, owner |-> PlannedOwner,
                              opened |-> TRUE]
      /\ event[l].handoff = [ticket |-> t, owner |-> PlannedOwner, terms |-> TheTerms]
      /\ event[l].id = Question1
  BY <1>4 DEF AskEvent, PlainEvent
<1> QED BY <1>3, <1>5, EngineAssumption, LifecycleAssumption DEF Question, Dispatches

LEMMA WaitStep ==
  ASSUME LifecycleInv, NEW l \in Lanes, Route(l), NEW s, NEW d,
         s.stage = stage[l], d = Decide(s, event[l]),
         decision' = [decision EXCEPT ![l] = d], Wait(l, d)
  PROVE  LifecycleInv' /\ UNCHANGED GateVars
<1>1. /\ mode[l] = "routing" /\ stage[l] # "STOPPED" /\ UNCHANGED <<steps, authority>>
      /\ DOMAIN decision' = Lanes /\ \A k \in Lanes : ValidDecision(decision'[k])
      /\ d.expected \subseteq EventKinds
  BY RouteFrame
<1>2. /\ TypeOK /\ DOMAIN event = Lanes /\ event' = [event EXCEPT ![l] = None]
      /\ mode' = [mode EXCEPT ![l] = "waiting"]
      /\ expected' = [expected EXCEPT ![l] = d.expected]
      /\ UNCHANGED <<stage, gates>>
  BY DEF LifecycleInv, Forget, Wait
<1>3. Asking(s, event[l], d)
  BY Decided DEF Wait, Halted, Moving, Dispatching, Stopping
<1>4. \/ pending' = pending
      \/ \E p \in Dispatches({Question1}) : pending' = [pending EXCEPT ![p.ticket] = p]
  BY <1>1, <1>3, AskedQuestion DEF Wait, Asking
<1>5. pending' \in [Tickets -> Dispatches({Question1}) \cup {None}] /\ QuestionsNamed'
  <2>1. CASE pending' = pending
    BY <1>2, <2>1 DEF TypeOK, LifecycleInv, QuestionsNamed
  <2>2. CASE pending' # pending
    <3>1. PICK p \in Dispatches({Question1}) : pending' = [pending EXCEPT ![p.ticket] = p]
      BY <1>4, <2>2
    <3>2. p.ticket \in Tickets
      BY DEF Dispatches
    <3> QED BY <1>2, <3>1, <3>2 DEF TypeOK, LifecycleInv, QuestionsNamed
  <2> QED BY <2>1, <2>2
<1>6. TypeOK'
  BY <1>1, <1>2, <1>5 DEF TypeOK, Modes, gates
<1>7. OthersRoute(l)
  BY <1>1, <1>2 DEF OthersRoute, TypeOK, gates
<1>8. ExpectationsStand'
  <2>1. ConfirmKind \in d.expected => l = Planning
    BY <1>1, <1>3, AskedQuestion DEF Asking
  <2> QED BY <1>2, <1>3, <2>1 DEF Asking, LifecycleInv, ExpectationsStand, TypeOK
<1>9. LanesRest'
  BY <1>1, <1>2 DEF LifecycleInv, LanesRest, TypeOK, gates
<1>10. PhaseMap' = PhaseMap
  BY <1>1, <1>2, PhaseKept DEF PhaseMap
<1> QED BY <1>1, <1>2, <1>5, <1>6, <1>7, <1>8, <1>9, <1>10, OthersKeep
        DEF LifecycleInv, GateVars, gates

LEMMA HaltStep ==
  ASSUME LifecycleInv, NEW l \in Lanes, Route(l), NEW s, NEW d,
         s.stage = stage[l], d = Decide(s, event[l]),
         decision' = [decision EXCEPT ![l] = d], Halt(l, d)
  PROVE  /\ LifecycleInv'
         /\ \/ UNCHANGED GateVars
            \/ Gates!Moves(l, "planning", "abandoned")
            \/ Gates!Moves(l, "delivering", "delivered")
<1>1. /\ mode[l] = "routing" /\ stage[l] # "STOPPED" /\ UNCHANGED <<steps, authority>>
      /\ DOMAIN decision' = Lanes /\ \A k \in Lanes : ValidDecision(decision'[k])
  BY RouteFrame
<1>2. /\ TypeOK /\ DOMAIN event = Lanes
      /\ mode' = [mode EXCEPT ![l] = "halted"]
      /\ stage' = IF d.outcome = "STOP" THEN [stage EXCEPT ![l] = "STOPPED"] ELSE stage
      /\ event' = IF d.outcome = "STOP" THEN event ELSE [event EXCEPT ![l] = None]
      /\ UNCHANGED <<expected, gates>>
  BY DEF LifecycleInv, Forget, Halt
<1>3. pending' \in [Tickets -> Dispatches({Question1}) \cup {None}] /\ QuestionsNamed'
  <2>1. pending' = pending \/ \E t : pending' = [pending EXCEPT ![t] = None]
    BY DEF Halt
  <2> QED BY <1>2, <2>1 DEF TypeOK, LifecycleInv, QuestionsNamed
<1>4. stage' \in [Lanes -> Stages \cup {"none"}]
  BY <1>2 DEF TypeOK, Stages
<1>5. TypeOK'
  BY <1>1, <1>2, <1>3, <1>4 DEF TypeOK, Modes, gates
<1>6. OthersRoute(l)
  BY <1>1, <1>2 DEF OthersRoute, TypeOK, gates
<1>7. LanesRest'
  BY <1>1, <1>2 DEF LifecycleInv, LanesRest, TypeOK, gates, BuildingStages
<1>8. CASE d.outcome # "STOP"
  <2>1. ExpectationsStand'
    BY <1>2, <1>8 DEF LifecycleInv, ExpectationsStand
  <2>2. PhaseMap' = PhaseMap
    BY <1>1, <1>2, <1>8, PhaseKept DEF PhaseMap
  <2> QED BY <1>1, <1>2, <1>3, <1>5, <1>6, <1>7, <1>8, <2>1, <2>2, OthersKeep
          DEF LifecycleInv, GateVars, gates
<1>9. CASE d.outcome = "STOP"
  <2>1. Stopping(s, event[l], d)
    BY <1>9, Decided DEF Halted, Moving, Dispatching, Asking
  <2>2. \/ stage[l] = "WAYFINDER" /\ event[l].kind = "WAYFINDER_NO_GO"
        \/ stage[l] = "HANDOFF" /\ event[l].kind = "ACTION_COMPLETED"
    BY <2>1 DEF Stopping
  <2>3. stage' = [stage EXCEPT ![l] = "STOPPED"] /\ event' = event
    BY <1>2, <1>9
  <2>4. ExpectationsStand'
    BY <1>2, <2>2, <2>3 DEF LifecycleInv, ExpectationsStand, TypeOK
  <2>5. \A k \in Lanes \ {l} : Phase(k)' = Phase(k)
    BY <1>2, <2>3, PhaseKept DEF TypeOK
  <2>6. stage'[l] = "STOPPED" /\ event'[l] = event[l]
    BY <1>2, <2>3 DEF TypeOK
  <2>7. CASE stage[l] = "WAYFINDER"
    <3>1. Phase(l) = "planning" /\ Phase(l)' = "abandoned"
      BY <2>2, <2>6, <2>7 DEF Phase
    <3>2. PhaseMap' = [PhaseMap EXCEPT ![l] = "abandoned"] /\ PhaseMap[l] = "planning"
      BY <2>5, <3>1 DEF PhaseMap
    <3> QED BY <1>1, <1>2, <1>3, <1>5, <1>6, <1>7, <1>9, <2>3, <2>4, <3>2, OthersKeep
            DEF LifecycleInv, Gates!Moves, PhaseMap, gates
  <2>8. CASE stage[l] = "HANDOFF"
    <3>1. Phase(l) = "delivering" /\ Phase(l)' = "delivered"
      BY <2>2, <2>6, <2>8 DEF Phase
    <3>2. PhaseMap' = [PhaseMap EXCEPT ![l] = "delivered"] /\ PhaseMap[l] = "delivering"
      BY <2>5, <3>1 DEF PhaseMap
    <3> QED BY <1>1, <1>2, <1>3, <1>5, <1>6, <1>7, <1>9, <2>3, <2>4, <3>2, OthersKeep
            DEF LifecycleInv, Gates!Moves, PhaseMap, gates
  <2> QED BY <2>2, <2>7, <2>8
<1> QED BY <1>8, <1>9

(* A granted move leaves the other lanes as they are ... *)
Granting(l, d) ==
  /\ d.continuation = "AUTO_CONTINUE" /\ steps[l] < MaxAutoSteps /\ Grant(l, d) /\ Forget(l)

LEMMA MovedFrame ==
  ASSUME LifecycleInv, NEW l \in Lanes, NEW d, Granting(l, d), d.lane = None
  PROVE  /\ stage' = [stage EXCEPT ![l] = d.next] /\ mode' = [mode EXCEPT ![l] = "granted"]
         /\ expected' = [expected EXCEPT ![l] = d.expected] /\ pending' = pending
         /\ event' = [event EXCEPT ![l] = None]
         /\ approved' = (IF d.next = "TICKETS" THEN approved \ {l} ELSE approved)
         /\ audited' = (IF d.next = "REVIEW" THEN audited \ {l} ELSE audited)
         /\ confirmed' = confirmed
<1>1. NewLanes(d) = {}
  BY DEF NewLanes
<1>2. /\ DOMAIN stage = Lanes /\ DOMAIN mode = Lanes /\ DOMAIN expected = Lanes
      /\ stage = [k \in Lanes |-> stage[k]] /\ mode = [k \in Lanes |-> mode[k]]
      /\ expected = [k \in Lanes |-> expected[k]] /\ pending = [t \in Tickets |-> pending[t]]
  BY DEF LifecycleInv, TypeOK
<1>3. /\ stage' = [k \in Lanes |-> IF k = l THEN d.next ELSE stage[k]]
      /\ mode' = [k \in Lanes |-> IF k = l THEN "granted" ELSE mode[k]]
      /\ expected' = [k \in Lanes |-> IF k = l THEN d.expected ELSE expected[k]]
      /\ pending' = [t \in Tickets |-> pending[t]]
  BY <1>1 DEF Granting, Grant
<1>4. /\ approved' = (IF d.next = "TICKETS" THEN approved \ {l} ELSE approved)
      /\ audited' = (IF d.next = "REVIEW" THEN audited \ {l} ELSE audited)
      /\ confirmed' = confirmed /\ event' = [event EXCEPT ![l] = None]
  BY <1>1 DEF Granting, Grant, Forget
<1> QED BY <1>2, <1>3, <1>4

(* ... but for the lane of a dispatched ticket, which begins anew. *)
BeginsAnew(l, t, d) ==
  /\ stage' = [stage EXCEPT ![l] = "GRILL", ![t] = "IMPLEMENT"]
  /\ mode' = [mode EXCEPT ![l] = "granted", ![t] = "idle"]
  /\ expected' = [expected EXCEPT ![l] = d.expected, ![t] = {}]
  /\ pending' = [pending EXCEPT ![t] = None]
  /\ event' = [event EXCEPT ![l] = None]
  /\ approved' = approved \ {t} /\ audited' = audited \ {t} /\ confirmed' = confirmed \ {t}

LEMMA DispatchedFrame ==
  ASSUME LifecycleInv, NEW l \in Lanes, NEW d, Granting(l, d),
         d.next = "GRILL", NEW t \in Tickets, t # l, d.lane # None, d.lane.ticket = t
  PROVE  BeginsAnew(l, t, d)
<1>1. NewLanes(d) = {t}
  BY DEF NewLanes
<1>2. /\ DOMAIN stage = Lanes /\ DOMAIN mode = Lanes /\ DOMAIN expected = Lanes
      /\ DOMAIN pending = Tickets
  BY DEF LifecycleInv, TypeOK
<1>3. /\ stage' = [k \in Lanes |-> IF k = t THEN "IMPLEMENT" ELSE IF k = l THEN "GRILL" ELSE stage[k]]
      /\ mode' = [k \in Lanes |-> IF k = t THEN "idle" ELSE IF k = l THEN "granted" ELSE mode[k]]
      /\ expected' = [k \in Lanes |-> IF k = t THEN {} ELSE IF k = l THEN d.expected ELSE expected[k]]
      /\ pending' = [k \in Tickets |-> IF k = t THEN None ELSE pending[k]]
  BY <1>1 DEF Granting, Grant
<1>4. /\ approved' = approved \ {t} /\ audited' = audited \ {t} /\ confirmed' = confirmed \ {t}
      /\ event' = [event EXCEPT ![l] = None]
  BY <1>1 DEF Granting, Grant, Forget
<1>5. t \in Lanes
  BY DEF Lanes
<1> QED BY <1>2, <1>3, <1>4, <1>5 DEF BeginsAnew

LEMMA MoveKeeps ==
  ASSUME LifecycleInv, NEW l \in Lanes, Route(l), NEW s, NEW d,
         s.stage = stage[l], d = Decide(s, event[l]),
         decision' = [decision EXCEPT ![l] = d], Granting(l, d), Moving(s, event[l], d)
  PROVE  LifecycleInv'
<1>1. /\ mode[l] = "routing" /\ stage[l] # "STOPPED" /\ UNCHANGED <<steps, authority>>
      /\ DOMAIN decision' = Lanes /\ \A k \in Lanes : ValidDecision(decision'[k])
      /\ d.expected \subseteq EventKinds
  BY RouteFrame
<1>2. TypeOK /\ DOMAIN event = Lanes
  BY DEF LifecycleInv
<1>3. /\ stage' = [stage EXCEPT ![l] = d.next] /\ mode' = [mode EXCEPT ![l] = "granted"]
      /\ expected' = [expected EXCEPT ![l] = d.expected] /\ pending' = pending
      /\ event' = [event EXCEPT ![l] = None]
      /\ approved' = (IF d.next = "TICKETS" THEN approved \ {l} ELSE approved)
      /\ audited' = (IF d.next = "REVIEW" THEN audited \ {l} ELSE audited)
      /\ confirmed' = confirmed
  BY MovedFrame DEF Moving
<1>4. /\ d.next \in Stages /\ d.next # "STOPPED"
      /\ d.next \in BuildingStages => stage[l] \in BuildingStages
  BY DEF Moving, FreeMove, GatedMove, Stages, PlanningStages, BuildingStages
<1>5. TypeOK'
  <2>1. stage' \in [Lanes -> Stages \cup {"none"}] /\ mode' \in [Lanes -> Modes]
    BY <1>2, <1>3, <1>4 DEF TypeOK, Modes
  <2>2. expected' \in [Lanes -> SUBSET EventKinds]
    BY <1>1, <1>2, <1>3 DEF TypeOK
  <2>3. approved' \subseteq Lanes /\ audited' \subseteq Lanes /\ confirmed' \subseteq Tickets
    BY <1>2, <1>3 DEF TypeOK
  <2>4. \A k \in Lanes : event'[k] # None => event'[k].kind \in EventKinds
    BY <1>2, <1>3 DEF TypeOK
  <2> QED BY <1>1, <1>2, <1>3, <2>1, <2>2, <2>3, <2>4 DEF TypeOK
<1>6. RequestsEarned'
  <2>1. OthersRoute(l)
    BY <1>1, <1>2, <1>3 DEF OthersRoute, TypeOK
  <2> QED BY <2>1, OthersKeep
<1>7. ExpectationsStand' /\ QuestionsNamed'
  BY <1>2, <1>3 DEF Moving, ExpectsNoHuman, LifecycleInv, ExpectationsStand, QuestionsNamed, TypeOK
<1>8. LanesRest'
  <2> SUFFICES ASSUME NEW k \in Lanes
               PROVE  /\ stage'[k] = "STOPPED" => mode'[k] = "halted"
                      /\ stage'[k] \in BuildingStages => k \notin audited'
                      /\ mode'[k] = "granted" => steps'[k] < MaxAutoSteps
    BY DEF LanesRest
  <2>1. /\ stage[k] = "STOPPED" => mode[k] = "halted"
        /\ stage[k] \in BuildingStages => k \notin audited
        /\ mode[k] = "granted" => steps[k] < MaxAutoSteps
    BY DEF LifecycleInv, LanesRest
  <2>2. audited' \subseteq audited
    BY <1>3
  <2>3. CASE k = l
    BY <1>1, <1>2, <1>3, <1>4, <2>1, <2>2, <2>3 DEF TypeOK, Granting
  <2>4. CASE k # l
    BY <1>1, <1>2, <1>3, <2>1, <2>2, <2>4 DEF TypeOK
  <2> QED BY <2>3, <2>4
<1> QED BY <1>1, <1>2, <1>3, <1>5, <1>6, <1>7, <1>8 DEF LifecycleInv

(* A granted move passes a gate that is open, or none. *)
LEMMA MovePasses ==
  ASSUME LifecycleInv, NEW l \in Lanes, mode[l] = "routing", NEW s, NEW d,
         s.stage = stage[l], s.authority = authority[l],
         Granting(l, d), Moving(s, event[l], d)
  PROVE  \/ UNCHANGED GateVars \/ Gates!Plan(l) \/ Gates!CheckAudited(l)
         \/ Gates!Moves(l, "building", "checked") \/ Gates!Moves(l, "checked", "delivering")
         \/ Gates!Moves(l, "building", "planning")
<1>1. /\ stage' = [stage EXCEPT ![l] = d.next] /\ event' = [event EXCEPT ![l] = None]
      /\ approved' = (IF d.next = "TICKETS" THEN approved \ {l} ELSE approved)
      /\ audited' = (IF d.next = "REVIEW" THEN audited \ {l} ELSE audited)
      /\ confirmed' = confirmed
  BY MovedFrame DEF Moving
<1>2. DOMAIN stage = Lanes /\ DOMAIN event = Lanes
  BY DEF LifecycleInv, TypeOK
<1>3. \A k \in Lanes \ {l} : Phase(k)' = Phase(k)
  BY <1>1, <1>2, PhaseKept
<1>4. stage'[l] = d.next
  BY <1>1, <1>2
<1>5. \A p : Phase(l)' = p => PhaseMap' = [PhaseMap EXCEPT ![l] = p]
  BY <1>3 DEF PhaseMap
<1>6. PhaseMap[l] = Phase(l)
  BY DEF PhaseMap
<1>7. CASE FreeMove(stage[l], d.next)
  <2>1. Phase(l)' = Phase(l)
    BY <1>4, <1>7 DEF FreeMove, Phase, PlanningStages, BuildingStages
  <2>2. PhaseMap' = PhaseMap
    BY <1>3, <2>1 DEF PhaseMap
  <2>3. approved' = approved /\ audited' = audited
    BY <1>1, <1>7 DEF FreeMove, PlanningStages, BuildingStages
  <2> QED BY <1>1, <2>2, <2>3 DEF GateVars
<1>8. CASE /\ stage[l] = "SPEC" /\ event[l].kind = "APPROVAL_GRANTED"
           /\ authority[l] = "APPROVED" /\ d.next = "TICKETS"
  <2>1. l \in approved
    BY <1>8 DEF LifecycleInv, RequestsEarned
  <2>2. Phase(l) = "planning" /\ Phase(l)' = "planned"
    BY <1>4, <1>8 DEF Phase
  <2>3. PhaseMap' = [PhaseMap EXCEPT ![l] = "planned"] /\ PhaseMap[l] = "planning"
    BY <1>5, <1>6, <2>2
  <2>4. approved' = approved \ {l} /\ audited' = audited
    BY <1>1, <1>8
  <2> QED BY <1>1, <2>1, <2>3, <2>4 DEF Gates!Plan, PhaseMap
<1>9. CASE /\ stage[l] = "GRILL" /\ event[l].kind = "AUDIT_COMPLETED"
           /\ authority[l] = "APPROVED" /\ d.next = "REVIEW"
  <2>1. l \in audited
    BY <1>9 DEF LifecycleInv, RequestsEarned
  <2>2. Phase(l) = "planning" /\ Phase(l)' = "checked"
    BY <1>4, <1>9 DEF Phase
  <2>3. PhaseMap' = [PhaseMap EXCEPT ![l] = "checked"] /\ PhaseMap[l] = "planning"
    BY <1>5, <1>6, <2>2
  <2>4. approved' = approved /\ audited' = audited \ {l}
    BY <1>1, <1>9
  <2> QED BY <1>1, <2>1, <2>3, <2>4 DEF Gates!CheckAudited, PhaseMap
<1>10. CASE stage[l] = "SMOKE_TEST" /\ d.next = "REVIEW"
  <2>1. l \notin audited
    BY <1>10 DEF LifecycleInv, LanesRest, BuildingStages
  <2>2. Phase(l) = "building" /\ Phase(l)' = "checked"
    BY <1>4, <1>10 DEF Phase
  <2>3. PhaseMap' = [PhaseMap EXCEPT ![l] = "checked"] /\ PhaseMap[l] = "building"
    BY <1>5, <1>6, <2>2
  <2>4. approved' = approved /\ audited' = audited
    BY <1>1, <1>10, <2>1
  <2> QED BY <1>1, <2>3, <2>4 DEF Gates!Moves, PhaseMap
<1>11. CASE stage[l] = "REVIEW" /\ d.next = "HANDOFF"
  <2>2. Phase(l) = "checked" /\ Phase(l)' = "delivering"
    BY <1>4, <1>11 DEF Phase
  <2>3. PhaseMap' = [PhaseMap EXCEPT ![l] = "delivering"] /\ PhaseMap[l] = "checked"
    BY <1>5, <1>6, <2>2
  <2>4. approved' = approved /\ audited' = audited
    BY <1>1, <1>11
  <2> QED BY <1>1, <2>3, <2>4 DEF Gates!Moves, PhaseMap
<1>12. CASE stage[l] = "IMPLEMENT" /\ d.next = "GRILL"
  <2>2. Phase(l) = "building" /\ Phase(l)' = "planning"
    BY <1>4, <1>12 DEF Phase
  <2>3. PhaseMap' = [PhaseMap EXCEPT ![l] = "planning"] /\ PhaseMap[l] = "building"
    BY <1>5, <1>6, <2>2
  <2>4. approved' = approved /\ audited' = audited
    BY <1>1, <1>12
  <2> QED BY <1>1, <2>3, <2>4 DEF Gates!Moves, PhaseMap
<1> QED BY <1>7, <1>8, <1>9, <1>10, <1>11, <1>12 DEF Moving, GatedMove

(* The ticket a granted dispatch is of is one a human confirmed, and not    *)
(* the lane that dispatches it.                                             *)
LEMMA DispatchedTicket ==
  ASSUME LifecycleInv, NEW l \in Lanes, mode[l] = "routing", NEW s, NEW d,
         Dispatching(s, event[l], d)
  PROVE  /\ l = Planning /\ d.lane # None
         /\ d.lane.ticket \in Tickets /\ d.lane.ticket \in confirmed /\ d.lane.ticket # l
<1>1. /\ event[l].kind = ConfirmKind /\ event[l].receipt # None
      /\ event[l].confirmation = "POSITIVE" /\ d.lane = event[l].receipt
  BY DEF Dispatching
<1>2. ~IsPlain(event[l])
  BY <1>1 DEF IsPlain
<1>3. ~IsAsk(event[l])
  BY <1>1 DEF IsAsk, AskEvent, PlainEvent, ConfirmKind
<1>4. l = Planning /\ IsConfirmation(event[l])
  BY <1>2, <1>3 DEF LifecycleInv, RequestsEarned
<1>5. PICK p \in Dispatches({Question1}), answer \in {"POSITIVE", "NEGATIVE"} :
        /\ event[l] = [PlainEvent(ConfirmKind) EXCEPT !.receipt = p, !.confirmation = answer]
        /\ answer = "POSITIVE" => p.ticket \in confirmed
  BY <1>4 DEF IsConfirmation
<1>6. event[l].receipt = p /\ event[l].confirmation = answer
  BY <1>5 DEF PlainEvent
<1>7. p.ticket \in Tickets
  BY DEF Dispatches
<1> QED BY <1>1, <1>4, <1>5, <1>6, <1>7, LifecycleAssumption

LEMMA DispatchStep ==
  ASSUME LifecycleInv, NEW l \in Lanes, Route(l), NEW s, NEW d,
         s.stage = stage[l], d = Decide(s, event[l]),
         decision' = [decision EXCEPT ![l] = d], Granting(l, d), Dispatching(s, event[l], d)
  PROVE  LifecycleInv' /\ \E t \in Tickets : Gates!Dispatch(l, t)
<1>1. /\ mode[l] = "routing" /\ stage[l] = "TICKETS" /\ UNCHANGED <<steps, authority>>
      /\ DOMAIN decision' = Lanes /\ \A k \in Lanes : ValidDecision(decision'[k])
      /\ d.expected \subseteq EventKinds
  BY RouteFrame DEF Dispatching
<1>2. TypeOK /\ DOMAIN event = Lanes
  BY DEF LifecycleInv
<1>3. /\ l = Planning /\ d.lane # None /\ d.lane.ticket \in Tickets
      /\ d.lane.ticket \in confirmed /\ d.lane.ticket # l
  BY <1>1, DispatchedTicket
<1>4. PICK t \in Tickets : t = d.lane.ticket
  BY <1>3
<1>5. t \in confirmed /\ t # l /\ t \in Lanes
  BY <1>3, <1>4 DEF Lanes
<1>6. BeginsAnew(l, t, d)
  <2>1. d.next = "GRILL" /\ d.lane # None /\ d.lane.ticket = t
    BY <1>3, <1>4 DEF Dispatching
  <2> QED BY <1>5, <2>1, DispatchedFrame
<1>7. TypeOK'
  <2>1. stage' \in [Lanes -> Stages \cup {"none"}] /\ mode' \in [Lanes -> Modes]
    BY <1>2, <1>6 DEF BeginsAnew, TypeOK, Modes, Stages
  <2>2. /\ expected' \in [Lanes -> SUBSET EventKinds]
        /\ pending' \in [Tickets -> Dispatches({Question1}) \cup {None}]
    BY <1>1, <1>2, <1>6 DEF BeginsAnew, TypeOK
  <2>3. approved' \subseteq Lanes /\ audited' \subseteq Lanes /\ confirmed' \subseteq Tickets
    BY <1>2, <1>6 DEF BeginsAnew, TypeOK
  <2>4. \A k \in Lanes : event'[k] # None => event'[k].kind \in EventKinds
    BY <1>2, <1>6 DEF BeginsAnew, TypeOK
  <2> QED BY <1>1, <1>2, <2>1, <2>2, <2>3, <2>4 DEF TypeOK
<1>8. RequestsEarned'
  <2>1. OthersRoute(l)
    <3>1. mode'[l] # "routing"
      BY <1>2, <1>5, <1>6 DEF BeginsAnew, TypeOK
    <3>2. ASSUME NEW k \in Lanes \ {l}, mode'[k] = "routing"
          PROVE  /\ mode[k] = "routing" /\ event'[k] = event[k] /\ authority'[k] = authority[k]
                 /\ k \in approved => k \in approved'
                 /\ k \in audited => k \in audited'
      BY <1>1, <1>2, <1>5, <1>6, <3>2 DEF BeginsAnew, TypeOK
    <3> QED BY <1>3, <3>1, <3>2 DEF OthersRoute
  <2> QED BY <2>1, OthersKeep
<1>9. ExpectationsStand' /\ QuestionsNamed'
  <2>1. ExpectationsStand'
    BY <1>2, <1>5, <1>6
       DEF BeginsAnew, Dispatching, ExpectsNoHuman, LifecycleInv, ExpectationsStand, TypeOK
  <2>2. QuestionsNamed'
    BY <1>2, <1>6 DEF BeginsAnew, LifecycleInv, QuestionsNamed, TypeOK
  <2> QED BY <2>1, <2>2
<1>10. LanesRest'
  <2> SUFFICES ASSUME NEW k \in Lanes
               PROVE  /\ stage'[k] = "STOPPED" => mode'[k] = "halted"
                      /\ stage'[k] \in BuildingStages => k \notin audited'
                      /\ mode'[k] = "granted" => steps'[k] < MaxAutoSteps
    BY DEF LanesRest
  <2>1. /\ stage[k] = "STOPPED" => mode[k] = "halted"
        /\ stage[k] \in BuildingStages => k \notin audited
        /\ mode[k] = "granted" => steps[k] < MaxAutoSteps
    BY DEF LifecycleInv, LanesRest
  <2>2. CASE k = t
    BY <1>2, <1>5, <1>6, <2>2 DEF BeginsAnew, TypeOK
  <2>3. CASE k = l
    BY <1>1, <1>2, <1>5, <1>6, <2>3 DEF BeginsAnew, TypeOK, Granting, BuildingStages
  <2>4. CASE k # l /\ k # t
    BY <1>1, <1>2, <1>6, <2>1, <2>4 DEF BeginsAnew, TypeOK
  <2> QED BY <2>2, <2>3, <2>4
<1>11. Gates!Dispatch(l, t)
  <2>1. Phase(l) = "planned" /\ Phase(l)' = "planning" /\ Phase(t)' = "building"
    <3>1. stage'[l] = "GRILL" /\ stage'[t] = "IMPLEMENT"
      BY <1>2, <1>5, <1>6 DEF BeginsAnew, TypeOK
    <3> QED BY <1>1, <3>1 DEF Phase
  <2>2. \A k \in Lanes \ {l, t} : Phase(k)' = Phase(k)
    BY <1>2, <1>6, PhaseKept DEF BeginsAnew, TypeOK
  <2>3. PhaseMap' = [PhaseMap EXCEPT ![l] = "planning", ![t] = "building"]
    BY <1>5, <2>1, <2>2 DEF PhaseMap
  <2> QED BY <1>5, <1>6, <2>1, <2>3 DEF BeginsAnew, Gates!Dispatch, PhaseMap
<1> QED BY <1>1, <1>2, <1>6, <1>7, <1>8, <1>9, <1>10, <1>11 DEF BeginsAnew, LifecycleInv

LEMMA RouteStep ==
  ASSUME LifecycleInv, NEW l \in Lanes, Route(l)
  PROVE  LifecycleInv' /\ (Gates!Next \/ UNCHANGED GateVars)
<1>1. PICK s, d :
        /\ s.stage = stage[l] /\ s.authority = authority[l]
        /\ d = Decide(s, event[l])
        /\ decision' = [decision EXCEPT ![l] = d]
        /\ GoOn(l, d) \/ Wait(l, d) \/ Halt(l, d)
  BY RouteDecides
<1>2. CASE Wait(l, d)
  BY <1>1, <1>2, WaitStep
<1>3. CASE Halt(l, d)
  BY <1>1, <1>3, HaltStep DEF Gates!Next
<1>4. CASE GoOn(l, d)
  <2>1. d.continuation = "AUTO_CONTINUE" /\ Forget(l)
    BY <1>4 DEF GoOn
  <2>2. CASE steps[l] >= MaxAutoSteps
    <3>1. /\ mode' = [mode EXCEPT ![l] = "halted"]
          /\ UNCHANGED <<stage, expected, gates, pending>>
      BY <1>4, <2>2 DEF GoOn
    <3> QED BY <1>1, <2>1, <3>1, CeilingStep
  <2>3. CASE ~(steps[l] >= MaxAutoSteps)
    <3>1. steps[l] < MaxAutoSteps
      BY <2>3, LifecycleAssumption DEF LifecycleInv, TypeOK
    <3>2. Granting(l, d)
      BY <1>4, <2>1, <2>3, <3>1 DEF GoOn, Granting
    <3>3. Moving(s, event[l], d) \/ Dispatching(s, event[l], d)
      BY <1>1, <2>1, Decided DEF Halted, Asking, Stopping
    <3>4. CASE Moving(s, event[l], d)
      <4>1. LifecycleInv'
        BY <1>1, <3>2, <3>4, MoveKeeps
      <4>2. mode[l] = "routing"
        BY DEF Route
      <4> QED BY <1>1, <3>2, <3>4, <4>1, <4>2, MovePasses DEF Gates!Next
    <3>5. CASE Dispatching(s, event[l], d)
      BY <1>1, <3>2, <3>5, DispatchStep DEF Gates!Next
    <3> QED BY <3>3, <3>4, <3>5
  <2> QED BY <2>2, <2>3
<1> QED BY <1>1, <1>2, <1>3, <1>4

-----------------------------------------------------------------------------
LEMMA NextStep ==
  ASSUME LifecycleInv, [Next]_vars
  PROVE  LifecycleInv' /\ (Gates!Next \/ UNCHANGED GateVars)
<1>1. CASE StartProject
  BY <1>1, StartStep
<1>2. ASSUME NEW t \in Tickets, WorkTicket(t)
      PROVE  LifecycleInv' /\ UNCHANGED GateVars
  BY <1>2, WorkStep
<1>3. ASSUME NEW l \in Lanes, Runner(l)
      PROVE  LifecycleInv' /\ (Gates!Next \/ UNCHANGED GateVars)
  BY <1>3, RouteStep, ExecuteStep DEF Runner
<1>4. ASSUME NEW l \in Lanes, People(l)
      PROVE  LifecycleInv' /\ (Gates!Next \/ UNCHANGED GateVars)
  <2>1. CASE OwnerAnswers(l) \/ DenySpecification(l) \/ AnnounceIntegration(l)
    BY <2>1, AnswerStep
  <2>2. CASE Resume(l) \/ AskAgain(l)
    BY <2>2, ResumeStep
  <2>3. CASE ApproveSpecification(l)
    BY <2>3, ApproveStep DEF Gates!Next
  <2>4. CASE ApproveAudit(l)
    BY <2>4, AuditStep DEF Gates!Next
  <2>5. ASSUME NEW t \in Tickets, ConfirmDispatch(l, t)
        PROVE  LifecycleInv' /\ Gates!Next
    BY <2>5, ConfirmStep DEF Gates!Next
  <2>6. ASSUME NEW t \in Tickets, RefuseDispatch(l, t)
        PROVE  LifecycleInv' /\ UNCHANGED GateVars
    BY <2>6, RefuseStep
  <2> QED BY <1>4, <2>1, <2>2, <2>3, <2>4, <2>5, <2>6 DEF People
<1>5. CASE UNCHANGED vars
  <2>1. PhaseMap' = PhaseMap
    BY <1>5 DEF vars, PhaseMap, Phase
  <2>2. LifecycleInv'
    BY <1>5 DEF vars, LifecycleInv, TypeOK, RequestsEarned, IsPlain, IsAsk, IsConfirmation,
                ExpectationsStand, LanesRest, QuestionsNamed
  <2> QED BY <1>5, <2>1, <2>2 DEF vars, GateVars
<1> QED BY <1>1, <1>2, <1>3, <1>4, <1>5 DEF Next

(* Every decision is valid by its own contract and by those of the response *)
(* and the plan made from it, no run passes its ceiling, and what a lane     *)
(* routes is an event of the profile, whatever executor is behind the        *)
(* runner: the state half of RoutesWhatItExpects.                           *)
THEOREM LifecycleTypeCorrect == Spec => []TypeOK
<1>1. Init => LifecycleInv
  BY InitInv
<1>2. LifecycleInv /\ [Next]_vars => LifecycleInv'
  BY NextStep
<1>3. LifecycleInv => TypeOK
  BY DEF LifecycleInv
<1> QED BY <1>1, <1>2, <1>3, PTL DEF Spec

(* KeepsGates for any number of tickets, any registry and any executor: no  *)
(* event an executor can return moves a lane past a gate a human or an       *)
(* auditor has not opened, and each approval, confirmation and audit opens  *)
(* it once.                                                                 *)
THEOREM LifecycleKeepsGates == Spec => KeepsGates
<1>1. Init => LifecycleInv /\ Gates!Init
  <2>1. Init => PhaseMap = [l \in Lanes |-> IF l = Planning THEN "planning" ELSE "none"]
    BY DEF Init, PhaseMap, Phase
  <2> QED BY <2>1, InitInv DEF Init, Gates!Init, PhaseMap
<1>2. LifecycleInv /\ [Next]_vars
        => LifecycleInv' /\ [Gates!Next]_<<[l \in Lanes |-> Phase(l)], approved, confirmed, audited>>
  BY NextStep DEF GateVars, PhaseMap
<1> QED BY <1>1, <1>2, PTL DEF Spec, KeepsGates, Gates!Spec

-----------------------------------------------------------------------------
(* An executor that returns what is expected, for registered tickets.      *)

Served(from, kind) == \E r \in Rules : r.stage = from /\ r.event = kind

LEMMA DiscoveryServes ==
  /\ Served("INTAKE", "INTAKE")
  /\ \A kind \in {"WAYFINDER_GO", "WAYFINDER_NO_GO", "WAYFINDER_INFO_REQUIRED",
                  "OWNER_INPUT_PROVIDED"} : Served("WAYFINDER", kind)
  /\ \A from \in {"ARCHITECTURE", "GRILL", "CONTEXT"} : Served(from, "ACTION_COMPLETED")
<1>1. \A r \in DiscoveryRules : Served(r.stage, r.event)
  BY DEF Served, Rules
<1> QED BY <1>1 DEF DiscoveryRules, Rule, Advance, Accepting, AskHuman

LEMMA SpecificationServes ==
  /\ Served("SPEC", "ACTION_COMPLETED") /\ Served("SPEC", "APPROVAL_GRANTED")
  /\ Served("TICKETS", AskKind) /\ Served("TICKETS", ConfirmKind)
<1>1. \A r \in SpecificationRules : Served(r.stage, r.event)
  BY DEF Served, Rules
<1> QED BY <1>1
        DEF SpecificationRules, Rule, Advance, Accepting, Approved, AskHuman, AskKind, ConfirmKind

LEMMA DeliveryServes ==
  /\ \A kind \in {"IMPLEMENTATION_RETURNED", "ACTION_COMPLETED", "REQUIREMENT_CHANGED"} :
       Served("IMPLEMENT", kind)
  /\ \A kind \in {"INTEGRATION_COMPLETED", "AUDIT_COMPLETED"} : Served("GRILL", kind)
  /\ \A kind \in {"VALIDATION_PASSED", "VALIDATION_FAILED"} : Served("SMOKE_TEST", kind)
  /\ Served("REVIEW", "ACTION_COMPLETED") /\ Served("HANDOFF", "ACTION_COMPLETED")
<1>1. \A r \in DeliveryRules : Served(r.stage, r.event)
  BY DEF Served, Rules
<1> QED BY <1>1 DEF DeliveryRules, Rule, Advance, Accepting, Approved

(* _POLICY_ROUTES agrees with the profile: what an action may return, the   *)
(* stage it is returned to has a rule for, but for a denied approval.       *)
LEMMA ReturnsServed ==
  ASSUME NEW r \in Rules, NEW kind \in ExpectedReturns(r), kind # "APPROVAL_DENIED"
  PROVE  Served(IF r.next = "none" THEN r.stage ELSE r.next, kind)
<1> USE DEF ExpectedReturns, Rule, Advance, Accepting, Approved, AskHuman
<1>1. CASE r \in DiscoveryRules
  BY <1>1, DiscoveryServes, SpecificationServes DEF DiscoveryRules
<1>2. CASE r \in SpecificationRules
  BY <1>2, DiscoveryServes, SpecificationServes DEF SpecificationRules, AskKind, ConfirmKind
<1>3. CASE r \in DeliveryRules
  BY <1>3, DiscoveryServes, DeliveryServes DEF DeliveryRules
<1> QED BY <1>1, <1>2, <1>3 DEF Rules

HumanGates == {"APPROVAL_GRANTED", ConfirmKind, "AUDIT_COMPLETED"}

(* What a rule asks of a request beside its stage and event. *)
AsksFor(r) ==
  /\ r.source \in ArtifactKinds
  /\ "APPROVED" \in r.authority
  /\ r.event \notin HumanGates => "NOT_REQUIRED" \in r.authority
  /\ r.handoff <=> r.event = AskKind
  /\ r.receipt <=> r.event = ConfirmKind
  /\ r.event = "APPROVAL_GRANTED" => r.stage = "SPEC"

LEMMA RuleAsks ==
  ASSUME NEW r \in Rules
  PROVE  AsksFor(r)
<1> USE DEF Rule, Advance, Accepting, Approved, AskHuman
<1>1. CASE r \in DiscoveryRules
  <2>1. r.source \in ArtifactKinds
    BY <1>1 DEF DiscoveryRules, ArtifactKinds
  <2>2. "APPROVED" \in r.authority
    BY <1>1 DEF DiscoveryRules, Authorities
  <2>3. r.event \notin HumanGates => "NOT_REQUIRED" \in r.authority
    BY <1>1 DEF DiscoveryRules, Authorities, HumanGates, ConfirmKind
  <2>4. r.handoff <=> r.event = AskKind
    BY <1>1 DEF DiscoveryRules, AskKind
  <2>5. r.receipt <=> r.event = ConfirmKind
    BY <1>1 DEF DiscoveryRules, ConfirmKind
  <2>6. r.event = "APPROVAL_GRANTED" => r.stage = "SPEC"
    BY <1>1 DEF DiscoveryRules
  <2> QED BY <2>1, <2>2, <2>3, <2>4, <2>5, <2>6 DEF AsksFor
<1>2. CASE r \in SpecificationRules
  <2>1. r.source \in ArtifactKinds
    BY <1>2 DEF SpecificationRules, ArtifactKinds
  <2>2. "APPROVED" \in r.authority
    BY <1>2 DEF SpecificationRules, Authorities
  <2>3. r.event \notin HumanGates => "NOT_REQUIRED" \in r.authority
    BY <1>2 DEF SpecificationRules, Authorities, HumanGates, ConfirmKind
  <2>4. r.handoff <=> r.event = AskKind
    BY <1>2 DEF SpecificationRules, AskKind
  <2>5. r.receipt <=> r.event = ConfirmKind
    BY <1>2 DEF SpecificationRules, ConfirmKind
  <2>6. r.event = "APPROVAL_GRANTED" => r.stage = "SPEC"
    BY <1>2 DEF SpecificationRules
  <2> QED BY <2>1, <2>2, <2>3, <2>4, <2>5, <2>6 DEF AsksFor
<1>3. CASE r \in DeliveryRules
  <2>1. r.source \in ArtifactKinds
    BY <1>3 DEF DeliveryRules, ArtifactKinds
  <2>2. "APPROVED" \in r.authority
    BY <1>3 DEF DeliveryRules, Authorities
  <2>3. r.event \notin HumanGates => "NOT_REQUIRED" \in r.authority
    BY <1>3 DEF DeliveryRules, Authorities, HumanGates, ConfirmKind
  <2>4. r.handoff <=> r.event = AskKind
    BY <1>3 DEF DeliveryRules, AskKind
  <2>5. r.receipt <=> r.event = ConfirmKind
    BY <1>3 DEF DeliveryRules, ConfirmKind
  <2>6. r.event = "APPROVAL_GRANTED" => r.stage = "SPEC"
    BY <1>3 DEF DeliveryRules
  <2> QED BY <2>1, <2>2, <2>3, <2>4, <2>5, <2>6 DEF AsksFor
<1> QED BY <1>1, <1>2, <1>3 DEF Rules

LEMMA DecisionServed ==
  ASSUME NEW s, NEW e, NEW d, d = Decide(s, e), NEW kind \in d.expected,
         kind # "APPROVAL_DENIED"
  PROVE  Served(IF d.next = "none" THEN s.stage ELSE d.next, kind)
<1>1. d # Halted
  BY DEF Halted
<1>2. PICK r \in Rules : r.stage = s.stage /\ d = DecideBy(r, s, e)
  BY <1>1, DecideFollows
<1>3. d.expected = ExpectedReturns(r) /\ d.next = r.next
  BY <1>1, <1>2 DEF DecideBy, Follow
<1> QED BY <1>2, <1>3, ReturnsServed

-----------------------------------------------------------------------------
(* The invariant of such a project: what is routed, and what is expected,   *)
(* has its rule.  A project begins at its intake.                           *)
Excused(e) == e.returned = "BLOCKED" \/ e.kind = "APPROVAL_DENIED" \/ e.confirmation = "NEGATIVE"

Authorized(kind, a) == a = "APPROVED" \/ (a = "NOT_REQUIRED" /\ kind \notin HumanGates)

IsFreshAsk(e, open) == \E t \in Tickets : e = AskEvent(t) /\ open[t] = None

Answer(p) == [PlainEvent(ConfirmKind) EXCEPT !.receipt = p, !.confirmation = "POSITIVE"]

IsAnswer(e, open) == \E t \in Tickets : open[t] # None /\ e = Answer(open[t])

Follows(l, from, open, e, a) ==
  /\ e.kind = ConfirmKind => l = Planning
  /\ \/ Excused(e)
     \/ /\ Served(from, e.kind) /\ Authorized(e.kind, a) /\ e.evidence = "none"
        /\ IF e.kind = AskKind THEN IsFreshAsk(e, open)
           ELSE e.proposal = None /\ e.handoff = None
        /\ e.kind = ConfirmKind => IsAnswer(e, open)

RequestsFollow ==
  \A l \in Lanes : mode[l] = "routing" =>
    Follows(l, stage[l], pending, event[l], authority[l])

ExpectedServed ==
  \A l \in Lanes : stage[l] # "STOPPED" =>
    \A kind \in expected[l] : kind = "APPROVAL_DENIED" \/ Served(stage[l], kind)

QuestionsPlanned == \A t \in Tickets : pending[t] # None => pending[t].owner = PlannedOwner

StartsAtIntake == mode[Planning] = "idle" => stage[Planning] = "INTAKE"

FollowInv == RequestsFollow /\ ExpectedServed /\ QuestionsPlanned /\ StartsAtIntake

AllRegistered == \A t \in Tickets : <<t, PlannedOwner, TheTerms>> \in Registered

(* The one source of each kind a request comes with. *)
LEMMA SourcesOf ==
  ASSUME NEW l \in Lanes, NEW s, s = StateOf(l), NEW t, t = TicketOf(l, event[l])
  PROVE  /\ s.delivery = "POC" /\ s.topology = "planned" /\ s.pending = pending[t]
         /\ s.stage = stage[l] /\ s.authority = authority[l]
         /\ Sources(s, "TICKET") = {[kind |-> "TICKET", id |-> t]}
         /\ \A k \in ArtifactKinds : Cardinality(Sources(s, k)) = 1
<1>1. /\ s.delivery = "POC" /\ s.topology = "planned" /\ s.pending = pending[t]
      /\ s.stage = stage[l] /\ s.authority = authority[l]
      /\ s.sources = {[kind |-> k, id |-> IF k = "TICKET" THEN t ELSE k] : k \in ArtifactKinds}
  BY DEF StateOf, PlainState
<1>2. \A k \in ArtifactKinds :
        Sources(s, k) = {[kind |-> k, id |-> IF k = "TICKET" THEN t ELSE k]}
  BY <1>1 DEF Sources
<1>3. "TICKET" \in ArtifactKinds
  BY DEF ArtifactKinds
<1>4. \A k \in ArtifactKinds : Cardinality(Sources(s, k)) = 1
  BY <1>2, FS_Singleton
<1> QED BY <1>1, <1>2, <1>3, <1>4

(* A request that follows what was expected is granted, or put to a human. *)
LEMMA FollowedIsGranted ==
  ASSUME AllRegistered, QuestionsNamed, QuestionsPlanned, NEW l \in Lanes,
         NEW s, s = StateOf(l), Follows(l, stage[l], pending, event[l], authority[l]),
         ~Excused(event[l])
  PROVE  Decide(s, event[l]) # Halted
<1>1. PICK e : e = event[l]
  OBVIOUS
<1>2. PICK t : t = TicketOf(l, e)
  OBVIOUS
<1>3. /\ s.delivery = "POC" /\ s.topology = "planned" /\ s.pending = pending[t]
      /\ s.stage = stage[l] /\ s.authority = authority[l]
      /\ Sources(s, "TICKET") = {[kind |-> "TICKET", id |-> t]}
      /\ \A k \in ArtifactKinds : Cardinality(Sources(s, k)) = 1
  BY <1>1, <1>2, SourcesOf
<1>4. /\ Served(s.stage, e.kind) /\ Authorized(e.kind, s.authority) /\ e.evidence = "none"
      /\ e.returned # "BLOCKED"
      /\ e.kind = AskKind => IsFreshAsk(e, pending)
      /\ e.kind # AskKind => e.proposal = None /\ e.handoff = None
      /\ e.kind = ConfirmKind => IsAnswer(e, pending)
  BY <1>1, <1>3 DEF Follows, Excused
<1>5. e.kind = AskKind =>
        /\ e.proposal # None /\ e.handoff # None /\ e.proposal.ticket = t /\ pending[t] = None
        /\ t \in Tickets /\ e = AskEvent(t)
  <2>1. ASSUME e.kind = AskKind
        PROVE  /\ e.proposal # None /\ e.handoff # None /\ e.proposal.ticket = t
               /\ pending[t] = None /\ t \in Tickets /\ e = AskEvent(t)
    <3>1. PICK k \in Tickets : e = AskEvent(k) /\ pending[k] = None
      BY <1>4, <2>1 DEF IsFreshAsk
    <3>2. e.proposal # None /\ e.handoff # None
      BY <3>1, AskAssumption
    <3>3. e.proposal.ticket = k /\ e.receipt = None
      BY <3>1 DEF AskEvent, PlainEvent
    <3>4. t = k
      BY <1>2, <3>2, <3>3 DEF TicketOf
    <3> QED BY <3>1, <3>2, <3>3, <3>4
  <2> QED BY <2>1
<1>6. e.kind = ConfirmKind =>
        /\ e.receipt # None /\ e.receipt = pending[t] /\ e.receipt.ticket = t /\ t \in Tickets
        /\ e.confirmation = "POSITIVE" /\ e.receipt.owner = PlannedOwner
  <2>1. ASSUME e.kind = ConfirmKind
        PROVE  /\ e.receipt # None /\ e.receipt = pending[t] /\ e.receipt.ticket = t
               /\ t \in Tickets
               /\ e.confirmation = "POSITIVE" /\ e.receipt.owner = PlannedOwner
    <3>1. PICK k \in Tickets : pending[k] # None /\ e = Answer(pending[k])
      BY <1>4, <2>1 DEF IsAnswer
    <3>2. e.receipt = pending[k] /\ e.confirmation = "POSITIVE" /\ e.proposal = None
      BY <3>1 DEF Answer, PlainEvent
    <3>3. pending[k].ticket = k /\ pending[k].owner = PlannedOwner
      BY <3>1 DEF QuestionsNamed, QuestionsPlanned
    <3>4. t = k
      BY <1>2, <3>1, <3>2, <3>3 DEF TicketOf
    <3> QED BY <3>1, <3>2, <3>3, <3>4
  <2> QED BY <2>1
<1>7. PICK r \in Rules : r.stage = s.stage /\ r.event = e.kind
  BY <1>4 DEF Served
<1>8. Admits(r, s, e)
  <2>1. AsksFor(r)
    BY RuleAsks
  <2>2. s.authority \in r.authority
    BY <1>4, <1>7, <2>1 DEF AsksFor, Authorized
  <2>3. r.handoff <=> e.handoff # None
    BY <1>4, <1>5, <1>7, <2>1 DEF AsksFor
  <2>4. r.receipt => ReceiptPresented(s, e)
    BY <1>3, <1>6, <1>7, <2>1 DEF AsksFor, ReceiptPresented
  <2>5. ~(s.stage = "TICKETS" /\ e.kind = "APPROVAL_GRANTED")
    BY <1>7, <2>1 DEF AsksFor
  <2>6. Cardinality(Sources(s, r.source)) = 1
    BY <1>3, <2>1 DEF AsksFor
  <2> QED BY <1>3, <1>4, <2>2, <2>3, <2>4, <2>5, <2>6 DEF Admits
<1>9. PICK q \in Rules : q.event = e.kind /\ Decide(s, e) = DecideBy(q, s, e)
  <2> DEFINE admitting == {q \in RulesFor(s.stage, e.kind) : Admits(q, s, e)}
  <2>1. r \in admitting
    BY <1>7, <1>8 DEF RulesFor
  <2>2. Decide(s, e) = DecideBy(CHOOSE q \in admitting : TRUE, s, e)
    BY <2>1 DEF Decide
  <2>3. (CHOOSE q \in admitting : TRUE) \in admitting
    BY <2>1
  <2> HIDE DEF admitting
  <2>4. \E q \in admitting : Decide(s, e) = DecideBy(q, s, e)
    BY <2>2, <2>3
  <2> QED BY <2>4 DEF admitting, RulesFor
<1>10. Follow(q).outcome # "SUSPEND" \/ Follow(q).continuation = "WAIT_FOR_HUMAN"
  BY FollowFields, RuleTable DEF GoesOnBy, WaitsBy, StopsBy, DispatchesBy
<1>11. CASE e.kind = AskKind
  <2>1. OpensQuestion(s, e)
    <3>1. /\ e.proposal = [ticket |-> t, question |-> Question1, owner |-> PlannedOwner,
                           opened |-> TRUE]
          /\ e.handoff = [ticket |-> t, owner |-> PlannedOwner, terms |-> TheTerms]
      BY <1>5, <1>11 DEF AskEvent, PlainEvent
    <3>2. <<t, PlannedOwner, TheTerms>> \in Registered
      BY <1>5, <1>11 DEF AllRegistered
    <3> QED BY <1>3, <1>5, <1>11, <3>1, <3>2 DEF OpensQuestion, Approves
  <2>2. DecideBy(q, s, e) = [Follow(q) EXCEPT !.pending = Question(e)]
    <3>1. ~q.receipt
      BY <1>9, <1>11, RuleAsks DEF AsksFor, AskKind, ConfirmKind
    <3> QED BY <1>11, <2>1, <3>1 DEF DecideBy, AskKind
  <2>3. /\ DecideBy(q, s, e).outcome = Follow(q).outcome
        /\ DecideBy(q, s, e).continuation = Follow(q).continuation
    BY <2>2 DEF Follow
  <2> QED BY <1>1, <1>9, <1>10, <2>3 DEF Halted
<1>12. CASE e.kind = ConfirmKind
  <2>1. q.receipt
    BY <1>9, <1>12, RuleAsks DEF AsksFor
  <2>2. ReceiptMatches(s, e)
    BY <1>3, <1>6, <1>12 DEF ReceiptMatches
  <2>3. DecideBy(q, s, e) = [Follow(q) EXCEPT !.lane = e.receipt]
    BY <1>12, <2>1, <2>2 DEF DecideBy, ConfirmKind
  <2>4. /\ DecideBy(q, s, e).outcome = Follow(q).outcome
        /\ DecideBy(q, s, e).continuation = Follow(q).continuation
    BY <2>3 DEF Follow
  <2> QED BY <1>1, <1>9, <1>10, <2>4 DEF Halted
<1>13. CASE e.kind \notin {AskKind, ConfirmKind}
  <2>1. ~q.receipt
    BY <1>9, <1>13, RuleAsks DEF AsksFor
  <2>2. DecideBy(q, s, e) = Follow(q)
    BY <1>13, <2>1 DEF DecideBy, AskKind
  <2> QED BY <1>1, <1>9, <1>10, <2>2 DEF Halted
<1> QED BY <1>11, <1>12, <1>13
-----------------------------------------------------------------------------
(* What an obedient executor returns, and what people give, follows.        *)
LEMMA ObedientReturns ==
  ASSUME Obedient, ExpectedServed, NEW l \in Lanes, stage[l] # "STOPPED", NEW e \in Returned(l)
  PROVE  Follows(l, stage[l], pending, e, "NOT_REQUIRED")
<1>1. PICK kind \in expected[l] \ HumanKinds : e \in EventsOf(l, kind)
  BY DEF Returned
<1>2. e.proposal # None => pending[e.proposal.ticket] = None
  BY DEF Returned
<1>3. /\ Served(stage[l], kind) /\ kind # ConfirmKind
      /\ Authorized(kind, "NOT_REQUIRED")
  BY <1>1 DEF ExpectedServed, HumanKinds, Authorized, HumanGates, ConfirmKind
<1>4. CASE kind = AskKind
  <2>1. PICK t \in Tickets : e = AskEvent(t)
    BY <1>1, <1>4 DEF EventsOf, AskKind
  <2>2. /\ e.proposal # None /\ e.proposal.ticket = t
        /\ e.kind = AskKind /\ e.evidence = "none"
    BY <2>1, AskAssumption DEF AskEvent, PlainEvent, AskKind
  <2>3. IsFreshAsk(e, pending)
    BY <1>2, <2>1, <2>2 DEF IsFreshAsk
  <2> QED BY <1>3, <1>4, <2>2, <2>3 DEF Follows
<1>5. CASE kind # AskKind
  <2>1. \/ \E r \in {"COMPLETED", "BLOCKED"} : e = [PlainEvent(kind) EXCEPT !.returned = r]
        \/ e = PlainEvent(kind)
    BY <1>1, <1>5 DEF EventsOf, AskKind
  <2>2. e.kind = kind /\ e.evidence = "none" /\ e.proposal = None /\ e.handoff = None
    BY <2>1 DEF PlainEvent
  <2> QED BY <1>3, <1>5, <2>2 DEF Follows
<1> QED BY <1>4, <1>5

LEMMA PlainFollows ==
  ASSUME NEW l \in Lanes, NEW from, NEW open, NEW kind, NEW a,
         Served(from, kind), Authorized(kind, a), kind \notin {AskKind, ConfirmKind}
  PROVE  Follows(l, from, open, PlainEvent(kind), a)
BY DEF Follows, PlainEvent

LEMMA WorkFollows ==
  ASSUME NEW l \in Lanes, NEW open, NEW e \in Worked
  PROVE  Follows(l, "IMPLEMENT", open, e, "NOT_REQUIRED")
<1>1. \A kind \in {"IMPLEMENTATION_RETURNED", "ACTION_COMPLETED", "REQUIREMENT_CHANGED"} :
        /\ Served("IMPLEMENT", kind) /\ Authorized(kind, "NOT_REQUIRED")
        /\ kind \notin {AskKind, ConfirmKind}
  BY DeliveryServes DEF Authorized, HumanGates, AskKind, ConfirmKind
<1>2. CASE e \in {PlainEvent("ACTION_COMPLETED"), PlainEvent("REQUIREMENT_CHANGED")}
  BY <1>1, <1>2, PlainFollows
<1>3. CASE e \in EventsOf(Planning, "IMPLEMENTATION_RETURNED")
  <2>1. \E r \in {"COMPLETED", "BLOCKED"} :
          e = [PlainEvent("IMPLEMENTATION_RETURNED") EXCEPT !.returned = r]
    BY <1>3 DEF EventsOf
  <2>2. /\ e.kind = "IMPLEMENTATION_RETURNED" /\ e.evidence = "none"
        /\ e.proposal = None /\ e.handoff = None
    BY <2>1 DEF PlainEvent
  <2> QED BY <1>1, <2>2 DEF Follows
<1> QED BY <1>2, <1>3 DEF Worked

(* A run that begins, or goes on, with a request that follows. *)
RoutesNext(l, e, a) ==
  /\ mode' = [mode EXCEPT ![l] = "routing"]
  /\ event' = [event EXCEPT ![l] = e]
  /\ authority' = [authority EXCEPT ![l] = a]
  /\ UNCHANGED <<stage, expected, pending>>

LEMMA FollowNext ==
  ASSUME LifecycleInv, FollowInv, NEW l \in Lanes, NEW e, NEW a, RoutesNext(l, e, a),
         Follows(l, stage[l], pending, e, a)
  PROVE  FollowInv'
<1>1. /\ DOMAIN mode = Lanes /\ DOMAIN event = Lanes /\ DOMAIN authority = Lanes
      /\ Planning \in Lanes
  BY DEF LifecycleInv, TypeOK, Lanes
<1>2. RequestsFollow'
  <2> SUFFICES ASSUME NEW k \in Lanes, mode'[k] = "routing"
               PROVE  Follows(k, stage'[k], pending', event'[k], authority'[k])
    BY DEF RequestsFollow
  <2>1. stage' = stage /\ pending' = pending
    BY DEF RoutesNext
  <2>2. CASE k = l
    BY <1>1, <2>1, <2>2 DEF RoutesNext
  <2>3. CASE k # l
    BY <1>1, <2>1, <2>3 DEF RoutesNext, FollowInv, RequestsFollow
  <2> QED BY <2>2, <2>3
<1>3. ExpectedServed' /\ QuestionsPlanned'
  BY DEF RoutesNext, FollowInv, ExpectedServed, QuestionsPlanned, Served
<1>4. StartsAtIntake'
  BY <1>1 DEF RoutesNext, FollowInv, StartsAtIntake
<1> QED BY <1>2, <1>3, <1>4 DEF FollowInv
LEMMA BeginFollows ==
  ASSUME LifecycleInv, FollowInv, NEW l \in Lanes, NEW e, NEW a, Begin(l, e, a),
         Follows(l, stage[l], pending, e, a)
  PROVE  FollowInv'
<1>1. RoutesNext(l, e, a)
  BY DEF Begin, RoutesNext
<1> QED BY <1>1, FollowNext

(* What is asked of a lane that waits, its stage has a rule for. *)
LEMMA AwaitedServed ==
  ASSUME LifecycleInv, FollowInv, NEW l \in Lanes, NEW kind, Waits(l, kind),
         stage[l] # "STOPPED", kind # "APPROVAL_DENIED"
  PROVE  Served(stage[l], kind) /\ (kind = ConfirmKind => l = Planning)
BY DEF LifecycleInv, ExpectationsStand, FollowInv, ExpectedServed, Waits

LEMMA PeopleFollow ==
  ASSUME Obedient, LifecycleInv, FollowInv, NEW l \in Lanes, People(l)
  PROVE  FollowInv'
<1>1. CASE OwnerAnswers(l) \/ ApproveSpecification(l)
  <2>1. PICK kind \in {"OWNER_INPUT_PROVIDED", "APPROVAL_GRANTED"},
             a \in {"NOT_REQUIRED", "APPROVED"} :
          /\ Waits(l, kind) /\ Begin(l, PlainEvent(kind), a)
          /\ kind = "APPROVAL_GRANTED" => a = "APPROVED"
    BY <1>1 DEF OwnerAnswers, ApproveSpecification
  <2>2. Served(stage[l], kind)
    BY <2>1, AwaitedServed DEF Begin
  <2>3. Authorized(kind, a) /\ kind \notin {AskKind, ConfirmKind}
    BY <2>1 DEF Authorized, HumanGates, AskKind, ConfirmKind
  <2> QED BY <2>1, <2>2, <2>3, PlainFollows, BeginFollows
<1>2. CASE DenySpecification(l)
  <2>1. Follows(l, stage[l], pending, PlainEvent("APPROVAL_DENIED"), "DENIED")
    BY DEF Follows, Excused, PlainEvent, ConfirmKind
  <2> QED BY <1>2, <2>1, BeginFollows DEF DenySpecification
<1>3. ASSUME NEW t \in Tickets, ConfirmDispatch(l, t)
      PROVE  FollowInv'
  <2>1. /\ Waits(l, ConfirmKind) /\ pending[t] # None /\ stage[l] # "STOPPED"
        /\ Begin(l, ConfirmEvent(t, "POSITIVE"), "APPROVED")
    BY <1>3 DEF ConfirmDispatch, ConfirmKind, Begin
  <2>2. Served(stage[l], ConfirmKind) /\ l = Planning
    BY <2>1, AwaitedServed DEF ConfirmKind
  <2>3. PICK e : e = ConfirmEvent(t, "POSITIVE")
    OBVIOUS
  <2>4. /\ e = Answer(pending[t]) /\ e.kind = ConfirmKind /\ e.kind # AskKind
        /\ e.evidence = "none" /\ e.proposal = None /\ e.handoff = None
    BY <2>3 DEF ConfirmEvent, Answer, PlainEvent, ConfirmKind, AskKind
  <2>5. IsAnswer(e, pending)
    BY <2>1, <2>4 DEF IsAnswer
  <2>6. Follows(l, stage[l], pending, e, "APPROVED")
    BY <2>2, <2>4, <2>5 DEF Follows, Authorized
  <2> QED BY <2>1, <2>3, <2>6, BeginFollows
<1>4. ASSUME NEW t \in Tickets, RefuseDispatch(l, t)
      PROVE  FollowInv'
  <2>1. /\ Waits(l, ConfirmKind) /\ stage[l] # "STOPPED"
        /\ Begin(l, ConfirmEvent(t, "NEGATIVE"), "APPROVED")
    BY <1>4 DEF RefuseDispatch, ConfirmKind, Begin
  <2>2. l = Planning
    BY <2>1, AwaitedServed DEF ConfirmKind
  <2>3. ConfirmEvent(t, "NEGATIVE").confirmation = "NEGATIVE"
    BY DEF ConfirmEvent, PlainEvent
  <2>4. Follows(l, stage[l], pending, ConfirmEvent(t, "NEGATIVE"), "APPROVED")
    BY <2>2, <2>3 DEF Follows, Excused
  <2> QED BY <2>1, <2>4, BeginFollows
<1>5. CASE AnnounceIntegration(l) \/ ApproveAudit(l)
  <2>1. PICK kind \in {"INTEGRATION_COMPLETED", "AUDIT_COMPLETED"},
             a \in {"NOT_REQUIRED", "APPROVED"} :
          /\ stage[l] = "GRILL" /\ Begin(l, PlainEvent(kind), a)
          /\ kind = "AUDIT_COMPLETED" => a = "APPROVED"
    BY <1>5 DEF AnnounceIntegration, ApproveAudit
  <2>2. Served(stage[l], kind)
    BY <2>1, DeliveryServes
  <2>3. Authorized(kind, a) /\ kind \notin {AskKind, ConfirmKind}
    BY <2>1 DEF Authorized, HumanGates, AskKind, ConfirmKind
  <2> QED BY <2>1, <2>2, <2>3, PlainFollows, BeginFollows
<1>6. CASE Resume(l)
  <2>1. PICK e \in Returned(l) : Begin(l, e, "NOT_REQUIRED")
    BY <1>6 DEF Resume
  <2>2. Follows(l, stage[l], pending, e, "NOT_REQUIRED")
    BY <2>1, ObedientReturns DEF Begin, FollowInv
  <2> QED BY <2>1, <2>2, BeginFollows
<1>7. CASE AskAgain(l)
  <2>1. PICK e \in EventsOf(l, AskKind) :
          /\ stage[l] = "TICKETS" /\ pending[e.proposal.ticket] = None
          /\ Begin(l, e, "NOT_REQUIRED")
    BY <1>7 DEF AskAgain, AskKind
  <2>2. PICK t \in Tickets : e = AskEvent(t)
    BY <2>1 DEF EventsOf, AskKind
  <2>3. e.proposal.ticket = t /\ e.kind = AskKind /\ e.evidence = "none"
    BY <2>2 DEF AskEvent, PlainEvent, AskKind
  <2>4. IsFreshAsk(e, pending)
    BY <2>1, <2>2, <2>3 DEF IsFreshAsk
  <2>5. Authorized(AskKind, "NOT_REQUIRED") /\ AskKind # ConfirmKind
    BY DEF Authorized, HumanGates, AskKind, ConfirmKind
  <2>6. Follows(l, stage[l], pending, e, "NOT_REQUIRED")
    BY <2>1, <2>3, <2>4, <2>5, SpecificationServes DEF Follows
  <2> QED BY <2>1, <2>6, BeginFollows
<1> QED BY <1>1, <1>2, <1>3, <1>4, <1>5, <1>6, <1>7 DEF People

LEMMA StartsFollow ==
  ASSUME LifecycleInv, FollowInv, StartProject \/ \E t \in Tickets : WorkTicket(t)
  PROVE  FollowInv'
<1>1. CASE StartProject
  <2>1. stage[Planning] = "INTAKE" /\ Planning \in Lanes
    BY <1>1 DEF StartProject, FollowInv, StartsAtIntake, Lanes
  <2>2. Authorized("INTAKE", "NOT_REQUIRED") /\ "INTAKE" \notin {AskKind, ConfirmKind}
    BY DEF Authorized, HumanGates, AskKind, ConfirmKind
  <2>3. Follows(Planning, stage[Planning], pending, PlainEvent("INTAKE"), "NOT_REQUIRED")
    BY <2>1, <2>2, DiscoveryServes, PlainFollows
  <2> QED BY <1>1, <2>1, <2>3, BeginFollows DEF StartProject
<1>2. ASSUME NEW t \in Tickets, WorkTicket(t)
      PROVE  FollowInv'
  <2>1. PICK e \in Worked : stage[t] = "IMPLEMENT" /\ Begin(t, e, "NOT_REQUIRED")
    BY <1>2 DEF WorkTicket
  <2>2. t \in Lanes
    BY DEF Lanes
  <2> QED BY <2>1, <2>2, WorkFollows, BeginFollows
<1> QED BY <1>1, <1>2

LEMMA ExecuteFollows ==
  ASSUME Obedient, LifecycleInv, FollowInv, NEW l \in Lanes, Execute(l)
  PROVE  FollowInv'
<1>1. stage[l] # "STOPPED" /\ UNCHANGED <<stage, expected, pending>>
  BY DEF Execute, LifecycleInv, LanesRest
<1>2. CASE mode' = [mode EXCEPT ![l] = "halted"] /\ UNCHANGED <<event, authority>>
  <2>1. DOMAIN mode = Lanes /\ Planning \in Lanes
    BY DEF LifecycleInv, TypeOK, Lanes
  <2>2. RequestsFollow'
    <3> SUFFICES ASSUME NEW k \in Lanes, mode'[k] = "routing"
                 PROVE  Follows(k, stage'[k], pending', event'[k], authority'[k])
      BY DEF RequestsFollow
    <3>1. mode[k] = "routing"
      BY <1>2, <2>1
    <3> QED BY <1>1, <1>2, <3>1 DEF FollowInv, RequestsFollow
  <2>3. ExpectedServed' /\ QuestionsPlanned' /\ StartsAtIntake'
    BY <1>1, <1>2, <2>1
       DEF FollowInv, ExpectedServed, QuestionsPlanned, StartsAtIntake, Served
  <2> QED BY <2>2, <2>3 DEF FollowInv
<1>3. CASE \E e \in Returned(l) : RoutesNext(l, e, "NOT_REQUIRED")
  BY <1>1, <1>3, ObedientReturns, FollowNext DEF FollowInv
<1> QED BY <1>1, <1>2, <1>3 DEF Execute, RoutesNext
(* A round leaves the other lanes, and what their requests rest on, alone. *)
LeavesOthers(l) ==
  /\ mode'[l] # "routing"
  /\ \A k \in Lanes \ {l} : mode'[k] = "routing" =>
       /\ mode[k] = "routing" /\ stage'[k] = stage[k]
       /\ event'[k] = event[k] /\ authority'[k] = authority[k]
  /\ pending' = pending \/ l = Planning

LEMMA OthersFollow ==
  ASSUME LifecycleInv, FollowInv, NEW l \in Lanes, LeavesOthers(l)
  PROVE  RequestsFollow'
<1> SUFFICES ASSUME NEW k \in Lanes, mode'[k] = "routing"
             PROVE  Follows(k, stage'[k], pending', event'[k], authority'[k])
  BY DEF RequestsFollow
<1>1. /\ mode[k] = "routing" /\ stage'[k] = stage[k] /\ event'[k] = event[k]
      /\ authority'[k] = authority[k] /\ k # l
  BY DEF LeavesOthers
<1>2. Follows(k, stage[k], pending, event[k], authority[k])
  BY <1>1 DEF FollowInv, RequestsFollow
<1>3. CASE pending' = pending
  BY <1>1, <1>2, <1>3
<1>4. CASE pending' # pending
  <2>1. k # Planning
    BY <1>1, <1>4 DEF LeavesOthers
  <2>2. event[k].kind \notin {AskKind, ConfirmKind}
    BY <1>1, <1>2, <2>1, AskedQuestion DEF Follows
  <2> QED BY <1>1, <1>2, <2>2 DEF Follows
<1> QED BY <1>3, <1>4

LEMMA WaitFollows ==
  ASSUME LifecycleInv, FollowInv, NEW l \in Lanes, Route(l), NEW s, NEW d,
         s.stage = stage[l], d = Decide(s, event[l]), Wait(l, d)
  PROVE  FollowInv'
<1>1. /\ mode[l] = "routing" /\ authority' = authority /\ stage' = stage
      /\ mode' = [mode EXCEPT ![l] = "waiting"]
      /\ event' = [event EXCEPT ![l] = None]
      /\ expected' = [expected EXCEPT ![l] = d.expected]
      /\ DOMAIN mode = Lanes /\ DOMAIN event = Lanes /\ DOMAIN expected = Lanes
      /\ DOMAIN pending = Tickets /\ Planning \in Lanes
  BY DEF Route, Wait, Forget, LifecycleInv, TypeOK, Lanes
<1>2. Asking(s, event[l], d)
  BY Decided DEF Wait, Halted, Moving, Dispatching, Stopping
<1>3. \/ pending' = pending
      \/ /\ event[l].kind = AskKind /\ l = Planning /\ d.pending = Question(event[l])
         /\ pending' = [pending EXCEPT ![d.pending.ticket] = d.pending]
  BY <1>1, <1>2, AskedQuestion DEF Wait, Asking
<1>4. RequestsFollow'
  <2>1. LeavesOthers(l)
    BY <1>1, <1>3 DEF LeavesOthers
  <2> QED BY <2>1, OthersFollow
<1>5. ExpectedServed'
  <2> SUFFICES ASSUME NEW k \in Lanes, stage'[k] # "STOPPED", NEW kind \in expected'[k],
                      kind # "APPROVAL_DENIED"
               PROVE  Served(stage'[k], kind)
    BY DEF ExpectedServed, Served
  <2>1. CASE k = l
    BY <1>1, <1>2, <2>1, DecisionServed DEF Asking
  <2>2. CASE k # l
    BY <1>1, <2>2 DEF FollowInv, ExpectedServed
  <2> QED BY <2>1, <2>2
<1>6. QuestionsPlanned'
  <2>1. CASE pending' = pending
    BY <2>1 DEF FollowInv, QuestionsPlanned
  <2>2. CASE pending' # pending
    <3>1. IsAsk(event[l])
      BY <1>1, <1>3, <2>2
         DEF LifecycleInv, RequestsEarned, IsPlain, IsConfirmation, PlainEvent, AskKind,
             ConfirmKind
    <3>2. PICK t \in Tickets : event[l] = AskEvent(t)
      BY <3>1 DEF IsAsk
    <3>3. event[l].proposal.owner = PlannedOwner
      BY <3>2 DEF AskEvent, PlainEvent
    <3>4. d.pending.owner = PlannedOwner
      BY <1>3, <2>2, <3>3 DEF Question
    <3>5. \A t1 \in Tickets : pending'[t1] = pending[t1] \/ pending'[t1] = d.pending
      BY <1>1, <1>3, <2>2
    <3> QED BY <3>4, <3>5 DEF FollowInv, QuestionsPlanned
  <2> QED BY <2>1, <2>2
<1>7. StartsAtIntake'
  BY <1>1 DEF FollowInv, StartsAtIntake
<1> QED BY <1>4, <1>5, <1>6, <1>7 DEF FollowInv

LEMMA HaltFollows ==
  ASSUME LifecycleInv, FollowInv, NEW l \in Lanes, Route(l), NEW d,
         \/ Halt(l, d)
         \/ /\ mode' = [mode EXCEPT ![l] = "halted"] /\ Forget(l)
            /\ UNCHANGED <<stage, expected, pending>>
  PROVE  FollowInv'
<1>1. /\ mode[l] = "routing" /\ authority' = authority /\ expected' = expected
      /\ mode' = [mode EXCEPT ![l] = "halted"]
      /\ event' = event \/ event' = [event EXCEPT ![l] = None]
      /\ stage' = stage \/ stage' = [stage EXCEPT ![l] = "STOPPED"]
      /\ DOMAIN mode = Lanes /\ DOMAIN event = Lanes /\ DOMAIN stage = Lanes
      /\ DOMAIN pending = Tickets /\ Planning \in Lanes
  BY DEF Route, Halt, Forget, LifecycleInv, TypeOK, Lanes
<1>2. \/ pending' = pending
      \/ event[l].kind = ConfirmKind /\ \E t : pending' = [pending EXCEPT ![t] = None]
  BY DEF Halt, ConfirmKind
<1>3. event[l].kind = ConfirmKind => l = Planning
  BY <1>1 DEF FollowInv, RequestsFollow, Follows
<1>4. RequestsFollow'
  <2>1. LeavesOthers(l)
    BY <1>1, <1>2, <1>3 DEF LeavesOthers
  <2> QED BY <2>1, OthersFollow
<1>5. ExpectedServed'
  <2> SUFFICES ASSUME NEW k \in Lanes, stage'[k] # "STOPPED", NEW kind \in expected'[k],
                      kind # "APPROVAL_DENIED"
               PROVE  Served(stage'[k], kind)
    BY DEF ExpectedServed, Served
  <2>1. stage'[k] = stage[k]
    BY <1>1
  <2> QED BY <1>1, <2>1 DEF FollowInv, ExpectedServed
<1>6. QuestionsPlanned'
  <2>1. \A t \in Tickets : pending'[t] # None => pending'[t] = pending[t]
    BY <1>1, <1>2
  <2> QED BY <2>1 DEF FollowInv, QuestionsPlanned
<1>7. StartsAtIntake'
  BY <1>1 DEF FollowInv, StartsAtIntake
<1> QED BY <1>4, <1>5, <1>6, <1>7 DEF FollowInv

LEMMA MoveFollows ==
  ASSUME LifecycleInv, FollowInv, NEW l \in Lanes, Route(l), NEW s, NEW d,
         s.stage = stage[l], d = Decide(s, event[l]), Granting(l, d), Moving(s, event[l], d)
  PROVE  FollowInv'
<1>1. /\ mode[l] = "routing" /\ authority' = authority /\ pending' = pending
      /\ mode' = [mode EXCEPT ![l] = "granted"]
      /\ event' = [event EXCEPT ![l] = None]
      /\ stage' = [stage EXCEPT ![l] = d.next]
      /\ expected' = [expected EXCEPT ![l] = d.expected]
  BY MovedFrame DEF Route, Moving
<1>2. /\ DOMAIN mode = Lanes /\ DOMAIN event = Lanes /\ DOMAIN stage = Lanes
      /\ DOMAIN expected = Lanes /\ Planning \in Lanes
  BY DEF LifecycleInv, TypeOK, Lanes
<1>3. RequestsFollow'
  <2>1. LeavesOthers(l)
    BY <1>1, <1>2 DEF LeavesOthers
  <2> QED BY <2>1, OthersFollow
<1>4. ExpectedServed'
  <2> SUFFICES ASSUME NEW k \in Lanes, stage'[k] # "STOPPED", NEW kind \in expected'[k],
                      kind # "APPROVAL_DENIED"
               PROVE  Served(stage'[k], kind)
    BY DEF ExpectedServed, Served
  <2>1. CASE k = l
    <3>1. d.next # "none"
      BY DEF Moving, FreeMove, GatedMove, PlanningStages, BuildingStages
    <3> QED BY <1>1, <1>2, <2>1, <3>1, DecisionServed
  <2>2. CASE k # l
    BY <1>1, <1>2, <2>2 DEF FollowInv, ExpectedServed
  <2> QED BY <2>1, <2>2
<1>5. QuestionsPlanned' /\ StartsAtIntake'
  BY <1>1, <1>2 DEF FollowInv, QuestionsPlanned, StartsAtIntake
<1> QED BY <1>3, <1>4, <1>5 DEF FollowInv

LEMMA DispatchFollows ==
  ASSUME LifecycleInv, FollowInv, NEW l \in Lanes, Route(l), NEW s, NEW d,
         s.stage = stage[l], d = Decide(s, event[l]), Granting(l, d),
         Dispatching(s, event[l], d)
  PROVE  FollowInv'
<1>1. mode[l] = "routing" /\ authority' = authority
  BY DEF Route
<1>2. /\ l = Planning /\ d.lane # None /\ d.lane.ticket \in Tickets /\ d.lane.ticket # l
  BY <1>1, DispatchedTicket
<1>3. PICK t \in Tickets : t = d.lane.ticket
  BY <1>2
<1>4. BeginsAnew(l, t, d)
  BY <1>2, <1>3, DispatchedFrame DEF Dispatching
<1>5. /\ DOMAIN mode = Lanes /\ DOMAIN event = Lanes /\ DOMAIN stage = Lanes
      /\ DOMAIN expected = Lanes /\ DOMAIN pending = Tickets /\ t \in Lanes /\ t # l
  BY <1>2, <1>3 DEF LifecycleInv, TypeOK, Lanes
<1>6. RequestsFollow'
  <2>1. LeavesOthers(l)
    BY <1>1, <1>2, <1>4, <1>5 DEF LeavesOthers, BeginsAnew
  <2> QED BY <2>1, OthersFollow
<1>7. ExpectedServed'
  <2> SUFFICES ASSUME NEW k \in Lanes, stage'[k] # "STOPPED", NEW kind \in expected'[k],
                      kind # "APPROVAL_DENIED"
               PROVE  Served(stage'[k], kind)
    BY DEF ExpectedServed, Served
  <2>1. CASE k = l
    <3>1. stage'[k] = "GRILL" /\ kind \in d.expected /\ d.next = "GRILL"
      BY <1>4, <1>5, <2>1 DEF BeginsAnew, Dispatching
    <3> QED BY <3>1, DecisionServed
  <2>2. CASE k = t
    BY <1>4, <1>5, <2>2 DEF BeginsAnew
  <2>3. CASE k # l /\ k # t
    BY <1>4, <1>5, <2>3 DEF BeginsAnew, FollowInv, ExpectedServed
  <2> QED BY <2>1, <2>2, <2>3
<1>8. QuestionsPlanned' /\ StartsAtIntake'
  BY <1>2, <1>4, <1>5 DEF BeginsAnew, FollowInv, QuestionsPlanned, StartsAtIntake
<1> QED BY <1>6, <1>7, <1>8 DEF FollowInv

LEMMA RouteFollows ==
  ASSUME LifecycleInv, FollowInv, NEW l \in Lanes, Route(l)
  PROVE  FollowInv'
<1>1. PICK s, d :
        /\ s.stage = stage[l] /\ d = Decide(s, event[l])
        /\ GoOn(l, d) \/ Wait(l, d) \/ Halt(l, d)
  BY RouteDecides
<1>2. CASE Wait(l, d)
  BY <1>1, <1>2, WaitFollows
<1>3. CASE Halt(l, d)
  BY <1>3, HaltFollows
<1>4. CASE GoOn(l, d)
  <2>1. d.continuation = "AUTO_CONTINUE" /\ Forget(l)
    BY <1>4 DEF GoOn
  <2>2. CASE steps[l] >= MaxAutoSteps
    <3>1. mode' = [mode EXCEPT ![l] = "halted"] /\ UNCHANGED <<stage, expected, pending>>
      BY <1>4, <2>2 DEF GoOn
    <3> QED BY <2>1, <3>1, HaltFollows
  <2>3. CASE ~(steps[l] >= MaxAutoSteps)
    <3>1. steps[l] < MaxAutoSteps
      BY <2>3, LifecycleAssumption DEF LifecycleInv, TypeOK
    <3>2. Granting(l, d)
      BY <1>4, <2>1, <2>3, <3>1 DEF GoOn, Granting
    <3>3. Moving(s, event[l], d) \/ Dispatching(s, event[l], d)
      BY <1>1, <2>1, Decided DEF Halted, Asking, Stopping
    <3> QED BY <1>1, <3>2, <3>3, MoveFollows, DispatchFollows
  <2> QED BY <2>2, <2>3
<1> QED BY <1>1, <1>2, <1>3, <1>4

-----------------------------------------------------------------------------
LEMMA FollowStep ==
  ASSUME Obedient, LifecycleInv, FollowInv, [Next]_vars
  PROVE  FollowInv'
<1>1. CASE StartProject \/ \E t \in Tickets : WorkTicket(t)
  BY <1>1, StartsFollow
<1>2. ASSUME NEW l \in Lanes, Runner(l) \/ People(l)
      PROVE  FollowInv'
  BY <1>2, RouteFollows, ExecuteFollows, PeopleFollow DEF Runner
<1>3. CASE UNCHANGED vars
  BY <1>3 DEF vars, FollowInv, RequestsFollow, Follows, ExpectedServed, QuestionsPlanned,
              StartsAtIntake, IsFreshAsk, IsAnswer
<1> QED BY <1>1, <1>2, <1>3 DEF Next

(* A halted decision is the end of the work, or its request was excused.    *)
RoutesExpected ==
  \A l \in Lanes :
    Route(l) /\ decision'[l].continuation = "HALT" =>
      \/ decision'[l].outcome = "STOP"
      \/ event[l].returned = "BLOCKED"
      \/ event[l].kind = "APPROVAL_DENIED"
      \/ event[l].confirmation = "NEGATIVE"

LEMMA RoutedStep ==
  ASSUME AllRegistered, LifecycleInv, FollowInv
  PROVE  RoutesExpected
<1> SUFFICES ASSUME NEW l \in Lanes, Route(l), decision'[l].continuation = "HALT",
                    decision'[l].outcome # "STOP", ~Excused(event[l])
             PROVE  FALSE
  BY DEF RoutesExpected, Excused
<1>1. PICK s, d : /\ s = StateOf(l) /\ d = Decide(s, event[l])
                  /\ decision' = [decision EXCEPT ![l] = d]
  BY DEF Route
<1>2. decision'[l] = d
  BY <1>1 DEF LifecycleInv
<1>3. Follows(l, stage[l], pending, event[l], authority[l])
  BY DEF Route, FollowInv, RequestsFollow
<1>4. d # Halted
  BY <1>1, <1>3, FollowedIsGranted DEF LifecycleInv, FollowInv
<1> QED BY <1>1, <1>2, <1>4, Decided DEF Moving, Dispatching, Asking, Stopping

LEMMA InitFollows == Init => FollowInv
BY LifecycleAssumption
   DEF Init, FollowInv, RequestsFollow, ExpectedServed, QuestionsPlanned, StartsAtIntake, Lanes

(* RoutesWhatItExpects for any number of registered tickets and any ceiling: *)
(* an executor that returns what the last decision expects is refused only  *)
(* for a blocked return, the human's own refusal, or at the end of its work. *)
(* The events that _POLICY_ROUTES of profile.py lets an action return have   *)
(* rules at the stage the action belongs to, which no validator of the      *)
(* profile checks.                                                          *)
THEOREM ExpectedReturnsAreRouted ==
  ASSUME Obedient, AllRegistered
  PROVE  Spec => RoutesWhatItExpects
<1>1. Init => LifecycleInv /\ FollowInv
  BY InitInv, InitFollows
<1>2. LifecycleInv /\ FollowInv /\ [Next]_vars
        => LifecycleInv' /\ FollowInv' /\ [RoutesExpected]_vars
  BY NextStep, FollowStep, RoutedStep
<1>3. LifecycleInv => TypeOK
  BY DEF LifecycleInv
<1>4. RoutesWhatItExpects <=> []TypeOK /\ [][RoutesExpected]_vars
  BY DEF RoutesWhatItExpects, ExpectedIsRouted, RoutesExpected
<1> QED BY <1>1, <1>2, <1>3, <1>4, PTL DEF Spec
===============================================================================
