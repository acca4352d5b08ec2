----------------------------- MODULE RouterEngine -----------------------------
(***************************************************************************)
(* router.py RouterEngine.decide over the transition table of profile.py:  *)
(* the pure evaluator of one router event.  No variables; the modules that  *)
(* keep a stage, a pending dispatch or a client EXTEND this one.            *)
(*                                                                         *)
(* A blocked decision halts whatever blocked it: which of several blockers  *)
(* is reported is left out.  What a dispatch is about is one value of       *)
(* Terms: the handoff reference and the expected main revision, which the   *)
(* proposal, the pending descriptor and the receipt all carry.  The         *)
(* reviewed commits and the control and review roles belong to the handoff: *)
(* opening the question checks them against the approved artifact, and no   *)
(* receipt has them.  A receipt and the descriptor it answers are records   *)
(* of the same fields.                                                      *)
(***************************************************************************)
EXTENDS Naturals, FiniteSets

CONSTANTS
  Tickets,
  Owners,        \* implementation capabilities
  PlannedOwner,  \* collaboration_plan.implementation_owner
  Terms,
  Registered,    \* approved dispatch artifacts: <<ticket, owner, terms>>
  None

ASSUME EngineAssumption ==
  /\ PlannedOwner \in Owners
  /\ Registered \subseteq Tickets \X Owners \X Terms
  /\ None \notin Tickets \cup Owners \cup Terms

Stages == {"INTAKE", "WAYFINDER", "ARCHITECTURE", "GRILL", "CONTEXT", "SPEC", "TICKETS",
           "IMPLEMENT", "SMOKE_TEST", "REVIEW", "HANDOFF", "BLOCKED", "STOPPED"}
EventKinds == {"INTAKE", "WAYFINDER_GO", "WAYFINDER_NO_GO", "WAYFINDER_INFO_REQUIRED",
               "OWNER_INPUT_PROVIDED", "ACTION_COMPLETED", "VALIDATION_PASSED",
               "VALIDATION_FAILED", "APPROVAL_GRANTED", "APPROVAL_DENIED",
               "REQUIREMENT_CHANGED", "CONTEXT_REFERENCE_CLOSED",
               "EXTERNAL_DECISION_REQUIRED", "TICKET_DISPATCH_REQUIRED",
               "IMPLEMENTATION_DISPATCH_CONFIRMED", "IMPLEMENTATION_RETURNED",
               "INTEGRATION_COMPLETED", "AUDIT_COMPLETED"}
ArtifactKinds == {"PROJECT_GOAL", "WAYFINDER_OUTPUT", "WAYFINDER_INFO_REQUEST", "ARCHITECTURE",
                  "GRILL", "CONTEXT", "SPEC", "TICKET", "CHANGE", "SECURITY_POLICY"}
Authorities == {"APPROVED", "PENDING", "DENIED", "NOT_REQUIRED"}
Actions == {"DOCUMENTATION", "IMPLEMENTATION", "REVIEW", "HANDOFF"}

-----------------------------------------------------------------------------
(* The transition table.  A rule names the stage and event it is for, what  *)
(* it demands, and the events its primary action may return (expected).     *)

Rule(stage, event, outcome, next, source) ==
  [stage |-> stage, event |-> event, outcome |-> outcome, next |-> next, source |-> source,
   authority |-> Authorities, human |-> FALSE, evidence |-> {}, handoff |-> FALSE,
   receipt |-> FALSE]

Advance(stage, event, next, source) == Rule(stage, event, "ADVANCE", next, source)
Accepting(rule, action) == [rule EXCEPT !.evidence = {action}]
Approved(rule) == [rule EXCEPT !.authority = {"APPROVED"}]
AskHuman(stage, event, source) ==
  [Rule(stage, event, "SUSPEND", "none", source) EXCEPT !.human = TRUE]

DiscoveryRules ==
  {Advance("INTAKE", "INTAKE", "WAYFINDER", "PROJECT_GOAL"),
   Advance("WAYFINDER", "WAYFINDER_GO", "ARCHITECTURE", "WAYFINDER_OUTPUT"),
   Rule("WAYFINDER", "WAYFINDER_NO_GO", "STOP", "STOPPED", "WAYFINDER_OUTPUT"),
   AskHuman("WAYFINDER", "WAYFINDER_INFO_REQUIRED", "WAYFINDER_INFO_REQUEST"),
   Rule("WAYFINDER", "OWNER_INPUT_PROVIDED", "RETRY", "WAYFINDER", "PROJECT_GOAL"),
   Accepting(Advance("ARCHITECTURE", "ACTION_COMPLETED", "GRILL", "ARCHITECTURE"),
             "DOCUMENTATION"),
   Accepting(Advance("GRILL", "ACTION_COMPLETED", "CONTEXT", "GRILL"), "DOCUMENTATION"),
   Accepting(Advance("CONTEXT", "ACTION_COMPLETED", "SPEC", "CONTEXT"), "DOCUMENTATION")}

(* Fault: a finished specification goes on without its approval. *)
SpecificationRulesUngated ==
  {Accepting(Advance("SPEC", "ACTION_COMPLETED", "TICKETS", "SPEC"), "DOCUMENTATION"),
   Approved(Advance("SPEC", "APPROVAL_GRANTED", "TICKETS", "SPEC")),
   [AskHuman("TICKETS", "TICKET_DISPATCH_REQUIRED", "TICKET") EXCEPT !.handoff = TRUE],
   [Approved(Advance("TICKETS", "IMPLEMENTATION_DISPATCH_CONFIRMED", "GRILL", "TICKET"))
      EXCEPT !.receipt = TRUE]}

SpecificationRules ==
  {Accepting(AskHuman("SPEC", "ACTION_COMPLETED", "SPEC"), "DOCUMENTATION"),
   Approved(Advance("SPEC", "APPROVAL_GRANTED", "TICKETS", "SPEC")),
   [AskHuman("TICKETS", "TICKET_DISPATCH_REQUIRED", "TICKET") EXCEPT !.handoff = TRUE],
   [Approved(Advance("TICKETS", "IMPLEMENTATION_DISPATCH_CONFIRMED", "GRILL", "TICKET"))
      EXCEPT !.receipt = TRUE]}

DeliveryRules ==
  {Accepting(Advance("IMPLEMENT", "IMPLEMENTATION_RETURNED", "SMOKE_TEST", "TICKET"),
             "IMPLEMENTATION"),
   Advance("GRILL", "INTEGRATION_COMPLETED", "GRILL", "TICKET"),
   Approved(Advance("GRILL", "AUDIT_COMPLETED", "REVIEW", "TICKET")),
   Accepting(Advance("IMPLEMENT", "ACTION_COMPLETED", "SMOKE_TEST", "TICKET"),
             "IMPLEMENTATION"),
   Advance("SMOKE_TEST", "VALIDATION_PASSED", "REVIEW", "TICKET"),
   Rule("SMOKE_TEST", "VALIDATION_FAILED", "RETRY", "IMPLEMENT", "TICKET"),
   Accepting(Advance("REVIEW", "ACTION_COMPLETED", "HANDOFF", "TICKET"), "REVIEW"),
   Accepting(Rule("HANDOFF", "ACTION_COMPLETED", "STOP", "STOPPED", "TICKET"), "HANDOFF"),
   Advance("IMPLEMENT", "REQUIREMENT_CHANGED", "GRILL", "CHANGE")}

Rules == DiscoveryRules \cup SpecificationRules \cup DeliveryRules

RulesFor(stage, kind) == {r \in Rules : r.stage = stage /\ r.event = kind}

(* _POLICY_ROUTES: the events the action of a rule may return. *)
ExpectedReturns(rule) ==
  CASE rule.event \in {"INTAKE", "OWNER_INPUT_PROVIDED"} ->
         {"WAYFINDER_GO", "WAYFINDER_NO_GO", "WAYFINDER_INFO_REQUIRED"}
    [] rule.event = "WAYFINDER_INFO_REQUIRED" -> {"OWNER_INPUT_PROVIDED"}
    [] rule.stage = "SPEC" /\ rule.event = "ACTION_COMPLETED" ->
         {"APPROVAL_GRANTED", "APPROVAL_DENIED"}
    [] rule.event = "APPROVAL_GRANTED" -> {"TICKET_DISPATCH_REQUIRED"}
    [] rule.event = "TICKET_DISPATCH_REQUIRED" -> {"IMPLEMENTATION_DISPATCH_CONFIRMED"}
    [] rule.next = "SMOKE_TEST" -> {"VALIDATION_PASSED", "VALIDATION_FAILED"}
    [] rule.event = "VALIDATION_FAILED" ->
         {"ACTION_COMPLETED", "IMPLEMENTATION_RETURNED", "REQUIREMENT_CHANGED"}
    [] rule.outcome = "STOP" -> {}
    [] OTHER -> {"ACTION_COMPLETED"}

(* TransitionRule.human_gate_is_a_declared_wait *)
ValidRule(r) ==
  /\ r.human => r.outcome = "SUSPEND"
  /\ r.outcome \in {"ADVANCE", "RETRY"} => r.next \in Stages
  /\ r.outcome = "SUSPEND" <=> r.next = "none"
  /\ r.outcome = "STOP" => r.next = "STOPPED"
  /\ r.evidence # {} => r.event \in {"ACTION_COMPLETED", "IMPLEMENTATION_RETURNED"}
  /\ r.handoff => r.stage = "TICKETS" /\ r.event = "TICKET_DISPATCH_REQUIRED"
                  /\ r.outcome = "SUSPEND"
  /\ r.receipt => r.stage = "TICKETS" /\ r.event = "IMPLEMENTATION_DISPATCH_CONFIRMED"
                  /\ r.outcome = "ADVANCE" /\ r.next = "GRILL"

(* ProjectWorkflowProfile.has_unique_transition_keys *)
ValidProfile ==
  /\ \A r \in Rules : ValidRule(r)
  /\ \A r1, r2 \in Rules : r1.stage = r2.stage /\ r1.event = r2.event => r1 = r2

ASSUME ProfileIsValid == ValidProfile

-----------------------------------------------------------------------------
(* Data of a dispatch. *)

Dispatches(Ids) ==
  [ticket : Tickets, question : Ids, owner : Owners, terms : Terms, correlation : Ids]

(* resolve_approved_dispatch_artifact *)
Approves(ticket, owner, terms) == <<ticket, owner, terms>> \in Registered

(* The state and event of one decision; the fields a caller does not use    *)
(* keep these values.                                                       *)
PlainState(stage, authority, sources) ==
  [stage |-> stage, authority |-> authority, sources |-> sources, delivery |-> "POC",
   topology |-> "planned", pending |-> None]

PlainEvent(kind) ==
  [kind |-> kind, id |-> None, evidence |-> "none", returned |-> "none",
   handoff |-> None, proposal |-> None, receipt |-> None, confirmation |-> "none"]

Sources(s, kind) == {a \in s.sources : a.kind = kind}

-----------------------------------------------------------------------------
(* RouterEngine.decide, up to the required sources. *)

ReceiptPresented(s, e) ==
  /\ s.topology # "none"
  /\ e.receipt # None
  /\ s.pending # None
  /\ e.confirmation = "POSITIVE"

(* Fault: the retired transition is blocked at every stage. *)
AdmitsNoApproval(rule, s, e) ==
  /\ s.delivery = "POC"
  /\ s.topology # "mismatched"
  /\ e.returned # "BLOCKED"
  /\ e.kind # "APPROVAL_GRANTED"
  /\ s.authority \in rule.authority
  /\ rule.handoff <=> e.handoff # None
  /\ e.evidence = "none" \/ e.evidence \in rule.evidence
  /\ rule.receipt => ReceiptPresented(s, e)
  /\ Cardinality(Sources(s, rule.source)) = 1

Admits(rule, s, e) ==
  /\ s.delivery = "POC"
  /\ s.topology # "mismatched"
  /\ e.returned # "BLOCKED"
  /\ ~(s.stage = "TICKETS" /\ e.kind = "APPROVAL_GRANTED")
  /\ s.authority \in rule.authority
  /\ rule.handoff <=> e.handoff # None
  /\ e.evidence = "none" \/ e.evidence \in rule.evidence
  /\ rule.receipt => ReceiptPresented(s, e)
  /\ Cardinality(Sources(s, rule.source)) = 1

(* The dispatch question: an opened proposal and a reviewed handoff that    *)
(* agree on one registered dispatch of a ticket with no pending question.   *)
OpensQuestion(s, e) ==
  /\ e.proposal # None
  /\ s.pending = None
  /\ e.proposal.opened
  /\ s.topology = "planned"
  /\ Sources(s, "TICKET") = {[kind |-> "TICKET", id |-> e.proposal.ticket]}
  /\ e.proposal.owner = PlannedOwner
  /\ e.handoff.ticket = e.proposal.ticket /\ e.handoff.owner = e.proposal.owner
  /\ Approves(e.proposal.ticket, e.proposal.owner, e.handoff.terms)

Question(e) ==
  [ticket |-> e.proposal.ticket, question |-> e.proposal.question,
   owner |-> e.proposal.owner, terms |-> e.handoff.terms, correlation |-> e.id]

(* The receipt, field by field, against the one ticket source, the pending  *)
(* descriptor and the selected plan.                                        *)
ReceiptMatches(s, e) ==
  /\ s.topology = "planned"
  /\ Sources(s, "TICKET") = {[kind |-> "TICKET", id |-> e.receipt.ticket]}
  /\ s.pending.ticket = e.receipt.ticket
  /\ e.receipt.correlation = s.pending.correlation
  /\ e.receipt.question = s.pending.question
  /\ e.receipt.terms = s.pending.terms
  /\ s.pending.owner = PlannedOwner
  /\ e.receipt.owner = s.pending.owner

Halted == [outcome |-> "SUSPEND", continuation |-> "HALT", next |-> "none", pending |-> None,
           lane |-> None, expected |-> {}]

(* RouterDecision.decision_shape_is_consistent, and _action_for: a granted   *)
(* stage has an action to run.                                              *)
Granted == {"WAYFINDER", "ARCHITECTURE", "GRILL", "CONTEXT", "SPEC", "TICKETS",
            "IMPLEMENT", "SMOKE_TEST", "REVIEW", "HANDOFF"}

ValidDecision(d) ==
  /\ d.continuation = "AUTO_CONTINUE" <=> d.outcome \in {"ADVANCE", "RETRY"}
  /\ d.outcome \in {"ADVANCE", "RETRY"} => d.next \in Granted
  /\ d.outcome = "SUSPEND" => d.next = "none"
  /\ d.outcome = "STOP" => d.next = "STOPPED" /\ d.continuation = "HALT"
  /\ d.pending # None => d.continuation = "WAIT_FOR_HUMAN"
  /\ d.lane # None => d.continuation = "AUTO_CONTINUE"

(* A decision that follows its rule.  "lane" is the dispatch plan: the      *)
(* receipt the ticket lane is created from.                                 *)
Follow(rule) ==
  [outcome |-> rule.outcome,
   continuation |-> CASE rule.human -> "WAIT_FOR_HUMAN"
                      [] rule.outcome \in {"ADVANCE", "RETRY"} -> "AUTO_CONTINUE"
                      [] OTHER -> "HALT",
   next |-> rule.next, pending |-> None, lane |-> None, expected |-> ExpectedReturns(rule)]

DecideBy(rule, s, e) ==
  CASE e.kind = "TICKET_DISPATCH_REQUIRED" ->
         IF OpensQuestion(s, e) THEN [Follow(rule) EXCEPT !.pending = Question(e)] ELSE Halted
    [] rule.receipt ->
         IF ReceiptMatches(s, e) THEN [Follow(rule) EXCEPT !.lane = e.receipt] ELSE Halted
    [] OTHER -> Follow(rule)

Decide(s, e) ==
  LET admitting == {r \in RulesFor(s.stage, e.kind) : Admits(r, s, e)}
  IN  IF admitting = {} THEN Halted ELSE DecideBy(CHOOSE r \in admitting : TRUE, s, e)

=============================================================================
