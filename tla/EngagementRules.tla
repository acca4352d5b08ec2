--------------------------- MODULE EngagementRules ---------------------------
(***************************************************************************)
(* engagement_rules.py: qualification, progress and reward permission of    *)
(* each policy, evaluated over events that a caller delivers in any order   *)
(* and again, and with states and policies mixed up.                        *)
(*                                                                         *)
(* Every evaluation is pure; the caller keeps the state of an accepted one. *)
(***************************************************************************)
EXTENDS Naturals, FiniteSets

CONSTANTS
  Policies,       \* the catalog's policy ids
  OtherPolicies,  \* ids the catalog does not know
  Incoming,       \* records [id, kind]; an id may come with several kinds
  Required,       \* qualification_requirement
  Target,         \* progress_target
  Cap             \* reward_cap

Kinds == {"QUALIFICATION", "PROGRESS", "REWARD_REQUEST", "UNKNOWN"}
Limits == 1..10000

ASSUME EngagementAssumption ==
  /\ Policies \cap OtherPolicies = {}
  /\ Required \in [Policies -> Limits]
  /\ Target \in [Policies -> Limits]
  /\ Cap \in [Policies -> Limits]
  /\ \A e \in Incoming : e.kind \in Kinds

Actions == {"QUALIFICATION_RECORDED", "RECOMMENDATION_ELIGIBLE", "PROGRESS_RECORDED",
            "PROGRESS_TARGET_REACHED", "REWARD_PERMITTED"}
Reasons == {"UNKNOWN_POLICY", "UNKNOWN_EVENT", "STATE_POLICY_MISMATCH", "DUPLICATE_EVENT",
            "NOT_RECOMMENDATION_ELIGIBLE", "ALREADY_RECOMMENDATION_ELIGIBLE", "INVALID_STATE",
            "PROGRESS_TARGET_REACHED", "PROGRESS_TARGET_NOT_REACHED", "REWARD_CAP_REACHED"}

VARIABLES
  states,     \* policy -> EngagementState
  told,       \* policy -> action -> how often the caller was told it
  answer      \* the last rejection's reason, or "ACCEPTED"

vars == <<states, told, answer>>

Initial(p) ==
  [policy |-> p, qualification |-> 0, progress |-> 0, rewards |-> 0, processed |-> {}]

Init ==
  /\ states = [p \in Policies |-> Initial(p)]
  /\ told = [p \in Policies |-> [a \in Actions |-> 0]]
  /\ answer = "ACCEPTED"

-----------------------------------------------------------------------------
Accepted(state, action) == [state |-> state, action |-> action, reason |-> "ACCEPTED"]
Rejected(state, reason) == [state |-> state, action |-> "NONE", reason |-> reason]

Eligible(p, s) == s.qualification >= Required[p]

SatisfiesBounds(p, s) ==
  /\ s.qualification <= Required[p]
  /\ s.progress <= Target[p]
  /\ s.rewards <= Cap[p]
  /\ ~Eligible(p, s) => s.progress = 0 /\ s.rewards = 0
  /\ s.progress < Target[p] => s.rewards = 0

Recorded(s, e) == [s EXCEPT !.processed = @ \cup {e.id}]

EvaluateQualification(p, s, e) ==
  IF Eligible(p, s) THEN Rejected(s, "ALREADY_RECOMMENDATION_ELIGIBLE")
  ELSE LET next == [Recorded(s, e) EXCEPT !.qualification = @ + 1] IN
       Accepted(next, IF Eligible(p, next) THEN "RECOMMENDATION_ELIGIBLE"
                      ELSE "QUALIFICATION_RECORDED")

EvaluateProgress(p, s, e) ==
  CASE ~Eligible(p, s) -> Rejected(s, "NOT_RECOMMENDATION_ELIGIBLE")
    [] Eligible(p, s) /\ s.progress >= Target[p] -> Rejected(s, "PROGRESS_TARGET_REACHED")
    [] OTHER -> LET next == [Recorded(s, e) EXCEPT !.progress = @ + 1] IN
                Accepted(next, IF next.progress = Target[p] THEN "PROGRESS_TARGET_REACHED"
                               ELSE "PROGRESS_RECORDED")

EvaluateRewardRequest(p, s, e) ==
  CASE ~Eligible(p, s) -> Rejected(s, "NOT_RECOMMENDATION_ELIGIBLE")
    [] Eligible(p, s) /\ s.progress < Target[p] -> Rejected(s, "PROGRESS_TARGET_NOT_REACHED")
    [] Eligible(p, s) /\ s.progress >= Target[p] /\ s.rewards >= Cap[p]
         -> Rejected(s, "REWARD_CAP_REACHED")
    [] OTHER -> Accepted([Recorded(s, e) EXCEPT !.rewards = @ + 1], "REWARD_PERMITTED")

ByKind(p, s, e) ==
  CASE e.kind = "QUALIFICATION" -> EvaluateQualification(p, s, e)
    [] e.kind = "PROGRESS" -> EvaluateProgress(p, s, e)
    [] e.kind = "REWARD_REQUEST" -> EvaluateRewardRequest(p, s, e)

(* Fault: an event that was processed already is evaluated again. *)
EvaluateAgain(p, s, e) ==
  CASE p \notin Policies -> Rejected(s, "UNKNOWN_POLICY")
    [] p \in Policies /\ s.policy # p -> Rejected(s, "STATE_POLICY_MISMATCH")
    [] OTHER -> IF ~SatisfiesBounds(p, s) THEN Rejected(s, "INVALID_STATE")
                ELSE IF e.kind = "UNKNOWN" THEN Rejected(s, "UNKNOWN_EVENT")
                ELSE ByKind(p, s, e)

Evaluate(p, s, e) ==
  CASE p \notin Policies -> Rejected(s, "UNKNOWN_POLICY")
    [] p \in Policies /\ s.policy # p -> Rejected(s, "STATE_POLICY_MISMATCH")
    [] OTHER -> IF ~SatisfiesBounds(p, s) THEN Rejected(s, "INVALID_STATE")
                ELSE IF e.kind = "UNKNOWN" THEN Rejected(s, "UNKNOWN_EVENT")
                ELSE IF e.id \in s.processed THEN Rejected(s, "DUPLICATE_EVENT")
                ELSE ByKind(p, s, e)

(* The caller evaluates an event against the state it keeps for owner. *)
Deliver(p, owner, e) ==
  LET result == Evaluate(p, states[owner], e) IN
  /\ states' = [states EXCEPT ![owner] = result.state]
  /\ told' = IF result.reason = "ACCEPTED"
             THEN [told EXCEPT ![owner][result.action] = @ + 1] ELSE told
  /\ answer' = result.reason

Next ==
  \E p \in Policies \cup OtherPolicies, owner \in Policies, e \in Incoming : Deliver(p, owner, e)

Spec == Init /\ [][Next]_vars

-----------------------------------------------------------------------------
(* Counts are natural numbers, and the state of a policy stays its own. *)
TypeOK ==
  /\ \A p \in Policies :
       /\ states[p].policy = p
       /\ {states[p].qualification, states[p].progress, states[p].rewards} \subseteq Nat
  /\ answer \in Reasons \cup {"ACCEPTED"}

(* No order of deliveries leads to a state the evaluator itself would call   *)
(* invalid: a reward only after the full target, within the cap, and so no   *)
(* caller who keeps what he is given is ever answered INVALID_STATE.         *)
NeverInvalid ==
  /\ \A p \in Policies : SatisfiesBounds(p, states[p])
  /\ answer # "INVALID_STATE"

(* An event counts once, however often it is delivered and under whatever    *)
(* kind: the three counts add up to the number of processed event ids.       *)
EventsCountOnce ==
  \A p \in Policies :
    states[p].qualification + states[p].progress + states[p].rewards
      = Cardinality(states[p].processed)

(* What the caller was told is what the state says: it hears of eligibility  *)
(* and of the target once, when they are reached, and of every permission.   *)
ToldAsItIs ==
  \A p \in Policies :
    /\ told[p]["RECOMMENDATION_ELIGIBLE"] = IF Eligible(p, states[p]) THEN 1 ELSE 0
    /\ told[p]["PROGRESS_TARGET_REACHED"] = IF states[p].progress = Target[p] THEN 1 ELSE 0
    /\ told[p]["REWARD_PERMITTED"] = states[p].rewards

(* The bookkeeping of every policy, in whatever order events come. *)
CountsAreSound == TypeOK /\ NeverInvalid /\ EventsCountOnce /\ ToldAsItIs

=============================================================================
