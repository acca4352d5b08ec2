------------------------------- MODULE MCRecords -------------------------------
(***************************************************************************)
(* Four records, side by side: the engagement of a member, the timeline of *)
(* an order, the shared context of a project and the citations of a        *)
(* consumer.  None reads what another keeps, so a behaviour in which one   *)
(* of them moves and the others rest shows all that the one can do.        *)
(*                                                                         *)
(* Engagement: two policies, one of them with higher bounds, and event ids *)
(* that are delivered under two kinds.  Timeline: as few ids as kinds, so  *)
(* that events share one.  Shared context: two architects and a reviewer   *)
(* over two manifests, so that a revision can come back after another one  *)
(* replaced it.  Citations: one consumer that takes up an event over two   *)
(* sources, which in their second revision no longer fit the budget, and   *)
(* that looks up and invalidates mappings too.                             *)
(***************************************************************************)
EXTENDS EngagementRules, Sequences

CONSTANTS
  p1, p2, None,
  EventIds, Codes, MaxEvents,                                  \* TimelineReplay
  Callers, Architects, ContextRefs, TheContext, Stages,        \* SharedContext
  Manifests, MaxEditions,
  Sources, RequiredSources, CitedEvents, Consumers,            \* Citations
  TokensOf, TokenBudget, MaxRevision

Event(i, k) == [id |-> i, kind |-> k]
MixedEvents ==
  {Event(1, "QUALIFICATION"), Event(2, "QUALIFICATION"), Event(2, "PROGRESS"),
   Event(3, "PROGRESS"), Event(4, "PROGRESS"), Event(5, "REWARD_REQUEST"),
   Event(6, "REWARD_REQUEST"), Event(6, "UNKNOWN")}

UpTo(limit) == [p \in Policies |-> limit]
One == UpTo(1)
Two == UpTo(2)
OneOrTwo == [p \in Policies |-> IF p = p1 THEN 1 ELSE 2]

TwoManifests == {[revision |-> "r1", digest |-> "g1"], [revision |-> "r2", digest |-> "g2"]}

SpecificationThenTicket == <<"spec", "ticket">>
TokensPerRevision == [s \in {"spec", "ticket"} |-> [r \in 1..2 |-> r]]

VARIABLES
  moving,
  initial, events,                         \* TimelineReplay
  state, seen, granted, edition, last,     \* SharedContext
  revision, held, records                  \* Citations

timelineVars == <<initial, events>>
sharedVars == <<state, seen, granted, edition, last>>
citationVars == <<revision, held, records>>

Timeline == INSTANCE TimelineReplay

Shared == INSTANCE SharedContext

Cited == INSTANCE Citations WITH Required <- RequiredSources, Events <- CitedEvents

ASSUME RecordsAssumption ==
       /\ Timeline!TimelineAssumption
       /\ Shared!SharedContextAssumption
       /\ Cited!CitationsAssumption

MCInit ==
  /\ moving \in {"engagement", "timeline", "shared", "citations"}
  /\ Init /\ Timeline!Init /\ Shared!Init /\ Cited!Init
  /\ moving # "timeline" => initial = "NOT_STARTED"

MCNext ==
  /\ UNCHANGED moving
  /\ \/ /\ moving = "engagement" /\ Next
        /\ UNCHANGED <<timelineVars, sharedVars, citationVars>>
     \/ /\ moving = "timeline" /\ Timeline!Next
        /\ UNCHANGED <<vars, sharedVars, citationVars>>
     \/ /\ moving = "shared" /\ Shared!Next
        /\ UNCHANGED <<vars, timelineVars, citationVars>>
     \/ /\ moving = "citations" /\ Cited!Next
        /\ UNCHANGED <<vars, timelineVars, sharedVars>>

MCSpec == MCInit /\ [][MCNext]_<<moving, vars, timelineVars, sharedVars, citationVars>>

(* AuditExplains, of timelines in which no unknown code is spelled like a   *)
(* known kind.                                                              *)
AuditExplains == Timeline!AuditExplains

(* ContextIsControlled, of the shared context.                              *)
ContextIsControlled == Shared!ContextIsControlled

(* InvalidationHolds, of the citations.                                     *)
InvalidationHolds == Cited!InvalidationHolds

=============================================================================
