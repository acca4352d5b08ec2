---------------------------- MODULE AgentContext ----------------------------
(***************************************************************************)
(* router.py RouterEngine.decide_agent_context_transition: the gate before  *)
(* the lease under which an agent works on one ticket, and agents that ask  *)
(* it with the lease they hold, which may have ended meanwhile.             *)
(*                                                                         *)
(* The gate is pure.  The host keeps, from one decision to the next, the    *)
(* active lease it returns, and without one the prior lease; it drops a     *)
(* lease that ended before it opens another.  A lane is what identifies a   *)
(* ticket's work (ticket, receipt, branch); an owner stands for project,    *)
(* role, capability, owner and worktree; a source for baseline, control     *)
(* baseline and artifacts, which a replacement all has to renew.            *)
(***************************************************************************)
EXTENDS FiniteSets

CONSTANTS
  Agents,
  LeaseRefs,
  SideContexts,
  Lanes,           \* records [ticket, receipt, branch]
  Owners,
  ContextSources,
  Returns,         \* expected_return_ref
  FreshIds,        \* the host never gives out a side context that ended
  None

AgentContextAssumption ==
  /\ FreshIds \in BOOLEAN
  /\ None \notin LeaseRefs \cup SideContexts

VARIABLES
  current,    \* the lease the host passes to the gate, or NoLease
  held,       \* agent -> the lease it was last given, or NoLease
  used,       \* side contexts given out
  ended,      \* side contexts of leases that ended
  last        \* who was last allowed to do what

vars == <<current, held, used, ended, last>>

Operations == {"OPEN", "RESUME", "REBIND_CORRECTION", "SWITCH_TICKET", "CLOSE"}
Upstream == {"CURRENT", "MISSING", "REQUIREMENT_CHANGED"}

(* A transition candidate is an active lease that does not end itself. *)
Candidates ==
  {l \in [ref : LeaseRefs, lifecycle : {"ACTIVE"}, lane : Lanes, owner : Owners,
          source : ContextSources, side : SideContexts, return : Returns,
          invalidates : {None} \cup SideContexts] : l.side # l.invalidates}
NoLease == [ref |-> None, lifecycle |-> "NONE", side |-> None]
WithLifecycle(lease, lifecycle) == [lease EXCEPT !.lifecycle = lifecycle]

-----------------------------------------------------------------------------
(* The gate.  A refusal has no active lease. *)

Refused(prior) == [allowed |-> FALSE, prior |-> prior, active |-> NoLease]
Allowed(prior, active) == [allowed |-> TRUE, prior |-> prior, active |-> active]

SameCorrectionBinding(prior, new) ==
  new.lane = prior.lane /\ new.owner = prior.owner /\ new.return = prior.return

FreshCorrectionValues(prior, new) ==
  new.ref # prior.ref /\ new.side # prior.side /\ new.source # prior.source

SameSwitchBinding(prior, new) ==
  /\ new.owner = prior.owner
  /\ new.lane.ticket # prior.lane.ticket
  /\ new.lane.receipt # prior.lane.receipt
  /\ new.lane.branch # prior.lane.branch

FreshSwitchValues(prior, new) ==
  FreshCorrectionValues(prior, new) /\ new.return # prior.return

Open(q, lease) ==
  IF lease = NoLease /\ q.candidate.invalidates = None
  THEN Allowed(NoLease, q.candidate) ELSE Refused(lease)

Close(q, lease) == Allowed(WithLifecycle(lease, "CLOSED"), NoLease)

Resume(q, lease) ==
  IF q.candidate = lease THEN Allowed(lease, lease) ELSE Refused(lease)

RebindCorrection(q, lease) ==
  IF /\ SameCorrectionBinding(lease, q.candidate)
     /\ FreshCorrectionValues(lease, q.candidate)
     /\ q.candidate.invalidates = lease.side
  THEN Allowed(WithLifecycle(lease, "INVALIDATED"), q.candidate) ELSE Refused(lease)

SwitchTicket(q, lease) ==
  IF /\ SameSwitchBinding(lease, q.candidate)
     /\ FreshSwitchValues(lease, q.candidate)
     /\ q.candidate.invalidates = lease.side
  THEN Allowed(WithLifecycle(lease, "CLOSED"), q.candidate) ELSE Refused(lease)

Admit(q, lease) ==
  CASE q.operation = "OPEN" -> Open(q, lease)
    [] q.operation = "CLOSE" -> Close(q, lease)
    [] q.operation = "RESUME" -> Resume(q, lease)
    [] q.operation = "REBIND_CORRECTION" -> RebindCorrection(q, lease)
    [] q.operation = "SWITCH_TICKET" -> SwitchTicket(q, lease)

EndedByChange(lease) ==
  IF lease.lifecycle = "ACTIVE" THEN WithLifecycle(lease, "INVALIDATED") ELSE lease

(* Fault: a lease that ended is only recognised by its references. *)
DecideAnyLifecycle(q, lease) ==
  CASE q.upstream = "MISSING" -> Refused(lease)
    [] q.upstream = "REQUIREMENT_CHANGED" -> Refused(EndedByChange(lease))
    [] OTHER -> IF \/ lease = NoLease /\ q.operation # "OPEN"
                   \/ lease # NoLease /\ (q.ref # lease.ref \/ q.side # lease.side)
                THEN Refused(lease) ELSE Admit(q, lease)

(* Fault: the references the caller expects are not compared. *)
DecideUnbound(q, lease) ==
  CASE q.upstream = "MISSING" -> Refused(lease)
    [] q.upstream = "REQUIREMENT_CHANGED" -> Refused(EndedByChange(lease))
    [] OTHER -> IF \/ lease.lifecycle \in {"CLOSED", "INVALIDATED"}
                   \/ lease = NoLease /\ q.operation # "OPEN"
                THEN Refused(lease) ELSE Admit(q, lease)

Decide(q, lease) ==
  CASE q.upstream = "MISSING" -> Refused(lease)
    [] q.upstream = "REQUIREMENT_CHANGED" -> Refused(EndedByChange(lease))
    [] OTHER -> IF \/ lease.lifecycle \in {"CLOSED", "INVALIDATED"}
                   \/ lease = NoLease /\ q.operation # "OPEN"
                   \/ lease # NoLease /\ (q.ref # lease.ref \/ q.side # lease.side)
                THEN Refused(lease) ELSE Admit(q, lease)

-----------------------------------------------------------------------------
Init ==
  /\ current = NoLease
  /\ held = [a \in Agents |-> NoLease]
  /\ used = {}
  /\ ended = {}
  /\ last = [agent |-> None, operation |-> None]

(* An agent asks in the name of the lease it holds, of OPEN excepted, whose  *)
(* requests expect no lease.  It may propose any candidate, also one that    *)
(* the operation does not fit; CLOSE proposes none.  Of a request under      *)
(* another upstream state than CURRENT nothing else is read.                 *)
Request(operation, upstream, lease, candidate) ==
  [operation |-> operation, upstream |-> upstream, ref |-> lease.ref, side |-> lease.side,
   candidate |-> candidate]

RequestsOf(a) ==
  {Request("OPEN", "CURRENT", NoLease, l) : l \in Candidates}
  \cup {Request("OPEN", u, NoLease, NoLease) : u \in Upstream \ {"CURRENT"}}
  \cup (IF held[a] = NoLease THEN {} ELSE
        {Request(o, "CURRENT", held[a], l) :
           o \in {"RESUME", "REBIND_CORRECTION", "SWITCH_TICKET"}, l \in Candidates}
        \cup {Request("CLOSE", "CURRENT", held[a], NoLease)})

Kept(outcome) == IF outcome.active = NoLease THEN outcome.prior ELSE outcome.active

Ended(outcome) ==
  IF outcome.prior.lifecycle \in {"CLOSED", "INVALIDATED"} THEN {outcome.prior.side} ELSE {}

Ask(a, q) ==
  LET outcome == Decide(q, current) IN
  /\ FreshIds => q.operation \in {"RESUME", "CLOSE"} \/ q.candidate.side \notin ended
  /\ current' = Kept(outcome)
  /\ held' = IF outcome.allowed THEN [held EXCEPT ![a] = outcome.active] ELSE held
  /\ used' = used \cup ({outcome.active.side} \ {None})
  /\ ended' = ended \cup Ended(outcome)
  /\ last' = IF outcome.allowed THEN [agent |-> a, operation |-> q.operation] ELSE last

(* The host hands a lease to a second agent, which works under it too. *)
HandOver(a) ==
  /\ current.lifecycle = "ACTIVE"
  /\ held[a] # current
  /\ held' = [held EXCEPT ![a] = current]
  /\ UNCHANGED <<current, used, ended, last>>

(* The host forgets a lease that ended. *)
Retire ==
  /\ current.lifecycle \in {"CLOSED", "INVALIDATED"}
  /\ current' = NoLease
  /\ UNCHANGED <<held, used, ended, last>>

Next ==
  \/ \E a \in Agents : HandOver(a) \/ \E q \in RequestsOf(a) : Ask(a, q)
  \/ Retire

Spec == Init /\ [][Next]_vars

-----------------------------------------------------------------------------
(* The host keeps no lease or one that was a candidate once. *)
TypeOK ==
  /\ current = NoLease \/ WithLifecycle(current, "ACTIVE") \in Candidates
  /\ \A a \in Agents : held[a] = NoLease \/ held[a] \in Candidates
  /\ ended \subseteq used

Working == IF current.lifecycle = "ACTIVE" THEN current.side ELSE None

(* One working view at a time, and none that ended works again, whatever    *)
(* the agents that still hold an old lease ask for, and across requirement  *)
(* changes, corrections and switches.                                       *)
Views == INSTANCE WorkingView WITH
  Views <- SideContexts, working <- Working, open <- current # NoLease
ViewsEndForGood == Views!Spec

(* An agent is only allowed to go on with, correct, leave or close the       *)
(* lease that is current; one whose lease was replaced under it is refused. *)
HoldersActOnCurrent ==
  [][\A a \in Agents :
       (/\ last' # last
        /\ last'.agent = a
        /\ last'.operation # "OPEN") => held[a] = current]_vars

(* The tickets of two leases that follow each other on a lane's worktree    *)
(* never share a branch or a receipt: a switch leaves nothing of the first  *)
(* ticket to the second.                                                    *)
SwitchesAreClean ==
  [][(/\ current.lifecycle = "ACTIVE"
      /\ current'.lifecycle = "ACTIVE"
      /\ current.lane.ticket # current'.lane.ticket)
     => /\ current.lane.branch # current'.lane.branch
        /\ current.lane.receipt # current'.lane.receipt
        /\ current'.invalidates = current.side]_vars

(* A lease changes hands only through the one that holds it, and cleanly. *)
LeasesChangeHands == []TypeOK /\ HoldersActOnCurrent /\ SwitchesAreClean

=============================================================================
