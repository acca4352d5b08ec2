---------------------------- MODULE MCSupervision ----------------------------
(***************************************************************************)
(* The binding whose writer is replaced and, beside it, the supervised     *)
(* ticket.  Neither reads what the other keeps, so a behaviour in which    *)
(* one of them moves and the other rests shows all that the one can do.    *)
(* Nobody has to go on from the binding values he was returned: a value    *)
(* may be presented again at any time.                                     *)
(***************************************************************************)
EXTENDS ExecutionReplacement

CONSTANTS LunaTotal, TerraInactivity, NoLease, MaxClock, MaxLeases, MaxFacts

VARIABLES moving, clock, lease, override, timer, facts, lastSeen, handedOff, began, asked,
          verdict, starts

leaseVars ==
  <<clock, lease, override, timer, facts, lastSeen, handedOff, began, asked, verdict, starts>>

Lease == INSTANCE SupervisionLease

ASSUME SupervisionAssumption == Lease!LeaseAssumption /\ Lease!NoLeaseAssumption

(* The baseline of every receipt is the commit the ticket starts from. *)
FromTheStart == [r \in Receipts |-> 0]

MCInit ==
  /\ moving \in {"lease", "replacement"}
  /\ Init /\ Lease!Init

MCNext ==
  /\ UNCHANGED moving
  /\ \/ moving = "lease" /\ Lease!Next /\ UNCHANGED vars
     \/ moving = "replacement" /\ Next /\ UNCHANGED leaseVars

MCSpec == MCInit /\ [][MCNext]_<<moving, vars, leaseVars>>

(* A lease ends in time: at a deadline that was due, and at the handoff.    *)
LeaseEndsInTime == Lease!LeaseEndsInTime

(* At most one continuation per execution and no way back from the end,     *)
(* with facts late, reordered or repeated.                                  *)
KeepsWatch == Lease!KeepsWatch

=============================================================================
