------------------------- MODULE ExecutionReplacement -------------------------
(***************************************************************************)
(* execution_replacement.py: the execution of a ticket is bound to one     *)
(* writer; a successor takes over after the host has read back that the    *)
(* old writer is disabled and the new one enabled.  Bindings and plans are *)
(* immutable values.  With Adopting the caller drops the values an         *)
(* operation replaced and records every commit of the execution that holds *)
(* the authority; without it every value ever returned may be presented    *)
(* again.  In both a writer writes from when the host enables it until the *)
(* host disables it: no writer obeys a freeze, and a candidate that is     *)
(* enabled early does not wait for its predecessor's end.                  *)
(*                                                                         *)
(* Abstractions: owner, worktree, branch and baseline are those of the     *)
(* receipt, as the validators demand, so a receipt stands for them; task   *)
(* and writer are those of the binding's reference; a commit is a number.  *)
(* The same-execution observation changes nothing and is left out.         *)
(***************************************************************************)
EXTENDS Integers, FiniteSets

CONSTANTS
  Refs, First,        \* binding references, and the ticket's first
  Receipts,           \* receipt ids
  FirstReceipt,
  Base,               \* receipt -> its baseline commit
  Machines, Home,     \* machines, and that of the first binding
  Models,             \* ExecutionModel
  Luna, Terra,        \* LUNA_XHIGH and TERRA_HIGH
  Nobody,
  Adopting,           \* callers go on from the values they were returned
  MaxCommits,         \* bound of the commits
  MaxPlans            \* bound of the plans in callers' hands

ASSUME ReplacementAssumption ==
  /\ First \in Refs /\ Nobody \notin Refs
  /\ FirstReceipt \in Receipts
  /\ Base \in [Receipts -> Nat]
  /\ Home \in Machines
  /\ {Luna, Terra} \subseteq Models
  /\ Adopting \in BOOLEAN
  /\ MaxCommits \in Nat /\ MaxPlans \in Nat

Lifecycles == {"ACTIVE", "REPLACEMENT_PENDING", "REPLACED", "CLOSED"}
NoCommit == -1

(* ExecutionBinding.binding_matches_receipt.  after is the reference of the *)
(* binding this one succeeded.                                              *)
Bindings ==
  {b \in [ref : Refs, life : Lifecycles, receipt : Receipts,
          receiptLife : {"ACTIVE", "REVOKED"}, machine : Machines,
          model : Models, last : Nat, after : Refs \cup {Nobody}] :
     b.life = "ACTIVE" => b.receiptLife = "ACTIVE"}

(* ExecutionReplacementCandidate: its receipt is active. *)
Candidates == [ref : Refs, receipt : Receipts, machine : Machines, model : Models]

(* ExecutionReplacementPlan with decision REPLACEMENT_READY. *)
Plans == {p \in [current : Bindings, candidate : Candidates, checkpoint : Nat \cup {NoCommit}] :
            p.current.life = "REPLACEMENT_PENDING"}

VARIABLES
  bindings,   \* the binding values in callers' hands
  plans,      \* the ready plans in callers' hands
  writers,    \* the references the host lets write
  revoked,    \* those of which a revocation readback exists
  activated,  \* those of which an activation readback exists
  head,       \* the latest commit of the ticket
  granted     \* the latest that was recorded of an active binding

vars == <<bindings, plans, writers, revoked, activated, head, granted>>

FirstBinding ==
  [ref |-> First, life |-> "ACTIVE", receipt |-> FirstReceipt, receiptLife |-> "ACTIVE",
   machine |-> Home, model |-> Luna, last |-> 0, after |-> Nobody]

Init ==
  /\ bindings = {FirstBinding}
  /\ plans = {}
  /\ writers = {First}
  /\ revoked = {} /\ activated = {}
  /\ head = 0 /\ granted = 0

Adopt(old, new) ==
  bindings' = IF Adopting THEN (bindings \ {old}) \cup {new} ELSE bindings \cup {new}

Active == {b \in bindings : b.life = "ACTIVE"}

-----------------------------------------------------------------------------
(* The host and the writers. *)

(* A writer commits.  The last commit of a binding is the caller's to        *)
(* record; there is none to record it in for a writer that is frozen or not *)
(* yet active.                                                              *)
Commit(w) ==
  /\ w \in writers /\ head < MaxCommits
  /\ head' = head + 1
  /\ \/ \E b \in Active : /\ b.ref = w
                          /\ Adopt(b, [b EXCEPT !.last = head + 1])
                          /\ granted' = head + 1
     \/ /\ Adopting => \A b \in Active : b.ref # w
        /\ UNCHANGED <<bindings, granted>>
  /\ UNCHANGED <<plans, writers, revoked, activated>>

(* ExecutionRevocationReadback: writes disabled, subscription closed. *)
DisableWriter(p) ==
  /\ p \in plans /\ p.current.ref \in writers
  /\ writers' = writers \ {p.current.ref}
  /\ revoked' = revoked \cup {p.current.ref}
  /\ UNCHANGED <<bindings, plans, activated, head, granted>>

(* ExecutionActivationReadback: also of a writer that writes already.  The   *)
(* host never enables again what it revoked.                                *)
EnableWriter(p) ==
  /\ p \in plans /\ p.candidate.ref \notin activated \cup revoked
  /\ writers' = writers \cup {p.candidate.ref}
  /\ activated' = activated \cup {p.candidate.ref}
  /\ UNCHANGED <<bindings, plans, revoked, head, granted>>

-----------------------------------------------------------------------------
(* Fault: any checkpoint will do. *)
MayReplaceAnyCheckpoint(b, c, checkpoint, clean, authority) ==
  /\ b.life = "ACTIVE"
  /\ checkpoint = NoCommit => Base[c.receipt] = b.last
  /\ c.machine # b.machine => clean
  /\ IF c.receipt # b.receipt THEN authority ELSE ~authority

(* Fault: a frozen execution is replaced once more. *)
MayReplacePending(b, c, checkpoint, clean, authority) ==
  /\ b.life \in {"ACTIVE", "REPLACEMENT_PENDING"}
  /\ IF checkpoint # NoCommit THEN checkpoint = b.last ELSE Base[c.receipt] = b.last
  /\ c.machine # b.machine => clean
  /\ IF c.receipt # b.receipt THEN authority ELSE ~authority

(* The guards of plan_execution_replacement.  clean is the candidate's      *)
(* fresh checkout.  An available old task gives a                           *)
(* checkpoint, the last commit of the binding; otherwise the candidate's    *)
(* baseline is that commit.  authority is the Router's for this candidate's *)
(* receipt, with the old one revoked.                                       *)
MayReplace(b, c, checkpoint, clean, authority) ==
  /\ b.life = "ACTIVE"
  /\ IF checkpoint # NoCommit THEN checkpoint = b.last ELSE Base[c.receipt] = b.last
  /\ c.machine # b.machine => clean
  /\ IF c.receipt # b.receipt THEN authority ELSE ~authority

Frozen(b, c) ==
  [b EXCEPT !.life = "REPLACEMENT_PENDING",
            !.receiptLife = IF c.receipt # b.receipt THEN "REVOKED" ELSE @]

(* Any reference may be a candidate's, one of an execution that ended or    *)
(* the current one's own included.  The old task's checkpoint is a commit   *)
(* that was once made.                                                      *)
PlanReplacement(b, c, checkpoint, clean, authority) ==
  /\ b \in bindings /\ Cardinality(plans) < MaxPlans
  /\ checkpoint \in {NoCommit} \cup 0..head
  /\ MayReplace(b, c, checkpoint, clean, authority)
  /\ Adopt(b, Frozen(b, c))
  /\ plans' = plans \cup {[current |-> Frozen(b, c), candidate |-> c, checkpoint |-> checkpoint]}
  /\ UNCHANGED <<writers, revoked, activated, head, granted>>

(* Fault: a readback of any revocation is taken for this one. *)
RevocationOfAny(p) == revoked # {}

(* Fault: the readback is looked for under the successor's reference. *)
RevocationOfSuccessor(p) == p.candidate.ref \in revoked

RevocationProven(p) == p.current.ref \in revoked

ActivationProven(p) == p.candidate.ref \in activated

(* _active_from_candidate. *)
Successor(p) ==
  [ref |-> p.candidate.ref, life |-> "ACTIVE", receipt |-> p.candidate.receipt,
   receiptLife |-> "ACTIVE", machine |-> p.candidate.machine, model |-> p.candidate.model,
   last |-> IF p.checkpoint # NoCommit THEN p.checkpoint ELSE p.current.last,
   after |-> p.current.ref]

(* complete_execution_replacement; while a readback is missing the answer   *)
(* is a rejection, and the plan may be completed later.  A caller that      *)
(* adopts has no further use for the replaced value.                        *)
CompleteReplacement(p) ==
  /\ p \in plans
  /\ RevocationProven(p) /\ ActivationProven(p)
  /\ LET old == [p.current EXCEPT !.life = "REPLACED"]
     IN  bindings' = IF Adopting
                     THEN (bindings \ {p.current}) \cup {Successor(p)}
                     ELSE bindings \cup {old, Successor(p)}
  /\ plans' = IF Adopting THEN plans \ {p} ELSE plans
  /\ UNCHANGED <<writers, revoked, activated, head, granted>>

(* rebind_execution_model, with the host's proof. *)
RebindModel(b) ==
  /\ b \in bindings
  /\ b.life = "ACTIVE" /\ b.model = Luna
  /\ Adopt(b, [b EXCEPT !.model = Terra])
  /\ UNCHANGED <<plans, writers, revoked, activated, head, granted>>

(* close_execution_binding, after a terminal handoff: any binding value is  *)
(* closed.  A caller that adopts closes what holds the authority and gives  *)
(* up the replacement under way.                                            *)
CloseBinding(b) ==
  /\ b \in bindings
  /\ Adopting => b.life \in {"ACTIVE", "REPLACEMENT_PENDING"}
  /\ Adopt(b, [b EXCEPT !.life = "CLOSED"])
  /\ plans' = IF Adopting THEN {p \in plans : p.current.ref # b.ref} ELSE plans
  /\ UNCHANGED <<writers, revoked, activated, head, granted>>

-----------------------------------------------------------------------------
Host == \E p \in plans : DisableWriter(p) \/ EnableWriter(p)

Next ==
  \/ Host
  \/ \E w \in writers : Commit(w)
  \/ \E b \in bindings : RebindModel(b) \/ CloseBinding(b)
  \/ \E b \in bindings, c \in Candidates, checkpoint \in {NoCommit} \cup 0..MaxCommits,
        clean \in BOOLEAN, authority \in BOOLEAN : PlanReplacement(b, c, checkpoint, clean, authority)
  \/ \E p \in plans : CompleteReplacement(p)

Spec == Init /\ [][Next]_vars

(* The host answers, and the caller completes what has been read back. *)
Fairness ==
  /\ WF_vars(\E p \in plans : DisableWriter(p)) /\ WF_vars(\E p \in plans : EnableWriter(p))
  /\ WF_vars(\E p \in plans : CompleteReplacement(p))

FairSpec == Spec /\ Fairness

-----------------------------------------------------------------------------
TypeOK ==
  /\ bindings \subseteq Bindings
  /\ plans \subseteq Plans
  /\ writers \subseteq Refs /\ revoked \subseteq Refs /\ activated \subseteq Refs
  /\ head \in 0..MaxCommits /\ granted \in 0..head

(* "Activate a successor only after exact old-writer revocation readback":  *)
(* no binding is active while the writer it succeeded may still write,      *)
(* whatever values were presented and however often.                        *)
PredecessorsAreSilent == \A b \in Active : b.after \notin writers

(* With callers that adopt, nobody else writes while a binding is active,   *)
(* although no writer stops before the host disables it.                    *)
ActiveWritesAlone ==
  Adopting => \A b \in Active : writers \subseteq {b.ref}

(* A successor goes on from the last commit that was made while an execution *)
(* was active: nothing written under the authority is lost, however many     *)
(* replacements ago.  What a frozen writer commits before its revocation, or *)
(* a candidate before the completion, is not part of it.                     *)
NoGrantedCommitIsLost ==
  [][\A p \in plans : CompleteReplacement(p) => Successor(p).last = granted]_vars

(* Between callers that adopt, the writing passes from one to the next with *)
(* nothing written under the authority lost, and whoever holds it writes    *)
(* alone.                                                                   *)
SuccessionIsClean == [](TypeOK /\ ActiveWritesAlone) /\ NoGrantedCommitIsLost

(* The states of WriterSuccession: a caller that adopts holds exactly one   *)
(* binding that was not replaced.                                           *)
Current == CHOOSE b \in bindings : b.life # "REPLACED"

Promise == INSTANCE WriterSuccession WITH
  holder <- Current.ref,
  successor <- IF Current.life = "REPLACEMENT_PENDING"
               THEN (CHOOSE p \in plans : p.current = Current).candidate.ref ELSE Nobody,
  closed <- Current.life = "CLOSED"

(* One writer at a time, frozen for one successor. *)
KeepsSuccession == Promise!Spec

(* A replacement that was planned for an execution the host may still       *)
(* enable ends: readbacks that came late are tried again with the plan the  *)
(* caller kept.                                                             *)
ReplacementEnds ==
  (\E p \in plans : p.candidate.ref \notin revoked \cup {p.current.ref}) ~> plans = {}

=============================================================================
