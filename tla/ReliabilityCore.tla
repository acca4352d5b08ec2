--------------------------- MODULE ReliabilityCore ---------------------------
(***************************************************************************)
(* reliability_core.py: an outbox of jobs kept in immutable snapshots.     *)
(* Every operation of InMemoryReliabilityCore is written as a function     *)
(* from a snapshot to the next one, with its acceptance condition: the     *)
(* rejected calls return the snapshot they were given.  The specification  *)
(* at the end is the sequential use the library's README describes: the    *)
(* caller adopts every next snapshot before the next call.                 *)
(*                                                                         *)
(* A job id is the job's position, which is what the generated identifier  *)
(* counts.  The audit log is kept per job, in the order of its sequence.   *)
(***************************************************************************)
EXTENDS Integers, Sequences

CONSTANTS
  Scopes,        \* the registered scopes
  AnyScopes,     \* the scopes callers name
  Keys,          \* WorkIdempotencyKeys
  Workers,       \* WorkerIds
  NoWorker,      \* claimed_by = None
  RaisingKeys,   \* those for which deliver may raise, or answer with neither result type
  MaxAttempts    \* bound on the attempts at one job, for a raising sender

ASSUME ReliabilityAssumption ==
  /\ NoWorker \notin Workers
  /\ RaisingKeys \subseteq Keys
  /\ MaxAttempts \in Nat \ {0}

Outstanding == {"pending", "claimed"}
Delivered == {"completed", "failed"}
Statuses == Outstanding \cup Delivered \cup {"blocked"}
AuditKinds == {"enqueued", "claimed", "completed", "sender_failed", "blocked"}

(* OutboxJob.__post_init__: a job names a worker exactly while it is claimed. *)
Jobs == {job \in [key : Keys, status : Statuses, version : Nat,
                  owner : Workers \cup {NoWorker}] :
           job.owner = NoWorker <=> job.status # "claimed"}
Entries == [kind : AuditKinds, worker : Workers \cup {NoWorker}]
Cores == [jobs : Seq(Jobs), trail : Seq(Seq(Entries)), stopped : BOOLEAN]

Entry(kind, w) == [kind |-> kind, worker |-> w]

-----------------------------------------------------------------------------
(* OutboxJob.claimed, completed, failed and blocked. *)
Advanced(job, status, w) ==
  [key |-> job.key, status |-> status, version |-> job.version + 1, owner |-> w]

(* _replace_job and _with_audit: job j becomes job, and is audited. *)
WithAudit(c, j, job, entry) ==
  [jobs |-> [c.jobs EXCEPT ![j] = job],
   trail |-> [c.trail EXCEPT ![j] = Append(@, entry)],
   stopped |-> c.stopped]

JobIds(c) == DOMAIN c.jobs

HasKey(c, k) == \E j \in JobIds(c) : c.jobs[j].key = k

(* Fault: the key is looked up among outstanding jobs only. *)
MayEnqueueFinishedKey(c, s, k) ==
  /\ ~c.stopped /\ s \in Scopes
  /\ ~\E j \in JobIds(c) : c.jobs[j].key = k /\ c.jobs[j].status \in Outstanding

MayEnqueue(c, s, k) == ~c.stopped /\ s \in Scopes /\ ~HasKey(c, k)

Enqueued(c, k) ==
  [jobs |-> Append(c.jobs, [key |-> k, status |-> "pending",
                            version |-> 0, owner |-> NoWorker]),
   trail |-> Append(c.trail, <<Entry("enqueued", NoWorker)>>),
   stopped |-> c.stopped]

MayClaim(c, j) == j \in JobIds(c) /\ ~c.stopped /\ c.jobs[j].status = "pending"

Claimed(c, j, w) ==
  WithAudit(c, j, Advanced(c.jobs[j], "claimed", w), Entry("claimed", w))

(* Fault: a worker processes the job another one claimed. *)
MayProcessOfAnyone(c, j, w, v) ==
  /\ j \in JobIds(c)
  /\ c.jobs[j].status = "claimed"
  /\ c.jobs[j].version = v
  /\ ~c.stopped

MayProcess(c, j, w, v) ==
  /\ j \in JobIds(c)
  /\ c.jobs[j].status = "claimed"
  /\ c.jobs[j].version = v
  /\ c.jobs[j].owner = w
  /\ ~c.stopped

Completed(c, j, w) ==
  WithAudit(c, j, Advanced(c.jobs[j], "completed", NoWorker), Entry("completed", w))

(* Fault: a failed delivery puts the job back to pending. *)
FailedRequeued(c, j, w) ==
  WithAudit(c, j, Advanced(c.jobs[j], "pending", NoWorker), Entry("sender_failed", w))

Failed(c, j, w) ==
  WithAudit(c, j, Advanced(c.jobs[j], "failed", NoWorker), Entry("sender_failed", w))

(* Fault: only the pending jobs are outstanding. *)
StoppedPendingOnly(c) ==
  LET hit(j) == c.jobs[j].status = "pending"
  IN  [jobs |-> [j \in JobIds(c) |->
                   IF hit(j) THEN Advanced(c.jobs[j], "blocked", NoWorker)
                             ELSE c.jobs[j]],
       trail |-> [j \in JobIds(c) |->
                    IF hit(j) THEN Append(c.trail[j], Entry("blocked", NoWorker))
                              ELSE c.trail[j]],
       stopped |-> TRUE]

(* Fault: the entry is written from the blocked job, which has no worker. *)
StoppedAnonymous(c) ==
  LET hit(j) == c.jobs[j].status \in Outstanding
  IN  [jobs |-> [j \in JobIds(c) |->
                   IF hit(j) THEN Advanced(c.jobs[j], "blocked", NoWorker)
                             ELSE c.jobs[j]],
       trail |-> [j \in JobIds(c) |->
                    IF hit(j) THEN Append(c.trail[j], Entry("blocked", NoWorker))
                              ELSE c.trail[j]],
       stopped |-> TRUE]

(* activate_emergency_stop: every outstanding job is blocked, and its audit *)
(* entry names the worker that had claimed it.                              *)
Stopped(c) ==
  LET hit(j) == c.jobs[j].status \in Outstanding
  IN  [jobs |-> [j \in JobIds(c) |->
                   IF hit(j) THEN Advanced(c.jobs[j], "blocked", NoWorker)
                             ELSE c.jobs[j]],
       trail |-> [j \in JobIds(c) |->
                    IF hit(j) THEN Append(c.trail[j], Entry("blocked", c.jobs[j].owner))
                              ELSE c.trail[j]],
       stopped |-> TRUE]

EmptyCore == [jobs |-> <<>>, trail |-> <<>>, stopped |-> FALSE]

-----------------------------------------------------------------------------
VARIABLES
  core,      \* the snapshot every caller has adopted
  attempts   \* job id -> how often the sender was asked to deliver it

vars == <<core, attempts>>

Init == core = EmptyCore /\ attempts = <<>>

Enqueue(s, k) ==
  /\ MayEnqueue(core, s, k)
  /\ core' = Enqueued(core, k)
  /\ attempts' = Append(attempts, 0)

Claim(j, w) ==
  /\ MayClaim(core, j)
  /\ core' = Claimed(core, j, w)
  /\ UNCHANGED attempts

Process(j, w, v) ==
  /\ MayProcess(core, j, w, v)
  /\ attempts' = [attempts EXCEPT ![j] = @ + 1]
  /\ core' = Completed(core, j, w) \/ core' = Failed(core, j, w)

(* The sender was asked, but the call raises: there is no next snapshot. *)
ProcessRaises(j, w, v) ==
  /\ MayProcess(core, j, w, v)
  /\ core.jobs[j].key \in RaisingKeys
  /\ attempts[j] < MaxAttempts
  /\ attempts' = [attempts EXCEPT ![j] = @ + 1]
  /\ UNCHANGED core

ActivateEmergencyStop ==
  /\ ~core.stopped
  /\ core' = Stopped(core)
  /\ UNCHANGED attempts

Versions == 0 .. 3  \* bound on the expected versions callers name

Next ==
  \/ \E s \in AnyScopes, k \in Keys : Enqueue(s, k)
  \/ \E j \in JobIds(core), w \in Workers : Claim(j, w)
  \/ \E j \in JobIds(core), w \in Workers, v \in Versions :
       Process(j, w, v) \/ ProcessRaises(j, w, v)
  \/ ActivateEmergencyStop

Spec == Init /\ [][Next]_vars

-----------------------------------------------------------------------------
TypeOK == core \in Cores /\ attempts \in Seq(Nat)

(* The trails of a job in a state: what its audit entries must say. *)
Trails(job) ==
  LET enqueued == Entry("enqueued", NoWorker)
      ends(kind) == {<<enqueued, Entry("claimed", w), Entry(kind, w)>> : w \in Workers}
  IN  CASE job.status = "pending" -> {<<enqueued>>}
        [] job.status = "claimed" -> {<<enqueued, Entry("claimed", job.owner)>>}
        [] job.status = "completed" -> ends("completed")
        [] job.status = "failed" -> ends("sender_failed")
        [] OTHER -> ends("blocked") \cup {<<enqueued, Entry("blocked", NoWorker)>>}

(* The audit log explains every job: its entries are those of one legal     *)
(* life that ends in the job's state, with one worker throughout, and its   *)
(* version counts them.                                                     *)
AuditExplains(c) ==
  /\ DOMAIN c.trail = JobIds(c)
  /\ \A j \in JobIds(c) :
       /\ c.trail[j] \in Trails(c.jobs[j])
       /\ Len(c.trail[j]) = c.jobs[j].version + 1

AuditExplainsJobs == AuditExplains(core)

(* A job for which the sender answers has been delivered exactly once if it *)
(* ended in a delivery, and never otherwise: not when it was blocked.       *)
DeliveredAtMostOnce ==
  /\ DOMAIN attempts = JobIds(core)
  /\ \A j \in JobIds(core) : core.jobs[j].key \notin RaisingKeys =>
       attempts[j] = IF core.jobs[j].status \in Delivered THEN 1 ELSE 0

(* Once stopped, the outbox has no outstanding job, claimed ones included,  *)
(* and takes no new one.                                                    *)
StopIsComplete ==
  core.stopped => \A j \in JobIds(core) : core.jobs[j].status \notin Outstanding

(* The audit log bounds what was sent, also when the sender raises and its  *)
(* attempt is recorded nowhere: a job whose log names no worker was never   *)
(* handed to the sender, and one reported delivered or failed was.          *)
AuditBoundsDeliveries ==
  /\ TypeOK
  /\ \A j \in JobIds(core) :
       LET named == {core.trail[j][i].worker : i \in DOMAIN core.trail[j]} \ {NoWorker}
           last  == core.trail[j][Len(core.trail[j])]
       IN  /\ last.worker = NoWorker => attempts[j] = 0
           /\ core.jobs[j].status \in Delivered => attempts[j] > 0
           /\ \A w \in named : last.worker = w

(* The outbox implements the promise of OutboxPromise.tla to the keys for   *)
(* which the sender answers, whatever it does for others: over its life a   *)
(* key is delivered at most once, and nothing is delivered after the stop.  *)
(* A key whose jobs have been offered to the sender twice has no fate       *)
(* there.                                                                   *)
KeyFate(k) ==
  LET mine == {j \in JobIds(core) : core.jobs[j].key = k}
  IN  IF mine = {} THEN "absent"
      ELSE IF \E j \in mine : attempts[j] > 0 THEN
        IF \E i, j \in mine : attempts[j] > 1 \/ (i # j /\ attempts[i] > 0)
          THEN "repeated" ELSE "delivered"
      ELSE IF \E j \in mine : core.jobs[j].status \in Outstanding THEN "queued"
      ELSE "blocked"

AnsweredKeys == Keys \ RaisingKeys

Promise == INSTANCE OutboxPromise WITH Keys <- AnsweredKeys,
                                       fate <- [k \in AnsweredKeys |-> KeyFate(k)],
                                       open <- ~core.stopped

KeepsPromise == Promise!Spec

=============================================================================
