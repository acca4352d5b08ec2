------------------------ MODULE ReliabilityCoreProofs ------------------------
(***************************************************************************)
(* What the outbox keeps, for every set of keys, workers and scopes.       *)
(* The invariants need one another: the trail of a job says which worker   *)
(* may end it, and the stop's completeness that nothing is claimed after.  *)
(***************************************************************************)
EXTENDS ReliabilityCore, SequenceTheorems, TLAPS

(* A job and a trail stand at every position up to the same length. *)
LEMMA CoreShape ==
  ASSUME NEW c \in Cores
  PROVE  /\ c.jobs \in Seq(Jobs) /\ Len(c.jobs) \in Nat
         /\ c.trail \in Seq(Seq(Entries)) /\ Len(c.trail) \in Nat
         /\ c.stopped \in BOOLEAN
         /\ JobIds(c) = 1 .. Len(c.jobs)
         /\ DOMAIN c.trail = 1 .. Len(c.trail)
         /\ \A j \in JobIds(c) : c.jobs[j] \in Jobs
         /\ \A j \in DOMAIN c.trail : c.trail[j] \in Seq(Entries)
BY DEF Cores, JobIds

LEMMA EntryType ==
  ASSUME NEW kind \in AuditKinds, NEW w \in Workers \cup {NoWorker}
  PROVE  Entry(kind, w) \in Entries
BY DEF Entry, Entries

(* A job's step to a status that fits its new owner. *)
LEMMA AdvancedType ==
  ASSUME NEW job \in Jobs, NEW status \in Statuses, NEW w \in Workers \cup {NoWorker},
         w = NoWorker <=> status # "claimed"
  PROVE  /\ Advanced(job, status, w) \in Jobs
         /\ Advanced(job, status, w).key = job.key
         /\ Advanced(job, status, w).status = status
         /\ Advanced(job, status, w).version = job.version + 1
         /\ Advanced(job, status, w).owner = w
BY DEF Advanced, Jobs

(* A step of one job changes that job and lengthens its trail. *)
LEMMA WithAuditType ==
  ASSUME NEW c \in Cores, NEW j \in JobIds(c), NEW job \in Jobs, NEW entry \in Entries,
         DOMAIN c.trail = JobIds(c)
  PROVE  /\ WithAudit(c, j, job, entry) \in Cores
         /\ JobIds(WithAudit(c, j, job, entry)) = JobIds(c)
         /\ DOMAIN WithAudit(c, j, job, entry).trail = JobIds(c)
         /\ WithAudit(c, j, job, entry).stopped = c.stopped
         /\ WithAudit(c, j, job, entry).jobs[j] = job
         /\ WithAudit(c, j, job, entry).trail[j] = Append(c.trail[j], entry)
         /\ \A i \in JobIds(c) \ {j} :
              /\ WithAudit(c, j, job, entry).jobs[i] = c.jobs[i]
              /\ WithAudit(c, j, job, entry).trail[i] = c.trail[i]
<1>1. j \in 1 .. Len(c.jobs) /\ j \in 1 .. Len(c.trail)
  BY CoreShape
<1>2. [c.jobs EXCEPT ![j] = job] \in Seq(Jobs)
  BY <1>1, CoreShape, ExceptSeq
<1>3. Append(c.trail[j], entry) \in Seq(Entries)
  BY <1>1, CoreShape
<1>4. [c.trail EXCEPT ![j] = Append(c.trail[j], entry)] \in Seq(Seq(Entries))
  BY <1>1, <1>3, CoreShape, ExceptSeq
<1> QED
  BY <1>2, <1>4, CoreShape DEF WithAudit, Cores, JobIds

(* Enqueue adds one pending job with its first audit entry. *)
LEMMA EnqueuedType ==
  ASSUME NEW c \in Cores, NEW k \in Keys, DOMAIN c.trail = JobIds(c)
  PROVE  LET d == Enqueued(c, k)
             n == Len(c.jobs) + 1
         IN  /\ d \in Cores /\ d.stopped = c.stopped
             /\ JobIds(d) = 1 .. n /\ DOMAIN d.trail = 1 .. n
             /\ JobIds(c) = 1 .. n - 1
             /\ d.jobs[n] = [key |-> k, status |-> "pending",
                             version |-> 0, owner |-> NoWorker]
             /\ d.trail[n] = <<Entry("enqueued", NoWorker)>>
             /\ \A j \in JobIds(c) : d.jobs[j] = c.jobs[j] /\ d.trail[j] = c.trail[j]
<1> DEFINE job == [key |-> k, status |-> "pending", version |-> 0, owner |-> NoWorker]
           trail == <<Entry("enqueued", NoWorker)>>
<1>1. job \in Jobs
  BY DEF Jobs, Statuses, Outstanding
<1>2. trail \in Seq(Entries)
  BY EntryType DEF AuditKinds
<1>3. Len(c.jobs) = Len(c.trail)
  BY CoreShape
<1>4. Append(c.jobs, job) \in Seq(Jobs) /\ Append(c.trail, trail) \in Seq(Seq(Entries))
  BY <1>1, <1>2, CoreShape
<1>5. Enqueued(c, k) = [jobs |-> Append(c.jobs, job), trail |-> Append(c.trail, trail),
                        stopped |-> c.stopped]
  BY DEF Enqueued
<1> HIDE DEF job, trail
<1>6. Enqueued(c, k) \in Cores
  BY <1>4, <1>5, CoreShape DEF Cores
<1>7. /\ Len(Append(c.jobs, job)) = Len(c.jobs) + 1
      /\ Append(c.jobs, job)[Len(c.jobs) + 1] = job
      /\ \A j \in 1 .. Len(c.jobs) : Append(c.jobs, job)[j] = c.jobs[j]
  BY CoreShape, <1>1
<1>8. /\ Len(Append(c.trail, trail)) = Len(c.trail) + 1
      /\ Append(c.trail, trail)[Len(c.trail) + 1] = trail
      /\ \A j \in 1 .. Len(c.trail) : Append(c.trail, trail)[j] = c.trail[j]
  BY CoreShape, <1>2
<1>9. /\ DOMAIN Append(c.jobs, job) = 1 .. Len(c.jobs) + 1
      /\ DOMAIN Append(c.trail, trail) = 1 .. Len(c.jobs) + 1
  BY <1>3, <1>4, <1>7, <1>8
<1>10. JobIds(c) = 1 .. (Len(c.jobs) + 1) - 1 /\ JobIds(c) = 1 .. Len(c.jobs)
  BY CoreShape
<1>11. /\ Enqueued(c, k).jobs = Append(c.jobs, job)
       /\ Enqueued(c, k).trail = Append(c.trail, trail)
       /\ Enqueued(c, k).stopped = c.stopped
  BY <1>5
<1>12. JobIds(Enqueued(c, k)) = 1 .. Len(c.jobs) + 1
  BY <1>9, <1>11 DEF JobIds
<1> QED
  BY <1>3, <1>6, <1>7, <1>8, <1>9, <1>10, <1>11, <1>12 DEF job, trail

(* The stop blocks the outstanding jobs and keeps the others. *)
LEMMA StoppedType ==
  ASSUME NEW c \in Cores, DOMAIN c.trail = JobIds(c)
  PROVE  LET d == Stopped(c)
         IN  /\ d \in Cores /\ d.stopped = TRUE
             /\ JobIds(d) = JobIds(c) /\ DOMAIN d.trail = JobIds(c)
             /\ \A j \in JobIds(c) :
                  IF c.jobs[j].status \in Outstanding
                  THEN /\ d.jobs[j] = Advanced(c.jobs[j], "blocked", NoWorker)
                       /\ d.trail[j] = Append(c.trail[j], Entry("blocked", c.jobs[j].owner))
                  ELSE d.jobs[j] = c.jobs[j] /\ d.trail[j] = c.trail[j]
<1> DEFINE hit(j) == c.jobs[j].status \in Outstanding
           job(j) == IF hit(j) THEN Advanced(c.jobs[j], "blocked", NoWorker) ELSE c.jobs[j]
           trail(j) == IF hit(j) THEN Append(c.trail[j], Entry("blocked", c.jobs[j].owner))
                                 ELSE c.trail[j]
<1>1. \A j \in JobIds(c) : job(j) \in Jobs
  BY CoreShape, AdvancedType DEF Statuses
<1>2. \A j \in JobIds(c) : trail(j) \in Seq(Entries)
  <2>1. \A j \in JobIds(c) : Entry("blocked", c.jobs[j].owner) \in Entries
    BY CoreShape, EntryType DEF AuditKinds, Jobs
  <2> QED  BY <2>1, CoreShape
<1>3. Stopped(c) = [jobs |-> [j \in JobIds(c) |-> job(j)],
                    trail |-> [j \in JobIds(c) |-> trail(j)], stopped |-> TRUE]
  BY DEF Stopped
<1>4. JobIds(c) = 1 .. Len(c.jobs) /\ Len(c.jobs) \in Nat
  BY CoreShape
<1> HIDE DEF job, trail
<1>5. [j \in JobIds(c) |-> job(j)] \in Seq(Jobs)
  BY <1>1, <1>4
<1>6. [j \in JobIds(c) |-> trail(j)] \in Seq(Seq(Entries))
  BY <1>2, <1>4
<1> QED
  BY <1>3, <1>5, <1>6 DEF Cores, JobIds, job, trail

-----------------------------------------------------------------------------
(* Appending to short trails. *)
LEMMA AppendShort ==
  ASSUME NEW S
  PROVE  /\ \A a, e \in S : Append(<<a>>, e) = <<a, e>>
         /\ \A a, b, e \in S : Append(<<a, b>>, e) = <<a, b, e>>
<1>1. ASSUME NEW a \in S, NEW e \in S  PROVE Append(<<a>>, e) = <<a, e>>
  <2> DEFINE s == Append(<<a>>, e)
             t == <<a, e>>
  <2>1. s \in Seq(S) /\ t \in Seq(S) /\ Len(s) = 2 /\ Len(t) = 2
    OBVIOUS
  <2>2. s[1] = t[1] /\ s[2] = t[2]
    OBVIOUS
  <2> HIDE DEF s, t
  <2>3. \A i \in 1 .. Len(s) : s[i] = t[i]
    BY <2>1, <2>2
  <2> QED  BY <2>1, <2>3, SeqEqual DEF s, t
<1>2. ASSUME NEW a \in S, NEW b \in S, NEW e \in S
      PROVE  Append(<<a, b>>, e) = <<a, b, e>>
  <2> DEFINE s == Append(<<a, b>>, e)
             t == <<a, b, e>>
  <2>1. s \in Seq(S) /\ t \in Seq(S) /\ Len(s) = 3 /\ Len(t) = 3
    OBVIOUS
  <2>2. s[1] = t[1] /\ s[2] = t[2] /\ s[3] = t[3]
    OBVIOUS
  <2> HIDE DEF s, t
  <2>3. \A i \in 1 .. Len(s) : s[i] = t[i]
    BY <2>1, <2>2
  <2> QED  BY <2>1, <2>3, SeqEqual DEF s, t
<1> QED  BY <1>1, <1>2

(* Each status lengthens the trail by the entry its own trails allow next. *)
LEMMA TrailGrows ==
  ASSUME NEW job \in Jobs, NEW t \in Trails(job), t \in Seq(Entries),
         Len(t) = job.version + 1
  PROVE  /\ \A entry \in Entries : Len(Append(t, entry)) = job.version + 2
         /\ job.status = "pending" => \A w \in Workers :
              Append(t, Entry("claimed", w)) \in Trails(Advanced(job, "claimed", w))
         /\ job.status = "claimed" =>
              /\ Append(t, Entry("completed", job.owner))
                   \in Trails(Advanced(job, "completed", NoWorker))
              /\ Append(t, Entry("sender_failed", job.owner))
                   \in Trails(Advanced(job, "failed", NoWorker))
         /\ job.status \in Outstanding =>
              Append(t, Entry("blocked", job.owner))
                \in Trails(Advanced(job, "blocked", NoWorker))
<1> DEFINE enqueued == Entry("enqueued", NoWorker)
           ends(kind) == {<<enqueued, Entry("claimed", w), Entry(kind, w)>> : w \in Workers}
<1>1. job.status \in Statuses /\ job.version \in Nat /\ job.owner \in Workers \cup {NoWorker}
      /\ (job.owner = NoWorker <=> job.status # "claimed")
  BY DEF Jobs
<1>2. \A kind \in AuditKinds, w \in Workers \cup {NoWorker} : Entry(kind, w) \in Entries
  BY EntryType
<1>3. \A kind \in AuditKinds, w \in Workers \cup {NoWorker} :
        /\ Append(<<enqueued>>, Entry(kind, w)) = <<enqueued, Entry(kind, w)>>
        /\ \A v \in Workers : Append(<<enqueued, Entry("claimed", v)>>, Entry(kind, w))
                              = <<enqueued, Entry("claimed", v), Entry(kind, w)>>
  BY <1>2, AppendShort DEF AuditKinds
<1>4. /\ \A w \in Workers : Trails(Advanced(job, "claimed", w)) =
           {<<enqueued, Entry("claimed", w)>>}
      /\ Trails(Advanced(job, "completed", NoWorker)) = ends("completed")
      /\ Trails(Advanced(job, "failed", NoWorker)) = ends("sender_failed")
      /\ Trails(Advanced(job, "blocked", NoWorker)) =
           ends("blocked") \cup {<<enqueued, Entry("blocked", NoWorker)>>}
  BY DEF Trails, Advanced
<1>5. /\ job.status = "pending" => t = <<enqueued>>
      /\ job.status = "claimed" => t = <<enqueued, Entry("claimed", job.owner)>>
  BY DEF Trails
<1>6. \A entry \in Entries : Len(Append(t, entry)) = job.version + 2
  BY <1>1
<1> HIDE DEF enqueued
<1>7. CASE job.status = "pending"
  BY <1>1, <1>3, <1>4, <1>5, <1>6, <1>7 DEF Outstanding, AuditKinds
<1>8. CASE job.status = "claimed"
  <2>1. job.owner \in Workers
    BY <1>1, <1>8
  <2>2. ASSUME NEW kind \in AuditKinds
        PROVE  Append(t, Entry(kind, job.owner)) \in ends(kind)
    BY <2>1, <1>3, <1>5, <1>8
  <2> HIDE DEF ends
  <2> QED  BY <2>2, <1>4, <1>6, <1>8 DEF AuditKinds
<1> QED  BY <1>1, <1>6, <1>7, <1>8 DEF Outstanding

-----------------------------------------------------------------------------
UniqueKeys(c) == \A i, j \in JobIds(c) : c.jobs[i].key = c.jobs[j].key => i = j

(* The inductive invariant. *)
IInv ==
  /\ TypeOK
  /\ AuditExplainsJobs
  /\ UniqueKeys(core)
  /\ StopIsComplete
  /\ DOMAIN attempts = JobIds(core)
  /\ DeliveredAtMostOnce

(* Advancing one job along its trails keeps the log an explanation. *)
LEMMA AdvanceStep ==
  ASSUME NEW c \in Cores, AuditExplains(c), UniqueKeys(c),
         NEW j \in JobIds(c), NEW status \in Statuses, NEW w \in Workers \cup {NoWorker},
         w = NoWorker <=> status # "claimed",
         NEW entry \in Entries,
         Append(c.trail[j], entry) \in Trails(Advanced(c.jobs[j], status, w))
  PROVE  LET d == WithAudit(c, j, Advanced(c.jobs[j], status, w), entry)
         IN  /\ d \in Cores /\ AuditExplains(d) /\ UniqueKeys(d)
             /\ JobIds(d) = JobIds(c) /\ d.stopped = c.stopped
             /\ d.jobs[j].status = status
             /\ \A i \in JobIds(c) \ {j} : d.jobs[i] = c.jobs[i]
             /\ \A i \in JobIds(c) : d.jobs[i].key = c.jobs[i].key
<1> DEFINE job == Advanced(c.jobs[j], status, w)
           d == WithAudit(c, j, job, entry)
<1>1. DOMAIN c.trail = JobIds(c)
  BY DEF AuditExplains
<1>2. c.jobs[j] \in Jobs /\ c.trail[j] \in Trails(c.jobs[j]) /\ c.trail[j] \in Seq(Entries)
      /\ Len(c.trail[j]) = c.jobs[j].version + 1
  BY <1>1, CoreShape DEF AuditExplains
<1>3. /\ job \in Jobs /\ job.key = c.jobs[j].key /\ job.status = status
      /\ job.version = c.jobs[j].version + 1
  BY <1>2, AdvancedType
<1>4. Len(Append(c.trail[j], entry)) = job.version + 1
  <2>1. c.jobs[j].version \in Nat
    BY <1>2 DEF Jobs
  <2> QED  BY <1>2, <1>3, <2>1, TrailGrows
<1> HIDE DEF job
<1>5. /\ d \in Cores /\ JobIds(d) = JobIds(c) /\ DOMAIN d.trail = JobIds(c)
      /\ d.stopped = c.stopped /\ d.jobs[j] = job
      /\ d.trail[j] = Append(c.trail[j], entry)
      /\ \A i \in JobIds(c) \ {j} : d.jobs[i] = c.jobs[i] /\ d.trail[i] = c.trail[i]
  BY <1>1, <1>3, WithAuditType
<1>6. Append(c.trail[j], entry) \in Trails(job)
  BY DEF job
<1> HIDE DEF d
<1>7. AuditExplains(d)
  BY <1>4, <1>5, <1>6 DEF AuditExplains
<1>8. \A i \in JobIds(c) : d.jobs[i].key = c.jobs[i].key
  BY <1>3, <1>5
<1>9. UniqueKeys(d)
  BY <1>5, <1>8 DEF UniqueKeys
<1> QED
  BY <1>3, <1>5, <1>7, <1>8, <1>9 DEF d, job

LEMMA InitInv == Init => IInv
<1> SUFFICES ASSUME Init PROVE IInv
  OBVIOUS
<1>1. core = EmptyCore /\ attempts = <<>>
  BY DEF Init
<1>2. JobIds(core) = {} /\ DOMAIN attempts = {} /\ DOMAIN core.trail = {}
  BY <1>1 DEF EmptyCore, JobIds
<1>3. TypeOK
  BY <1>1, EmptySeq DEF TypeOK, EmptyCore, Cores
<1> QED
  BY <1>2, <1>3, <1>1 DEF IInv, AuditExplainsJobs, AuditExplains, UniqueKeys, StopIsComplete,
     DeliveredAtMostOnce, EmptyCore

LEMMA EnqueueStep ==
  ASSUME IInv, NEW s \in AnyScopes, NEW k \in Keys, Enqueue(s, k)
  PROVE  IInv'
<1> DEFINE n == Len(core.jobs) + 1
<1>1. /\ core \in Cores /\ DOMAIN core.trail = JobIds(core) /\ attempts \in Seq(Nat)
      /\ DOMAIN attempts = JobIds(core)
  BY DEF IInv, TypeOK, AuditExplainsJobs, AuditExplains
<1>2. /\ core' \in Cores /\ core'.stopped = core.stopped
      /\ JobIds(core') = 1 .. n /\ DOMAIN core'.trail = 1 .. n
      /\ JobIds(core) = 1 .. n - 1
      /\ core'.jobs[n] = [key |-> k, status |-> "pending", version |-> 0, owner |-> NoWorker]
      /\ core'.trail[n] = <<Entry("enqueued", NoWorker)>>
      /\ \A j \in JobIds(core) : core'.jobs[j] = core.jobs[j] /\ core'.trail[j] = core.trail[j]
  BY <1>1, EnqueuedType DEF Enqueue
<1>3. n \in Nat \ {0} /\ JobIds(core') = JobIds(core) \cup {n} /\ n \notin JobIds(core)
  BY <1>1, <1>2, CoreShape
<1> HIDE DEF n
<1>4. ~core.stopped /\ (\A j \in JobIds(core) : core.jobs[j].key # k)
  BY DEF Enqueue, MayEnqueue, HasKey
<1>5. AuditExplains(core')
  <2>1. core'.trail[n] \in Trails(core'.jobs[n]) /\ Len(core'.trail[n]) = core'.jobs[n].version + 1
    BY <1>2 DEF Trails
  <2> QED
    BY <2>1, <1>2, <1>3 DEF AuditExplains, IInv, AuditExplainsJobs
<1>6. UniqueKeys(core')
  BY <1>2, <1>3, <1>4 DEF UniqueKeys, IInv
<1>7. /\ attempts' \in Seq(Nat) /\ DOMAIN attempts' = JobIds(core')
      /\ attempts'[n] = 0 /\ \A j \in JobIds(core) : attempts'[j] = attempts[j]
  <2>1. attempts' = Append(attempts, 0) /\ Len(attempts) = n - 1
    BY <1>1, <1>2, <1>3 DEF Enqueue
  <2> QED  BY <2>1, <1>1, <1>2, <1>3
<1>8. DeliveredAtMostOnce'
  BY <1>2, <1>3, <1>7 DEF DeliveredAtMostOnce, Delivered, IInv
<1> QED
  BY <1>2, <1>4, <1>5, <1>6, <1>7, <1>8 DEF IInv, TypeOK, AuditExplainsJobs, StopIsComplete

LEMMA ClaimStep ==
  ASSUME IInv, NEW j \in JobIds(core), NEW w \in Workers, Claim(j, w)
  PROVE  IInv'
<1>1. /\ core \in Cores /\ AuditExplains(core) /\ UniqueKeys(core)
      /\ DOMAIN core.trail = JobIds(core)
  BY DEF IInv, TypeOK, AuditExplainsJobs, AuditExplains
<1>2. /\ core.jobs[j] \in Jobs /\ core.trail[j] \in Trails(core.jobs[j])
      /\ core.trail[j] \in Seq(Entries) /\ Len(core.trail[j]) = core.jobs[j].version + 1
      /\ core.jobs[j].status = "pending" /\ ~core.stopped
      /\ attempts' = attempts
  BY <1>1, CoreShape DEF AuditExplains, Claim, MayClaim
<1>3. Append(core.trail[j], Entry("claimed", w)) \in Trails(Advanced(core.jobs[j], "claimed", w))
  BY <1>2, TrailGrows
<1>4. Entry("claimed", w) \in Entries /\ "claimed" \in Statuses /\ w # NoWorker
  BY EntryType, ReliabilityAssumption DEF AuditKinds, Statuses, Outstanding
<1>5. /\ core' \in Cores /\ AuditExplains(core') /\ UniqueKeys(core')
      /\ JobIds(core') = JobIds(core) /\ core'.stopped = core.stopped
      /\ core'.jobs[j].status = "claimed" /\ core'.jobs[j].key = core.jobs[j].key
      /\ \A i \in JobIds(core) \ {j} : core'.jobs[i] = core.jobs[i]
  BY <1>1, <1>3, <1>4, AdvanceStep DEF Claim, Claimed
<1>6. DeliveredAtMostOnce'
  BY <1>2, <1>5 DEF DeliveredAtMostOnce, Delivered, IInv
<1> QED
  BY <1>2, <1>5, <1>6 DEF IInv, TypeOK, AuditExplainsJobs, StopIsComplete

LEMMA ProcessStep ==
  ASSUME IInv, NEW j \in JobIds(core), NEW w \in Workers, NEW v \in Versions, Process(j, w, v)
  PROVE  IInv'
<1>1. /\ core \in Cores /\ AuditExplains(core) /\ UniqueKeys(core)
      /\ DOMAIN core.trail = JobIds(core)
  BY DEF IInv, TypeOK, AuditExplainsJobs, AuditExplains
<1>2. /\ core.jobs[j] \in Jobs /\ core.trail[j] \in Trails(core.jobs[j])
      /\ core.trail[j] \in Seq(Entries) /\ Len(core.trail[j]) = core.jobs[j].version + 1
      /\ core.jobs[j].status = "claimed" /\ core.jobs[j].owner = w /\ ~core.stopped
      /\ attempts' = [attempts EXCEPT ![j] = @ + 1]
  BY <1>1, CoreShape DEF AuditExplains, Process, MayProcess
<1>3. /\ Append(core.trail[j], Entry("completed", w))
           \in Trails(Advanced(core.jobs[j], "completed", NoWorker))
      /\ Append(core.trail[j], Entry("sender_failed", w))
           \in Trails(Advanced(core.jobs[j], "failed", NoWorker))
  BY <1>2, TrailGrows
<1>4. /\ Entry("completed", w) \in Entries /\ Entry("sender_failed", w) \in Entries
      /\ "completed" \in Statuses /\ "failed" \in Statuses
  BY EntryType DEF AuditKinds, Statuses, Delivered
<1>5. /\ core' \in Cores /\ AuditExplains(core') /\ UniqueKeys(core')
      /\ JobIds(core') = JobIds(core) /\ core'.stopped = core.stopped
      /\ core'.jobs[j].status \in Delivered
      /\ \A i \in JobIds(core) \ {j} : core'.jobs[i] = core.jobs[i]
  <2>1. CASE core' = Completed(core, j, w)
    BY <2>1, <1>1, <1>3, <1>4, AdvanceStep DEF Completed, Delivered
  <2>2. CASE core' = Failed(core, j, w)
    BY <2>2, <1>1, <1>3, <1>4, AdvanceStep DEF Failed, Delivered
  <2> QED  BY <2>1, <2>2 DEF Process
<1>6. attempts' \in Seq(Nat) /\ DOMAIN attempts' = JobIds(core')
  BY <1>2, <1>5 DEF IInv, TypeOK
<1>7. core'.jobs[j].key = core.jobs[j].key
  BY DEF Process, Completed, Failed, WithAudit, Advanced, JobIds
<1>8. DeliveredAtMostOnce'
  <2>1. core.jobs[j].key \notin RaisingKeys => attempts[j] = 0
    BY <1>2 DEF IInv, DeliveredAtMostOnce, Delivered
  <2> QED
    BY <2>1, <1>2, <1>5, <1>6, <1>7 DEF DeliveredAtMostOnce, IInv
<1> QED
  BY <1>2, <1>5, <1>6, <1>8 DEF IInv, TypeOK, AuditExplainsJobs, StopIsComplete

LEMMA ProcessRaisesStep ==
  ASSUME IInv, NEW j \in JobIds(core), NEW w \in Workers, NEW v \in Versions,
         ProcessRaises(j, w, v)
  PROVE  IInv'
<1>1. /\ core' = core /\ core.jobs[j].key \in RaisingKeys
      /\ attempts' = [attempts EXCEPT ![j] = @ + 1]
  BY DEF ProcessRaises
<1>2. attempts' \in Seq(Nat) /\ DOMAIN attempts' = JobIds(core)
  BY <1>1 DEF IInv, TypeOK
<1> QED
  BY <1>1, <1>2 DEF IInv, TypeOK, AuditExplainsJobs, StopIsComplete, DeliveredAtMostOnce, JobIds

LEMMA StopStep ==
  ASSUME IInv, ActivateEmergencyStop
  PROVE  IInv'
<1> DEFINE hit(j) == core.jobs[j].status \in Outstanding
<1>1. core \in Cores /\ DOMAIN core.trail = JobIds(core) /\ attempts' = attempts
  BY DEF IInv, TypeOK, AuditExplainsJobs, AuditExplains, ActivateEmergencyStop
<1>2. /\ core' \in Cores /\ core'.stopped = TRUE
      /\ JobIds(core') = JobIds(core) /\ DOMAIN core'.trail = JobIds(core)
      /\ \A j \in JobIds(core) :
           IF hit(j)
           THEN /\ core'.jobs[j] = Advanced(core.jobs[j], "blocked", NoWorker)
                /\ core'.trail[j] = Append(core.trail[j], Entry("blocked", core.jobs[j].owner))
           ELSE core'.jobs[j] = core.jobs[j] /\ core'.trail[j] = core.trail[j]
  BY <1>1, StoppedType DEF ActivateEmergencyStop
<1>3. ASSUME NEW j \in JobIds(core)
      PROVE  /\ core'.jobs[j].key = core.jobs[j].key
             /\ core'.jobs[j].status = IF hit(j) THEN "blocked" ELSE core.jobs[j].status
             /\ core'.trail[j] \in Trails(core'.jobs[j])
             /\ Len(core'.trail[j]) = core'.jobs[j].version + 1
  <2>1. /\ core.jobs[j] \in Jobs /\ core.trail[j] \in Trails(core.jobs[j])
        /\ core.trail[j] \in Seq(Entries) /\ Len(core.trail[j]) = core.jobs[j].version + 1
    BY <1>1, CoreShape DEF IInv, AuditExplainsJobs, AuditExplains
  <2>2. CASE hit(j)
    <3>1. Entry("blocked", core.jobs[j].owner) \in Entries /\ core.jobs[j].version \in Nat
      BY <2>1, EntryType DEF AuditKinds, Jobs
    <3>2. /\ Advanced(core.jobs[j], "blocked", NoWorker).key = core.jobs[j].key
          /\ Advanced(core.jobs[j], "blocked", NoWorker).status = "blocked"
          /\ Advanced(core.jobs[j], "blocked", NoWorker).version = core.jobs[j].version + 1
      BY DEF Advanced
    <3>3. /\ Len(Append(core.trail[j], Entry("blocked", core.jobs[j].owner)))
               = core.jobs[j].version + 2
          /\ Append(core.trail[j], Entry("blocked", core.jobs[j].owner))
               \in Trails(Advanced(core.jobs[j], "blocked", NoWorker))
      BY <2>1, <2>2, <3>1, TrailGrows
    <3>4. /\ core'.jobs[j] = Advanced(core.jobs[j], "blocked", NoWorker)
          /\ core'.trail[j] = Append(core.trail[j], Entry("blocked", core.jobs[j].owner))
      BY <1>2, <2>2
    <3> QED  BY <2>2, <3>1, <3>2, <3>3, <3>4
  <2>3. CASE ~hit(j)
    BY <1>2, <2>1, <2>3
  <2> QED  BY <2>2, <2>3
<1>4. AuditExplains(core')
  BY <1>2, <1>3 DEF AuditExplains
<1>5. UniqueKeys(core')
  BY <1>2, <1>3 DEF UniqueKeys, IInv
<1>6. StopIsComplete'
  BY <1>2, <1>3 DEF StopIsComplete, Outstanding
<1>7. DeliveredAtMostOnce'
  BY <1>1, <1>2, <1>3 DEF DeliveredAtMostOnce, IInv, Outstanding, Delivered
<1> QED
  BY <1>1, <1>2, <1>4, <1>5, <1>6, <1>7 DEF IInv, TypeOK, AuditExplainsJobs

LEMMA NextStep == IInv /\ [Next]_vars => IInv'
<1> SUFFICES ASSUME IInv, [Next]_vars PROVE IInv'
  OBVIOUS
<1>1. CASE \E s \in AnyScopes, k \in Keys : Enqueue(s, k)
  BY <1>1, EnqueueStep
<1>2. CASE \E j \in JobIds(core), w \in Workers : Claim(j, w)
  BY <1>2, ClaimStep
<1>3. CASE \E j \in JobIds(core), w \in Workers, v \in Versions :
             Process(j, w, v) \/ ProcessRaises(j, w, v)
  BY <1>3, ProcessStep, ProcessRaisesStep
<1>4. CASE ActivateEmergencyStop
  BY <1>4, StopStep
<1>5. CASE UNCHANGED vars
  BY <1>5 DEF vars, IInv, TypeOK, AuditExplainsJobs, StopIsComplete, DeliveredAtMostOnce, JobIds
<1> QED  BY <1>1, <1>2, <1>3, <1>4, <1>5 DEF Next

LEMMA Invariance == Spec => []IInv
BY InitInv, NextStep, PTL DEF Spec

(* reliability_core.py builds only well-typed snapshots: a job names a      *)
(* worker exactly while it is claimed.                                      *)
THEOREM OutboxTypeCorrect == Spec => []TypeOK
<1>1. IInv => TypeOK
  BY DEF IInv
<1> QED  BY <1>1, Invariance, PTL

(* The audit entries of every job are those of one legal life that ends in  *)
(* the job's state, under one worker.                                       *)
THEOREM AuditIsExplanation == Spec => []AuditExplainsJobs
<1>1. IInv => AuditExplainsJobs
  BY DEF IInv
<1> QED  BY <1>1, Invariance, PTL

(* activate_emergency_stop leaves no outstanding job behind it, and none    *)
(* appears later.                                                           *)
THEOREM StopLeavesNothing == Spec => []StopIsComplete
<1>1. IInv => StopIsComplete
  BY DEF IInv
<1> QED  BY <1>1, Invariance, PTL

(* process_claimed hands a job for which the sender answers to it once if    *)
(* it delivers it, and not at all otherwise.                                *)
THEOREM OneDelivery == Spec => []DeliveredAtMostOnce
<1>1. IInv => DeliveredAtMostOnce
  BY DEF IInv
<1> QED  BY <1>1, Invariance, PTL

-----------------------------------------------------------------------------
(* A job that was handed to a sender has been claimed, and says so.  This   *)
(* is what the log knows of a sender that raised.                           *)
ClaimLogged(trail) == Len(trail) >= 2 /\ trail[2].kind = "claimed"

AttemptsAudited ==
  \A j \in JobIds(core) :
    /\ attempts[j] > 0 => ClaimLogged(core.trail[j])
    /\ core.jobs[j].status \in Delivered => attempts[j] > 0

LEMMA ClaimStaysLogged ==
  ASSUME NEW t \in Seq(Entries), NEW entry \in Entries, ClaimLogged(t)
  PROVE  ClaimLogged(Append(t, entry))
<1>1. /\ Len(t) \in Nat /\ Len(Append(t, entry)) = Len(t) + 1
      /\ \A i \in 1 .. Len(t) : Append(t, entry)[i] = t[i]
  OBVIOUS
<1> QED BY <1>1 DEF ClaimLogged

LEMMA JobAudit ==
  ASSUME IInv, NEW j \in JobIds(core)
  PROVE  /\ core.jobs[j] \in Jobs /\ core.trail[j] \in Trails(core.jobs[j])
         /\ core.trail[j] \in Seq(Entries)
         /\ attempts[j] \in Nat
BY CoreShape DEF IInv, TypeOK, AuditExplainsJobs, AuditExplains

LEMMA AdvancedLog ==
  ASSUME IInv, AttemptsAudited, NEW j \in JobIds(core), NEW job \in Jobs,
         NEW entry \in Entries, core' = WithAudit(core, j, job, entry)
  PROVE  /\ JobIds(core') = JobIds(core)
         /\ core'.jobs[j] = job
         /\ \A i \in JobIds(core) :
              ClaimLogged(core.trail[i]) => ClaimLogged(core'.trail[i])
         /\ \A i \in JobIds(core) \ {j} : core'.jobs[i] = core.jobs[i]
<1>1. /\ core \in Cores /\ DOMAIN core.trail = JobIds(core)
  BY DEF IInv, TypeOK, AuditExplainsJobs, AuditExplains
<1>2. /\ JobIds(core') = JobIds(core) /\ core'.jobs[j] = job
      /\ core'.trail[j] = Append(core.trail[j], entry)
      /\ \A i \in JobIds(core) \ {j} :
           core'.jobs[i] = core.jobs[i] /\ core'.trail[i] = core.trail[i]
  BY <1>1, WithAuditType
<1>3. ClaimLogged(core.trail[j]) => ClaimLogged(core'.trail[j])
  BY <1>2, JobAudit, ClaimStaysLogged
<1> QED BY <1>2, <1>3

LEMMA AttemptsStep ==
  ASSUME IInv, AttemptsAudited, [Next]_vars
  PROVE  AttemptsAudited'
<1>1. DOMAIN attempts = JobIds(core) /\ attempts \in Seq(Nat)
  BY DEF IInv, TypeOK
<1>2. ASSUME NEW s \in AnyScopes, NEW k \in Keys, Enqueue(s, k)
      PROVE  AttemptsAudited'
  <2> DEFINE n == Len(core.jobs) + 1
  <2>1. /\ core \in Cores /\ DOMAIN core.trail = JobIds(core)
    BY DEF IInv, TypeOK, AuditExplainsJobs, AuditExplains
  <2>2. /\ JobIds(core') = 1 .. n /\ JobIds(core) = 1 .. n - 1
        /\ core'.jobs[n] = [key |-> k, status |-> "pending", version |-> 0,
                            owner |-> NoWorker]
        /\ \A j \in JobIds(core) :
             core'.jobs[j] = core.jobs[j] /\ core'.trail[j] = core.trail[j]
    BY <1>2, <2>1, EnqueuedType DEF Enqueue
  <2>3. n \in Nat \ {0} /\ JobIds(core') = JobIds(core) \cup {n} /\ n \notin JobIds(core)
    BY <2>1, <2>2, CoreShape
  <2> HIDE DEF n
  <2>4. core'.jobs[n].status = "pending"
    BY <2>2
  <2>5. attempts'[n] = 0 /\ \A j \in JobIds(core) : attempts'[j] = attempts[j]
    <3>1. attempts' = Append(attempts, 0) /\ Len(attempts) = n - 1
      BY <1>1, <1>2, <2>2, <2>3 DEF Enqueue
    <3> QED  BY <3>1, <1>1, <2>2, <2>3
  <2> QED BY <2>2, <2>3, <2>4, <2>5 DEF AttemptsAudited, Delivered
<1>3. ASSUME NEW j \in JobIds(core), NEW w \in Workers, Claim(j, w)
      PROVE  AttemptsAudited'
  <2>1. Entry("claimed", w) \in Entries /\ "claimed" \in Statuses /\ w # NoWorker
    BY EntryType, ReliabilityAssumption DEF AuditKinds, Statuses, Outstanding
  <2>2. /\ Advanced(core.jobs[j], "claimed", w) \in Jobs
        /\ Advanced(core.jobs[j], "claimed", w).status = "claimed"
    BY <2>1, JobAudit, AdvancedType
  <2>3. /\ attempts' = attempts
        /\ core' = WithAudit(core, j, Advanced(core.jobs[j], "claimed", w),
                             Entry("claimed", w))
    BY <1>3 DEF Claim, Claimed
  <2> QED BY <2>1, <2>2, <2>3, AdvancedLog DEF AttemptsAudited, Delivered
<1>4. ASSUME NEW j \in JobIds(core), NEW w \in Workers, NEW v \in Versions,
             MayProcess(core, j, w, v), attempts' = [attempts EXCEPT ![j] = @ + 1]
      PROVE  /\ ClaimLogged(core.trail[j]) /\ attempts'[j] > 0
             /\ \A i \in JobIds(core) \ {j} : attempts'[i] = attempts[i]
  <2>1. core.trail[j] = <<Entry("enqueued", NoWorker), Entry("claimed", w)>>
    BY <1>4, JobAudit DEF MayProcess, Trails
  <2>2. ClaimLogged(core.trail[j])
    BY <2>1 DEF ClaimLogged, Entry
  <2>3. attempts[j] \in Nat
    BY JobAudit
  <2> QED BY <1>1, <1>4, <2>2, <2>3
<1>5. ASSUME NEW j \in JobIds(core), NEW w \in Workers, NEW v \in Versions, Process(j, w, v)
      PROVE  AttemptsAudited'
  <2>1. /\ ClaimLogged(core.trail[j]) /\ attempts'[j] > 0
        /\ \A i \in JobIds(core) \ {j} : attempts'[i] = attempts[i]
    BY <1>4, <1>5 DEF Process
  <2>2. PICK status \in Delivered, kind \in AuditKinds :
           core' = WithAudit(core, j, Advanced(core.jobs[j], status, NoWorker), Entry(kind, w))
    BY <1>5 DEF Process, Completed, Failed, Delivered, AuditKinds
  <2>3. Entry(kind, w) \in Entries /\ status \in Statuses /\ status # "claimed"
    BY EntryType DEF Statuses, Delivered
  <2>4. Advanced(core.jobs[j], status, NoWorker) \in Jobs
    BY <2>3, JobAudit, AdvancedType
  <2> QED BY <2>1, <2>2, <2>3, <2>4, AdvancedLog DEF AttemptsAudited
<1>6. ASSUME NEW j \in JobIds(core), NEW w \in Workers, NEW v \in Versions,
             ProcessRaises(j, w, v)
      PROVE  AttemptsAudited'
  <2>1. /\ ClaimLogged(core.trail[j]) /\ attempts'[j] > 0
        /\ \A i \in JobIds(core) \ {j} : attempts'[i] = attempts[i]
    BY <1>4, <1>6 DEF ProcessRaises
  <2>2. core' = core
    BY <1>6 DEF ProcessRaises
  <2> QED BY <2>1, <2>2 DEF AttemptsAudited
<1>7. CASE ActivateEmergencyStop
  <2>1. core \in Cores /\ DOMAIN core.trail = JobIds(core) /\ attempts' = attempts
    BY <1>7 DEF IInv, TypeOK, AuditExplainsJobs, AuditExplains, ActivateEmergencyStop
  <2>2. /\ JobIds(core') = JobIds(core)
        /\ \A j \in JobIds(core) :
             IF core.jobs[j].status \in Outstanding
             THEN /\ core'.jobs[j] = Advanced(core.jobs[j], "blocked", NoWorker)
                  /\ core'.trail[j] =
                       Append(core.trail[j], Entry("blocked", core.jobs[j].owner))
             ELSE core'.jobs[j] = core.jobs[j] /\ core'.trail[j] = core.trail[j]
    BY <1>7, <2>1, StoppedType DEF ActivateEmergencyStop
  <2>3. ASSUME NEW j \in JobIds(core)
        PROVE  /\ attempts'[j] > 0 => ClaimLogged(core'.trail[j])
               /\ core'.jobs[j].status \in Delivered => attempts'[j] > 0
    <3>1. Entry("blocked", core.jobs[j].owner) \in Entries
      BY JobAudit, EntryType DEF AuditKinds, Jobs
    <3>2. ClaimLogged(core.trail[j]) => ClaimLogged(core'.trail[j])
      BY <2>2, <3>1, JobAudit, ClaimStaysLogged
    <3>3. core'.jobs[j].status \in Delivered => core.jobs[j].status \in Delivered
      <4>1. CASE core.jobs[j].status \in Outstanding
        <5>1. core'.jobs[j] = Advanced(core.jobs[j], "blocked", NoWorker)
          BY <2>2, <4>1
        <5>2. core'.jobs[j].status = "blocked"
          BY <5>1 DEF Advanced
        <5> QED BY <5>2 DEF Delivered
      <4>2. CASE core.jobs[j].status \notin Outstanding
        BY <2>2, <4>2
      <4> QED BY <4>1, <4>2
    <3> QED BY <2>1, <3>2, <3>3 DEF AttemptsAudited
  <2> QED BY <2>2, <2>3 DEF AttemptsAudited
<1>8. CASE UNCHANGED vars
  BY <1>8 DEF vars, AttemptsAudited, JobIds
<1> QED BY <1>2, <1>3, <1>5, <1>6, <1>7, <1>8 DEF Next

(* The log bounds what was sent, also when the sender raises after it was   *)
(* asked and process_claimed leaves no entry behind: a job whose log names  *)
(* no worker was never handed over, one reported delivered or failed was.   *)
THEOREM LogBoundsDeliveries == Spec => []AuditBoundsDeliveries
<1>1. Init => AttemptsAudited
  BY DEF Init, AttemptsAudited, EmptyCore, JobIds
<1>2. IInv /\ AttemptsAudited /\ [Next]_vars => AttemptsAudited'
  BY AttemptsStep
<1>3. IInv /\ AttemptsAudited => AuditBoundsDeliveries
  <2> SUFFICES ASSUME IInv, AttemptsAudited, NEW j \in JobIds(core)
               PROVE  LET t == core.trail[j]
                      IN  /\ t[Len(t)].worker = NoWorker => attempts[j] = 0
                          /\ core.jobs[j].status \in Delivered => attempts[j] > 0
                          /\ \A i \in DOMAIN t :
                               t[i].worker # NoWorker => t[Len(t)].worker = t[i].worker
    BY DEF AuditBoundsDeliveries, IInv
  <2> DEFINE t == core.trail[j]
  <2>1. /\ t \in Trails(core.jobs[j]) /\ attempts[j] \in Nat
        /\ attempts[j] > 0 => ClaimLogged(t)
        /\ core.jobs[j].status \in Delivered => attempts[j] > 0
    BY JobAudit DEF AttemptsAudited
  <2> HIDE DEF t
  <2>2. \/ t = <<Entry("enqueued", NoWorker)>>
        \/ t = <<Entry("enqueued", NoWorker), Entry("blocked", NoWorker)>>
        \/ \E w \in Workers : t = <<Entry("enqueued", NoWorker), Entry("claimed", w)>>
        \/ \E w \in Workers, kind \in AuditKinds :
             t = <<Entry("enqueued", NoWorker), Entry("claimed", w), Entry(kind, w)>>
    <3>1. core.jobs[j].status = "claimed" => core.jobs[j].owner \in Workers
      BY JobAudit DEF Jobs
    <3> QED BY <2>1, <3>1 DEF Trails, AuditKinds
  <2>3. /\ t[Len(t)].worker = NoWorker => ~ClaimLogged(t)
        /\ \A i \in DOMAIN t : t[i].worker # NoWorker => t[Len(t)].worker = t[i].worker
    BY <2>2, ReliabilityAssumption DEF ClaimLogged, Entry
  <2> QED BY <2>1, <2>3 DEF t
<1> QED BY <1>1, <1>2, <1>3, Invariance, PTL DEF Spec

-----------------------------------------------------------------------------
Fates == [k \in AnsweredKeys |-> KeyFate(k)]

StatusFate(status) ==
  IF status \in Outstanding THEN "queued"
  ELSE IF status \in Delivered THEN "delivered" ELSE "blocked"

(* The fate of a key is the state of its only job. *)
FatesFollowJobs ==
  /\ \A k \in AnsweredKeys :
       (\A j \in JobIds(core) : core.jobs[j].key # k) => Fates[k] = "absent"
  /\ \A j \in JobIds(core) : core.jobs[j].key \in AnsweredKeys =>
       Fates[core.jobs[j].key] = StatusFate(core.jobs[j].status)

LEMMA FateOfJob == IInv => FatesFollowJobs
<1> SUFFICES ASSUME IInv PROVE FatesFollowJobs
  OBVIOUS
<1>1. \A k \in AnsweredKeys :
         (\A j \in JobIds(core) : core.jobs[j].key # k) => Fates[k] = "absent"
  BY DEF KeyFate, Fates
<1>2. ASSUME NEW j \in JobIds(core), core.jobs[j].key \in AnsweredKeys
      PROVE  Fates[core.jobs[j].key] = StatusFate(core.jobs[j].status)
  <2>1. {i \in JobIds(core) : core.jobs[i].key = core.jobs[j].key} = {j}
    BY DEF IInv, UniqueKeys
  <2>2. attempts[j] = IF core.jobs[j].status \in Delivered THEN 1 ELSE 0
    BY <1>2 DEF IInv, DeliveredAtMostOnce, AnsweredKeys
  <2>3. core.jobs[j].status \in Delivered => core.jobs[j].status \notin Outstanding
    BY DEF Delivered, Outstanding
  <2> QED  BY <1>2, <2>1, <2>2, <2>3 DEF KeyFate, Fates, StatusFate
<1> QED  BY <1>1, <1>2 DEF FatesFollowJobs

LEMMA FateOfJobNext == IInv' => FatesFollowJobs'
BY FateOfJob, PTL

(* The fate of a key after a step that keeps every job's key. *)
LEMMA FatesAfter ==
  ASSUME IInv, IInv',
         JobIds(core') = JobIds(core),
         \A j \in JobIds(core) : core'.jobs[j].key = core.jobs[j].key
  PROVE  \A k \in AnsweredKeys :
           \/ \E j \in JobIds(core) :
                /\ core.jobs[j].key = k
                /\ Fates[k] = StatusFate(core.jobs[j].status)
                /\ Fates'[k] = StatusFate(core'.jobs[j].status)
           \/ /\ \A j \in JobIds(core) : core.jobs[j].key # k
              /\ Fates[k] = "absent" /\ Fates'[k] = "absent"
BY FateOfJob, FateOfJobNext DEF FatesFollowJobs

LEMMA EnqueueTakes ==
  ASSUME IInv, IInv', NEW s \in AnyScopes, NEW k \in Keys, Enqueue(s, k)
  PROVE  IF k \in AnsweredKeys THEN Promise!Take(k) ELSE UNCHANGED Promise!vars
<1>1. FatesFollowJobs /\ FatesFollowJobs'
  BY FateOfJob, FateOfJobNext
<1>2. /\ ~core.stopped /\ ~core'.stopped
      /\ \A j \in JobIds(core) : core.jobs[j].key # k
  BY DEF Enqueue, MayEnqueue, HasKey, Enqueued
<1>3. PICK n : /\ n \notin JobIds(core) /\ JobIds(core') = JobIds(core) \cup {n}
               /\ core'.jobs[n].key = k /\ core'.jobs[n].status = "pending"
               /\ \A j \in JobIds(core) : core'.jobs[j] = core.jobs[j]
  <2>1. core \in Cores /\ DOMAIN core.trail = JobIds(core)
    BY DEF IInv, TypeOK, AuditExplainsJobs, AuditExplains
  <2> DEFINE n == Len(core.jobs) + 1
  <2>2. /\ JobIds(core') = 1 .. n /\ JobIds(core) = 1 .. n - 1
        /\ core'.jobs[n] = [key |-> k, status |-> "pending", version |-> 0, owner |-> NoWorker]
        /\ \A j \in JobIds(core) : core'.jobs[j] = core.jobs[j]
    BY <2>1, EnqueuedType DEF Enqueue
  <2>3. n \in Nat \ {0}
    BY <2>1, CoreShape
  <2> HIDE DEF n
  <2>4. n \notin JobIds(core) /\ JobIds(core') = JobIds(core) \cup {n}
    BY <2>2, <2>3
  <2> QED  BY <2>2, <2>4
<1>4. k \in AnsweredKeys => Fates[k] = "absent" /\ Fates'[k] = "queued"
  BY <1>1, <1>2, <1>3 DEF FatesFollowJobs, StatusFate, Outstanding
<1>5. ASSUME NEW l \in AnsweredKeys, l # k PROVE Fates'[l] = Fates[l]
  BY <1>1, <1>3, <1>5 DEF FatesFollowJobs
<1>6. CASE k \in AnsweredKeys
  <2>1. Fates' = [Fates EXCEPT ![k] = "queued"]
    BY <1>4, <1>5, <1>6 DEF Fates
  <2> QED  BY <1>2, <1>4, <1>6, <2>1 DEF Promise!Take, Fates
<1>7. CASE k \notin AnsweredKeys
  <2>1. Fates' = Fates
    BY <1>5, <1>7 DEF Fates
  <2> QED  BY <1>2, <1>7, <2>1 DEF Promise!vars, Fates
<1> QED  BY <1>6, <1>7

LEMMA ClaimStutters ==
  ASSUME IInv, IInv', NEW j \in JobIds(core), NEW w \in Workers, Claim(j, w)
  PROVE  UNCHANGED Promise!vars
<1>1. /\ JobIds(core') = JobIds(core) /\ core'.stopped = core.stopped
      /\ core.jobs[j].status = "pending" /\ core'.jobs[j].status = "claimed"
      /\ \A i \in JobIds(core) \ {j} : core'.jobs[i] = core.jobs[i]
      /\ core'.jobs[j].key = core.jobs[j].key
  BY DEF Claim, MayClaim, Claimed, WithAudit, Advanced, JobIds
<1>2. \A k \in AnsweredKeys : Fates'[k] = Fates[k]
  BY <1>1, FatesAfter DEF StatusFate, Outstanding
<1>3. Fates' = Fates
  BY <1>2 DEF Fates
<1> QED  BY <1>1, <1>3 DEF Promise!vars, Fates

LEMMA ProcessDelivers ==
  ASSUME IInv, IInv', NEW j \in JobIds(core), NEW w \in Workers,
         NEW v \in Versions, Process(j, w, v)
  PROVE  IF core.jobs[j].key \in AnsweredKeys THEN Promise!Deliver(core.jobs[j].key)
         ELSE UNCHANGED Promise!vars
<1>1. /\ JobIds(core') = JobIds(core) /\ core'.stopped = core.stopped /\ ~core.stopped
      /\ core.jobs[j].status = "claimed" /\ core'.jobs[j].status \in Delivered
      /\ \A i \in JobIds(core) \ {j} : core'.jobs[i] = core.jobs[i]
      /\ core'.jobs[j].key = core.jobs[j].key
  BY DEF Process, MayProcess, Completed, Failed, WithAudit, Advanced, JobIds, Delivered
<1>2. FatesFollowJobs /\ FatesFollowJobs'
  BY FateOfJob, FateOfJobNext
<1>3. core.jobs[j].key \in AnsweredKeys =>
      /\ Fates[core.jobs[j].key] = "queued" /\ Fates'[core.jobs[j].key] = "delivered"
  BY <1>1, <1>2 DEF FatesFollowJobs, StatusFate, Outstanding, Delivered
<1>4. \A k \in AnsweredKeys \ {core.jobs[j].key} : Fates'[k] = Fates[k]
  BY <1>1, FatesAfter
<1>5. CASE core.jobs[j].key \in AnsweredKeys
  <2>1. Fates' = [Fates EXCEPT ![core.jobs[j].key] = "delivered"]
    BY <1>3, <1>4, <1>5 DEF Fates
  <2> QED  BY <1>1, <1>3, <1>5, <2>1 DEF Promise!Deliver, Fates
<1>6. CASE core.jobs[j].key \notin AnsweredKeys
  <2>1. Fates' = Fates
    BY <1>4, <1>6 DEF Fates
  <2> QED  BY <1>1, <1>6, <2>1 DEF Promise!vars, Fates
<1> QED  BY <1>5, <1>6

(* An attempt that raises is made for a key to which nothing is promised.   *)
LEMMA RaisingStutters ==
  ASSUME IInv, IInv', NEW j \in JobIds(core), NEW w \in Workers, NEW v \in Versions,
         ProcessRaises(j, w, v)
  PROVE  UNCHANGED Promise!vars
<1>1. core' = core
  BY DEF ProcessRaises
<1>2. \A k \in AnsweredKeys : Fates'[k] = Fates[k]
  BY <1>1, FatesAfter DEF JobIds
<1>3. Fates' = Fates
  BY <1>2 DEF Fates
<1> QED  BY <1>1, <1>3 DEF Promise!vars, Fates

LEMMA StopStops ==
  ASSUME IInv, IInv', ActivateEmergencyStop
  PROVE  Promise!Stop
<1>1. /\ JobIds(core') = JobIds(core) /\ core'.stopped /\ ~core.stopped
      /\ \A j \in JobIds(core) :
           /\ core'.jobs[j].key = core.jobs[j].key
           /\ core'.jobs[j].status = IF core.jobs[j].status \in Outstanding
                                     THEN "blocked" ELSE core.jobs[j].status
  BY DEF ActivateEmergencyStop, Stopped, JobIds, Advanced
<1>2. \A k \in AnsweredKeys : Fates'[k] = IF Fates[k] = "queued" THEN "blocked" ELSE Fates[k]
  BY <1>1, FatesAfter DEF StatusFate, Outstanding, Delivered
<1>3. Fates' = [k \in AnsweredKeys |-> IF Fates[k] = "queued" THEN "blocked" ELSE Fates[k]]
  BY <1>2 DEF Fates
<1> QED  BY <1>1, <1>3 DEF Promise!Stop, Fates

(* To the keys for which the sender answers the outbox implements           *)
(* OutboxPromise: a key is delivered at most once over the life of the      *)
(* outbox, and nothing is delivered after the stop.                         *)
THEOREM OutboxKeepsPromise == Spec => KeepsPromise
<1>1. Init => Promise!Init
  BY DEF Init, Promise!Init, KeyFate, EmptyCore, JobIds
<1>2. IInv /\ IInv' /\ [Next]_vars => [Promise!Next]_(Promise!vars)
  <2> SUFFICES ASSUME IInv, IInv', [Next]_vars PROVE [Promise!Next]_(Promise!vars)
    OBVIOUS
  <2>1. CASE \E s \in AnyScopes, k \in Keys : Enqueue(s, k)
    BY <2>1, EnqueueTakes DEF Promise!Next
  <2>2. CASE \E j \in JobIds(core), w \in Workers : Claim(j, w)
    BY <2>2, ClaimStutters
  <2>3. CASE \E j \in JobIds(core), w \in Workers, v \in Versions :
               Process(j, w, v) \/ ProcessRaises(j, w, v)
    BY <2>3, ProcessDelivers, RaisingStutters DEF Promise!Next
  <2>4. CASE ActivateEmergencyStop
    BY <2>4, StopStops DEF Promise!Next
  <2>5. CASE UNCHANGED vars
    BY <2>5 DEF vars, Promise!vars, KeyFate, JobIds
  <2> QED  BY <2>1, <2>2, <2>3, <2>4, <2>5 DEF Next
<1> QED  BY <1>1, <1>2, Invariance, PTL DEF Spec, KeepsPromise, Promise!Spec

=============================================================================
