-------------------------- MODULE SupervisionProofs --------------------------
(***************************************************************************)
(* Theorems about ExecutionReplacement and SupervisionLease, for any       *)
(* references, receipts, machines and models, any durations and any        *)
(* bounds: what holds whatever values and facts are presented, what holds  *)
(* with callers that adopt, and what MCSupervision makes of both.          *)
(***************************************************************************)
EXTENDS MCSupervision, FiniteSetTheorems, TLAPS

(* Only a reference that a revocation readback named is succeeded, and what *)
(* was revoked never writes again.                                          *)
SuccessionIsProven ==
  /\ \A b \in bindings : b.after \in revoked \cup {Nobody}
  /\ \A p \in plans : p.current.after \in revoked \cup {Nobody}
  /\ revoked \cap writers = {}

ReplacementInv == TypeOK /\ SuccessionIsProven

-----------------------------------------------------------------------------
(* Bindings, candidates and plans, and what the operations make of them. *)
LEMMA BindingFields ==
  ASSUME NEW b \in Bindings
  PROVE  /\ b.ref \in Refs /\ b.life \in Lifecycles /\ b.receipt \in Receipts
         /\ b.machine \in Machines /\ b.model \in Models
         /\ b.last \in Nat /\ b.after \in Refs \cup {Nobody}
         /\ b.life = "ACTIVE" => b.receiptLife = "ACTIVE"
BY DEF Bindings

LEMMA PlanFields ==
  ASSUME NEW p \in Plans
  PROVE  /\ p.current \in Bindings /\ p.current.life = "REPLACEMENT_PENDING"
         /\ p.candidate \in Candidates /\ p.candidate.ref \in Refs
         /\ p.checkpoint \in Nat \cup {NoCommit}
BY DEF Plans, Candidates

LEMMA Recorded ==
  ASSUME NEW b \in Bindings, NEW n \in Nat
  PROVE  LET d == [b EXCEPT !.last = n]
         IN  /\ d \in Bindings /\ d.ref = b.ref /\ d.life = b.life
             /\ d.last = n /\ d.after = b.after
BY DEF Bindings

LEMMA Rebound ==
  ASSUME NEW b \in Bindings, NEW m \in Models
  PROVE  LET d == [b EXCEPT !.model = m]
         IN  /\ d \in Bindings /\ d.ref = b.ref /\ d.life = b.life
             /\ d.last = b.last /\ d.after = b.after
BY DEF Bindings

LEMMA Retired ==
  ASSUME NEW b \in Bindings, NEW life \in Lifecycles \ {"ACTIVE"}
  PROVE  LET d == [b EXCEPT !.life = life]
         IN  /\ d \in Bindings /\ d.ref = b.ref /\ d.life = life
             /\ d.last = b.last /\ d.after = b.after
BY DEF Bindings

LEMMA FrozenIs ==
  ASSUME NEW b \in Bindings, NEW c
  PROVE  /\ Frozen(b, c) \in Bindings /\ Frozen(b, c).ref = b.ref
         /\ Frozen(b, c).life = "REPLACEMENT_PENDING"
         /\ Frozen(b, c).last = b.last /\ Frozen(b, c).after = b.after
BY DEF Bindings, Frozen, Lifecycles

LEMMA SuccessorIs ==
  ASSUME NEW p \in Plans
  PROVE  /\ Successor(p) \in Bindings /\ Successor(p).ref = p.candidate.ref
         /\ Successor(p).life = "ACTIVE" /\ Successor(p).after = p.current.ref
         /\ p.checkpoint = NoCommit => Successor(p).last = p.current.last
         /\ p.checkpoint # NoCommit => Successor(p).last = p.checkpoint
<1>1. /\ p.current.last \in Nat /\ p.current.ref \in Refs
      /\ p.checkpoint \in Nat \cup {NoCommit}
      /\ p.candidate \in [ref : Refs, receipt : Receipts, machine : Machines, model : Models]
  BY PlanFields, BindingFields DEF Candidates
<1> QED  BY <1>1 DEF Successor, Bindings, Lifecycles

-----------------------------------------------------------------------------
LEMMA InitInv == Init => ReplacementInv
<1> SUFFICES ASSUME Init PROVE ReplacementInv
  OBVIOUS
<1>1. FirstBinding \in Bindings /\ FirstBinding.after = Nobody
  BY ReplacementAssumption DEF FirstBinding, Bindings, Lifecycles
<1> QED  BY <1>1, ReplacementAssumption DEF Init, ReplacementInv, TypeOK, SuccessionIsProven

(* A binding that takes the place of another one, or is added to it. *)
LEMMA AdoptKeeps ==
  ASSUME ReplacementInv, NEW b \in bindings, NEW d \in Bindings, d.after = b.after,
         Adopt(b, d)
  PROVE  /\ bindings' \subseteq Bindings
         /\ \A x \in bindings' : x.after \in revoked \cup {Nobody}
BY DEF ReplacementInv, TypeOK, SuccessionIsProven, Adopt

LEMMA CommitStep ==
  ASSUME ReplacementInv, NEW w \in writers, Commit(w)
  PROVE  ReplacementInv'
<1>1. head + 1 \in Nat /\ head' \in 0..MaxCommits /\ granted' \in 0..head'
  <2>1. head \in 0..MaxCommits /\ granted \in 0..head /\ MaxCommits \in Nat
    BY ReplacementAssumption DEF ReplacementInv, TypeOK
  <2>2. head < MaxCommits /\ head' = head + 1 /\ granted' \in {granted, head + 1}
    BY DEF Commit
  <2> QED  BY <2>1, <2>2
<1>2. /\ bindings' \subseteq Bindings
      /\ \A x \in bindings' : x.after \in revoked \cup {Nobody}
  <2>1. ASSUME NEW b \in Active, Adopt(b, [b EXCEPT !.last = head + 1])
        PROVE  /\ bindings' \subseteq Bindings
               /\ \A x \in bindings' : x.after \in revoked \cup {Nobody}
    <3>1. b \in bindings /\ b \in Bindings
      BY DEF Active, ReplacementInv, TypeOK
    <3> QED  BY <1>1, <2>1, <3>1, Recorded, AdoptKeeps
  <2>2. CASE UNCHANGED bindings
    BY <2>2 DEF ReplacementInv, TypeOK, SuccessionIsProven
  <2> QED  BY <2>1, <2>2 DEF Commit
<1> QED  BY <1>1, <1>2 DEF Commit, ReplacementInv, TypeOK, SuccessionIsProven

LEMMA HostStep ==
  ASSUME ReplacementInv, NEW p \in plans, DisableWriter(p) \/ EnableWriter(p)
  PROVE  ReplacementInv'
<1>1. p.current.ref \in Refs /\ p.candidate.ref \in Refs
  BY PlanFields, BindingFields DEF ReplacementInv, TypeOK
<1> QED  BY <1>1 DEF DisableWriter, EnableWriter, ReplacementInv, TypeOK, SuccessionIsProven

LEMMA PlanStep ==
  ASSUME ReplacementInv, NEW b \in bindings, NEW c \in Candidates, NEW checkpoint,
         NEW clean, NEW authority, PlanReplacement(b, c, checkpoint, clean, authority)
  PROVE  ReplacementInv'
<1> DEFINE p == [current |-> Frozen(b, c), candidate |-> c, checkpoint |-> checkpoint]
<1>1. b \in Bindings /\ b.after \in revoked \cup {Nobody}
  BY DEF ReplacementInv, TypeOK, SuccessionIsProven
<1>2. p \in Plans /\ p.current.after = b.after
  BY <1>1, FrozenIs DEF PlanReplacement, Plans, ReplacementInv, TypeOK
<1>3. /\ bindings' \subseteq Bindings
      /\ \A x \in bindings' : x.after \in revoked \cup {Nobody}
  BY <1>1, FrozenIs, AdoptKeeps DEF PlanReplacement
<1>4. plans' = plans \cup {p} /\ UNCHANGED <<writers, revoked, activated, head, granted>>
  BY DEF PlanReplacement
<1> HIDE DEF p
<1> QED  BY <1>1, <1>2, <1>3, <1>4 DEF ReplacementInv, TypeOK, SuccessionIsProven

LEMMA CompleteStep ==
  ASSUME ReplacementInv, NEW p \in plans, CompleteReplacement(p)
  PROVE  ReplacementInv'
<1> DEFINE old == [p.current EXCEPT !.life = "REPLACED"]
<1>1. p \in Plans /\ p.current \in Bindings /\ p.current.after \in revoked \cup {Nobody}
  BY PlanFields DEF ReplacementInv, TypeOK, SuccessionIsProven
<1>2. old \in Bindings /\ old.after = p.current.after
  BY <1>1, Retired DEF Lifecycles
<1>3. Successor(p) \in Bindings /\ Successor(p).after \in revoked
  BY <1>1, SuccessorIs DEF CompleteReplacement, RevocationProven
<1>4. /\ bindings' \subseteq bindings \cup {old, Successor(p)} /\ plans' \subseteq plans
      /\ UNCHANGED <<writers, revoked, activated, head, granted>>
  BY DEF CompleteReplacement
<1> HIDE DEF old
<1> QED  BY <1>1, <1>2, <1>3, <1>4 DEF ReplacementInv, TypeOK, SuccessionIsProven

LEMMA RebindStep ==
  ASSUME ReplacementInv, NEW b \in bindings, RebindModel(b)
  PROVE  ReplacementInv'
<1>1. b \in Bindings /\ Terra \in Models
  BY ReplacementAssumption DEF ReplacementInv, TypeOK
<1>2. /\ bindings' \subseteq Bindings
      /\ \A x \in bindings' : x.after \in revoked \cup {Nobody}
  BY <1>1, Rebound, AdoptKeeps DEF RebindModel
<1> QED  BY <1>2 DEF RebindModel, ReplacementInv, TypeOK, SuccessionIsProven

LEMMA CloseStep ==
  ASSUME ReplacementInv, NEW b \in bindings, CloseBinding(b)
  PROVE  ReplacementInv'
<1>1. b \in Bindings /\ "CLOSED" \in Lifecycles \ {"ACTIVE"}
  BY DEF ReplacementInv, TypeOK, Lifecycles
<1>2. /\ bindings' \subseteq Bindings
      /\ \A x \in bindings' : x.after \in revoked \cup {Nobody}
  BY <1>1, Retired, AdoptKeeps DEF CloseBinding
<1>3. plans' \subseteq plans
  BY DEF CloseBinding
<1> QED  BY <1>2, <1>3 DEF CloseBinding, ReplacementInv, TypeOK, SuccessionIsProven

LEMMA InvStep == ReplacementInv /\ [Next]_vars => ReplacementInv'
<1> SUFFICES ASSUME ReplacementInv, [Next]_vars PROVE ReplacementInv'
  OBVIOUS
<1>1. CASE Next
  BY <1>1, CommitStep, HostStep, PlanStep, CompleteStep, RebindStep, CloseStep DEF Next, Host
<1>2. CASE UNCHANGED vars
  BY <1>2 DEF vars, ReplacementInv, TypeOK, SuccessionIsProven
<1> QED  BY <1>1, <1>2

LEMMA Invariance == Spec => []ReplacementInv
BY InitInv, InvStep, PTL DEF Spec

(* The operations build only bindings and plans that their validators pass. *)
THEOREM ReplacementTypeCorrect == Spec => []TypeOK
BY Invariance, PTL DEF ReplacementInv

(* No binding is active while the writer it succeeded may still write,      *)
(* whether or not the callers drop the values an operation replaced.        *)
THEOREM SilentPredecessors == Spec => []PredecessorsAreSilent
<1>1. ReplacementInv => PredecessorsAreSilent
  BY ReplacementAssumption DEF ReplacementInv, TypeOK, SuccessionIsProven,
     PredecessorsAreSilent, Active
<1> QED  BY <1>1, Invariance, PTL

-----------------------------------------------------------------------------
(* Callers that adopt: they hold one binding, which was not replaced, with  *)
(* the last commit that was recorded, and a plan exactly while it is frozen. *)
(* Only then may another than its writer write.                             *)
NoPlanUnlessFrozen(cur) ==
  cur.life # "REPLACEMENT_PENDING" => plans = {}

OnePlanWhileFrozen(cur) ==
  cur.life = "REPLACEMENT_PENDING" =>
    \E p \in plans :
      /\ plans = {p} /\ p.current = cur
      /\ p.checkpoint \in {NoCommit, granted}
      /\ writers \subseteq {cur.ref, p.candidate.ref}

Held(cur) ==
  /\ bindings = {cur} /\ cur.life # "REPLACED"
  /\ cur.last = granted
  /\ cur.life = "ACTIVE" => writers \subseteq {cur.ref}
  /\ NoPlanUnlessFrozen(cur)
  /\ OnePlanWhileFrozen(cur)

OneAuthority == \E cur \in bindings : Held(cur)

(* A step in which the authority passes from one value to another. *)
Passes(from, to) == from \in bindings /\ Held(from) /\ to \in bindings' /\ Held(to)'

AdoptedInv == ReplacementInv /\ OneAuthority

LEMMA AdoptedInit == Init => OneAuthority
<1> SUFFICES ASSUME Init PROVE OneAuthority
  OBVIOUS
<1>1. Held(FirstBinding)
  BY DEF Init, Held, NoPlanUnlessFrozen, OnePlanWhileFrozen, FirstBinding
<1> QED  BY <1>1 DEF OneAuthority, Init

(* What is done with a binding is done with the one that holds the authority. *)
LEMMA HeldIsIt ==
  ASSUME NEW cur \in bindings, Held(cur), NEW b \in bindings
  PROVE  b = cur
BY DEF Held

LEMMA FrozenPlan ==
  ASSUME TypeOK, NEW cur \in bindings, Held(cur), NEW p \in plans
  PROVE  /\ cur.life = "REPLACEMENT_PENDING" /\ plans = {p} /\ p.current = cur
         /\ p.checkpoint \in {NoCommit, granted}
         /\ writers \subseteq {cur.ref, p.candidate.ref}
BY DEF Held, NoPlanUnlessFrozen, OnePlanWhileFrozen

(* The authority moves to the value that takes the place of the current one. *)
LEMMA AdoptHolds ==
  ASSUME Adopting, NEW cur \in bindings, Held(cur), NEW d, Adopt(cur, d)
  PROVE  bindings' = {d}
BY DEF Held, Adopt

(* A commit is recorded of the active binding, or it is one of a writer that *)
(* is frozen, closed or not yet active, and the caller's values stay.        *)
LEMMA AdoptedCommit ==
  ASSUME Adopting, AdoptedInv, NEW w \in writers, Commit(w), NEW cur \in bindings, Held(cur)
  PROVE  \/ Passes(cur, cur) /\ UNCHANGED <<bindings, plans>>
         \/ \E d : Passes(cur, d) /\ d.ref = cur.ref /\ d.life = cur.life /\ cur.life = "ACTIVE"
<1>1. CASE UNCHANGED <<bindings, granted>>
  <2>1. Held(cur)' /\ UNCHANGED plans
    BY <1>1 DEF Commit, Held, NoPlanUnlessFrozen, OnePlanWhileFrozen
  <2> QED  BY <1>1, <2>1 DEF Passes
<1>2. ASSUME NEW b \in Active, Adopt(b, [b EXCEPT !.last = head + 1]), granted' = head + 1
      PROVE  \E d : Passes(cur, d) /\ d.ref = cur.ref /\ d.life = cur.life /\ cur.life = "ACTIVE"
  <2>1. cur = b /\ cur.life = "ACTIVE" /\ plans = {}
    BY HeldIsIt DEF Active, Held, NoPlanUnlessFrozen
  <2> PICK d : d = [cur EXCEPT !.last = head + 1]
    OBVIOUS
  <2>2. d.ref = cur.ref /\ d.life = cur.life /\ d.last = granted'
    <3>1. cur \in Bindings /\ head + 1 \in Nat
      BY ReplacementAssumption DEF AdoptedInv, ReplacementInv, TypeOK
    <3> QED  BY <1>2, <3>1, Recorded
  <2>3. UNCHANGED <<plans, writers>>
    BY DEF Commit
  <2>4. bindings' = {d}
    BY <1>2, <2>1, AdoptHolds
  <2>5. Held(d)'
    BY <2>1, <2>2, <2>3, <2>4 DEF Held, NoPlanUnlessFrozen, OnePlanWhileFrozen
  <2> QED  BY <2>1, <2>2, <2>4, <2>5 DEF Passes
<1> QED  BY <1>1, <1>2 DEF Commit

LEMMA AdoptedRebind ==
  ASSUME Adopting, AdoptedInv, NEW b \in bindings, RebindModel(b)
  PROVE  \E d : /\ Passes(b, d) /\ b.life = "ACTIVE"
               /\ d.life = "ACTIVE" /\ d.ref = b.ref
<1>1. PICK cur \in bindings : Held(cur)
  BY DEF AdoptedInv, OneAuthority
<1>2. b.life = "ACTIVE" /\ cur = b /\ plans = {}
  BY <1>1 DEF RebindModel, Held, NoPlanUnlessFrozen
<1> DEFINE d == [b EXCEPT !.model = Terra]
<1>3. d.ref = b.ref /\ d.life = b.life /\ d.last = b.last
  <2>1. b \in Bindings /\ Terra \in Models
    BY ReplacementAssumption DEF AdoptedInv, ReplacementInv, TypeOK
  <2> QED  BY <2>1, Rebound
<1>4. Adopt(b, d) /\ UNCHANGED <<plans, writers, granted>>
  BY <1>2 DEF RebindModel
<1> HIDE DEF d
<1>5. bindings' = {d}
  BY <1>1, <1>2, <1>4, AdoptHolds
<1>6. writers' \subseteq {d.ref} /\ plans' = {} /\ d.last = granted'
  BY <1>1, <1>2, <1>3, <1>4 DEF Held
<1>7. Held(d)'
  BY <1>2, <1>3, <1>5, <1>6 DEF Held, NoPlanUnlessFrozen, OnePlanWhileFrozen
<1> QED  BY <1>1, <1>2, <1>3, <1>5, <1>7 DEF Passes

LEMMA AdoptedClose ==
  ASSUME Adopting, AdoptedInv, NEW b \in bindings, CloseBinding(b)
  PROVE  \E d : Passes(b, d) /\ d.life = "CLOSED" /\ d.ref = b.ref
<1>1. PICK cur \in bindings : Held(cur)
  BY DEF AdoptedInv, OneAuthority
<1>2. cur = b /\ TypeOK
  BY <1>1, HeldIsIt DEF CloseBinding, AdoptedInv, ReplacementInv
<1> DEFINE d == [b EXCEPT !.life = "CLOSED"]
<1>3. d.life = "CLOSED" /\ d.last = b.last
  <2>1. b \in Bindings /\ "CLOSED" \in Lifecycles \ {"ACTIVE"}
    BY <1>2 DEF TypeOK, Lifecycles
  <2> QED  BY <2>1, Retired
<1>4. Adopt(b, d) /\ UNCHANGED <<writers, granted>> /\ plans' = {p \in plans : p.current.ref # b.ref}
  BY DEF CloseBinding
<1> HIDE DEF d
<1>5. bindings' = {d}
  BY <1>1, <1>2, <1>4, AdoptHolds
<1>6. plans' = {}
  BY <1>1, <1>2, <1>4, FrozenPlan
<1>7. d.last = granted'
  BY <1>1, <1>2, <1>3, <1>4 DEF Held
<1>8. Held(d)'
  BY <1>3, <1>5, <1>6, <1>7 DEF Held, NoPlanUnlessFrozen, OnePlanWhileFrozen
<1>9. d.ref = b.ref
  BY <1>2, Retired DEF d, TypeOK, Lifecycles
<1> QED  BY <1>1, <1>2, <1>3, <1>5, <1>8, <1>9 DEF Passes

LEMMA AdoptedPlan ==
  ASSUME Adopting, AdoptedInv, NEW b \in bindings, NEW c \in Candidates, NEW checkpoint,
         NEW clean, NEW authority, PlanReplacement(b, c, checkpoint, clean, authority)
  PROVE  \E d, p :
           /\ Passes(b, d) /\ b.life = "ACTIVE"
           /\ d.life = "REPLACEMENT_PENDING" /\ d.ref = b.ref
           /\ p \in plans' /\ p.candidate = c
<1>1. PICK cur \in bindings : Held(cur)
  BY DEF AdoptedInv, OneAuthority
<1>2. b.life = "ACTIVE" /\ cur = b /\ plans = {} /\ b.last = granted /\ writers \subseteq {b.ref}
  BY <1>1 DEF PlanReplacement, MayReplace, Held, NoPlanUnlessFrozen
<1> DEFINE d == Frozen(b, c)
           p == [current |-> d, candidate |-> c, checkpoint |-> checkpoint]
<1>3. d.ref = b.ref /\ d.life = "REPLACEMENT_PENDING" /\ d.last = b.last
  BY FrozenIs DEF AdoptedInv, ReplacementInv, TypeOK
<1>4. /\ Adopt(b, d) /\ plans' = {p} /\ UNCHANGED <<writers, granted>>
      /\ checkpoint \in {NoCommit, granted}
  BY <1>2 DEF PlanReplacement, MayReplace
<1>5. p.current = d /\ p.candidate = c /\ p.checkpoint = checkpoint
  OBVIOUS
<1> HIDE DEF d, p
<1>6. bindings' = {d}
  BY <1>1, <1>2, <1>4, AdoptHolds
<1>7. OnePlanWhileFrozen(d)'
  BY <1>2, <1>3, <1>4, <1>5 DEF OnePlanWhileFrozen
<1>8. Held(d)'
  BY <1>2, <1>3, <1>4, <1>6, <1>7 DEF Held, NoPlanUnlessFrozen
<1> QED  BY <1>1, <1>2, <1>3, <1>4, <1>5, <1>6, <1>8 DEF Passes

LEMMA AdoptedHost ==
  ASSUME Adopting, AdoptedInv, NEW p \in plans, DisableWriter(p) \/ EnableWriter(p)
  PROVE  Passes(p.current, p.current) /\ UNCHANGED <<bindings, plans>>
<1>1. PICK cur \in bindings : Held(cur)
  BY DEF AdoptedInv, OneAuthority
<1>2. /\ cur.life = "REPLACEMENT_PENDING" /\ plans = {p} /\ p.current = cur
      /\ p.checkpoint \in {NoCommit, granted}
      /\ writers \subseteq {cur.ref, p.candidate.ref}
  BY <1>1, FrozenPlan DEF AdoptedInv, ReplacementInv
<1>3. writers' \subseteq {cur.ref, p.candidate.ref} /\ UNCHANGED <<bindings, plans, granted>>
  BY <1>2 DEF DisableWriter, EnableWriter
<1>4. OnePlanWhileFrozen(cur)'
  BY <1>2, <1>3 DEF OnePlanWhileFrozen
<1>5. Held(cur)'
  BY <1>1, <1>2, <1>3, <1>4 DEF Held, NoPlanUnlessFrozen
<1> QED  BY <1>1, <1>2, <1>3, <1>5 DEF Passes

LEMMA AdoptedComplete ==
  ASSUME Adopting, AdoptedInv, NEW p \in plans, CompleteReplacement(p)
  PROVE  /\ Passes(p.current, Successor(p))
         /\ p.current.life = "REPLACEMENT_PENDING" /\ Successor(p).life = "ACTIVE"
         /\ Successor(p).ref = p.candidate.ref /\ Successor(p).last = granted
<1>1. PICK cur \in bindings : Held(cur)
  BY DEF AdoptedInv, OneAuthority
<1>2. /\ cur.life = "REPLACEMENT_PENDING" /\ plans = {p} /\ p.current = cur
      /\ p.checkpoint \in {NoCommit, granted} /\ p \in Plans
      /\ writers \subseteq {cur.ref, p.candidate.ref}
  BY <1>1, FrozenPlan DEF AdoptedInv, ReplacementInv, TypeOK
<1> DEFINE s == Successor(p)
<1>3. s.life = "ACTIVE" /\ s.ref = p.candidate.ref /\ s.last = granted
  BY <1>1, <1>2, SuccessorIs DEF Held
<1>4. /\ bindings' = (bindings \ {cur}) \cup {s} /\ plans' = {}
      /\ UNCHANGED <<writers, granted>> /\ cur.ref \in revoked
  BY <1>2 DEF CompleteReplacement, RevocationProven
<1> HIDE DEF s
<1>5. writers' \subseteq {s.ref}
  BY <1>2, <1>3, <1>4 DEF AdoptedInv, ReplacementInv, SuccessionIsProven
<1>6. bindings' = {s}
  BY <1>1, <1>4 DEF Held
<1>7. Held(s)'
  BY <1>3, <1>4, <1>5, <1>6 DEF Held, NoPlanUnlessFrozen, OnePlanWhileFrozen
<1> QED  BY <1>1, <1>2, <1>3, <1>6, <1>7 DEF Passes, s

LEMMA AdoptedStep ==
  ASSUME Adopting
  PROVE  AdoptedInv /\ [Next]_vars => AdoptedInv'
<1> SUFFICES ASSUME AdoptedInv, [Next]_vars PROVE AdoptedInv'
  OBVIOUS
<1>1. ReplacementInv'
  BY InvStep DEF AdoptedInv
<1>2. CASE Next
  <2>1. ASSUME NEW w \in writers, Commit(w)
        PROVE  \E from, to : Passes(from, to)
    <3>1. PICK cur \in bindings : Held(cur)
      BY DEF AdoptedInv, OneAuthority
    <3> QED  BY <2>1, <3>1, AdoptedCommit
  <2>2. ASSUME NEW b \in bindings, RebindModel(b) \/ CloseBinding(b)
        PROVE  \E from, to : Passes(from, to)
    BY <2>2, AdoptedRebind, AdoptedClose
  <2>3. ASSUME NEW p \in plans, DisableWriter(p) \/ EnableWriter(p) \/ CompleteReplacement(p)
        PROVE  \E from, to : Passes(from, to)
    BY <2>3, AdoptedHost, AdoptedComplete
  <2>4. \E from, to : Passes(from, to)
    BY <1>2, <2>1, <2>2, <2>3, AdoptedPlan DEF Next, Host
  <2>5. OneAuthority'
    BY <2>4 DEF Passes, OneAuthority
  <2> QED  BY <1>1, <2>5 DEF AdoptedInv
<1>3. CASE UNCHANGED vars
  BY <1>1, <1>3 DEF vars, AdoptedInv, OneAuthority, Held, NoPlanUnlessFrozen, OnePlanWhileFrozen
<1> QED  BY <1>2, <1>3

LEMMA AdoptedInvariance ==
  ASSUME Adopting
  PROVE  Spec => []AdoptedInv
<1>1. Init => AdoptedInv
  BY InitInv, AdoptedInit DEF AdoptedInv
<1>2. AdoptedInv /\ [Next]_vars => AdoptedInv'
  BY AdoptedStep
<1> QED  BY <1>1, <1>2, PTL DEF Spec

(* Between callers that adopt, the writing passes from one execution to the *)
(* next: whoever holds the authority writes alone, and the successor goes   *)
(* on from the last commit that was made under it.  No writer is assumed to *)
(* obey a freeze; what it commits between the freeze and its revocation is  *)
(* left out, here as in the code.                                           *)
THEOREM CleanSuccession ==
  ASSUME Adopting
  PROVE  Spec => SuccessionIsClean
<1>1. AdoptedInv => TypeOK /\ ActiveWritesAlone
  <2> SUFFICES ASSUME AdoptedInv PROVE ActiveWritesAlone
    BY DEF AdoptedInv, ReplacementInv
  <2>1. PICK cur \in bindings : Held(cur)
    BY DEF AdoptedInv, OneAuthority
  <2>2. \A b \in Active : b = cur /\ cur.life = "ACTIVE"
    BY <2>1, HeldIsIt DEF Active
  <2> QED  BY <2>1, <2>2 DEF ActiveWritesAlone, Held
<1>2. AdoptedInv /\ [Next]_vars =>
        \A p \in plans : CompleteReplacement(p) => Successor(p).last = granted
  BY AdoptedComplete
<1> QED  BY <1>1, <1>2, AdoptedInvariance, PTL DEF Spec, SuccessionIsClean, NoGrantedCommitIsLost

-----------------------------------------------------------------------------
(* WriterSuccession: what the values of an adopting caller stand for. *)
NextInLine ==
  IF Current.life = "REPLACEMENT_PENDING"
  THEN (CHOOSE p \in plans : p.current = Current).candidate.ref ELSE Nobody

LEMMA TheOnlyOne ==
  ASSUME NEW S, NEW cur \in S, cur.life # "REPLACED",
         \A b \in S \ {cur} : b.life = "REPLACED"
  PROVE  (CHOOSE b \in S : b.life # "REPLACED") = cur
OBVIOUS

LEMMA TheOnlyPlan ==
  ASSUME NEW P, NEW p, P = {p}, NEW cur, p.current = cur
  PROVE  (CHOOSE q \in P : q.current = cur) = p
OBVIOUS

LEMMA Seen ==
  ASSUME NEW cur \in bindings, Held(cur)
  PROVE  /\ Current = cur
         /\ cur.life # "REPLACEMENT_PENDING" => NextInLine = Nobody
         /\ \A p \in plans : NextInLine = p.candidate.ref
<1>1. Current = cur
  BY TheOnlyOne DEF Held, Current
<1>2. ASSUME NEW p \in plans
      PROVE  cur.life = "REPLACEMENT_PENDING" /\ plans = {p} /\ p.current = cur
  BY DEF Held, NoPlanUnlessFrozen, OnePlanWhileFrozen
<1>3. ASSUME NEW p \in plans
      PROVE  NextInLine = p.candidate.ref
  BY <1>1, <1>2, TheOnlyPlan DEF NextInLine
<1> QED  BY <1>1, <1>3 DEF NextInLine

(* The same in the state that follows. *)
LEMMA WillBeSeen ==
  ASSUME NEW cur \in bindings', Held(cur)'
  PROVE  /\ Current' = cur
         /\ cur.life # "REPLACEMENT_PENDING" => NextInLine' = Nobody
         /\ \A p \in plans' : NextInLine' = p.candidate.ref
<1>1. Current' = cur
  BY TheOnlyOne DEF Held, Current
<1>2. ASSUME NEW p \in plans'
      PROVE  cur.life = "REPLACEMENT_PENDING" /\ plans' = {p} /\ p.current = cur
  BY DEF Held, NoPlanUnlessFrozen, OnePlanWhileFrozen
<1>3. ASSUME NEW p \in plans'
      PROVE  NextInLine' = p.candidate.ref
  BY <1>1, <1>2, TheOnlyPlan DEF NextInLine
<1> QED  BY <1>1, <1>3 DEF NextInLine

Succession == <<Current.ref, NextInLine, Current.life = "CLOSED">>

(* Recording a commit and rebinding the model are not seen. *)
LEMMA UnseenStep ==
  ASSUME NEW from, NEW to, Passes(from, to), from.ref = to.ref, from.life = to.life,
         from.life = "ACTIVE"
  PROVE  UNCHANGED Succession
BY Seen, WillBeSeen DEF Passes, Succession

LEMMA PlanFreezes ==
  ASSUME NEW b, NEW d, NEW p, Passes(b, d), b.life = "ACTIVE",
         d.life = "REPLACEMENT_PENDING", d.ref = b.ref,
         p \in plans', p.candidate.ref \in Refs
  PROVE  Promise!Freeze
<1>1. /\ Current = b /\ NextInLine = Nobody
      /\ Current' = d /\ NextInLine' = p.candidate.ref
  BY Seen, WillBeSeen DEF Passes
<1> QED  BY <1>1 DEF Promise!Freeze, NextInLine

LEMMA CompleteSucceeds ==
  ASSUME NEW p \in plans, p.candidate.ref \in Refs, NEW s, Passes(p.current, s),
         p.current.life = "REPLACEMENT_PENDING", s.life = "ACTIVE", s.ref = p.candidate.ref
  PROVE  Promise!Succeed
<1>1. /\ Current = p.current /\ NextInLine = p.candidate.ref
      /\ Current' = s /\ NextInLine' = Nobody
  BY Seen, WillBeSeen DEF Passes
<1> QED  BY <1>1, ReplacementAssumption DEF Promise!Succeed, NextInLine

LEMMA CloseCloses ==
  ASSUME NEW b, NEW d, Passes(b, d), d.life = "CLOSED", d.ref = b.ref
  PROVE  Promise!Close
<1>1. Current = b /\ Current' = d /\ NextInLine' = Nobody
  BY Seen, WillBeSeen DEF Passes
<1> QED  BY <1>1 DEF Promise!Close, NextInLine

(* One writer at a time, frozen for one successor.                          *)
THEOREM SuccessionIsKept ==
  ASSUME Adopting
  PROVE  Spec => KeepsSuccession
<1>1. Init => Promise!Init
  <2> SUFFICES ASSUME Init PROVE Promise!Init
    OBVIOUS
  <2>1. Current = FirstBinding
    BY DEF Init, Current, FirstBinding
  <2> QED  BY <2>1, ReplacementAssumption DEF Promise!Init, FirstBinding
<1>2. AdoptedInv /\ [Next]_vars => [Promise!Next]_Succession
  <2> SUFFICES ASSUME AdoptedInv, [Next]_vars PROVE [Promise!Next]_Succession
    OBVIOUS
  <2>1. \A p \in plans : p.candidate.ref \in Refs
    BY PlanFields DEF AdoptedInv, ReplacementInv, TypeOK
  <2>2. CASE Host
    <3>1. PICK p \in plans : DisableWriter(p) \/ EnableWriter(p)
      BY <2>2 DEF Host
    <3>2. UNCHANGED <<bindings, plans>>
      BY <3>1, AdoptedHost
    <3> QED  BY <3>2 DEF Succession, Current, NextInLine
  <2>3. ASSUME NEW b \in bindings, RebindModel(b)
        PROVE  UNCHANGED Succession
    <3>1. PICK d : Passes(b, d) /\ b.life = "ACTIVE" /\ d.life = "ACTIVE" /\ d.ref = b.ref
      BY <2>3, AdoptedRebind
    <3> QED  BY <3>1, UnseenStep
  <2>4. ASSUME NEW b \in bindings, CloseBinding(b)
        PROVE  Promise!Close
    BY <2>4, AdoptedClose, CloseCloses
  <2>5. ASSUME NEW b \in bindings, NEW c \in Candidates, NEW checkpoint, NEW clean,
               NEW authority, PlanReplacement(b, c, checkpoint, clean, authority)
        PROVE  Promise!Freeze
    <3>1. PICK d, p :
            /\ Passes(b, d) /\ b.life = "ACTIVE"
            /\ d.life = "REPLACEMENT_PENDING" /\ d.ref = b.ref
            /\ p \in plans' /\ p.candidate = c
      BY <2>5, AdoptedPlan
    <3>2. p.candidate.ref \in Refs
      BY <3>1 DEF Candidates
    <3> QED  BY <3>1, <3>2, PlanFreezes
  <2>6. ASSUME NEW p \in plans, CompleteReplacement(p)
        PROVE  Promise!Succeed
    BY <2>1, <2>6, AdoptedComplete, CompleteSucceeds
  <2>7. ASSUME NEW w \in writers, Commit(w)
        PROVE  UNCHANGED Succession
    <3>1. PICK cur \in bindings : Held(cur)
      BY DEF AdoptedInv, OneAuthority
    <3>2. CASE UNCHANGED <<bindings, plans>>
      BY <3>2 DEF Succession, Current, NextInLine
    <3>3. CASE \E d : Passes(cur, d) /\ d.ref = cur.ref /\ d.life = cur.life /\ cur.life = "ACTIVE"
      BY <3>3, UnseenStep
    <3> QED  BY <2>7, <3>1, <3>2, <3>3, AdoptedCommit
  <2>8. CASE UNCHANGED vars
    BY <2>8 DEF vars, Succession, Current, NextInLine
  <2> QED  BY <2>2, <2>3, <2>4, <2>5, <2>6, <2>7, <2>8 DEF Next, Promise!Next
<1> QED  BY <1>1, <1>2, AdoptedInvariance, PTL DEF Spec, KeepsSuccession, Promise!Spec,
   Succession,
            NextInLine

-----------------------------------------------------------------------------
(* The supervised ticket, for any durations and any bounds of the clock, the *)
(* executions and the facts under way.                                      *)
LEMMA DurationsFact ==
  /\ Luna # Terra
  /\ LunaTotal \in Nat \ {0} /\ TerraInactivity \in Nat \ {0}
  /\ MaxClock \in Nat /\ MaxLeases \in Nat /\ MaxFacts \in Nat
BY SupervisionAssumption DEF Lease!LeaseAssumption

LEMMA NoLeaseFact == NoLease \notin Lease!Leases
BY SupervisionAssumption DEF Lease!NoLeaseAssumption

LEMMA TimersCounted ==
  /\ Lease!Cardinality({}) = 0
  /\ \A d : Lease!Cardinality({d}) = 1
BY FS_EmptySet, FS_Singleton DEF Lease!Cardinality, Cardinality

(* A lease runs from the last activity counted for a Terra role and from    *)
(* the start for a Luna role; no fact is from the future.                   *)
OriginsAreExact ==
  /\ began <= clock /\ lastSeen <= clock
  /\ \A f \in facts : f.at <= clock
  /\ Lease!Supervised =>
       /\ began <= lease.origin /\ lease.origin <= clock
       /\ lease.class = Luna => lease.origin = began
       /\ lease.class = Terra => lease.origin = lastSeen

(* After the handoff there is no defect left that could be repaired with    *)
(* another override.                                                        *)
HandoffIsLast ==
  handedOff => ~Lease!Open /\ override # "ACTIVE" /\ verdict = "LEASE_CLOSED"

LeaseInv == Lease!TypeOK /\ OriginsAreExact /\ HandoffIsLast

LEMMA LeaseFields ==
  ASSUME NEW l \in Lease!Leases
  PROVE  /\ l.class \in Lease!Classes /\ l.lifecycle \in Lease!Lifecycles
         /\ l.origin \in Nat /\ l.continues \in 0..1
         /\ l = [class |-> l.class, lifecycle |-> l.lifecycle, origin |-> l.origin,
                 continues |-> l.continues]
         /\ l.class = Luna => l.continues = 0 /\ l.lifecycle # "DIAGNOSIS_PENDING"
         /\ l # NoLease
BY NoLeaseFact DEF Lease!Leases

(* What the reducer makes of a lease: it is turned, renewed or continued. *)
LEMMA Turned ==
  ASSUME NEW l \in Lease!Leases, NEW life \in Lease!Lifecycles, NEW m,
         life = "DIAGNOSIS_PENDING" => l.class = Terra,
         m = [l EXCEPT !.lifecycle = life]
  PROVE  /\ m \in Lease!Leases /\ m.class = l.class /\ m.lifecycle = life
         /\ m.origin = l.origin /\ m.continues = l.continues
<1> DEFINE S == [class : Lease!Classes, lifecycle : Lease!Lifecycles, origin : Nat,
   continues : 0..1]
<1>1. l \in S /\ (l.class = Luna => l.continues = 0 /\ l.lifecycle # "DIAGNOSIS_PENDING")
  BY DEF Lease!Leases
<1>2. /\ m \in S /\ m.class = l.class /\ m.lifecycle = life
      /\ m.origin = l.origin /\ m.continues = l.continues
  BY <1>1
<1> QED  BY <1>1, <1>2, DurationsFact DEF Lease!Leases

LEMMA Renewed ==
  ASSUME NEW l \in Lease!Leases, NEW at \in Nat, NEW m, m = [l EXCEPT !.origin = at]
  PROVE  /\ m \in Lease!Leases /\ m.class = l.class /\ m.lifecycle = l.lifecycle
         /\ m.origin = at /\ m.continues = l.continues
<1> DEFINE S == [class : Lease!Classes, lifecycle : Lease!Lifecycles, origin : Nat,
   continues : 0..1]
<1>1. l \in S /\ (l.class = Luna => l.continues = 0 /\ l.lifecycle # "DIAGNOSIS_PENDING")
  BY DEF Lease!Leases
<1>2. /\ m \in S /\ m.class = l.class /\ m.lifecycle = l.lifecycle
      /\ m.origin = at /\ m.continues = l.continues
  BY <1>1
<1> QED  BY <1>1, <1>2 DEF Lease!Leases

LEMMA Continued ==
  ASSUME NEW l \in Lease!Leases, NEW at \in Nat
  PROVE  LET m == [l EXCEPT !.lifecycle = "ACTIVE", !.origin = at, !.continues = 1]
         IN  /\ l.class = Terra => m \in Lease!Leases
             /\ m.class = l.class /\ m.lifecycle = "ACTIVE"
             /\ m.origin = at /\ m.continues = 1
<1> DEFINE S == [class : Lease!Classes, lifecycle : Lease!Lifecycles, origin : Nat,
   continues : 0..1]
           m == [l EXCEPT !.lifecycle = "ACTIVE", !.origin = at, !.continues = 1]
<1>1. l \in S /\ "ACTIVE" \in Lease!Lifecycles /\ 1 \in 0..1
  BY DEF Lease!Leases, Lease!Lifecycles
<1>2. /\ m \in S /\ m.class = l.class /\ m.lifecycle = "ACTIVE"
      /\ m.origin = at /\ m.continues = 1
  BY <1>1
<1> HIDE DEF m
<1>3. l.class = Terra => m \in Lease!Leases
  BY <1>2, DurationsFact DEF Lease!Leases
<1> QED  BY <1>2, <1>3 DEF m

LEMMA LeaseInitInv == Lease!Init => LeaseInv
<1> SUFFICES ASSUME Lease!Init PROVE LeaseInv
  OBVIOUS
<1>1. Lease!Cardinality({}) = 0
  BY TimersCounted
<1>2. Lease!TypeOK
  <2>1. /\ clock \in 0..MaxClock /\ {lastSeen, began} \subseteq 0..MaxClock
        /\ starts \in 0..MaxLeases
    BY DurationsFact DEF Lease!Init
  <2>2. timer \subseteq Nat /\ Lease!Cardinality(timer) <= 1 /\ facts \subseteq Lease!Facts
    BY <1>1 DEF Lease!Init
  <2> QED  BY <2>1, <2>2 DEF Lease!Init, Lease!TypeOK
<1>3. OriginsAreExact /\ HandoffIsLast
  BY DEF Lease!Init, OriginsAreExact, HandoffIsLast, Lease!Supervised
<1> QED  BY <1>2, <1>3 DEF LeaseInv

-----------------------------------------------------------------------------
(* The world, the timer and the ends of a lease outside the reducer. *)

LEMMA WorldStep ==
  ASSUME LeaseInv, Lease!World \/ Lease!ArmDeadline \/ Lease!CancelDeadline
  PROVE  LeaseInv'
<1> USE DEF LeaseInv, Lease!TypeOK, OriginsAreExact, HandoffIsLast, Lease!Supervised, Lease!Open
<1>1. CASE Lease!Tick
  <2>1. lease \in Lease!Leases => lease.origin \in Nat
    BY LeaseFields
  <2>2. \A f \in facts : f.at \in Nat
    BY DEF Lease!Facts
  <2>3. clock \in Nat /\ clock' = clock + 1 /\ clock' \in 0..MaxClock
    BY <1>1, DurationsFact DEF Lease!Tick
  <2>4. Lease!TypeOK' /\ HandoffIsLast'
    BY <1>1, <2>3 DEF Lease!Tick
  <2>5. OriginsAreExact'
    BY <1>1, <2>1, <2>2, <2>3 DEF Lease!Tick
  <2> QED  BY <2>4, <2>5
<1>2. CASE \E kind \in {"EXACT_REF_ADVANCED", "TASK_STOPPED_INCOMPLETE", "TERMINAL_HANDOFF"} :
             Lease!TaskActs(kind)
  BY <1>2, DurationsFact DEF Lease!TaskActs, Lease!Occurs, Lease!Facts, Lease!FactKinds
<1>3. CASE Lease!ReviewerAnswers
  <2>1. facts' \subseteq Lease!Facts /\ \A f \in facts' : f.at <= clock
    BY <1>3, DurationsFact DEF Lease!ReviewerAnswers, Lease!Occurs, Lease!Facts, Lease!FactKinds
  <2> QED  BY <1>3, <2>1 DEF Lease!ReviewerAnswers, Lease!Occurs
<1>4. CASE Lease!Fire
  BY <1>4, DurationsFact, TimersCounted DEF Lease!Fire, Lease!Facts, Lease!FactKinds
<1>5. CASE Lease!ArmDeadline
  <2>1. Lease!Deadline(lease) \in Nat
    BY <1>5, LeaseFields, DurationsFact DEF Lease!ArmDeadline, Lease!Deadline, Lease!Duration
  <2>2. Lease!Cardinality({Lease!Deadline(lease)}) = 1
    BY TimersCounted
  <2> QED  BY <1>5, <2>1, <2>2 DEF Lease!ArmDeadline
<1>6. CASE Lease!CancelDeadline
  BY <1>6, TimersCounted DEF Lease!CancelDeadline
<1> QED  BY <1>1, <1>2, <1>3, <1>4, <1>5, <1>6 DEF Lease!World

LEMMA ManagedStep ==
  ASSUME LeaseInv,
         \/ Lease!CloseLease \/ Lease!RepairTicket
         \/ \E class \in Lease!Classes : Lease!Start(class)
         \/ \E f \in facts : Lease!Lose(f)
  PROVE  LeaseInv'
<1> USE DEF LeaseInv, Lease!TypeOK, OriginsAreExact, HandoffIsLast, Lease!Supervised, Lease!Open
<1>1. CASE Lease!CloseLease
  BY <1>1, LeaseFields DEF Lease!CloseLease, Lease!Leases, Lease!Lifecycles, Lease!Verdicts
<1>2. CASE Lease!RepairTicket
  BY <1>2 DEF Lease!RepairTicket, Lease!Verdicts
<1>3. ASSUME NEW class \in Lease!Classes, Lease!Start(class)
      PROVE  LeaseInv'
  <2>1. lease' \in Lease!Leases /\ lease' # NoLease
    BY <1>3, DurationsFact, NoLeaseFact DEF Lease!Start, Lease!Leases, Lease!Lifecycles
  <2>2. /\ lease'.class = class /\ lease'.origin = clock /\ clock \in Nat
        /\ starts + 1 \in 0..MaxLeases
    BY <1>3, DurationsFact DEF Lease!Start
  <2>3. Lease!TypeOK'
    <3>1. timer' \subseteq Nat /\ Lease!Cardinality(timer') <= 1 /\ facts' \subseteq Lease!Facts
      BY <1>3, TimersCounted DEF Lease!Start
    <3>2. {lastSeen', began'} \subseteq 0..MaxClock
      BY <1>3 DEF Lease!Start
    <3> QED  BY <1>3, <2>1, <2>2, <3>1, <3>2 DEF Lease!Start, Lease!Verdicts
  <2>4. OriginsAreExact'
    BY <1>3, <2>2, DurationsFact DEF Lease!Start
  <2>5. HandoffIsLast'
    BY <1>3 DEF Lease!Start
  <2> QED  BY <2>3, <2>4, <2>5
<1>4. ASSUME NEW f \in facts, Lease!Lose(f)
      PROVE  LeaseInv'
  BY <1>4 DEF Lease!Lose
<1> QED  BY <1>1, <1>2, <1>3, <1>4

-----------------------------------------------------------------------------
(* The reducer. *)

LEMMA ReduceStep ==
  ASSUME LeaseInv, NEW f \in facts, Lease!Reduce(f)
  PROVE  LeaseInv'
<1> USE DEF LeaseInv, Lease!TypeOK, OriginsAreExact, HandoffIsLast, Lease!Supervised,
   Lease!Open, Lease!Told
<1>1. /\ lease \in Lease!Leases /\ f \in Lease!Facts /\ f.at \in Nat /\ f.at <= clock
      /\ lease.origin \in Nat /\ lease.class \in {Luna, Terra}
      /\ {began, lastSeen, clock} \subseteq Nat
  BY LeaseFields DEF Lease!Reduce, Lease!RejectFact, Lease!RecordActivity, Lease!WakeReviewer,
       Lease!FindTicketDefect,
       Lease!ContinueImplementation, Lease!FindModelInsufficient, Lease!HandOff, Lease!Facts,
       Lease!Classes
<1>2. CASE Lease!RejectFact(f)
  BY <1>2 DEF Lease!RejectFact
<1>3. CASE Lease!RecordActivity(f)
  BY <1>1, <1>3, DurationsFact, LeaseFields
     DEF Lease!RecordActivity, Lease!Counts, Lease!Accepts, Lease!Leases, Lease!Lifecycles,
     Lease!Verdicts
<1>4. CASE Lease!WakeReviewer(f)
  BY <1>1, <1>4, DurationsFact, LeaseFields
     DEF Lease!WakeReviewer, Lease!Accepts, Lease!Leases, Lease!Lifecycles, Lease!Verdicts
<1>5. CASE Lease!FindTicketDefect(f)
  BY <1>1, <1>5, LeaseFields DEF Lease!FindTicketDefect, Lease!Accepts, Lease!Leases,
       Lease!Lifecycles, Lease!Verdicts
<1>6. CASE Lease!ContinueImplementation(f)
  <2>1. /\ lease' = [lease EXCEPT !.lifecycle = "ACTIVE", !.origin = f.at, !.continues = 1]
        /\ lease.class = Terra /\ lease # NoLease /\ lease.lifecycle # "CLOSED"
        /\ f.at >= lease.origin
    BY <1>1, <1>6, LeaseFields DEF Lease!ContinueImplementation, Lease!Accepts
  <2>2. /\ lease' \in Lease!Leases /\ lease'.class = Terra /\ lease'.origin = f.at
        /\ lease'.lifecycle = "ACTIVE"
    BY ONLY <1>1, <2>1, Continued
  <2>3. lastSeen' = f.at /\ f.at \in 0..MaxClock
    BY <1>1, <1>6, <2>1, DurationsFact DEF Lease!ContinueImplementation, Lease!Counts
  <2>4. Lease!TypeOK'
    BY <1>6, <2>2, <2>3 DEF Lease!ContinueImplementation, Lease!Counts, Lease!Verdicts
  <2>5. OriginsAreExact'
    BY <1>1, <1>6, <2>1, <2>2, <2>3, DurationsFact DEF Lease!ContinueImplementation
  <2>6. HandoffIsLast'
    BY <1>6, <2>1 DEF Lease!ContinueImplementation, Lease!Counts
  <2> QED  BY <2>4, <2>5, <2>6
<1>7. CASE Lease!FindModelInsufficient(f)
  BY <1>1, <1>7, LeaseFields DEF Lease!FindModelInsufficient, Lease!Accepts, Lease!Leases,
       Lease!Lifecycles, Lease!Verdicts
<1>8. CASE Lease!HandOff(f)
  BY <1>1, <1>8, LeaseFields DEF Lease!HandOff, Lease!Accepts, Lease!Expired, Lease!Leases,
       Lease!Lifecycles, Lease!Verdicts
<1> QED  BY <1>2, <1>3, <1>4, <1>5, <1>6, <1>7, <1>8 DEF Lease!Reduce

LEMMA LeaseInvStep == LeaseInv /\ [Lease!Next]_(Lease!vars) => LeaseInv'
<1> SUFFICES ASSUME LeaseInv, [Lease!Next]_(Lease!vars) PROVE LeaseInv'
  OBVIOUS
<1>1. CASE Lease!Next
  BY <1>1, WorldStep, ManagedStep, ReduceStep DEF Lease!Next
<1>2. CASE UNCHANGED Lease!vars
  BY <1>2 DEF Lease!vars, LeaseInv, Lease!TypeOK, OriginsAreExact, HandoffIsLast,
       Lease!Supervised, Lease!Open
<1> QED  BY <1>1, <1>2

LEMMA LeaseInvariance == Lease!Spec => []LeaseInv
BY LeaseInitInv, LeaseInvStep, PTL DEF Lease!Spec

(* The state of the supervised ticket stays well typed: a lease obeys       *)
(* lease_policy_is_exact, and at most one timer is armed.                   *)
THEOREM LeaseTypeCorrect == Lease!Spec => []Lease!TypeOK
BY LeaseInvariance, PTL DEF LeaseInv

(* Whatever late or repeated fact follows it, the handoff is the end of the *)
(* lease and of the ticket's override.                                      *)
THEOREM HandoffEnds == Lease!Spec => []Lease!HandoffEndsTicket
<1>1. LeaseInv => Lease!HandoffEndsTicket
  BY DEF LeaseInv, HandoffIsLast, Lease!HandoffEndsTicket
<1> QED  BY <1>1, LeaseInvariance, PTL

(* A deadline signal that is believed came a whole duration after the start *)
(* and, for a Terra role, after the last activity counted.                  *)
LEMMA BelievedIsDue ==
  ASSUME LeaseInv, NEW f \in facts, f.kind = "DEADLINE_FIRED",
         Lease!WakeReviewer(f) \/ Lease!FindTicketDefect(f)
  PROVE  /\ f.at >= began + Lease!Duration(lease.class)
         /\ lease.class = Terra => f.at >= lastSeen + TerraInactivity
<1>1. /\ Lease!Supervised /\ lease \in Lease!Leases
      /\ f.at >= lease.origin + Lease!Duration(lease.class)
  BY DEF Lease!WakeReviewer, Lease!FindTicketDefect, Lease!Told, Lease!Accepts, Lease!Deadline,
       LeaseInv, Lease!TypeOK, Lease!Supervised
<1>2. /\ began <= lease.origin
      /\ lease.class = Terra => lease.origin = lastSeen
      /\ began \in Nat /\ lastSeen \in Nat /\ lease.origin \in Nat /\ f.at \in Nat
  BY <1>1, LeaseFields, DurationsFact DEF LeaseInv, OriginsAreExact, Lease!TypeOK, Lease!Facts
<1>3. Lease!Duration(lease.class) \in Nat /\ (lease.class = Terra
   => Lease!Duration(lease.class) = TerraInactivity)
  BY DurationsFact DEF Lease!Duration
<1> QED  BY <1>1, <1>2, <1>3

(* Signals of timers that were armed before the lease was renewed, and      *)
(* signals that come early, end nothing, in whatever order facts are told.  *)
THEOREM ExpiryEarned == Lease!Spec => Lease!ExpiryIsEarned
<1>1. LeaseInv =>
        \A f \in facts :
          f.kind = "DEADLINE_FIRED" /\ (Lease!WakeReviewer(f) \/ Lease!FindTicketDefect(f)) =>
            /\ f.at >= began + Lease!Duration(lease.class)
            /\ lease.class = Terra => f.at >= lastSeen + TerraInactivity
  BY BelievedIsDue
<1> QED  BY <1>1, LeaseInvariance, PTL DEF Lease!ExpiryIsEarned

(* A lease is given up at a deadline that was due, and at the handoff.      *)
THEOREM LeasesEndInTime == Lease!Spec => LeaseEndsInTime
BY LeaseTypeCorrect, HandoffEnds, ExpiryEarned, PTL DEF LeaseEndsInTime, Lease!LeaseEndsInTime

-----------------------------------------------------------------------------
(* SilenceWatch: the class and the watch that a lease stands for. *)
WatchedClass == IF Lease!Supervised THEN lease.class ELSE NoLease

WatchOf(l) ==
  CASE l.lifecycle = "CLOSED" -> "ended"
    [] l.lifecycle = "ACTIVE" -> IF l.continues = 0 THEN "first" ELSE "last"
    [] l.lifecycle = "DIAGNOSIS_PENDING" ->
         IF l.continues = 0 THEN "diagnosing" ELSE "diagnosing_again"

(* The same in a state and in the one that follows it. *)
LEMMA WatchIs ==
  ASSUME Lease!TypeOK, Lease!TypeOK'
  PROVE  /\ Lease!Watch = IF Lease!Supervised THEN WatchOf(lease) ELSE "none"
         /\ Lease!Watch' = IF Lease!Supervised' THEN WatchOf(lease') ELSE "none"
<1>1. Lease!Watch = IF Lease!Supervised THEN WatchOf(lease) ELSE "none"
  BY LeaseFields DEF Lease!TypeOK, Lease!Watch, WatchOf, Lease!Supervised, Lease!Open,
       Lease!Lifecycles
<1>2. Lease!Watch' = IF Lease!Supervised' THEN WatchOf(lease') ELSE "none"
  BY LeaseFields DEF Lease!TypeOK, Lease!Watch, WatchOf, Lease!Supervised, Lease!Open,
       Lease!Lifecycles
<1> QED  BY <1>1, <1>2

(* Steps that leave the lease as it is are not seen by the watch. *)
LEMMA LeaseRests ==
  ASSUME UNCHANGED lease
  PROVE  UNCHANGED <<WatchedClass, Lease!Watch>>
BY DEF WatchedClass, Lease!Watch, Lease!Supervised, Lease!Open

(* A start begins a watch, as no lease is open then. *)
LEMMA StartBegins ==
  ASSUME Lease!TypeOK, Lease!TypeOK', NEW class \in Lease!Classes, Lease!Start(class)
  PROVE  Lease!Promise!Begin
<1>1. lease' \in Lease!Leases /\ lease'.lifecycle = "ACTIVE" /\ lease'.continues = 0
      /\ Lease!Supervised'
  BY NoLeaseFact, DurationsFact DEF Lease!Start, Lease!TypeOK, Lease!Leases, Lease!Supervised,
       Lease!Lifecycles
<1>2. Lease!Supervised => lease.lifecycle = "CLOSED"
  BY DEF Lease!Start, Lease!Open
<1> QED  BY <1>1, <1>2, WatchIs DEF Lease!Promise!Begin, WatchOf

(* Two leases of one execution. *)
LEMMA SameExecution ==
  ASSUME Lease!TypeOK, Lease!TypeOK', Lease!Supervised, Lease!Supervised',
  lease'.class = lease.class
  PROVE  /\ Lease!Watch = WatchOf(lease) /\ Lease!Watch' = WatchOf(lease')
         /\ WatchedClass = lease.class /\ WatchedClass' = WatchedClass
         /\ lease \in Lease!Leases /\ lease' \in Lease!Leases
BY WatchIs DEF WatchedClass, Lease!TypeOK, Lease!Supervised

(* What an accepted fact does to the lease. *)
LEMMA AcceptedFact ==
  ASSUME LeaseInv, NEW f \in facts, Lease!Reduce(f), ~Lease!RejectFact(f)
  PROVE  Lease!Accepts(lease,
  f) /\ lease \in Lease!Leases /\ lease.lifecycle # "CLOSED" /\ f.at \in Nat
BY DEF Lease!Reduce, Lease!RecordActivity, Lease!WakeReviewer, Lease!FindTicketDefect,
     Lease!ContinueImplementation,
     Lease!FindModelInsufficient, Lease!HandOff, Lease!Told, LeaseInv, Lease!TypeOK,
     Lease!Supervised, Lease!Accepts, Lease!Facts

LEMMA Reduced ==
  ASSUME NEW f, Lease!Accepts(lease, f), lease \in Lease!Leases, f.at \in Nat
  PROVE  /\ Lease!RecordActivity(f) =>
              /\ lease' \in Lease!Leases /\ lease'.class = lease.class
              /\ lease'.lifecycle = lease.lifecycle /\ lease'.continues = lease.continues
         /\ Lease!WakeReviewer(f) =>
              /\ lease' \in Lease!Leases /\ lease'.class = lease.class /\ lease.class = Terra
              /\ lease.lifecycle = "ACTIVE" /\ lease'.lifecycle = "DIAGNOSIS_PENDING"
              /\ lease'.continues = lease.continues
         /\ Lease!ContinueImplementation(f) =>
              /\ lease' \in Lease!Leases /\ lease'.class = lease.class
              /\ lease.lifecycle = "DIAGNOSIS_PENDING" /\ lease'.lifecycle = "ACTIVE"
              /\ lease.continues = 0 /\ lease'.continues = 1
         /\ Lease!FindTicketDefect(f) \/ Lease!FindModelInsufficient(f) \/ Lease!HandOff(f) =>
              /\ lease' \in Lease!Leases /\ lease'.class = lease.class
              /\ lease'.lifecycle = "CLOSED"
<1>1. ASSUME Lease!RecordActivity(f)
      PROVE  /\ lease' \in Lease!Leases /\ lease'.class = lease.class
             /\ lease'.lifecycle = lease.lifecycle /\ lease'.continues = lease.continues
  <2>1. lease' = lease \/ lease' = [lease EXCEPT !.origin = f.at]
    BY <1>1 DEF Lease!RecordActivity
  <2> QED  BY <2>1, Renewed
<1>2. ASSUME Lease!WakeReviewer(f)
      PROVE  /\ lease' \in Lease!Leases /\ lease'.class = lease.class /\ lease.class = Terra
             /\ lease.lifecycle = "ACTIVE" /\ lease'.lifecycle = "DIAGNOSIS_PENDING"
             /\ lease'.continues = lease.continues
  <2>1. /\ lease' = [lease EXCEPT !.lifecycle = "DIAGNOSIS_PENDING"]
        /\ lease.class = Terra /\ lease.lifecycle = "ACTIVE"
        /\ "DIAGNOSIS_PENDING" \in Lease!Lifecycles
    BY <1>2 DEF Lease!WakeReviewer, Lease!Accepts, Lease!Lifecycles
  <2> QED  BY ONLY <2>1, lease \in Lease!Leases, Turned
<1>3. ASSUME Lease!ContinueImplementation(f)
      PROVE  /\ lease' \in Lease!Leases /\ lease'.class = lease.class
             /\ lease.lifecycle = "DIAGNOSIS_PENDING" /\ lease'.lifecycle = "ACTIVE"
             /\ lease.continues = 0 /\ lease'.continues = 1
  <2>1. /\ lease' = [lease EXCEPT !.lifecycle = "ACTIVE", !.origin = f.at, !.continues = 1]
        /\ lease.class = Terra /\ lease.lifecycle = "DIAGNOSIS_PENDING"
        /\ lease.continues = 0
    BY <1>3 DEF Lease!ContinueImplementation, Lease!Accepts
  <2> QED  BY ONLY <2>1, lease \in Lease!Leases, f.at \in Nat, Continued
<1>4. ASSUME Lease!FindTicketDefect(f) \/ Lease!FindModelInsufficient(f) \/ Lease!HandOff(f)
      PROVE  /\ lease' \in Lease!Leases /\ lease'.class = lease.class
             /\ lease'.lifecycle = "CLOSED"
  <2>1. lease' = [lease EXCEPT !.lifecycle = "CLOSED"] /\ "CLOSED" \in Lease!Lifecycles
    BY <1>4 DEF Lease!FindTicketDefect, Lease!FindModelInsufficient, Lease!HandOff,
         Lease!Lifecycles
  <2> QED  BY ONLY <2>1, lease \in Lease!Leases, Turned
<1> QED  BY <1>1, <1>2, <1>3, <1>4

(* An accepted fact moves the watch one step, or lets it rest. *)
LEMMA AcceptedMoves ==
  ASSUME LeaseInv, LeaseInv', NEW f \in facts, Lease!Reduce(f), ~Lease!RejectFact(f)
  PROVE  [Lease!Promise!Next]_<<WatchedClass, Lease!Watch>>
<1>1. /\ Lease!TypeOK /\ Lease!TypeOK' /\ Lease!Supervised
      /\ lease \in Lease!Leases /\ Lease!Accepts(lease, f)
      /\ f.at \in Nat /\ lease.lifecycle # "CLOSED"
  BY AcceptedFact, LeaseFields DEF LeaseInv, Lease!Supervised
<1>2. lease' \in Lease!Leases /\ lease'.class = lease.class
  BY <1>1, Reduced DEF Lease!Reduce
<1>3. /\ Lease!Watch = WatchOf(lease) /\ Lease!Watch' = WatchOf(lease')
      /\ WatchedClass = lease.class /\ WatchedClass' = WatchedClass
      /\ lease.class \in Lease!Classes /\ lease.lifecycle \in Lease!Lifecycles
      /\ lease.continues \in 0..1
      /\ lease.class = Luna => lease.continues = 0 /\ lease.lifecycle # "DIAGNOSIS_PENDING"
  <2>1. Lease!Supervised'
    BY <1>2, LeaseFields DEF Lease!Supervised
  <2> QED  BY <1>1, <1>2, <2>1, SameExecution, LeaseFields
<1>4. CASE Lease!RecordActivity(f)
  BY <1>1, <1>3, <1>4, Reduced DEF WatchOf
<1>5. CASE Lease!WakeReviewer(f)
  <2>1. /\ WatchedClass # Luna
        /\ \/ Lease!Watch = "first" /\ Lease!Watch' = "diagnosing"
           \/ Lease!Watch = "last" /\ Lease!Watch' = "diagnosing_again"
    BY <1>1, <1>3, <1>5, Reduced, DurationsFact DEF WatchOf
  <2> QED  BY <1>3, <2>1 DEF Lease!Promise!Next, Lease!Promise!Diagnose, Lease!Promise!Follows,
     WatchedClass
<1>6. CASE Lease!ContinueImplementation(f)
  <2>1. Lease!Watch = "diagnosing" /\ Lease!Watch' = "last"
    BY <1>1, <1>3, <1>6, Reduced DEF WatchOf
  <2> QED  BY <1>3, <2>1 DEF Lease!Promise!Next, Lease!Promise!Continue, Lease!Promise!Follows,
     WatchedClass
<1>7. CASE Lease!FindTicketDefect(f) \/ Lease!FindModelInsufficient(f) \/ Lease!HandOff(f)
  <2>1. Lease!Watch \in {"first", "last", "diagnosing",
     "diagnosing_again"} /\ Lease!Watch' = "ended"
    BY <1>1, <1>3, <1>7, Reduced DEF WatchOf, Lease!Lifecycles
  <2> QED  BY <1>3, <2>1 DEF Lease!Promise!Next, Lease!Promise!End, Lease!Promise!Follows,
     WatchedClass
<1> QED  BY <1>4, <1>5, <1>6, <1>7 DEF Lease!Reduce

LEMMA CloseEnds ==
  ASSUME Lease!TypeOK, Lease!TypeOK', Lease!CloseLease
  PROVE  Lease!Promise!End
<1>1. /\ lease \in Lease!Leases /\ lease.lifecycle # "CLOSED" /\ Lease!Supervised
      /\ lease' = [lease EXCEPT !.lifecycle = "CLOSED"] /\ "CLOSED" \in Lease!Lifecycles
  BY DEF Lease!CloseLease, Lease!Open, Lease!Supervised, Lease!TypeOK, Lease!Lifecycles
<1>2. lease' \in Lease!Leases /\ lease'.class = lease.class /\ lease'.lifecycle = "CLOSED"
  BY ONLY <1>1, Turned
<1>3. /\ Lease!Watch = WatchOf(lease) /\ Lease!Watch' = WatchOf(lease')
      /\ WatchedClass' = WatchedClass
      /\ lease.lifecycle \in Lease!Lifecycles /\ lease.continues \in 0..1
  BY <1>1, <1>2, SameExecution, LeaseFields DEF Lease!Supervised
<1>4. /\ Lease!Watch \in {"first", "last", "diagnosing", "diagnosing_again"}
      /\ Lease!Watch' = "ended"
  BY <1>1, <1>2, <1>3 DEF WatchOf, Lease!Lifecycles
<1> QED  BY <1>3, <1>4 DEF Lease!Promise!End, Lease!Promise!Follows, WatchedClass

(* Whatever facts are told, lost, repeated or reordered, an execution is     *)
(* watched, diagnosed and continued at most once, and never after its end.  *)
THEOREM LeaseKeepsWatch == Lease!Spec => KeepsWatch
<1>1. Lease!Init => Lease!Promise!Init
  BY DEF Lease!Init, Lease!Promise!Init, Lease!Watch, Lease!Supervised, Lease!Open
<1>2. LeaseInv /\ LeaseInv' /\ [Lease!Next]_(Lease!vars) =>
        [Lease!Promise!Next]_<<WatchedClass, Lease!Watch>>
  <2> SUFFICES ASSUME LeaseInv, LeaseInv', [Lease!Next]_(Lease!vars)
               PROVE  [Lease!Promise!Next]_<<WatchedClass, Lease!Watch>>
    OBVIOUS
  <2>1. Lease!TypeOK /\ Lease!TypeOK'
    BY DEF LeaseInv
  <2>2. CASE Lease!World \/ Lease!ArmDeadline \/ Lease!CancelDeadline \/ Lease!RepairTicket
     \/ UNCHANGED Lease!vars
    BY <2>2, LeaseRests DEF Lease!World, Lease!Tick, Lease!TaskActs, Lease!Occurs,
         Lease!ReviewerAnswers, Lease!Fire, Lease!ArmDeadline,
         Lease!CancelDeadline, Lease!RepairTicket, Lease!vars
  <2>3. CASE Lease!CloseLease
    BY <2>1, <2>3, CloseEnds DEF Lease!Promise!Next
  <2>4. CASE \E class \in Lease!Classes : Lease!Start(class)
    BY <2>1, <2>4, StartBegins DEF Lease!Promise!Next
  <2>5. ASSUME NEW f \in facts, Lease!Reduce(f) \/ Lease!Lose(f)
        PROVE  [Lease!Promise!Next]_<<WatchedClass, Lease!Watch>>
    <3>1. CASE Lease!Lose(f) \/ Lease!RejectFact(f)
      BY <3>1, LeaseRests DEF Lease!Lose, Lease!RejectFact
    <3>2. CASE Lease!Reduce(f) /\ ~Lease!RejectFact(f)
      BY <3>2, AcceptedMoves DEF Lease!Reduce, Lease!RecordActivity, Lease!WakeReviewer,
           Lease!FindTicketDefect, Lease!ContinueImplementation,
           Lease!FindModelInsufficient, Lease!HandOff
    <3> QED  BY <2>5, <3>1, <3>2
  <2> QED  BY <2>2, <2>3, <2>4, <2>5 DEF Lease!Next
<1> QED  BY <1>1, <1>2, LeaseInvariance, PTL DEF Lease!Spec, KeepsWatch, Lease!KeepsWatch,
   Lease!Promise!Spec, WatchedClass

-----------------------------------------------------------------------------
(* Side by side, the replaced binding and the supervised ticket behave as   *)
(* each does alone: what holds of one holds of the composition.             *)
THEOREM SupervisionIsSafe ==
  MCSpec => []PredecessorsAreSilent /\ LeaseEndsInTime /\ KeepsWatch
<1>1. MCInit => Init /\ Lease!Init
  BY DEF MCInit
<1>2. [MCNext]_<<moving, vars, leaseVars>> => [Next]_vars /\ [Lease!Next]_(Lease!vars)
  BY DEF MCNext, leaseVars, Lease!vars
<1>3. MCSpec => Spec /\ Lease!Spec
  BY <1>1, <1>2, PTL DEF MCSpec, Spec, Lease!Spec
<1> QED  BY <1>3, SilentPredecessors, LeasesEndInTime, LeaseKeepsWatch

=============================================================================
