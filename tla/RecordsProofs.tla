----------------------------- MODULE RecordsProofs -----------------------------
(***************************************************************************)
(* Theorems about the records of MCRecords: EngagementRules, for any       *)
(* catalog of policies, any bounds of each and any incoming events, also   *)
(* infinitely many; SharedContext, Citations and TimelineReplay, for any   *)
(* callers, sources, events and bounds; and all of them side by side.      *)
(***************************************************************************)
EXTENDS MCRecords, FiniteSetTheorems, SequenceTheorems, WellFoundedInduction, TLAPS

Ids == {e.id : e \in Incoming}

EngagementStates ==
  [policy : Policies, qualification : Nat, progress : Nat, rewards : Nat,
   processed : SUBSET Ids]

Tellings == [Actions -> Nat]

(* What the three evaluations return when they accept, and tell.            *)
Qualified(s, e) == [Recorded(s, e) EXCEPT !.qualification = @ + 1]
Progressed(s, e) == [Recorded(s, e) EXCEPT !.progress = @ + 1]
Rewarded(s, e) == [Recorded(s, e) EXCEPT !.rewards = @ + 1]

QualificationTold(p, s) ==
  IF Eligible(p, s) THEN "RECOMMENDATION_ELIGIBLE" ELSE "QUALIFICATION_RECORDED"

ProgressTold(p, s) ==
  IF s.progress = Target[p] THEN "PROGRESS_TARGET_REACHED" ELSE "PROGRESS_RECORDED"

Heard(t, a) == [t EXCEPT ![a] = @ + 1]

(* What a state s and the tellings t of a policy agree on. *)
CountsOnce(s) ==
  /\ IsFiniteSet(s.processed)
  /\ s.qualification + s.progress + s.rewards = Cardinality(s.processed)

Tells(p, s, t) ==
  /\ t["RECOMMENDATION_ELIGIBLE"] = IF Eligible(p, s) THEN 1 ELSE 0
  /\ t["PROGRESS_TARGET_REACHED"] = IF s.progress = Target[p] THEN 1 ELSE 0
  /\ t["REWARD_PERMITTED"] = s.rewards

Sound(p, s, t) ==
  /\ s \in EngagementStates /\ t \in Tellings
  /\ s.policy = p
  /\ SatisfiesBounds(p, s)
  /\ CountsOnce(s)
  /\ Tells(p, s, t)

EngagementInv ==
  /\ states \in [Policies -> EngagementStates]
  /\ told \in [Policies -> Tellings]
  /\ answer \in (Reasons \ {"INVALID_STATE"}) \cup {"ACCEPTED"}
  /\ \A p \in Policies : Sound(p, states[p], told[p])

LEMMA LimitsArePositive ==
  ASSUME NEW p \in Policies
  PROVE  Required[p] \in Nat \ {0} /\ Target[p] \in Nat \ {0} /\ Cap[p] \in Nat \ {0}
<1>1. Required[p] \in Limits /\ Target[p] \in Limits /\ Cap[p] \in Limits
  BY EngagementAssumption
<1>2. \A n : 1..n \subseteq Nat \ {0}
  OBVIOUS
<1>3. Limits \subseteq Nat \ {0}
  BY ONLY <1>2 DEF Limits
<1> QED  BY <1>1, <1>3

LEMMA StateFields ==
  ASSUME NEW s \in EngagementStates
  PROVE  /\ s.qualification \in Nat /\ s.progress \in Nat /\ s.rewards \in Nat
         /\ s.processed \in SUBSET Ids
BY DEF EngagementStates

(* An event that was not processed is recorded with one count more. *)
LEMMA RecordedOnce ==
  ASSUME NEW s \in EngagementStates, CountsOnce(s), NEW e \in Incoming, e.id \notin s.processed
  PROVE  LET d == s.processed \cup {e.id}
         IN  /\ d \in SUBSET Ids /\ IsFiniteSet(d)
             /\ Cardinality(d) = s.qualification + s.progress + s.rewards + 1
<1>1. IsFiniteSet(s.processed) /\ Cardinality(s.processed) = s.qualification + s.progress + s.rewards
  BY DEF CountsOnce
<1>2. /\ IsFiniteSet(s.processed \cup {e.id})
      /\ Cardinality(s.processed \cup {e.id}) = Cardinality(s.processed) + 1
  BY <1>1, FS_AddElement
<1> QED  BY <1>1, <1>2, StateFields DEF Ids

(* The states that the three evaluations return. *)
LEMMA Counting ==
  ASSUME NEW s \in EngagementStates, NEW e \in Incoming
  PROVE  /\ LET n == Qualified(s, e)
            IN  /\ n \in EngagementStates /\ n.policy = s.policy
                /\ n.qualification = s.qualification + 1
                /\ n.progress = s.progress /\ n.rewards = s.rewards
                /\ n.processed = s.processed \cup {e.id}
         /\ LET n == Progressed(s, e)
            IN  /\ n \in EngagementStates /\ n.policy = s.policy
                /\ n.qualification = s.qualification
                /\ n.progress = s.progress + 1 /\ n.rewards = s.rewards
                /\ n.processed = s.processed \cup {e.id}
         /\ LET n == Rewarded(s, e)
            IN  /\ n \in EngagementStates /\ n.policy = s.policy
                /\ n.qualification = s.qualification
                /\ n.progress = s.progress /\ n.rewards = s.rewards + 1
                /\ n.processed = s.processed \cup {e.id}
<1>1. PICK r : r = Recorded(s, e)
  OBVIOUS
<1>2. /\ r \in EngagementStates /\ r.policy = s.policy /\ r.qualification = s.qualification
      /\ r.progress = s.progress /\ r.rewards = s.rewards
      /\ r.processed = s.processed \cup {e.id}
  BY <1>1 DEF Recorded, EngagementStates, Ids
<1>3. LET n == [r EXCEPT !.qualification = @ + 1]
      IN  /\ n \in EngagementStates /\ n.policy = r.policy
          /\ n.qualification = r.qualification + 1
          /\ n.progress = r.progress /\ n.rewards = r.rewards /\ n.processed = r.processed
  BY <1>2 DEF EngagementStates
<1>4. LET n == [r EXCEPT !.progress = @ + 1]
      IN  /\ n \in EngagementStates /\ n.policy = r.policy
          /\ n.qualification = r.qualification
          /\ n.progress = r.progress + 1 /\ n.rewards = r.rewards /\ n.processed = r.processed
  BY <1>2 DEF EngagementStates
<1>5. LET n == [r EXCEPT !.rewards = @ + 1]
      IN  /\ n \in EngagementStates /\ n.policy = r.policy
          /\ n.qualification = r.qualification
          /\ n.progress = r.progress /\ n.rewards = r.rewards + 1 /\ n.processed = r.processed
  BY <1>2 DEF EngagementStates
<1> QED  BY <1>1, <1>2, <1>3, <1>4, <1>5 DEF Qualified, Progressed, Rewarded

-----------------------------------------------------------------------------
(* What an accepted evaluation returns is sound again, with one telling     *)
(* more.                                                                    *)
LEMMA QualificationCounts ==
  ASSUME NEW p \in Policies, NEW s, NEW t, Sound(p, s, t), ~Eligible(p, s),
         NEW e \in Incoming, e.id \notin s.processed
  PROVE  LET n == Qualified(s, e)
             a == QualificationTold(p, n)
         IN  a \in Actions /\ Sound(p, n, Heard(t, a))
<1> DEFINE n == Qualified(s, e)
           a == QualificationTold(p, n)
           u == Heard(t, a)
<1>1. /\ s \in EngagementStates /\ t \in Tellings /\ s.policy = p
      /\ SatisfiesBounds(p, s) /\ CountsOnce(s) /\ Tells(p, s, t)
  BY DEF Sound
<1>2. /\ n \in EngagementStates /\ n.policy = p
      /\ n.qualification = s.qualification + 1 /\ n.progress = s.progress /\ n.rewards = s.rewards
      /\ n.processed = s.processed \cup {e.id}
  BY <1>1, Counting
<1> HIDE DEF n
<1>3. /\ s.qualification \in Nat /\ s.qualification < Required[p]
      /\ s.progress = 0 /\ s.rewards = 0
      /\ Required[p] \in Nat /\ Target[p] \in Nat \ {0} /\ Cap[p] \in Nat
  BY <1>1, StateFields, LimitsArePositive DEF SatisfiesBounds, Eligible
<1>4. SatisfiesBounds(p, n)
  BY <1>2, <1>3 DEF SatisfiesBounds, Eligible
<1>5. CountsOnce(n)
  <2>1. /\ IsFiniteSet(n.processed)
        /\ Cardinality(n.processed) = s.qualification + s.progress + s.rewards + 1
    BY <1>1, <1>2, RecordedOnce
  <2> QED  BY <1>2, <1>3, <2>1 DEF CountsOnce
<1>6. a \in Actions /\ {"RECOMMENDATION_ELIGIBLE", "PROGRESS_TARGET_REACHED", "REWARD_PERMITTED"} \subseteq Actions
  BY DEF Actions, QualificationTold, ProgressTold
<1>7. u \in Tellings /\ \A b \in Actions : u[b] = IF b = a THEN t[b] + 1 ELSE t[b]
  BY <1>1, <1>6 DEF Tellings, Heard
<1> HIDE DEF u
<1>8. Tells(p, n, u)
  BY <1>1, <1>2, <1>3, <1>6, <1>7 DEF Tells, Eligible, QualificationTold, ProgressTold
<1>9. Sound(p, n, u)
  BY <1>2, <1>4, <1>5, <1>7, <1>8 DEF Sound
<1> QED  BY <1>6, <1>9 DEF n, u

LEMMA ProgressCounts ==
  ASSUME NEW p \in Policies, NEW s, NEW t, Sound(p, s, t), Eligible(p, s),
         s.progress < Target[p],
         NEW e \in Incoming, e.id \notin s.processed
  PROVE  LET n == Progressed(s, e)
             a == ProgressTold(p, n)
         IN  a \in Actions /\ Sound(p, n, Heard(t, a))
<1> DEFINE n == Progressed(s, e)
           a == ProgressTold(p, n)
           u == Heard(t, a)
<1>1. /\ s \in EngagementStates /\ t \in Tellings /\ s.policy = p
      /\ SatisfiesBounds(p, s) /\ CountsOnce(s) /\ Tells(p, s, t)
  BY DEF Sound
<1>2. /\ n \in EngagementStates /\ n.policy = p
      /\ n.qualification = s.qualification /\ n.progress = s.progress + 1 /\ n.rewards = s.rewards
      /\ n.processed = s.processed \cup {e.id}
  BY <1>1, Counting
<1> HIDE DEF n
<1>3. /\ s.qualification \in Nat /\ s.qualification = Required[p]
      /\ s.progress \in Nat /\ s.rewards = 0
      /\ Required[p] \in Nat /\ Target[p] \in Nat \ {0} /\ Cap[p] \in Nat
  BY <1>1, StateFields, LimitsArePositive DEF SatisfiesBounds, Eligible
<1>4. SatisfiesBounds(p, n)
  BY <1>2, <1>3 DEF SatisfiesBounds, Eligible
<1>5. CountsOnce(n)
  <2>1. /\ IsFiniteSet(n.processed)
        /\ Cardinality(n.processed) = s.qualification + s.progress + s.rewards + 1
    BY <1>1, <1>2, RecordedOnce
  <2> QED  BY <1>2, <1>3, <2>1 DEF CountsOnce
<1>6. a \in Actions /\ {"RECOMMENDATION_ELIGIBLE", "PROGRESS_TARGET_REACHED", "REWARD_PERMITTED"} \subseteq Actions
  BY DEF Actions, QualificationTold, ProgressTold
<1>7. u \in Tellings /\ \A b \in Actions : u[b] = IF b = a THEN t[b] + 1 ELSE t[b]
  BY <1>1, <1>6 DEF Tellings, Heard
<1> HIDE DEF u
<1>8. Tells(p, n, u)
  BY <1>1, <1>2, <1>3, <1>6, <1>7 DEF Tells, Eligible, QualificationTold, ProgressTold
<1>9. Sound(p, n, u)
  BY <1>2, <1>4, <1>5, <1>7, <1>8 DEF Sound
<1> QED  BY <1>6, <1>9 DEF n, u

LEMMA RewardCounts ==
  ASSUME NEW p \in Policies, NEW s, NEW t, Sound(p, s, t), Eligible(p, s),
         ~(s.progress < Target[p]), ~(s.rewards >= Cap[p]),
         NEW e \in Incoming, e.id \notin s.processed
  PROVE  Sound(p, Rewarded(s, e), Heard(t, "REWARD_PERMITTED"))
<1> DEFINE n == Rewarded(s, e)
           u == Heard(t, "REWARD_PERMITTED")
<1>1. /\ s \in EngagementStates /\ t \in Tellings /\ s.policy = p
      /\ SatisfiesBounds(p, s) /\ CountsOnce(s) /\ Tells(p, s, t)
  BY DEF Sound
<1>2. /\ n \in EngagementStates /\ n.policy = p
      /\ n.qualification = s.qualification /\ n.progress = s.progress /\ n.rewards = s.rewards + 1
      /\ n.processed = s.processed \cup {e.id}
  BY <1>1, Counting
<1> HIDE DEF n
<1>3. /\ s.qualification \in Nat /\ s.qualification = Required[p]
      /\ s.progress \in Nat /\ s.progress = Target[p] /\ s.rewards \in Nat /\ s.rewards < Cap[p]
      /\ Required[p] \in Nat /\ Target[p] \in Nat \ {0} /\ Cap[p] \in Nat
  BY <1>1, StateFields, LimitsArePositive DEF SatisfiesBounds, Eligible
<1>4. SatisfiesBounds(p, n)
  BY <1>2, <1>3 DEF SatisfiesBounds, Eligible
<1>5. CountsOnce(n)
  <2>1. /\ IsFiniteSet(n.processed)
        /\ Cardinality(n.processed) = s.qualification + s.progress + s.rewards + 1
    BY <1>1, <1>2, RecordedOnce
  <2> QED  BY <1>2, <1>3, <2>1 DEF CountsOnce
<1>6. {"RECOMMENDATION_ELIGIBLE", "PROGRESS_TARGET_REACHED", "REWARD_PERMITTED"} \subseteq Actions
  BY DEF Actions, QualificationTold, ProgressTold
<1>7. u \in Tellings /\ \A b \in Actions : u[b] = IF b = "REWARD_PERMITTED" THEN t[b] + 1 ELSE t[b]
  BY <1>1, <1>6 DEF Tellings, Heard
<1> HIDE DEF u
<1>8. Tells(p, n, u)
  BY <1>1, <1>2, <1>3, <1>6, <1>7 DEF Tells, Eligible, QualificationTold, ProgressTold
<1>9. Sound(p, n, u)
  BY <1>2, <1>4, <1>5, <1>7, <1>8 DEF Sound
<1> QED  BY <1>6, <1>9 DEF n, u

(* An evaluation keeps the state or returns one that is sound again. *)
LEMMA Evaluated ==
  ASSUME NEW p, NEW owner \in Policies, NEW s, NEW t, Sound(owner, s, t), NEW e \in Incoming
  PROVE  LET r == Evaluate(p, s, e)
         IN  \/ r.reason \in Reasons \ {"INVALID_STATE"} /\ r.state = s
             \/ /\ r.reason = "ACCEPTED" /\ r.action \in Actions
                /\ Sound(owner, r.state, Heard(t, r.action))
<1> PICK r : r = Evaluate(p, s, e)
  OBVIOUS
<1> DEFINE Kept == r.reason \in Reasons \ {"INVALID_STATE"} /\ r.state = s
           Counted == /\ r.reason = "ACCEPTED" /\ r.action \in Actions
                      /\ Sound(owner, r.state, Heard(t, r.action))
<1> SUFFICES Kept \/ Counted
  OBVIOUS
<1>1. \A reason \in Reasons \ {"INVALID_STATE"} :
        Rejected(s, reason).reason = reason /\ Rejected(s, reason).state = s
  BY DEF Rejected
<1>2. {"UNKNOWN_POLICY", "UNKNOWN_EVENT", "STATE_POLICY_MISMATCH", "DUPLICATE_EVENT",
       "NOT_RECOMMENDATION_ELIGIBLE", "ALREADY_RECOMMENDATION_ELIGIBLE",
       "PROGRESS_TARGET_REACHED", "PROGRESS_TARGET_NOT_REACHED", "REWARD_CAP_REACHED"}
        \subseteq Reasons \ {"INVALID_STATE"}
  BY DEF Reasons
<1>3. s.policy = owner /\ SatisfiesBounds(owner, s)
  BY DEF Sound
<1>4. ASSUME r = Rejected(s, "UNKNOWN_POLICY") \/ r = Rejected(s, "STATE_POLICY_MISMATCH")
             \/ r = Rejected(s, "UNKNOWN_EVENT") \/ r = Rejected(s, "DUPLICATE_EVENT")
      PROVE  Kept
  BY <1>1, <1>2, <1>4
<1>5. CASE p \notin Policies
  BY <1>4, <1>5 DEF Evaluate
<1>6. CASE p \in Policies /\ p # owner
  BY <1>3, <1>4, <1>6 DEF Evaluate
<1>7. CASE p = owner
  <2>1. r = IF e.kind = "UNKNOWN" THEN Rejected(s, "UNKNOWN_EVENT")
            ELSE IF e.id \in s.processed THEN Rejected(s, "DUPLICATE_EVENT")
            ELSE ByKind(p, s, e)
    BY <1>3, <1>7 DEF Evaluate
  <2>2. CASE e.kind = "UNKNOWN" \/ e.id \in s.processed
    BY <1>4, <2>1, <2>2
  <2>3. ASSUME e.id \notin s.processed, e.kind = "QUALIFICATION",
               r = EvaluateQualification(p, s, e)
        PROVE  Kept \/ Counted
    <3>1. CASE Eligible(p, s)
      BY <1>1, <1>2, <2>3, <3>1 DEF EvaluateQualification
    <3>2. CASE ~Eligible(p, s)
      <4> DEFINE n == Qualified(s, e)
                 a == QualificationTold(p, n)
      <4>1. r = Accepted(n, a)
        BY <2>3, <3>2 DEF EvaluateQualification, Qualified, QualificationTold
      <4>2. r.reason = "ACCEPTED" /\ r.action = a /\ r.state = n
        BY <4>1 DEF Accepted
      <4>3. a \in Actions /\ Sound(p, n, Heard(t, a))
        BY <1>7, <2>3, <3>2, QualificationCounts
      <4> QED  BY <1>7, <4>2, <4>3
    <3> QED  BY <3>1, <3>2
  <2>4. ASSUME e.id \notin s.processed, e.kind = "PROGRESS", r = EvaluateProgress(p, s, e)
        PROVE  Kept \/ Counted
    <3>1. CASE ~Eligible(p, s) \/ s.progress >= Target[p]
      BY <1>1, <1>2, <2>4, <3>1 DEF EvaluateProgress
    <3>2. CASE Eligible(p, s) /\ ~(s.progress >= Target[p])
      <4> DEFINE n == Progressed(s, e)
                 a == ProgressTold(p, n)
      <4>1. r = Accepted(n, a)
        BY <2>4, <3>2 DEF EvaluateProgress, Progressed, ProgressTold
      <4>2. r.reason = "ACCEPTED" /\ r.action = a /\ r.state = n
        BY <4>1 DEF Accepted
      <4>3. p \in Policies /\ Sound(p, s, t)
        BY <1>7
      <4>4. s.progress < Target[p]
        BY <3>2, <4>3, StateFields, LimitsArePositive DEF Sound
      <4>5. a \in Actions /\ Sound(p, n, Heard(t, a))
        BY <2>4, <3>2, <4>3, <4>4, ProgressCounts
      <4> QED  BY <1>7, <4>2, <4>5
    <3> QED  BY <3>1, <3>2
  <2>5. ASSUME e.id \notin s.processed, e.kind = "REWARD_REQUEST",
               r = EvaluateRewardRequest(p, s, e)
        PROVE  Kept \/ Counted
    <3>1. s.progress \in Nat /\ Target[p] \in Nat
      BY <1>7, StateFields, LimitsArePositive DEF Sound
    <3>2. CASE ~Eligible(p, s) \/ s.progress < Target[p] \/ s.rewards >= Cap[p]
      BY <1>1, <1>2, <2>5, <3>1, <3>2 DEF EvaluateRewardRequest
    <3>3. CASE Eligible(p, s) /\ ~(s.progress < Target[p]) /\ ~(s.rewards >= Cap[p])
      <4>1. r = Accepted(Rewarded(s, e), "REWARD_PERMITTED")
        BY <2>5, <3>3 DEF EvaluateRewardRequest, Rewarded
      <4>2. /\ r.reason = "ACCEPTED" /\ r.action = "REWARD_PERMITTED" /\ r.state = Rewarded(s, e)
            /\ "REWARD_PERMITTED" \in Actions
        BY <4>1 DEF Accepted, Actions
      <4>3. Sound(p, Rewarded(s, e), Heard(t, "REWARD_PERMITTED"))
        BY <1>7, <2>5, <3>3, RewardCounts
      <4> QED  BY <1>7, <4>2, <4>3
    <3> QED  BY <3>2, <3>3
  <2> HIDE DEF Kept, Counted
  <2>6. CASE e.kind # "UNKNOWN" /\ e.id \notin s.processed
    <3>1. e.kind \in {"QUALIFICATION", "PROGRESS", "REWARD_REQUEST"}
      BY <2>6, EngagementAssumption DEF Kinds
    <3>2. Kept \/ Counted
      BY <2>1, <2>3, <2>4, <2>5, <2>6, <3>1 DEF ByKind
    <3> QED  BY <3>2 DEF Kept, Counted
  <2> QED  BY <2>2, <2>6
<1> QED  BY <1>5, <1>6, <1>7

-----------------------------------------------------------------------------
LEMMA InitInv == Init => EngagementInv
<1> SUFFICES ASSUME Init PROVE EngagementInv
  OBVIOUS
<1>1. ASSUME NEW p \in Policies
      PROVE  Sound(p, states[p], told[p])
  <2>1. states[p] = Initial(p) /\ told[p] = [a \in Actions |-> 0]
    BY DEF Init
  <2>2. /\ Initial(p) \in EngagementStates /\ Initial(p).policy = p
        /\ Initial(p).qualification = 0 /\ Initial(p).progress = 0 /\ Initial(p).rewards = 0
        /\ Initial(p).processed = {}
    BY DEF Initial, EngagementStates
  <2>3. SatisfiesBounds(p, Initial(p)) /\ ~Eligible(p, Initial(p))
    BY <2>2, LimitsArePositive DEF SatisfiesBounds, Eligible
  <2>4. CountsOnce(Initial(p))
    BY <2>2, FS_EmptySet DEF CountsOnce
  <2>5. /\ told[p] \in Tellings
        /\ told[p]["RECOMMENDATION_ELIGIBLE"] = 0 /\ told[p]["PROGRESS_TARGET_REACHED"] = 0
        /\ told[p]["REWARD_PERMITTED"] = 0
    BY <2>1 DEF Tellings, Actions
  <2>6. Tells(p, Initial(p), told[p])
    BY <2>2, <2>3, <2>5, LimitsArePositive DEF Tells
  <2> QED  BY <2>1, <2>2, <2>3, <2>4, <2>5, <2>6 DEF Sound
<1> QED  BY <1>1 DEF Init, EngagementInv, Sound, Initial, EngagementStates, Tellings

LEMMA InvStep == EngagementInv /\ [Next]_vars => EngagementInv'
<1> SUFFICES ASSUME EngagementInv, [Next]_vars PROVE EngagementInv'
  OBVIOUS
<1>1. ASSUME NEW p, NEW owner \in Policies, NEW e \in Incoming, Deliver(p, owner, e)
      PROVE  EngagementInv'
  <2>1. PICK r : r = Evaluate(p, states[owner], e)
    OBVIOUS
  <2>2. /\ states' = [states EXCEPT ![owner] = r.state]
        /\ told' = IF r.reason = "ACCEPTED" THEN [told EXCEPT ![owner][r.action] = @ + 1] ELSE told
        /\ answer' = r.reason
    BY <1>1, <2>1 DEF Deliver
  <2>3. /\ states \in [Policies -> EngagementStates] /\ told \in [Policies -> Tellings]
        /\ \A q \in Policies : Sound(q, states[q], told[q])
    BY DEF EngagementInv
  <2>4. CASE r.reason \in Reasons \ {"INVALID_STATE"} /\ r.state = states[owner]
    <3>1. states' = states /\ told' = told
      BY <2>2, <2>3, <2>4 DEF Reasons
    <3> QED  BY <2>2, <2>3, <2>4, <3>1 DEF EngagementInv
  <2>5. CASE /\ r.reason = "ACCEPTED" /\ r.action \in Actions
             /\ Sound(owner, r.state, Heard(told[owner], r.action))
    <3>1. told' = [told EXCEPT ![owner] = Heard(told[owner], r.action)]
      BY <2>2, <2>3, <2>5 DEF Heard
    <3>2. /\ r.state \in EngagementStates
          /\ Heard(told[owner], r.action) \in Tellings
      BY <2>5 DEF Sound
    <3>3. /\ states' \in [Policies -> EngagementStates] /\ told' \in [Policies -> Tellings]
          /\ \A q \in Policies : Sound(q, states'[q], told'[q])
      BY <2>2, <2>3, <2>5, <3>1, <3>2
    <3> QED  BY <2>2, <2>5, <3>3 DEF EngagementInv
  <2>6. \/ r.reason \in Reasons \ {"INVALID_STATE"} /\ r.state = states[owner]
        \/ /\ r.reason = "ACCEPTED" /\ r.action \in Actions
           /\ Sound(owner, r.state, Heard(told[owner], r.action))
    BY <2>1, <2>3, Evaluated
  <2> QED  BY <2>4, <2>5, <2>6
<1>2. CASE UNCHANGED vars
  BY <1>2 DEF vars, EngagementInv
<1> QED  BY <1>1, <1>2 DEF Next

(* In whatever order and however often events come, and with states and     *)
(* policies mixed up: no state becomes invalid, every event id counts once, *)
(* and the caller was told of each milestone once and of every permission.  *)
THEOREM CountsStaySound == Spec => []CountsAreSound
<1>1. EngagementInv => CountsAreSound
  <2> SUFFICES ASSUME EngagementInv PROVE CountsAreSound
    OBVIOUS
  <2>1. ASSUME NEW p \in Policies
        PROVE  /\ states[p] \in EngagementStates /\ states[p].policy = p
               /\ SatisfiesBounds(p, states[p])
               /\ CountsOnce(states[p]) /\ Tells(p, states[p], told[p])
    BY DEF EngagementInv, Sound
  <2>2. TypeOK
    BY <2>1, StateFields DEF TypeOK, EngagementInv
  <2>3. NeverInvalid
    BY <2>1 DEF NeverInvalid, EngagementInv
  <2>4. EventsCountOnce
    BY <2>1 DEF EventsCountOnce, CountsOnce
  <2>5. ToldAsItIs
    BY <2>1 DEF ToldAsItIs, Tells
  <2> QED  BY <2>2, <2>3, <2>4, <2>5 DEF CountsAreSound
<1> QED  BY <1>1, InitInv, InvStep, PTL DEF Spec

-----------------------------------------------------------------------------
(* The shared context, for any callers, manifests and number of changes.     *)

Texts == Manifests \cup {Shared!Nothing}

SharedStates ==
  {Shared!Absent} \cup [lifecycle : Shared!Lifecycles \ {"ABSENT"}, manifest : Manifests]

SharedTypes ==
  /\ state \in SharedStates
  /\ seen \in [Callers -> SharedStates]
  /\ granted \in [Callers -> [edition : Nat, manifest : Texts]]
  /\ edition \in 0..MaxEditions
  /\ last.caller \in Callers \cup {None}

(* A reader was let in to an edition that is over, or holds what is sealed. *)
GrantsStand ==
  \A c \in Callers : granted[c].manifest # Shared!Nothing =>
    /\ granted[c].edition <= edition
    /\ granted[c].edition = edition =>
         state.lifecycle = "SEALED" /\ granted[c].manifest = state.manifest

SharedInv == SharedTypes /\ GrantsStand /\ Shared!ReadersAgree

LEMMA SharedStateFields ==
  ASSUME NEW s \in SharedStates
  PROVE  \/ s = Shared!Absent /\ s.lifecycle = "ABSENT" /\ s.manifest = Shared!Nothing
         \/ /\ s.lifecycle \in {"ARCHITECTURE_DRAFT", "SEALED"} /\ s.manifest \in Manifests
            /\ s = Shared!Content(s.lifecycle, s.manifest)
BY DEF SharedStates, Shared!Absent, Shared!Content, Shared!Lifecycles

LEMMA NothingIsNoManifest == Shared!Nothing \notin Manifests
BY RecordsAssumption DEF Shared!SharedContextAssumption, Shared!Nothing

LEMMA RequestFields ==
  ASSUME NEW c, NEW r, NEW q \in Shared!Requests(c, r)
  PROVE  /\ q.caller = c
         /\ q.operation \in Shared!Operations
         /\ q.expected \in {None, r}
         /\ q.operation = "CREATE_DRAFT" <=> q.expected = None
         /\ q.operation \in {"CREATE_DRAFT", "REVISE_DRAFT"} => q.candidate \in Manifests
BY DEF Shared!Requests

(* What the gate may do with a request: leave the context as it is, or let  *)
(* an architect change it.                                                  *)
Changes(q, s, t) ==
  /\ q.caller \in Architects
  /\ t \in SharedStates /\ t.lifecycle # "ABSENT"
  /\ s.lifecycle # "ABSENT" =>
       q.operation # "CREATE_DRAFT" /\ q.expected \in {None, s.manifest.revision}
  /\ s.lifecycle = "SEALED" => t.lifecycle = "ARCHITECTURE_DRAFT" /\ q.change = "APPROVED"

LEMMA SharedDecided ==
  ASSUME NEW c, NEW r, NEW q \in Shared!Requests(c, r), NEW s \in SharedStates,
         NEW d, d = Shared!Decide(q, s)
  PROVE  /\ d.state = s \/ Changes(q, s, d.state)
         /\ q.operation = "READ_REFERENCE" =>
              d.state = s /\ (d.decision = "ALLOW" => s.lifecycle = "SEALED")
<1>1. /\ q.operation \in Shared!Operations
      /\ q.operation \in {"CREATE_DRAFT", "REVISE_DRAFT"} => q.candidate \in Manifests
  BY RequestFields
<1> DEFINE passes == /\ q.expected \in {None, s.manifest.revision}
                     /\ q.operation = "READ_REFERENCE" \/ q.caller \in Architects
<1>2. \/ d = Shared!Admit(q, s) /\ passes
      \/ d.state = s /\ d.decision # "ALLOW"
  BY DEF Shared!Decide, Shared!Unless, Shared!Stale, Shared!Forbid, Shared!Refused
<1>3. CASE d.state = s /\ d.decision # "ALLOW"
  BY <1>3
<1>4. CASE d = Shared!Admit(q, s) /\ passes
  <2>1. CASE q.operation = "READ_REFERENCE"
    <3>1. d = Shared!Read(q, s)
      BY <1>4, <2>1 DEF Shared!Admit
    <3> QED  BY <2>1, <3>1 DEF Shared!Read, Shared!Unless, Shared!Forbid, Shared!Refused,
                               Shared!Allowed
  <2>2. CASE q.operation = "CREATE_DRAFT"
    <3>1. d = Shared!Create(q, s)
      BY <1>4, <2>2 DEF Shared!Admit
    <3>2. d.state = s \/ /\ s.lifecycle = "ABSENT"
                         /\ d.state = Shared!Content("ARCHITECTURE_DRAFT", q.candidate)
      BY <3>1 DEF Shared!Create, Shared!Unless, Shared!Forbid, Shared!Refused, Shared!Allowed
    <3> QED  BY <1>1, <1>4, <2>2, <3>2
             DEF Changes, SharedStates, Shared!Content, Shared!Lifecycles
  <2>3. CASE q.operation = "REVISE_DRAFT"
    <3>1. d = Shared!Revise(q, s)
      BY <1>4, <2>3 DEF Shared!Admit
    <3>2. d.state = s \/ /\ s.lifecycle = "SEALED" => q.change = "APPROVED"
                         /\ d.state = Shared!Content("ARCHITECTURE_DRAFT", q.candidate)
      BY <3>1 DEF Shared!Revise, Shared!Unless, Shared!Forbid, Shared!Stale, Shared!Refused,
                  Shared!Allowed
    <3> QED  BY <1>1, <1>4, <2>3, <3>2
             DEF Changes, SharedStates, Shared!Content, Shared!Lifecycles
  <2>4. CASE q.operation = "SEAL"
    <3>1. d = Shared!Seal(q, s)
      BY <1>4, <2>4 DEF Shared!Admit
    <3>2. d.state = s \/ /\ s.lifecycle = "ARCHITECTURE_DRAFT"
                         /\ d.state = [s EXCEPT !.lifecycle = "SEALED"]
      BY <3>1 DEF Shared!Seal, Shared!Unless, Shared!Forbid, Shared!Refused, Shared!Allowed
    <3>3. CASE d.state # s
      <4>1. s = Shared!Content("ARCHITECTURE_DRAFT", s.manifest) /\ s.manifest \in Manifests
        BY <3>2, <3>3, SharedStateFields DEF Shared!Absent, Shared!Content
      <4>2. d.state = Shared!Content("SEALED", s.manifest)
        BY <3>2, <3>3, <4>1 DEF Shared!Content
      <4> QED  BY <1>4, <2>4, <3>2, <3>3, <4>1, <4>2
               DEF Changes, SharedStates, Shared!Content, Shared!Lifecycles
    <3> QED  BY <2>4, <3>3
  <2> QED  BY <1>1, <2>1, <2>2, <2>3, <2>4 DEF Shared!Operations
<1> QED  BY <1>2, <1>3, <1>4

LEMMA SharedInitInv == Shared!Init => SharedInv
<1> SUFFICES ASSUME Shared!Init PROVE SharedInv
  OBVIOUS
<1>1. SharedTypes
  BY RecordsAssumption
     DEF Shared!Init, SharedTypes, SharedStates, Texts, Shared!SharedContextAssumption
<1>2. \A c \in Callers : granted[c].manifest = Shared!Nothing
  BY DEF Shared!Init
<1>3. GrantsStand
  BY <1>2 DEF GrantsStand
<1>4. Shared!ReadersAgree
  BY <1>2 DEF Shared!ReadersAgree
<1> QED  BY <1>1, <1>3, <1>4 DEF SharedInv

LEMMA LookStep ==
  ASSUME SharedInv, NEW c \in Callers, Shared!Look(c)
  PROVE  SharedInv'
<1>1. SharedTypes'
  BY DEF SharedInv, SharedTypes, Shared!Look
<1>2. GrantsStand'
  BY DEF SharedInv, GrantsStand, Shared!Look
<1>3. Shared!ReadersAgree'
  BY DEF SharedInv, Shared!ReadersAgree, Shared!Look
<1> QED  BY <1>1, <1>2, <1>3 DEF SharedInv

(* What an answer does to the context and its readers. *)
LEMMA SharedAsked ==
  ASSUME SharedTypes, NEW c \in Callers, NEW q \in Shared!Requests(c, seen[c].manifest.revision),
         Shared!Ask(c, q)
  PROVE  /\ seen' = seen /\ edition' <= MaxEditions
         /\ \/ /\ state' = state /\ edition' = edition /\ last' = last
               /\ \/ granted' = granted
                  \/ /\ state.lifecycle = "SEALED"
                     /\ granted' = [granted EXCEPT ![c] =
                                      [edition |-> edition, manifest |-> state.manifest]]
            \/ /\ Changes(q, state, state') /\ state' # state /\ granted' = granted
               /\ edition' = IF state.lifecycle = "SEALED" THEN edition + 1 ELSE edition
               /\ last' = [caller |-> c, operation |-> q.operation, change |-> q.change]
<1>1. PICK d : d = Shared!Decide(q, state)
  OBVIOUS
<1>2. state \in SharedStates
  BY DEF SharedTypes
<1>3. /\ d.state = state \/ Changes(q, state, d.state)
      /\ q.operation = "READ_REFERENCE" =>
           d.state = state /\ (d.decision = "ALLOW" => state.lifecycle = "SEALED")
  BY <1>1, <1>2, SharedDecided
<1>4. /\ state' = d.state
      /\ edition' = IF Shared!Reopens(state, d.state) THEN edition + 1 ELSE edition
      /\ edition' <= MaxEditions
      /\ granted' = IF q.operation = "READ_REFERENCE" /\ d.decision = "ALLOW"
                    THEN [granted EXCEPT ![c] = [edition |-> edition, manifest |-> state.manifest]]
                    ELSE granted
      /\ last' = IF d.state = state THEN last
                  ELSE [caller |-> c, operation |-> q.operation, change |-> q.change]
      /\ seen' = seen
  BY <1>1 DEF Shared!Ask
<1>5. CASE d.state = state
  <2>1. state' = state /\ edition' = edition /\ last' = last
    BY <1>4, <1>5 DEF Shared!Reopens
  <2> QED  BY <1>3, <1>4, <2>1
<1>6. CASE d.state # state
  <2>1. Changes(q, state, state') /\ q.operation # "READ_REFERENCE"
    BY <1>3, <1>4, <1>6
  <2>2. edition' = IF state.lifecycle = "SEALED" THEN edition + 1 ELSE edition
    BY <1>4, <2>1 DEF Changes, Shared!Reopens
  <2> QED  BY <1>4, <1>6, <2>1, <2>2
<1> QED  BY <1>5, <1>6

LEMMA SharedAskStep ==
  ASSUME SharedInv, NEW c \in Callers, NEW q \in Shared!Requests(c, seen[c].manifest.revision),
         Shared!Ask(c, q)
  PROVE  SharedInv'
<1>1. SharedTypes /\ GrantsStand /\ Shared!ReadersAgree
  BY DEF SharedInv
<1>2. /\ edition \in Nat /\ MaxEditions \in Nat /\ seen' = seen /\ edition' <= MaxEditions
      /\ granted \in [Callers -> [edition : Nat, manifest : Texts]]
  BY <1>1, SharedAsked, RecordsAssumption DEF SharedTypes, Shared!SharedContextAssumption
<1>3. CASE UNCHANGED <<state, edition, last, granted>>
  <2>1. SharedTypes'
    BY <1>1, <1>2, <1>3 DEF SharedTypes
  <2>2. GrantsStand'
    BY <1>1, <1>3 DEF GrantsStand
  <2>3. Shared!ReadersAgree'
    BY <1>1, <1>3 DEF Shared!ReadersAgree
  <2> QED  BY <2>1, <2>2, <2>3 DEF SharedInv
<1>4. ASSUME UNCHANGED <<state, edition, last>>, state.lifecycle = "SEALED",
             granted' = [granted EXCEPT ![c] = [edition |-> edition, manifest |-> state.manifest]]
      PROVE  SharedInv'
  <2>1. state.manifest \in Manifests
    BY <1>1, <1>4, SharedStateFields DEF SharedTypes
  <2>2. /\ granted'[c] = [edition |-> edition, manifest |-> state.manifest]
        /\ \A b \in Callers \ {c} : granted'[b] = granted[b]
    BY <1>2, <1>4
  <2>3. SharedTypes'
    BY <1>1, <1>2, <1>4, <2>1 DEF SharedTypes, Texts
  <2>4. GrantsStand'
    BY <1>1, <1>2, <1>4, <2>2 DEF GrantsStand
  <2>5. ASSUME NEW a \in Callers, NEW b \in Callers,
               granted[a].manifest # Shared!Nothing \/ a = c,
               granted[b].manifest # Shared!Nothing \/ b = c,
               granted'[a].edition = granted'[b].edition
        PROVE  granted'[a].manifest = granted'[b].manifest
    BY <1>1, <2>2, <2>5 DEF GrantsStand, Shared!ReadersAgree
  <2>6. Shared!ReadersAgree'
    BY <2>2, <2>5 DEF Shared!ReadersAgree
  <2> QED  BY <2>3, <2>4, <2>6 DEF SharedInv
<1>5. ASSUME Changes(q, state, state'), state' # state, granted' = granted,
             edition' = (IF state.lifecycle = "SEALED" THEN edition + 1 ELSE edition),
             last' = [caller |-> c, operation |-> q.operation, change |-> q.change]
      PROVE  SharedInv'
  <2>1. SharedTypes'
    BY <1>1, <1>2, <1>5 DEF SharedTypes, Changes
  <2>2. \A b \in Callers : granted[b].manifest # Shared!Nothing => granted[b].edition < edition'
    BY <1>1, <1>2, <1>5 DEF GrantsStand
  <2>3. GrantsStand'
    BY <1>2, <1>5, <2>1, <2>2 DEF GrantsStand, SharedTypes
  <2>4. Shared!ReadersAgree'
    BY <1>1, <1>5 DEF Shared!ReadersAgree
  <2> QED  BY <2>1, <2>3, <2>4 DEF SharedInv
<1> QED  BY <1>1, <1>3, <1>4, <1>5, SharedAsked

LEMMA SharedStep ==
  ASSUME SharedInv, [Shared!Next]_(Shared!vars)
  PROVE  SharedInv'
<1>1. ASSUME NEW c \in Callers, Shared!Look(c)
      PROVE  SharedInv'
  BY <1>1, LookStep
<1>2. ASSUME NEW c \in Callers, NEW q \in Shared!Requests(c, seen[c].manifest.revision),
             Shared!Ask(c, q)
      PROVE  SharedInv'
  BY <1>2, SharedAskStep
<1>3. ASSUME UNCHANGED Shared!vars
      PROVE  SharedInv'
  BY <1>3 DEF Shared!vars, SharedInv, SharedTypes, GrantsStand, Shared!ReadersAgree
<1> QED  BY <1>1, <1>2, <1>3 DEF Shared!Next

(* What a step of a caller may do to the context, for any two callers. *)
ReplacesTheSeen ==
  \A c \in Callers :
    (/\ state.lifecycle # "ABSENT"
     /\ state' # state
     /\ last'.caller = c) => seen[c].manifest = state.manifest

IsControlled ==
  state' # state =>
    /\ last'.caller \in Architects
    /\ Shared!Reopens(state, state') => last'.change = "APPROVED"

LEMMA SharedChange ==
  ASSUME SharedInv, [Shared!Next]_(Shared!vars)
  PROVE  [ReplacesTheSeen /\ IsControlled]_(Shared!vars)
<1>1. ASSUME NEW c \in Callers, NEW q \in Shared!Requests(c, seen[c].manifest.revision),
             Shared!Ask(c, q), state' # state
      PROVE  ReplacesTheSeen /\ IsControlled
  <2>1. /\ Changes(q, state, state')
        /\ last' = [caller |-> c, operation |-> q.operation, change |-> q.change]
    BY <1>1, SharedAsked DEF SharedInv
  <2>2. /\ q.caller = c /\ q.expected \in {None, seen[c].manifest.revision}
        /\ q.operation = "CREATE_DRAFT" <=> q.expected = None
    BY <1>1, RequestFields
  <2>3. IsControlled
    BY <2>1, <2>2 DEF IsControlled, Changes, Shared!Reopens
  <2>4. ASSUME state.lifecycle # "ABSENT"
        PROVE  seen[c].manifest = state.manifest
    <3>1. seen[c] \in SharedStates /\ state \in SharedStates
      BY DEF SharedInv, SharedTypes
    <3>2. /\ seen[c].manifest.revision = state.manifest.revision
          /\ seen[c].manifest.revision # None
      BY <2>1, <2>2, <2>4 DEF Changes
    <3>3. seen[c].manifest # Shared!Nothing /\ state.manifest \in Manifests
      BY <2>4, <3>1, <3>2, SharedStateFields DEF Shared!Nothing
    <3>4. seen[c].manifest \in Manifests
      BY <3>1, <3>3, SharedStateFields
    <3> QED  BY <3>2, <3>3, <3>4, RecordsAssumption DEF Shared!SharedContextAssumption
  <2>5. ReplacesTheSeen
    BY <2>1, <2>4 DEF ReplacesTheSeen
  <2> QED  BY <2>3, <2>5
<1>2. ASSUME NEW c \in Callers, Shared!Look(c)
      PROVE  state' = state
  BY <1>2 DEF Shared!Look
<1>3. UNCHANGED Shared!vars => state' = state
  BY DEF Shared!vars
<1>4. state' = state => ReplacesTheSeen /\ IsControlled
  BY DEF ReplacesTheSeen, IsControlled
<1> QED  BY <1>1, <1>2, <1>3, <1>4 DEF Shared!Next

(* ContextIsControlled for any callers, architects among them, manifests    *)
(* and stages, and any bound on the editions: however callers act on what   *)
(* they saw earlier, decide_shared_context_access lets nobody replace a     *)
(* text he has not seen, lets only an architect with an approved change     *)
(* reopen a sealed one, and shows one text to all readers of an edition.    *)
THEOREM ContextStaysControlled == Shared!Spec => ContextIsControlled
<1>1. Shared!Init => SharedInv
  BY SharedInitInv
<1>2. SharedInv /\ [Shared!Next]_(Shared!vars)
        => SharedInv' /\ [ReplacesTheSeen]_(Shared!vars) /\ [IsControlled]_(Shared!vars)
  BY SharedStep, SharedChange
<1>3. SharedInv => Shared!TypeOK /\ Shared!ReadersAgree
  BY DEF SharedInv, SharedTypes, SharedStates, Shared!TypeOK
<1>4. Shared!NothingUnseenReplaced <=> [][ReplacesTheSeen]_(Shared!vars)
  BY DEF Shared!NothingUnseenReplaced, ReplacesTheSeen
<1>5. Shared!ChangesAreControlled <=> [][IsControlled]_(Shared!vars)
  BY DEF Shared!ChangesAreControlled, IsControlled
<1> QED  BY <1>1, <1>2, <1>3, <1>4, <1>5, PTL
         DEF Shared!Spec, ContextIsControlled, Shared!ContextIsControlled

-----------------------------------------------------------------------------
(* The citations, for any sources, consumers, revisions and budget.          *)

Copies == [ref : Cited!References, status : Cited!Statuses]

CitedInv ==
  /\ revision \in [Sources -> 1..MaxRevision]
  /\ held \in [Consumers -> SUBSET Copies]
  /\ Cited!Recorded \subseteq Cited!References
  /\ records \in [Cited!Recorded -> {"CLOSED", "INVALIDATED"}]

LEMMA CitedInitInv == Cited!Init => CitedInv
<1> SUFFICES ASSUME Cited!Init PROVE CitedInv
  OBVIOUS
<1>1. revision \in [Sources -> 1..MaxRevision]
  BY RecordsAssumption DEF Cited!Init, Cited!CitationsAssumption
<1>2. Cited!Recorded = {}
  BY DEF Cited!Init, Cited!Recorded
<1> QED  BY <1>1, <1>2 DEF Cited!Init, CitedInv, Cited!Recorded

LEMMA ResolveStep ==
  ASSUME CitedInv, NEW c \in Consumers, NEW e \in CitedEvents, Cited!Resolve(c, e)
  PROVE  CitedInv' /\ records' = records
<1>1. PICK chosen \in [Sources -> 1..MaxRevision] :
        /\ held' = [held EXCEPT ![c] =
             {Cited!Copy([source |-> RequiredSources[i], revision |-> chosen[RequiredSources[i]],
                          event |-> e, consumer |-> c, place |-> i], "OPEN") :
                i \in 1..Len(RequiredSources)}]
        /\ UNCHANGED <<revision, records>>
  BY DEF Cited!Resolve
<1>2. RequiredSources \in Seq(Sources)
  BY RecordsAssumption DEF Cited!CitationsAssumption
<1>3. ASSUME NEW i \in 1..Len(RequiredSources)
      PROVE  Cited!Copy([source |-> RequiredSources[i], revision |-> chosen[RequiredSources[i]],
                         event |-> e, consumer |-> c, place |-> i], "OPEN") \in Copies
  <2>1. RequiredSources[i] \in Sources
    BY <1>2, <1>3
  <2> QED  BY <1>1, <2>1 DEF Copies, Cited!Copy, Cited!References, Cited!Statuses
<1>4. held' \in [Consumers -> SUBSET Copies]
  BY <1>1, <1>3 DEF CitedInv
<1> QED  BY <1>1, <1>4 DEF CitedInv, Cited!Recorded

LEMMA RestartStep ==
  ASSUME CitedInv, NEW c \in Consumers, Cited!Restart(c)
  PROVE  CitedInv' /\ records' = records
BY DEF CitedInv, Cited!Restart, Cited!Recorded

LEMMA CloseStep ==
  ASSUME CitedInv, NEW c \in Consumers, NEW copy \in held[c], Cited!Close(c, copy)
  PROVE  /\ CitedInv'
         /\ Cited!Recorded' = Cited!Recorded \cup {copy.ref}
         /\ copy.ref \in Cited!Recorded /\ records[copy.ref] = "INVALIDATED"
              => /\ Cited!Copy(copy.ref, "INVALIDATED") \in held[c]
                 /\ Cited!Copy(copy.ref, "INVALIDATED") \notin held'[c]
         /\ \A r \in Cited!Recorded' :
              records'[r] = IF r = copy.ref THEN "CLOSED" ELSE records[r]
<1>1. copy \in Copies /\ copy.ref \in Cited!References
  BY DEF CitedInv, Copies
<1>2. records' = [r \in Cited!Recorded \cup {copy.ref} |->
                    IF r = copy.ref THEN "CLOSED" ELSE records[r]]
  BY DEF Cited!Close
<1>3. Cited!Recorded' = Cited!Recorded \cup {copy.ref}
  BY <1>2 DEF Cited!Recorded
<1>4. \A r \in Cited!Recorded' : records'[r] = IF r = copy.ref THEN "CLOSED" ELSE records[r]
  BY <1>2, <1>3
<1>5. ASSUME copy.ref \in Cited!Recorded, records[copy.ref] = "INVALIDATED"
      PROVE  /\ Cited!Copy(copy.ref, "INVALIDATED") \in held[c]
             /\ Cited!Copy(copy.ref, "INVALIDATED") \notin held'[c]
  <2>1. copy.status = "INVALIDATED"
    BY <1>5 DEF Cited!Close, Cited!Admits
  <2>2. copy = Cited!Copy(copy.ref, "INVALIDATED")
    BY <1>1, <2>1 DEF Copies, Cited!Copy
  <2>3. held'[c] = (held[c] \ {copy}) \cup {Cited!Copy(copy.ref, "CLOSED")}
    BY DEF Cited!Close, CitedInv
  <2>4. Cited!Copy(copy.ref, "CLOSED") # Cited!Copy(copy.ref, "INVALIDATED")
    BY DEF Cited!Copy
  <2> QED  BY <2>2, <2>3, <2>4
<1>6. held' \in [Consumers -> SUBSET Copies]
  <2>1. Cited!Copy(copy.ref, "CLOSED") \in Copies
    BY <1>1 DEF Copies, Cited!Copy, Cited!Statuses
  <2>2. held[c] \subseteq Copies
    BY DEF CitedInv
  <2>3. held' = [held EXCEPT ![c] = (held[c] \ {copy}) \cup {Cited!Copy(copy.ref, "CLOSED")}]
    BY DEF Cited!Close
  <2> HIDE DEF Copies
  <2> QED  BY <2>1, <2>2, <2>3 DEF CitedInv
<1>7. records' \in [Cited!Recorded' -> {"CLOSED", "INVALIDATED"}]
  BY <1>2, <1>3 DEF CitedInv
<1>8. revision' = revision
  BY DEF Cited!Close
<1> QED  BY <1>1, <1>3, <1>4, <1>5, <1>6, <1>7, <1>8 DEF CitedInv

LEMMA ReviseStep ==
  ASSUME CitedInv, NEW s \in Sources, Cited!Revise(s)
  PROVE  CitedInv' /\ records' = records
<1>1. revision' \in [Sources -> 1..MaxRevision]
  <2>1. MaxRevision \in Nat /\ revision[s] \in 1..MaxRevision /\ revision[s] < MaxRevision
    BY RecordsAssumption DEF CitedInv, Cited!Revise, Cited!CitationsAssumption
  <2>2. revision[s] + 1 \in 1..MaxRevision
    BY <2>1
  <2> QED  BY <2>2 DEF CitedInv, Cited!Revise
<1> QED  BY <1>1 DEF CitedInv, Cited!Revise, Cited!Recorded

LEMMA ReferencesForStep ==
  ASSUME CitedInv, NEW c \in Consumers, NEW s \in Sources, NEW n \in 1..MaxRevision,
         Cited!ReferencesFor(c, s, n)
  PROVE  CitedInv' /\ records' = records
<1> DEFINE Found == {Cited!Copy(r, records[r]) :
                       r \in {q \in Cited!Recorded : q.source = s /\ q.revision = n}}
<1>1. Found \subseteq Copies
  BY DEF CitedInv, Copies, Cited!Copy, Cited!Statuses
<1>2. held' = [held EXCEPT ![c] = @ \cup Found] /\ UNCHANGED <<revision, records>>
  BY DEF Cited!ReferencesFor
<1> HIDE DEF Found
<1>3. held' \in [Consumers -> SUBSET Copies]
  BY <1>1, <1>2 DEF CitedInv
<1> QED  BY <1>2, <1>3 DEF CitedInv, Cited!Recorded

LEMMA InvalidateStep ==
  ASSUME CitedInv, NEW c \in Consumers, NEW s \in Sources, Cited!Invalidate(c, s)
  PROVE  /\ CitedInv'
         /\ \A r \in Cited!Recorded :
              records'[r] = IF r.source = s THEN "INVALIDATED" ELSE records[r]
<1>1. records' = [r \in Cited!Recorded |-> IF r.source = s THEN "INVALIDATED" ELSE records[r]]
  BY DEF Cited!Invalidate
<1>2. Cited!Recorded' = Cited!Recorded
  BY <1>1 DEF Cited!Recorded
<1>3. records' \in [Cited!Recorded' -> {"CLOSED", "INVALIDATED"}]
  BY <1>1, <1>2 DEF CitedInv
<1>4. revision' = revision
  BY DEF Cited!Invalidate
<1> DEFINE Fallen == {Cited!Copy(r, "INVALIDATED") : r \in {q \in Cited!Recorded : q.source = s}}
<1>5. Fallen \subseteq Copies
  BY DEF CitedInv, Copies, Cited!Copy, Cited!Statuses
<1>6. held' = [held EXCEPT ![c] = @ \cup Fallen]
  BY DEF Cited!Invalidate
<1> HIDE DEF Fallen
<1>7. held' \in [Consumers -> SUBSET Copies]
  BY <1>5, <1>6 DEF CitedInv
<1> QED  BY <1>1, <1>2, <1>3, <1>4, <1>7 DEF CitedInv

(* What one step may do to what is recorded. *)
RevivedKnowingly ==
  \A r \in Cited!Recorded :
    (records[r] = "INVALIDATED" /\ records'[r] # "INVALIDATED") =>
      \E c \in Consumers : /\ Cited!Copy(r, "INVALIDATED") \in held[c]
                          /\ Cited!Copy(r, "INVALIDATED") \notin held'[c]

FallsWithItsSource ==
  \A r, q \in Cited!Recorded :
    (/\ r.source = q.source
     /\ records[r] # "INVALIDATED"
     /\ records'[r] = "INVALIDATED") => records'[q] = "INVALIDATED"

LEMMA CitedStep ==
  ASSUME CitedInv, [Cited!Next]_(Cited!vars)
  PROVE  CitedInv' /\ RevivedKnowingly /\ FallsWithItsSource
<1>1. records' = records => RevivedKnowingly /\ FallsWithItsSource
  BY DEF RevivedKnowingly, FallsWithItsSource
<1>2. ASSUME NEW c \in Consumers, NEW e \in CitedEvents, Cited!Resolve(c, e)
      PROVE  CitedInv' /\ records' = records
  BY <1>2, ResolveStep
<1>3. ASSUME NEW c \in Consumers, Cited!Restart(c)
      PROVE  CitedInv' /\ records' = records
  BY <1>3, RestartStep
<1>4. ASSUME NEW c \in Consumers, NEW copy \in held[c], Cited!Close(c, copy)
      PROVE  CitedInv' /\ RevivedKnowingly /\ FallsWithItsSource
  BY <1>4, CloseStep DEF RevivedKnowingly, FallsWithItsSource
<1>5. ASSUME NEW s \in Sources, Cited!Revise(s)
      PROVE  CitedInv' /\ records' = records
  BY <1>5, ReviseStep
<1>6. ASSUME NEW c \in Consumers, NEW s \in Sources, Cited!Invalidate(c, s)
      PROVE  CitedInv' /\ RevivedKnowingly /\ FallsWithItsSource
  BY <1>6, InvalidateStep DEF RevivedKnowingly, FallsWithItsSource
<1>7. ASSUME NEW c \in Consumers, NEW s \in Sources, NEW n \in 1..MaxRevision,
             Cited!ReferencesFor(c, s, n)
      PROVE  CitedInv' /\ records' = records
  BY <1>7, ReferencesForStep
<1>8. ASSUME UNCHANGED Cited!vars
      PROVE  CitedInv' /\ records' = records
  BY <1>8 DEF Cited!vars, CitedInv, Cited!Recorded
<1> QED  BY <1>1, <1>2, <1>3, <1>4, <1>5, <1>6, <1>7, <1>8 DEF Cited!Next

(* InvalidationHolds for any sources, required sequence, consumers, budget  *)
(* and number of revisions, and consumers that look up and invalidate       *)
(* mappings too: CitationLedger.close turns an invalidated mapping into a   *)
(* closed one for nobody but a consumer that holds, and closes, the copy    *)
(* that says INVALIDATED; no open or closed copy does it, however late it   *)
(* is closed.  And invalidate_source leaves no mapping of its source        *)
(* standing.                                                                *)
THEOREM NoOldCopyTakesItBack == Cited!Spec => InvalidationHolds
<1>1. Cited!Init => CitedInv
  BY CitedInitInv
<1>2. CitedInv /\ [Cited!Next]_(Cited!vars)
        => CitedInv' /\ [RevivedKnowingly]_(Cited!vars) /\ [FallsWithItsSource]_(Cited!vars)
  BY CitedStep
<1>3. CitedInv => Cited!TypeOK
  BY DEF CitedInv, Copies, Cited!TypeOK
<1>4. Cited!NoOldCopyRevives <=> [][RevivedKnowingly]_(Cited!vars)
  BY DEF Cited!NoOldCopyRevives, RevivedKnowingly
<1>5. Cited!SourcesFallTogether <=> [][FallsWithItsSource]_(Cited!vars)
  BY DEF Cited!SourcesFallTogether, FallsWithItsSource
<1> QED  BY <1>1, <1>2, <1>3, <1>4, <1>5, PTL
         DEF Cited!Spec, InvalidationHolds, Cited!InvalidationHolds

-----------------------------------------------------------------------------
(* Replays.  What replay_timeline computes is shown by induction over the   *)
(* events, which is stated with sets: a set of naturals that is closed       *)
(* under successors is all of them, since its complement has no least one.   *)

LEMMA SetInduction ==
  ASSUME NEW S, 0 \in S, \A n \in Nat : n \in S => n + 1 \in S
  PROVE  Nat \subseteq S
<1> SUFFICES ASSUME Nat \ S # {} PROVE FALSE
  OBVIOUS
<1>1. PICK x \in Nat \ S : \A y \in Nat \ S : ~(<<y, x>> \in OpToRel(<, Nat))
  BY WFMin, NatLessThanWellFounded
<1>2. \A y \in Nat \ S : ~(y < x)
  BY <1>1 DEF OpToRel
<1>3. x # 0 /\ x - 1 \in Nat
  OBVIOUS
<1>4. x - 1 \in S
  BY <1>2, <1>3
<1> QED  BY <1>3, <1>4

(* The runs of the first n events, one after the other. *)
Runs(f, s, sequence, n) ==
  /\ DOMAIN f = 0..n
  /\ f[0] = Timeline!Start(s)
  /\ \A i \in 1..n : f[i] = Timeline!Step(f[i - 1], sequence[i])

LEMMA RunsExist ==
  ASSUME NEW s, NEW sequence, NEW n \in Nat
  PROVE  \E f : Runs(f, s, sequence, n)
<1> DEFINE S == {k \in Nat : \E f : Runs(f, s, sequence, k)}
<1>1. 0 \in S
  <2> DEFINE f == [i \in 0..0 |-> Timeline!Start(s)]
  <2>1. Runs(f, s, sequence, 0)
    BY DEF Runs
  <2> QED  BY <2>1
<1>2. ASSUME NEW k \in Nat, k \in S
      PROVE  k + 1 \in S
  <2>1. PICK f : Runs(f, s, sequence, k)
    BY <1>2
  <2> DEFINE next == Timeline!Step(f[k], sequence[k + 1])
             g == [i \in 0..(k + 1) |-> IF i = k + 1 THEN next ELSE f[i]]
  <2> HIDE DEF next
  <2>2. \A i \in 0..k : g[i] = f[i]
    OBVIOUS
  <2>3. g[k + 1] = next /\ DOMAIN g = 0..(k + 1)
    OBVIOUS
  <2> HIDE DEF g
  <2>4. ASSUME NEW i \in 1..(k + 1)
        PROVE  g[i] = Timeline!Step(g[i - 1], sequence[i])
    <3>1. CASE i = k + 1
      <4>1. g[i] = next /\ g[i - 1] = f[k]
        BY <2>2, <2>3, <3>1
      <4> QED  BY <3>1, <4>1 DEF next
    <3>2. CASE i \in 1..k
      <4>1. g[i] = f[i] /\ g[i - 1] = f[i - 1]
        BY <2>2, <3>2
      <4> QED  BY <2>1, <3>2, <4>1 DEF Runs
    <3> QED  BY <3>1, <3>2
  <2>5. g[0] = Timeline!Start(s)
    BY <2>1, <2>2 DEF Runs
  <2>6. Runs(g, s, sequence, k + 1)
    BY <2>3, <2>4, <2>5 DEF Runs
  <2> QED  BY <2>6
<1> HIDE DEF S
<1>3. Nat \subseteq S
  BY <1>1, <1>2, SetInduction
<1> QED  BY <1>3 DEF S

(* Two sequences that begin alike have the same runs there. *)
LEMMA RunsAgree ==
  ASSUME NEW s, NEW a, NEW b, NEW m \in Nat, NEW n \in Nat, NEW f, NEW g,
         Runs(f, s, a, m), Runs(g, s, b, n),
         NEW k \in Nat, k <= m, k <= n, \A i \in 1..k : a[i] = b[i]
  PROVE  f[k] = g[k]
<1> DEFINE S == {j \in Nat : j <= k => f[j] = g[j]}
<1>1. 0 \in S
  BY DEF Runs
<1>2. ASSUME NEW j \in Nat, j \in S
      PROVE  j + 1 \in S
  <2> SUFFICES ASSUME j + 1 <= k PROVE f[j + 1] = g[j + 1]
    OBVIOUS
  <2>1. f[j] = g[j] /\ a[j + 1] = b[j + 1]
    BY <1>2
  <2>2. f[j + 1] = Timeline!Step(f[j], a[j + 1])
    BY DEF Runs
  <2>3. g[j + 1] = Timeline!Step(g[j], b[j + 1])
    BY DEF Runs
  <2> QED  BY <2>1, <2>2, <2>3
<1> HIDE DEF S
<1>3. Nat \subseteq S
  BY <1>1, <1>2, SetInduction
<1> QED  BY <1>3 DEF S

LEMMA ReplayRuns ==
  ASSUME NEW s, NEW sequence, Len(sequence) \in Nat
  PROVE  \E f : /\ Runs(f, s, sequence, Len(sequence))
                /\ Timeline!Replay(s, sequence) = f[Len(sequence)]
<1> DEFINE after[n \in 0..Len(sequence)] ==
             IF n = 0 THEN Timeline!Start(s)
             ELSE Timeline!Step(after[n - 1], sequence[n])
<1>1. PICK g : Runs(g, s, sequence, Len(sequence))
  BY RunsExist
<1>2. PICK h : h = [n \in 0..Len(sequence) |-> g[n]]
  OBVIOUS
<1>3. h = [n \in 0..Len(sequence) |->
             IF n = 0 THEN Timeline!Start(s) ELSE Timeline!Step(h[n - 1], sequence[n])]
  <2>1. \A n \in 0..Len(sequence) :
          h[n] = IF n = 0 THEN Timeline!Start(s) ELSE Timeline!Step(h[n - 1], sequence[n])
    BY <1>1, <1>2 DEF Runs
  <2>2. h = [n \in 0..Len(sequence) |-> h[n]]
    BY <1>2
  <2> QED  BY <2>1, <2>2, Zenon
<1>4. after = [n \in 0..Len(sequence) |->
                 IF n = 0 THEN Timeline!Start(s) ELSE Timeline!Step(after[n - 1], sequence[n])]
  BY <1>3, Zenon
<1>5. Timeline!Replay(s, sequence) = after[Len(sequence)]
  BY DEF Timeline!Replay
<1> HIDE DEF after
<1>6. DOMAIN after = 0..Len(sequence)
  BY <1>4, Zenon
<1>7. \A n \in 0..Len(sequence) :
        after[n] = IF n = 0 THEN Timeline!Start(s) ELSE Timeline!Step(after[n - 1], sequence[n])
  BY <1>4, Zenon
<1>8. Runs(after, s, sequence, Len(sequence))
  BY <1>6, <1>7 DEF Runs
<1> QED  BY <1>5, <1>8

(* A replay of no events, of one more event, and of fewer events. *)
LEMMA ReplayNothing ==
  ASSUME NEW s
  PROVE  Timeline!Replay(s, <<>>) = Timeline!Start(s)
<1>1. Len(<<>>) = 0
  OBVIOUS
<1>2. PICK f : /\ Runs(f, s, <<>>, Len(<<>>))
               /\ Timeline!Replay(s, <<>>) = f[Len(<<>>)]
  BY <1>1, ReplayRuns
<1> QED  BY <1>1, <1>2 DEF Runs

LEMMA ReplayAppend ==
  ASSUME NEW s, NEW sequence \in Seq(Timeline!Events), NEW event \in Timeline!Events
  PROVE  Timeline!Replay(s, Append(sequence, event))
           = Timeline!Step(Timeline!Replay(s, sequence), event)
<1> DEFINE longer == Append(sequence, event)
           n == Len(sequence)
<1>1. /\ n \in Nat /\ Len(longer) = n + 1
      /\ longer[n + 1] = event
      /\ \A i \in 1..n : longer[i] = sequence[i]
  OBVIOUS
<1> HIDE DEF longer, n
<1>2. PICK f : Runs(f, s, longer, n + 1) /\ Timeline!Replay(s, longer) = f[n + 1]
  BY <1>1, ReplayRuns
<1>3. PICK g : Runs(g, s, sequence, n) /\ Timeline!Replay(s, sequence) = g[n]
  BY <1>1, ReplayRuns DEF n
<1>4. f[n] = g[n]
  BY <1>1, <1>2, <1>3, RunsAgree
<1>5. f[n + 1] = Timeline!Step(f[n], longer[n + 1])
  BY <1>1, <1>2 DEF Runs
<1> QED  BY <1>1, <1>2, <1>3, <1>4, <1>5 DEF longer

Outcomes == {"APPLIED", "CONFLICT", "UNRESOLVED"}

Entries ==
  [event : Timeline!Events, before : Timeline!States, after : Timeline!States,
   outcome : Outcomes,
   reason : {"DUPLICATE_EVENT_ID", "UNKNOWN_EVENT", "INVALID_TRANSITION", "NONE"}]

LEMMA NextStates ==
  ASSUME NEW s \in Timeline!States, NEW kind
  PROVE  Timeline!NextState(s, kind) \in Timeline!States \cup {"NONE"}
BY DEF Timeline!NextState, Timeline!States

(* What one event does to a run. *)
Applies(event, s, occurred) ==
  event.id \notin occurred /\ event.known /\ Timeline!NextState(s, event.text) # "NONE"

LEMMA EntryOf ==
  ASSUME NEW event \in Timeline!Events, NEW s \in Timeline!States, NEW occurred,
         NEW entry, entry = Timeline!ReplayOneEvent(event, s, occurred)
  PROVE  /\ entry \in Entries /\ entry.event = event /\ entry.before = s
         /\ entry.outcome = "APPLIED" <=> Applies(event, s, occurred)
         /\ entry.after = IF Applies(event, s, occurred)
                          THEN Timeline!NextState(s, event.text) ELSE s
<1> DEFINE next == Timeline!NextState(s, event.text)
<1>1. next \in Timeline!States \cup {"NONE"} /\ "NONE" \notin Timeline!States
  BY NextStates DEF Timeline!States
<1>2. event.known \in BOOLEAN
  BY DEF Timeline!Events
<1>3. CASE event.id \in occurred
  <2>1. entry = Timeline!Entry(event, s, s, "CONFLICT", "DUPLICATE_EVENT_ID")
    BY <1>3 DEF Timeline!ReplayOneEvent
  <2> QED  BY <1>3, <2>1 DEF Applies, Entries, Outcomes, Timeline!Entry
<1>4. CASE event.id \notin occurred /\ ~event.known
  <2>1. entry = Timeline!Entry(event, s, s, "UNRESOLVED", "UNKNOWN_EVENT")
    BY <1>4 DEF Timeline!ReplayOneEvent
  <2> QED  BY <1>4, <2>1 DEF Applies, Entries, Outcomes, Timeline!Entry
<1>5. CASE event.id \notin occurred /\ event.known /\ next = "NONE"
  <2>1. entry = Timeline!Entry(event, s, s, "CONFLICT", "INVALID_TRANSITION")
    BY <1>5 DEF Timeline!ReplayOneEvent
  <2> QED  BY <1>5, <2>1 DEF Applies, Entries, Outcomes, Timeline!Entry
<1>6. CASE event.id \notin occurred /\ event.known /\ next # "NONE"
  <2>1. entry = Timeline!Entry(event, s, next, "APPLIED", "NONE")
    BY <1>6 DEF Timeline!ReplayOneEvent
  <2> QED  BY <1>1, <1>6, <2>1 DEF Applies, Entries, Outcomes, Timeline!Entry
<1> QED  BY <1>2, <1>3, <1>4, <1>5, <1>6

(* The run after some events. *)
RunOf(run, sequence) ==
  /\ run.state \in Timeline!States
  /\ run.audit \in Seq(Entries) /\ Len(run.audit) = Len(sequence)
  /\ \A i \in 1..Len(sequence) : run.audit[i].event = sequence[i]
  /\ run.seen = {sequence[i].id : i \in 1..Len(sequence)}

LEMMA StepRuns ==
  ASSUME NEW sequence \in Seq(Timeline!Events), NEW event \in Timeline!Events,
         NEW run, RunOf(run, sequence), NEW next, next = Timeline!Step(run, event)
  PROVE  /\ RunOf(next, Append(sequence, event))
         /\ \E entry \in Entries :
              /\ entry = Timeline!ReplayOneEvent(event, run.state, run.seen)
              /\ next.audit = Append(run.audit, entry)
              /\ next.state = entry.after
<1>1. PICK entry : entry = Timeline!ReplayOneEvent(event, run.state, run.seen)
  OBVIOUS
<1>2. entry \in Entries /\ entry.event = event /\ entry.after \in Timeline!States
  BY <1>1, EntryOf DEF RunOf, Entries
<1>3. /\ next.state = entry.after
      /\ next.audit = Append(run.audit, entry)
      /\ next.seen = run.seen \cup {event.id}
  BY <1>1 DEF Timeline!Step
<1>4. next.audit \in Seq(Entries) /\ Len(next.audit) = Len(sequence) + 1
  BY <1>2, <1>3 DEF RunOf
<1>5. \A i \in 1..Len(sequence) + 1 : next.audit[i].event = Append(sequence, event)[i]
  <2> TAKE i \in 1..Len(sequence) + 1
  <2>1. CASE i = Len(sequence) + 1
    BY <1>2, <1>3, <2>1 DEF RunOf
  <2>2. CASE i \in 1..Len(sequence)
    <3>1. next.audit[i] = run.audit[i]
      BY <1>2, <1>3, <2>2 DEF RunOf
    <3> QED  BY <2>2, <3>1 DEF RunOf
  <2> QED  BY <2>1, <2>2
<1>6. next.seen = {Append(sequence, event)[i].id : i \in 1..Len(sequence) + 1}
  BY <1>3 DEF RunOf
<1>7. Len(Append(sequence, event)) = Len(sequence) + 1
  OBVIOUS
<1> QED  BY <1>1, <1>2, <1>3, <1>4, <1>5, <1>6, <1>7 DEF RunOf

LEMMA ReplayIsRun ==
  ASSUME NEW s \in Timeline!States, NEW sequence \in Seq(Timeline!Events)
  PROVE  RunOf(Timeline!Replay(s, sequence), sequence)
<1> DEFINE S == {n \in Nat : \A t \in Seq(Timeline!Events) :
                   Len(t) = n => RunOf(Timeline!Replay(s, t), t)}
<1>1. 0 \in S
  <2>1. \A t \in Seq(Timeline!Events) : Len(t) = 0 => t = <<>>
    BY EmptySeq
  <2>2. RunOf(Timeline!Start(s), <<>>)
    BY DEF RunOf, Timeline!Start
  <2> QED  BY <2>1, <2>2, ReplayNothing
<1>2. ASSUME NEW n \in Nat, n \in S
      PROVE  n + 1 \in S
  <2> SUFFICES ASSUME NEW t \in Seq(Timeline!Events), Len(t) = n + 1
               PROVE  RunOf(Timeline!Replay(s, t), t)
    OBVIOUS
  <2>1. PICK u : u = SubSeq(t, 1, n)
    OBVIOUS
  <2>2. /\ u \in Seq(Timeline!Events) /\ Len(u) = n
        /\ \A i \in 1..n : u[i] = t[i]
    BY <2>1
  <2>3. t[n + 1] \in Timeline!Events
    OBVIOUS
  <2>4. t = Append(u, t[n + 1])
    BY <2>2, <2>3
  <2>5. Timeline!Replay(s, t) = Timeline!Step(Timeline!Replay(s, u), t[n + 1])
    BY <2>2, <2>3, <2>4, ReplayAppend
  <2>6. RunOf(Timeline!Replay(s, u), u)
    BY <1>2, <2>2
  <2> QED  BY <2>2, <2>3, <2>4, <2>5, <2>6, StepRuns
<1> HIDE DEF S
<1>3. Nat \subseteq S
  BY <1>1, <1>2, SetInduction
<1>4. Len(sequence) \in Nat
  OBVIOUS
<1> QED  BY <1>3, <1>4 DEF S

(* What a timeline should come to, from where the events of each kind that  *)
(* count stand: starts, advances and finishes among the first n.            *)
StartsOf(s, starts) == IF s = "NOT_STARTED" THEN starts ELSE {0}
FinishesOf(s, starts, finishes) == {i \in finishes : \E j \in StartsOf(s, starts) : j < i}

StateBy(s, starts, finishes) ==
  IF s = "FINISHED" \/ FinishesOf(s, starts, finishes) # {} THEN "FINISHED"
  ELSE IF StartsOf(s, starts) # {} THEN "ACTIVE" ELSE "NOT_STARTED"

AppliedBy(s, starts, advances, finishes) ==
  IF s = "FINISHED" THEN {}
  ELSE {i \in starts : s = "NOT_STARTED" /\ \A j \in StartsOf(s, starts) : i <= j}
       \cup {i \in advances : /\ \E j \in StartsOf(s, starts) : j < i
                              /\ \A f \in FinishesOf(s, starts, finishes) : i < f}
       \cup {i \in FinishesOf(s, starts, finishes) :
               \A f \in FinishesOf(s, starts, finishes) : i <= f}

LEMMA MarksInRange ==
  ASSUME NEW s, NEW n \in Nat, NEW S \in SUBSET (1..n), NEW F \in SUBSET (1..n)
  PROVE  FinishesOf(s, S, F) \in SUBSET (1..n) /\ StartsOf(s, S) \in SUBSET (0..n)
<1>1. S \in SUBSET (0..n) /\ {0} \in SUBSET (0..n)
  OBVIOUS
<1>2. StartsOf(s, S) \in SUBSET (0..n)
  BY <1>1 DEF StartsOf
<1> QED  BY <1>2 DEF FinishesOf

LEMMA OneMoreStart ==
  ASSUME NEW s \in Timeline!States, NEW n \in Nat, NEW S \in SUBSET (1..n),
         NEW A \in SUBSET (1..n), NEW F \in SUBSET (1..n),
         NEW kept, kept = StateBy(s, S, F)
  PROVE  /\ StateBy(s, S \cup {n + 1}, F) = IF kept = "NOT_STARTED" THEN "ACTIVE" ELSE kept
         /\ AppliedBy(s, S \cup {n + 1}, A, F) =
              AppliedBy(s, S, A, F) \cup (IF kept = "NOT_STARTED" THEN {n + 1} ELSE {})
<1> DEFINE T == S \cup {n + 1}
<1>1. FinishesOf(s, T, F) = FinishesOf(s, S, F)
  <2>1. \A i \in F : i \in 1..n /\ ~(n + 1 < i)
    OBVIOUS
  <2>2. \A i \in F : (\E j \in T : j < i) <=> (\E j \in S : j < i)
    BY <2>1
  <2> QED  BY <2>2 DEF FinishesOf, StartsOf
<1>2. CASE s # "NOT_STARTED"
  <2>1. StartsOf(s, T) = {0} /\ StartsOf(s, S) = {0}
    BY <1>2 DEF StartsOf
  <2> QED  BY <1>1, <1>2, <2>1 DEF StateBy, AppliedBy, Timeline!States
<1>3. CASE s = "NOT_STARTED"
  <2>1. StartsOf(s, T) = T /\ StartsOf(s, S) = S
    BY <1>3 DEF StartsOf
  <2>2. FinishesOf(s, S, F) # {} => S # {}
    BY <2>1 DEF FinishesOf
  <2>3. /\ kept = "NOT_STARTED" <=> S = {}
        /\ StateBy(s, T, F) = IF S = {} THEN "ACTIVE" ELSE kept
    BY <1>1, <1>3, <2>1, <2>2 DEF StateBy
  <2>4. {i \in T : \A j \in T : i <= j} =
          {i \in S : \A j \in S : i <= j} \cup (IF S = {} THEN {n + 1} ELSE {})
    <3>1. \A i \in S : i \in 1..n /\ i <= n + 1 /\ ~(n + 1 <= i)
      OBVIOUS
    <3>2. \A i \in S : (\A j \in T : i <= j) <=> (\A j \in S : i <= j)
      BY <3>1
    <3>3. (\A j \in T : n + 1 <= j) <=> S = {}
      BY <3>1
    <3> QED  BY <3>2, <3>3
  <2>5. \A i \in A : (\E j \in T : j < i) <=> (\E j \in S : j < i)
    OBVIOUS
  <2>6. AppliedBy(s, T, A, F) = AppliedBy(s, S, A, F) \cup (IF S = {} THEN {n + 1} ELSE {})
    BY <1>1, <1>3, <2>1, <2>4, <2>5 DEF AppliedBy
  <2> QED  BY <2>3, <2>6
<1> QED  BY <1>2, <1>3

LEMMA OneMoreAdvance ==
  ASSUME NEW s \in Timeline!States, NEW n \in Nat, NEW S \in SUBSET (1..n),
         NEW A \in SUBSET (1..n), NEW F \in SUBSET (1..n)
  PROVE  AppliedBy(s, S, A \cup {n + 1}, F) =
           AppliedBy(s, S, A, F) \cup (IF StateBy(s, S, F) = "ACTIVE" THEN {n + 1} ELSE {})
<1>1. FinishesOf(s, S, F) \in SUBSET (1..n) /\ StartsOf(s, S) \in SUBSET (0..n)
  BY MarksInRange
<1>2. (\E j \in StartsOf(s, S) : j < n + 1) <=> StartsOf(s, S) # {}
  BY <1>1
<1>3. (\A f \in FinishesOf(s, S, F) : n + 1 < f) <=> FinishesOf(s, S, F) = {}
  BY <1>1
<1> QED  BY <1>2, <1>3 DEF AppliedBy, StateBy

LEMMA OneMoreFinish ==
  ASSUME NEW s \in Timeline!States, NEW n \in Nat, NEW S \in SUBSET (1..n),
         NEW A \in SUBSET (1..n), NEW F \in SUBSET (1..n),
         NEW kept, kept = StateBy(s, S, F)
  PROVE  /\ StateBy(s, S, F \cup {n + 1}) = IF kept = "ACTIVE" THEN "FINISHED" ELSE kept
         /\ AppliedBy(s, S, A, F \cup {n + 1}) =
              AppliedBy(s, S, A, F) \cup (IF kept = "ACTIVE" THEN {n + 1} ELSE {})
<1> DEFINE G == FinishesOf(s, S, F)
           H == FinishesOf(s, S, F \cup {n + 1})
           B == StartsOf(s, S)
<1>1. G \in SUBSET (1..n) /\ B \in SUBSET (0..n)
  BY MarksInRange
<1>2. H = G \cup (IF B # {} THEN {n + 1} ELSE {})
  BY <1>1 DEF FinishesOf
<1>3. G # {} => B # {}
  BY DEF FinishesOf
<1> HIDE DEF G, H, B
<1>4. /\ kept = IF s = "FINISHED" \/ G # {} THEN "FINISHED"
                ELSE IF B # {} THEN "ACTIVE" ELSE "NOT_STARTED"
      /\ StateBy(s, S, F \cup {n + 1}) =
           IF s = "FINISHED" \/ H # {} THEN "FINISHED"
           ELSE IF B # {} THEN "ACTIVE" ELSE "NOT_STARTED"
  BY DEF StateBy, G, H, B
<1>5. StateBy(s, S, F \cup {n + 1}) = IF kept = "ACTIVE" THEN "FINISHED" ELSE kept
  BY <1>2, <1>3, <1>4
<1>6. {i \in H : \A f \in H : i <= f} =
        {i \in G : \A f \in G : i <= f} \cup (IF B # {} /\ G = {} THEN {n + 1} ELSE {})
  <2>1. \A i \in G : i \in 1..n /\ i <= n + 1 /\ ~(n + 1 <= i)
    BY <1>1
  <2>2. CASE B = {}
    BY <1>2, <1>3, <2>2
  <2>3. CASE B # {}
    <3>1. H = G \cup {n + 1}
      BY <1>2, <2>3
    <3>2. \A i \in G : (\A f \in H : i <= f) <=> (\A f \in G : i <= f)
      BY <2>1, <3>1
    <3>3. (\A f \in H : n + 1 <= f) <=> G = {}
      BY <2>1, <3>1
    <3> QED  BY <2>3, <3>1, <3>2, <3>3
  <2> QED  BY <2>2, <2>3
<1>7. \A i \in A : (\A f \in H : i < f) <=> (\A f \in G : i < f)
  BY <1>1, <1>2
<1>8. AppliedBy(s, S, A, F \cup {n + 1}) =
        AppliedBy(s, S, A, F) \cup (IF s # "FINISHED" /\ B # {} /\ G = {} THEN {n + 1} ELSE {})
  BY <1>6, <1>7 DEF AppliedBy, G, H, B
<1> QED  BY <1>4, <1>5, <1>8

LEMMA MoreOfAKind ==
  ASSUME NEW event \in Timeline!Events, events \in Seq(Timeline!Events),
         events' = Append(events, event), NEW n \in Nat, n = Len(events), NEW kind
  PROVE  /\ Timeline!Of(kind) \in SUBSET (1..n)
         /\ Timeline!Of(kind)' =
              IF event.known /\ event.id \notin {events[i].id : i \in 1..n} /\ event.text = kind
              THEN Timeline!Of(kind) \cup {n + 1} ELSE Timeline!Of(kind)
<1>1. /\ DOMAIN events = 1..n /\ DOMAIN events' = 1..(n + 1)
      /\ events'[n + 1] = event
      /\ \A i \in 1..n : events'[i] = events[i]
  OBVIOUS
<1>2. ASSUME NEW i \in 1..n
      PROVE  Timeline!Counts(i)' <=> Timeline!Counts(i)
  <2>1. \A j \in 1..(i - 1) : events'[j] = events[j]
    BY <1>1
  <2> QED  BY <1>1, <2>1 DEF Timeline!Counts
<1>3. Timeline!Counts(n + 1)' <=>
        event.known /\ event.id \notin {events[i].id : i \in 1..n}
  <2>1. (n + 1) - 1 = n
    OBVIOUS
  <2> QED  BY <1>1, <2>1 DEF Timeline!Counts
<1>4. Timeline!Of(kind)' = {i \in 1..(n + 1) : Timeline!Counts(i)' /\ events'[i].text = kind}
  BY <1>1 DEF Timeline!Of
<1>5. Timeline!Of(kind) = {i \in 1..n : Timeline!Counts(i) /\ events[i].text = kind}
  BY <1>1 DEF Timeline!Of
<1>6. 1..(n + 1) = (1..n) \cup {n + 1}
  OBVIOUS
<1> QED  BY <1>1, <1>2, <1>3, <1>4, <1>5, <1>6

Marks(audit, outcome) == {i \in DOMAIN audit : audit[i].outcome = outcome}

LEMMA CountsMarks ==
  ASSUME NEW audit, NEW outcome
  PROVE  Timeline!CountOf(audit, outcome) = Cardinality(Marks(audit, outcome))
<1>1. \A S : Timeline!Cardinality(S) = Cardinality(S)
  BY DEF Timeline!Cardinality, Cardinality
<1> QED  BY <1>1 DEF Timeline!CountOf, Marks

LEMMA CountGrows ==
  ASSUME NEW audit \in Seq(Entries), NEW entry \in Entries, NEW outcome,
         IsFiniteSet(Marks(audit, outcome)),
         NEW longer, longer = Append(audit, entry)
  PROVE  /\ IsFiniteSet(Marks(longer, outcome))
         /\ Timeline!CountOf(audit, outcome) \in Nat
         /\ Timeline!CountOf(longer, outcome) =
              Timeline!CountOf(audit, outcome) + (IF entry.outcome = outcome THEN 1 ELSE 0)
<1> DEFINE n == Len(audit)
<1>1. /\ n \in Nat /\ DOMAIN audit = 1..n /\ DOMAIN longer = (1..n) \cup {n + 1}
      /\ longer[n + 1] = entry
      /\ \A i \in 1..n : longer[i] = audit[i]
  OBVIOUS
<1> HIDE DEF n
<1>2. Marks(longer, outcome) = IF entry.outcome = outcome
                               THEN Marks(audit, outcome) \cup {n + 1} ELSE Marks(audit, outcome)
  BY <1>1 DEF Marks
<1>3. n + 1 \notin Marks(audit, outcome)
  BY <1>1 DEF Marks
<1>4. Cardinality(Marks(audit, outcome)) \in Nat
  BY FS_CardinalityType
<1>5. /\ IsFiniteSet(Marks(audit, outcome) \cup {n + 1})
      /\ Cardinality(Marks(audit, outcome) \cup {n + 1}) = Cardinality(Marks(audit, outcome)) + 1
  BY <1>3, <1>4, FS_AddElement
<1>6. /\ Timeline!CountOf(audit, outcome) = Cardinality(Marks(audit, outcome))
      /\ Timeline!CountOf(longer, outcome) = Cardinality(Marks(longer, outcome))
  BY CountsMarks
<1>7. CASE entry.outcome = outcome
  BY <1>2, <1>4, <1>5, <1>6, <1>7
<1>8. CASE entry.outcome # outcome
  BY <1>2, <1>4, <1>6, <1>8
<1> QED  BY <1>7, <1>8

(* Every entry of an audit has one outcome, and the counts add up. *)
LEMMA CountsAddUp ==
  ASSUME NEW audit \in Seq(Entries)
  PROVE  LET c == Timeline!Summary(audit)
         IN  c.applied + c.unresolved + c.conflict = Len(audit)
<1> DEFINE Adds(a) == /\ \A outcome \in Outcomes :
                           IsFiniteSet(Marks(a, outcome)) /\ Timeline!CountOf(a, outcome) \in Nat
                      /\ Timeline!CountOf(a, "APPLIED") + Timeline!CountOf(a, "UNRESOLVED")
                           + Timeline!CountOf(a, "CONFLICT") = Len(a)
           S == {n \in Nat : \A a \in Seq(Entries) : Len(a) = n => Adds(a)}
<1>1. 0 \in S
  <2> SUFFICES ASSUME NEW a \in Seq(Entries), Len(a) = 0
               PROVE  Adds(a)
    OBVIOUS
  <2>1. \A outcome \in Outcomes : Marks(a, outcome) = {}
    BY DEF Marks
  <2>2. IsFiniteSet({}) /\ Cardinality({}) = 0
    BY FS_EmptySet
  <2>3. \A outcome \in Outcomes :
          IsFiniteSet(Marks(a, outcome)) /\ Timeline!CountOf(a, outcome) = 0
    BY <2>1, <2>2, CountsMarks
  <2>4. /\ Timeline!CountOf(a, "APPLIED") = 0
        /\ Timeline!CountOf(a, "UNRESOLVED") = 0
        /\ Timeline!CountOf(a, "CONFLICT") = 0
    BY <2>3 DEF Outcomes
  <2> QED  BY <2>3, <2>4
<1>2. ASSUME NEW n \in Nat, n \in S
      PROVE  n + 1 \in S
  <2> SUFFICES ASSUME NEW a \in Seq(Entries), Len(a) = n + 1
               PROVE  Adds(a)
    OBVIOUS
  <2>1. PICK b : b = SubSeq(a, 1, n)
    OBVIOUS
  <2>2. b \in Seq(Entries) /\ Len(b) = n /\ a[n + 1] \in Entries /\ a = Append(b, a[n + 1])
    BY <2>1
  <2>3. Adds(b)
    BY <1>2, <2>2
  <2> HIDE DEF Adds
  <2>4. \A outcome \in Outcomes :
          /\ IsFiniteSet(Marks(a, outcome))
          /\ Timeline!CountOf(b, outcome) \in Nat
          /\ Timeline!CountOf(a, outcome) =
               Timeline!CountOf(b, outcome) + (IF a[n + 1].outcome = outcome THEN 1 ELSE 0)
    <3> TAKE outcome \in Outcomes
    <3>1. IsFiniteSet(Marks(b, outcome))
      BY <2>3 DEF Adds
    <3> HIDE DEF Adds
    <3> QED  BY <2>2, <3>1, CountGrows
  <2>5. a[n + 1].outcome \in Outcomes
    BY <2>2 DEF Entries
  <2> QED  BY <2>2, <2>3, <2>4, <2>5 DEF Adds, Outcomes
<1> HIDE DEF S
<1>3. Nat \subseteq S
  BY <1>1, <1>2, SetInduction
<1>4. Len(audit) \in Nat
  OBVIOUS
<1>5. Adds(audit)
  BY <1>3, <1>4 DEF S
<1> QED  BY <1>5 DEF Timeline!Summary

(* The replay so far, told from the events and not from the run. *)
TimelineInv ==
  /\ initial \in Timeline!States
  /\ events \in Seq(Timeline!Events)
  /\ Timeline!ReplayIsRight
  /\ Timeline!AuditChains
  /\ Timeline!AuditIsStable

Told(run) ==
  /\ run.state = StateBy(initial, Timeline!Of("START"), Timeline!Of("FINISH"))
  /\ {i \in DOMAIN run.audit : run.audit[i].outcome = "APPLIED"} =
       AppliedBy(initial, Timeline!Of("START"), Timeline!Of("ADVANCE"), Timeline!Of("FINISH"))

LEMMA RightIsTold ==
  ASSUME initial \in Timeline!States, events \in Seq(Timeline!Events),
         NEW run, run = Timeline!Replay(initial, events)
  PROVE  Timeline!ReplayIsRight <=> Told(run)
<1>1. Timeline!Starts = StartsOf(initial, Timeline!Of("START"))
  BY DEF Timeline!Starts, StartsOf
<1>2. Timeline!Finishes = FinishesOf(initial, Timeline!Of("START"), Timeline!Of("FINISH"))
  BY <1>1 DEF Timeline!Finishes, FinishesOf
<1>3. Timeline!ExpectedState = StateBy(initial, Timeline!Of("START"), Timeline!Of("FINISH"))
  BY <1>1, <1>2 DEF Timeline!ExpectedState, Timeline!Closed, StateBy
<1>4. Timeline!ExpectedApplied =
        AppliedBy(initial, Timeline!Of("START"), Timeline!Of("ADVANCE"), Timeline!Of("FINISH"))
  BY <1>1, <1>2 DEF Timeline!ExpectedApplied, AppliedBy
<1>5. run.audit \in Seq(Entries)
  BY ReplayIsRun DEF RunOf
<1>6. LET c == Timeline!Summary(run.audit)
      IN  c.applied + c.unresolved + c.conflict = Len(run.audit)
  BY <1>5, CountsAddUp
<1> HIDE DEF Told
<1>7. Told(run) <=> /\ run.state = Timeline!ExpectedState
                    /\ {i \in DOMAIN run.audit : run.audit[i].outcome = "APPLIED"}
                         = Timeline!ExpectedApplied
  BY <1>3, <1>4 DEF Told
<1> QED  BY <1>6, <1>7 DEF Timeline!ReplayIsRight

LEMMA TimelineInitInv == Timeline!Init => TimelineInv
<1> SUFFICES ASSUME Timeline!Init PROVE TimelineInv
  OBVIOUS
<1>1. initial \in Timeline!States /\ events = <<>> /\ events \in Seq(Timeline!Events)
  BY DEF Timeline!Init
<1>2. Timeline!Replay(initial, events) = Timeline!Start(initial)
  BY <1>1, ReplayNothing
<1>3. PICK run : run = Timeline!Start(initial)
  OBVIOUS
<1>4. run.state = initial /\ run.audit = <<>>
  BY <1>3 DEF Timeline!Start
<1>5. \A kind : Timeline!Of(kind) = {}
  BY <1>1 DEF Timeline!Of
<1>6. /\ FinishesOf(initial, {}, {}) = {}
      /\ StartsOf(initial, {}) = IF initial = "NOT_STARTED" THEN {} ELSE {0}
  BY DEF FinishesOf, StartsOf
<1>7. /\ StateBy(initial, {}, {}) = initial
      /\ AppliedBy(initial, {}, {}, {}) = {}
  BY <1>1, <1>6 DEF StateBy, AppliedBy, Timeline!States
<1>8. Told(run)
  <2>1. {i \in DOMAIN run.audit : run.audit[i].outcome = "APPLIED"} = {}
    BY <1>4
  <2> QED  BY <1>4, <1>5, <1>7, <2>1 DEF Told
<1>9. Timeline!ReplayIsRight
  BY <1>1, <1>2, <1>3, <1>8, RightIsTold
<1>10. Timeline!AuditChains
  BY <1>1, <1>2, <1>3, <1>4 DEF Timeline!AuditChains
<1>11. Timeline!AuditIsStable
  BY <1>1 DEF Timeline!AuditIsStable
<1> QED  BY <1>1, <1>9, <1>10, <1>11 DEF TimelineInv

(* The first events of a longer sequence are those of the sequence. *)
LEMMA BeginsAlike ==
  ASSUME NEW T, NEW a \in Seq(T), NEW x \in T, NEW m \in 1..Len(a)
  PROVE  SubSeq(Append(a, x), 1, m) = SubSeq(a, 1, m)
<1>1. /\ Append(a, x) \in Seq(T) /\ Len(a) \in Nat /\ m \in Nat
      /\ \A i \in 1..m : Append(a, x)[i] = a[i]
  OBVIOUS
<1>2. /\ SubSeq(Append(a, x), 1, m) \in Seq(T) /\ Len(SubSeq(Append(a, x), 1, m)) = m
      /\ SubSeq(a, 1, m) \in Seq(T) /\ Len(SubSeq(a, 1, m)) = m
      /\ \A i \in 1..m : /\ SubSeq(Append(a, x), 1, m)[i] = Append(a, x)[i]
                         /\ SubSeq(a, 1, m)[i] = a[i]
  BY <1>1
<1> QED  BY <1>1, <1>2, SeqEqual

(* What a step of the timeline does to its replay. *)
OneMore(old, new, event, entry) ==
  /\ event \in Timeline!Events /\ initial' = initial /\ events' = Append(events, event)
  /\ old = Timeline!Replay(initial, events)
  /\ new = Timeline!Replay(initial', events')
  /\ RunOf(old, events) /\ RunOf(new, events')
  /\ entry \in Entries /\ entry = Timeline!ReplayOneEvent(event, old.state, old.seen)
  /\ new.audit = Append(old.audit, entry) /\ new.state = entry.after

LEMMA RecordReplays ==
  ASSUME TimelineInv, Timeline!Record
  PROVE  \E old, new, event, entry : OneMore(old, new, event, entry)
<1>1. PICK event \in Timeline!Events : events' = Append(events, event) /\ initial' = initial
  BY DEF Timeline!Record
<1>2. initial \in Timeline!States /\ events \in Seq(Timeline!Events)
  BY DEF TimelineInv
<1>3. PICK old : old = Timeline!Replay(initial, events)
  OBVIOUS
<1>4. PICK new : new = Timeline!Replay(initial', events')
  OBVIOUS
<1>5. RunOf(old, events) /\ new = Timeline!Step(old, event)
  BY <1>1, <1>2, <1>3, <1>4, ReplayIsRun, ReplayAppend
<1>6. PICK entry \in Entries :
        /\ RunOf(new, events')
        /\ entry = Timeline!ReplayOneEvent(event, old.state, old.seen)
        /\ new.audit = Append(old.audit, entry) /\ new.state = entry.after
  BY <1>1, <1>2, <1>5, StepRuns
<1>7. OneMore(old, new, event, entry)
  BY <1>1, <1>3, <1>4, <1>5, <1>6 DEF OneMore
<1> QED  BY <1>7

LEMMA RecordIsRight ==
  ASSUME TimelineInv, NEW old, NEW new, NEW event, NEW entry, OneMore(old, new, event, entry)
  PROVE  Timeline!ReplayIsRight'
<1> DEFINE n == Len(events)
           S == Timeline!Of("START")
           A == Timeline!Of("ADVANCE")
           F == Timeline!Of("FINISH")
           kept == old.state
           fresh == event.known /\ event.id \notin {events[i].id : i \in 1..n}
           applied == {i \in DOMAIN old.audit : old.audit[i].outcome = "APPLIED"}
           next == Timeline!NextState(kept, event.text)
<1>1. /\ initial \in Timeline!States /\ events \in Seq(Timeline!Events) /\ n \in Nat
      /\ event \in Timeline!Events /\ events' = Append(events, event) /\ initial' = initial
      /\ old = Timeline!Replay(initial, events) /\ kept \in Timeline!States
      /\ old.audit \in Seq(Entries) /\ Len(old.audit) = n
      /\ old.seen = {events[i].id : i \in 1..n}
      /\ entry \in Entries /\ entry = Timeline!ReplayOneEvent(event, kept, old.seen)
      /\ new.audit = Append(old.audit, entry) /\ new.state = entry.after
      /\ new = Timeline!Replay(initial', events')
  BY DEF TimelineInv, OneMore, RunOf
<1>2. Told(old)
  BY <1>1, RightIsTold DEF TimelineInv
<1>3. kept = StateBy(initial, S, F) /\ applied = AppliedBy(initial, S, A, F)
  BY <1>2 DEF Told
<1>4. /\ entry.outcome = "APPLIED" <=> fresh /\ next # "NONE"
      /\ entry.after = IF fresh /\ next # "NONE" THEN next ELSE kept
  BY <1>1, EntryOf DEF Applies
<1>5. {i \in DOMAIN new.audit : new.audit[i].outcome = "APPLIED"} =
        applied \cup (IF fresh /\ next # "NONE" THEN {n + 1} ELSE {})
  <2>1. /\ DOMAIN old.audit = 1..n /\ DOMAIN new.audit = (1..n) \cup {n + 1}
        /\ new.audit[n + 1] = entry
        /\ \A i \in 1..n : new.audit[i] = old.audit[i]
    BY <1>1
  <2> HIDE DEF n, fresh, next
  <2> QED  BY <1>4, <2>1
<1>6. /\ S \in SUBSET (1..n) /\ A \in SUBSET (1..n) /\ F \in SUBSET (1..n)
      /\ Timeline!Of("START")' = IF fresh /\ event.text = "START" THEN S \cup {n + 1} ELSE S
      /\ Timeline!Of("ADVANCE")' = IF fresh /\ event.text = "ADVANCE" THEN A \cup {n + 1} ELSE A
      /\ Timeline!Of("FINISH")' = IF fresh /\ event.text = "FINISH" THEN F \cup {n + 1} ELSE F
  BY <1>1, MoreOfAKind
<1>7. fresh => event.text \in {"START", "ADVANCE", "FINISH"}
  BY <1>1 DEF Timeline!Events, Timeline!EventKinds
<1>8. PICK S1, A1, F1 : /\ S1 = Timeline!Of("START")' /\ A1 = Timeline!Of("ADVANCE")'
                        /\ F1 = Timeline!Of("FINISH")'
  OBVIOUS
<1>sets. /\ initial \in Timeline!States /\ n \in Nat /\ S \in SUBSET (1..n)
      /\ A \in SUBSET (1..n) /\ F \in SUBSET (1..n)
  BY <1>1, <1>6
<1> HIDE DEF n, S, A, F, kept, fresh, applied, next
<1>9. /\ new.state = StateBy(initial, S1, F1)
      /\ {i \in DOMAIN new.audit : new.audit[i].outcome = "APPLIED"} =
           AppliedBy(initial, S1, A1, F1)
  <2>1. /\ next = "NONE" \/ next \in Timeline!States
        /\ event.text = "START" =>
             next = IF kept = "NOT_STARTED" THEN "ACTIVE" ELSE "NONE"
        /\ event.text = "ADVANCE" => next = IF kept = "ACTIVE" THEN "ACTIVE" ELSE "NONE"
        /\ event.text = "FINISH" => next = IF kept = "ACTIVE" THEN "FINISHED" ELSE "NONE"
        /\ "NONE" \notin Timeline!States
    BY <1>1 DEF next, kept, Timeline!NextState, Timeline!States
  <2>2. CASE ~fresh
    <3>1. S1 = S /\ A1 = A /\ F1 = F
      BY <1>6, <1>8, <2>2
    <3> QED  BY <1>1, <1>3, <1>4, <1>5, <2>2, <3>1
  <2>3. CASE fresh /\ event.text = "START"
    <3>1. S1 = S \cup {n + 1} /\ A1 = A /\ F1 = F
      BY <1>6, <1>8, <2>3
    <3>2. /\ StateBy(initial, S1, F) = IF kept = "NOT_STARTED" THEN "ACTIVE" ELSE kept
          /\ AppliedBy(initial, S1, A, F) =
               AppliedBy(initial, S, A, F) \cup (IF kept = "NOT_STARTED" THEN {n + 1} ELSE {})
      BY <1>sets, <1>3, <3>1, OneMoreStart
    <3> QED  BY <1>1, <1>3, <1>4, <1>5, <2>1, <2>3, <3>1, <3>2
  <2>4. CASE fresh /\ event.text = "ADVANCE"
    <3>1. S1 = S /\ A1 = A \cup {n + 1} /\ F1 = F
      BY <1>6, <1>8, <2>4
    <3>2. AppliedBy(initial, S, A1, F) =
            AppliedBy(initial, S, A, F) \cup (IF kept = "ACTIVE" THEN {n + 1} ELSE {})
      BY <1>sets, <1>3, <3>1, OneMoreAdvance
    <3> QED  BY <1>1, <1>3, <1>4, <1>5, <2>1, <2>4, <3>1, <3>2
  <2>5. CASE fresh /\ event.text = "FINISH"
    <3>1. S1 = S /\ A1 = A /\ F1 = F \cup {n + 1}
      BY <1>6, <1>8, <2>5
    <3>2. /\ StateBy(initial, S, F1) = IF kept = "ACTIVE" THEN "FINISHED" ELSE kept
          /\ AppliedBy(initial, S, A, F1) =
               AppliedBy(initial, S, A, F) \cup (IF kept = "ACTIVE" THEN {n + 1} ELSE {})
      BY <1>sets, <1>3, <3>1, OneMoreFinish
    <3> QED  BY <1>1, <1>3, <1>4, <1>5, <2>1, <2>5, <3>1, <3>2
  <2> QED  BY <1>7, <2>2, <2>3, <2>4, <2>5
<1>10. Timeline!Starts' = StartsOf(initial, S1)
  BY <1>1, <1>8 DEF Timeline!Starts, StartsOf
<1>11. Timeline!Finishes' = FinishesOf(initial, S1, F1)
  BY <1>8, <1>10 DEF Timeline!Finishes, FinishesOf
<1>12. Timeline!ExpectedState' = StateBy(initial, S1, F1)
  BY <1>1, <1>10, <1>11 DEF Timeline!ExpectedState, Timeline!Closed, StateBy
<1>13. Timeline!ExpectedApplied' = AppliedBy(initial, S1, A1, F1)
  BY <1>1, <1>8, <1>10, <1>11 DEF Timeline!ExpectedApplied, AppliedBy
<1>14. new.audit \in Seq(Entries)
  BY <1>1
<1>15. LET c == Timeline!Summary(new.audit)
       IN  c.applied + c.unresolved + c.conflict = Len(new.audit)
  BY <1>14, CountsAddUp
<1> QED  BY <1>1, <1>9, <1>12, <1>13, <1>15 DEF Timeline!ReplayIsRight

LEMMA RecordChains ==
  ASSUME TimelineInv, NEW old, NEW new, NEW event, NEW entry, OneMore(old, new, event, entry)
  PROVE  Timeline!AuditChains'
<1> DEFINE n == Len(events)
<1>1. /\ events \in Seq(Timeline!Events) /\ n \in Nat
      /\ event \in Timeline!Events /\ events' = Append(events, event) /\ initial' = initial
      /\ old.audit \in Seq(Entries) /\ Len(old.audit) = n
      /\ old = Timeline!Replay(initial, events) /\ new = Timeline!Replay(initial', events')
      /\ entry \in Entries /\ entry.before = old.state
      /\ new.audit = Append(old.audit, entry) /\ new.state = entry.after
  BY EntryOf DEF TimelineInv, OneMore, RunOf
<1>2. /\ \A i \in DOMAIN old.audit :
           old.audit[i].before = IF i = 1 THEN initial ELSE old.audit[i - 1].after
      /\ old.state = IF old.audit = <<>> THEN initial ELSE old.audit[n].after
  BY <1>1 DEF TimelineInv, Timeline!AuditChains, Timeline!Last
<1>3. /\ DOMAIN old.audit = 1..n /\ DOMAIN new.audit = 1..(n + 1) /\ Len(new.audit) = n + 1
      /\ new.audit[n + 1] = entry /\ new.audit # <<>>
      /\ \A i \in 1..n : new.audit[i] = old.audit[i]
  BY <1>1
<1>4. [i \in DOMAIN new.audit |-> new.audit[i].event] = events'
  <2>1. /\ events' \in Seq(Timeline!Events) /\ Len(events') = n + 1
        /\ \A i \in 1..(n + 1) : new.audit[i].event = events'[i]
    BY <1>1 DEF OneMore, RunOf
  <2>2. DOMAIN events' = 1..(n + 1) /\ events' = [i \in 1..(n + 1) |-> events'[i]]
    BY <2>1
  <2> HIDE DEF n
  <2> QED  BY <1>3, <2>1, <2>2
<1>5. n = 0 <=> old.audit = <<>>
  BY <1>1
<1>6. \A i \in DOMAIN new.audit :
        new.audit[i].before = IF i = 1 THEN initial ELSE new.audit[i - 1].after
  <2> TAKE i \in DOMAIN new.audit
  <2> HIDE DEF n
  <2>1. CASE i = n + 1
    <3>1. CASE n = 0
      BY <1>1, <1>2, <1>3, <1>5, <2>1, <3>1
    <3>2. CASE n # 0
      <4>1. i # 1 /\ i - 1 = n /\ n \in 1..n
        BY <1>1, <2>1, <3>2
      <4> QED  BY <1>1, <1>2, <1>3, <1>5, <2>1, <3>2, <4>1
    <3> QED  BY <3>1, <3>2
  <2>2. CASE i \in 1..n
    <3>1. new.audit[i] = old.audit[i] /\ (i # 1 => new.audit[i - 1] = old.audit[i - 1])
      BY <1>1, <1>3, <2>2
    <3> QED  BY <1>2, <1>3, <2>2, <3>1
  <2> QED  BY <1>1, <1>3, <2>1, <2>2
<1>7. new.state = IF new.audit = <<>> THEN initial ELSE new.audit[Len(new.audit)].after
  BY <1>1, <1>3
<1> QED  BY <1>1, <1>4, <1>6, <1>7 DEF Timeline!AuditChains, Timeline!Last

LEMMA RecordIsStable ==
  ASSUME TimelineInv, NEW old, NEW new, NEW event, NEW entry, OneMore(old, new, event, entry)
  PROVE  Timeline!AuditIsStable'
<1> DEFINE n == Len(events)
<1>1. /\ events \in Seq(Timeline!Events) /\ n \in Nat
      /\ event \in Timeline!Events /\ events' = Append(events, event) /\ initial' = initial
      /\ old.audit \in Seq(Entries) /\ Len(old.audit) = n
      /\ old = Timeline!Replay(initial, events) /\ new = Timeline!Replay(initial', events')
      /\ entry \in Entries /\ new.audit = Append(old.audit, entry)
  BY DEF TimelineInv, OneMore, RunOf
<1>2. ASSUME NEW m \in DOMAIN events'
      PROVE  Timeline!Replay(initial', SubSeq(events', 1, m)).audit = SubSeq(new.audit, 1, m)
  <2>1. CASE m \in 1..n
    <3>1. SubSeq(events', 1, m) = SubSeq(events, 1, m)
      BY <1>1, <2>1, BeginsAlike
    <3>2. SubSeq(new.audit, 1, m) = SubSeq(old.audit, 1, m)
      BY <1>1, <2>1, BeginsAlike
    <3>3. m \in DOMAIN events
      BY <1>1, <2>1
    <3>4. Timeline!Replay(initial, SubSeq(events, 1, m)).audit = SubSeq(old.audit, 1, m)
      BY <1>1, <3>3 DEF TimelineInv, Timeline!AuditIsStable
    <3> QED  BY <1>1, <3>1, <3>2, <3>4
  <2>2. CASE m = n + 1
    <3>1. /\ events' \in Seq(Timeline!Events) /\ Len(events') = n + 1
          /\ new.audit \in Seq(Entries) /\ Len(new.audit) = n + 1
      BY <1>1
    <3>2. SubSeq(events', 1, m) = events' /\ SubSeq(new.audit, 1, m) = new.audit
      BY <2>2, <3>1, SubSeqFull
    <3> QED  BY <1>1, <3>2
  <2>3. DOMAIN events' = 1..(n + 1)
    BY <1>1
  <2> HIDE DEF n
  <2> QED  BY <1>1, <2>1, <2>2, <2>3
<1> QED  BY <1>1, <1>2 DEF Timeline!AuditIsStable

LEMMA TimelineStep ==
  ASSUME TimelineInv, [Timeline!Next]_(Timeline!vars)
  PROVE  TimelineInv'
<1>1. CASE UNCHANGED Timeline!vars
  <2>1. initial' = initial /\ events' = events
    BY <1>1 DEF Timeline!vars
  <2>2. \A i : Timeline!Counts(i)' <=> Timeline!Counts(i)
    BY <2>1 DEF Timeline!Counts
  <2>3. \A kind : Timeline!Of(kind)' = Timeline!Of(kind)
    BY <2>1, <2>2 DEF Timeline!Of
  <2>4. Timeline!Starts' = Timeline!Starts
    BY <2>1, <2>3 DEF Timeline!Starts
  <2>5. Timeline!Finishes' = Timeline!Finishes
    BY <2>3, <2>4 DEF Timeline!Finishes
  <2>6. Timeline!ExpectedState' = Timeline!ExpectedState
    BY <2>1, <2>4, <2>5 DEF Timeline!ExpectedState, Timeline!Closed
  <2>7. Timeline!ExpectedApplied' = Timeline!ExpectedApplied
    BY <2>1, <2>3, <2>4, <2>5 DEF Timeline!ExpectedApplied
  <2>8. PICK run : run = Timeline!Replay(initial, events)
    OBVIOUS
  <2>9. run = Timeline!Replay(initial', events')
    BY <2>1, <2>8
  <2>10. Timeline!ReplayIsRight'
    BY <2>6, <2>7, <2>8, <2>9 DEF TimelineInv, Timeline!ReplayIsRight
  <2>11. Timeline!AuditChains'
    BY <2>1, <2>8, <2>9 DEF TimelineInv, Timeline!AuditChains
  <2>12. Timeline!AuditIsStable'
    BY <2>1, <2>8, <2>9 DEF TimelineInv, Timeline!AuditIsStable
  <2> QED  BY <2>1, <2>10, <2>11, <2>12 DEF TimelineInv
<1>2. CASE Timeline!Record
  <2>1. PICK old, new, event, entry : OneMore(old, new, event, entry)
    BY <1>2, RecordReplays
  <2>2. Timeline!ReplayIsRight' /\ Timeline!AuditChains' /\ Timeline!AuditIsStable'
    BY <2>1, RecordIsRight, RecordChains, RecordIsStable
  <2>3. initial' \in Timeline!States /\ events' \in Seq(Timeline!Events)
    BY <2>1 DEF OneMore, TimelineInv
  <2> QED  BY <2>2, <2>3 DEF TimelineInv
<1> QED  BY <1>1, <1>2 DEF Timeline!Next

LEMMA SameFields ==
  ASSUME NEW I, NEW K, NEW X, NEW only, K = {only},
         NEW d \in [id : I, known : K, text : X], NEW e \in [id : I, known : K, text : X],
         d.id = e.id, d.text = e.text
  PROVE  d = e
<1>1. d.known = only /\ e.known = only
  OBVIOUS
<1> QED  BY <1>1

(* A row says all of an entry but whether the event was known, which the     *)
(* text says where unknown codes are spelled differently.                    *)
LEMMA RowsIdentify ==
  ASSUME Codes \cap Timeline!EventKinds = {}, NEW a \in Entries, NEW b \in Entries,
         Timeline!Row(a) = Timeline!Row(b)
  PROVE  a = b
<1>1. /\ a.event.id = b.event.id /\ a.event.text = b.event.text /\ a.before = b.before
      /\ a.after = b.after /\ a.outcome = b.outcome /\ a.reason = b.reason
  BY DEF Timeline!Row
<1>2. a.event \in Timeline!Events /\ b.event \in Timeline!Events
  BY DEF Entries
<1>3. a.event = b.event
  <2> DEFINE Known == [id : EventIds, known : {TRUE}, text : Timeline!EventKinds]
             Unknown == [id : EventIds, known : {FALSE}, text : Codes]
  <2>1. Timeline!Events = Known \cup Unknown
    BY DEF Timeline!Events
  <2>2. \A e \in Known : e.text \in Timeline!EventKinds
    OBVIOUS
  <2>3. \A e \in Unknown : e.text \in Codes
    OBVIOUS
  <2>4. ASSUME NEW d \in Known, NEW e \in Known, d.id = e.id, d.text = e.text
        PROVE  d = e
    BY <2>4, SameFields
  <2>5. ASSUME NEW d \in Unknown, NEW e \in Unknown, d.id = e.id, d.text = e.text
        PROVE  d = e
    BY <2>5, SameFields
  <2> HIDE DEF Known, Unknown
  <2> QED  BY <1>1, <1>2, <2>1, <2>2, <2>3, <2>4, <2>5
<1> QED  BY <1>1, <1>3 DEF Entries

LEMMA PlacesOfConcat ==
  ASSUME NEW T, NEW a \in Seq(T), NEW b \in Seq(T), NEW i \in 1..Len(b), NEW k,
         k = i + Len(a)
  PROVE  (a \o b)[k] = b[i]
<1>1. i \in Nat /\ i >= 1 /\ i <= Len(b) /\ Len(b) \in Nat
  OBVIOUS
<1>2. k \in 1..(Len(a) + Len(b)) /\ k > Len(a) /\ k - Len(a) = i
  BY <1>1
<1> QED  BY <1>1, <1>2, ConcatProperties

LEMMA FingerprintsIdentify ==
  ASSUME Codes \cap Timeline!EventKinds = {}, NEW s \in Timeline!States,
         NEW a \in Seq(Timeline!Events), NEW b \in Seq(Timeline!Events), Len(a) = Len(b),
         Timeline!Fingerprint(s, a) = Timeline!Fingerprint(s, b)
  PROVE  Timeline!Replay(s, a).audit = Timeline!Replay(s, b).audit
<1>1. PICK ra, rb : ra = Timeline!Replay(s, a) /\ rb = Timeline!Replay(s, b)
  OBVIOUS
<1>2. /\ ra.audit \in Seq(Entries) /\ Len(ra.audit) = Len(a)
      /\ rb.audit \in Seq(Entries) /\ Len(rb.audit) = Len(a)
  BY <1>1, ReplayIsRun DEF RunOf
<1> DEFINE n == Len(a)
           rowsA == [i \in DOMAIN ra.audit |-> Timeline!Row(ra.audit[i])]
           rowsB == [i \in DOMAIN rb.audit |-> Timeline!Row(rb.audit[i])]
           T == {Timeline!Row(e) : e \in Entries}
           headA == <<s, ra.state>>
           headB == <<s, rb.state>>
<1>3. /\ n \in Nat /\ DOMAIN ra.audit = 1..n /\ DOMAIN rb.audit = 1..n
      /\ \A i \in 1..n : ra.audit[i] \in Entries /\ rb.audit[i] \in Entries
  BY <1>2
<1>4. /\ rowsA \in Seq(T) /\ Len(rowsA) = n
      /\ rowsB \in Seq(T) /\ Len(rowsB) = n
      /\ \A i \in 1..n : rowsA[i] = Timeline!Row(ra.audit[i]) /\ rowsB[i] = Timeline!Row(rb.audit[i])
  <2> HIDE DEF n
  <2>1. /\ rowsA \in [1..n -> T] /\ rowsB \in [1..n -> T]
        /\ \A i \in 1..n :
             rowsA[i] = Timeline!Row(ra.audit[i]) /\ rowsB[i] = Timeline!Row(rb.audit[i])
    BY <1>3
  <2> HIDE DEF rowsA, rowsB, T
  <2> QED  BY <1>3, <2>1
<1>5. headA \o rowsA = headB \o rowsB
  BY <1>1 DEF Timeline!Fingerprint
<1>6. /\ headA \in Seq(Timeline!States \cup {ra.state, rb.state}) /\ Len(headA) = 2
      /\ headB \in Seq(Timeline!States \cup {ra.state, rb.state}) /\ Len(headB) = 2
  OBVIOUS
<1> HIDE DEF rowsA, rowsB, headA, headB, T, n
<1>7. \A i \in 1..n : (headA \o rowsA)[i + 2] = rowsA[i] /\ (headB \o rowsB)[i + 2] = rowsB[i]
  <2> DEFINE Any == T \cup (Timeline!States \cup {ra.state, rb.state})
  <2>1. /\ headA \in Seq(Any) /\ rowsA \in Seq(Any)
        /\ headB \in Seq(Any) /\ rowsB \in Seq(Any)
    BY <1>4, <1>6
  <2> HIDE DEF Any
  <2> TAKE i \in 1..n
  <2>2. PICK k : k = i + 2
    OBVIOUS
  <2>3. /\ i \in 1..Len(rowsA) /\ k = i + Len(headA)
        /\ i \in 1..Len(rowsB) /\ k = i + Len(headB)
    BY <1>4, <1>6, <2>2
  <2>4. (headA \o rowsA)[k] = rowsA[i]
    BY <2>1, <2>3, PlacesOfConcat
  <2>5. (headB \o rowsB)[k] = rowsB[i]
    BY <2>1, <2>3, PlacesOfConcat
  <2> QED  BY <2>2, <2>4, <2>5
<1>8. \A i \in 1..n : ra.audit[i] = rb.audit[i]
  <2> TAKE i \in 1..n
  <2>1. rowsA[i] = rowsB[i]
    BY <1>5, <1>7
  <2>2. Timeline!Row(ra.audit[i]) = Timeline!Row(rb.audit[i])
    BY <1>4, <2>1
  <2>3. ra.audit[i] \in Entries /\ rb.audit[i] \in Entries
    BY <1>3
  <2> QED  BY <2>2, <2>3, RowsIdentify
<1>9. ra.audit = rb.audit
  BY <1>2, <1>3, <1>8, SeqEqual DEF n
<1> QED  BY <1>1, <1>9

(* AuditExplains for any ids, any unknown codes that are not spelled like a *)
(* known kind, and timelines of any length: what replay_timeline computes    *)
(* by running over the events is what the first event of each id says.      *)
THEOREM AuditAlwaysExplains ==
  ASSUME Codes \cap Timeline!EventKinds = {}
  PROVE  Timeline!Spec => []AuditExplains
<1>1. TimelineInv => AuditExplains
  <2> SUFFICES ASSUME TimelineInv PROVE AuditExplains
    OBVIOUS
  <2>1. ASSUME NEW i \in DOMAIN events, NEW event \in Timeline!Events, NEW other,
               other = [events EXCEPT ![i] = event],
               Timeline!Fingerprint(initial, events) = Timeline!Fingerprint(initial, other)
        PROVE  Timeline!Replay(initial, events).audit = Timeline!Replay(initial, other).audit
    <3>1. events \in Seq(Timeline!Events) /\ initial \in Timeline!States
      BY DEF TimelineInv
    <3>2. other \in Seq(Timeline!Events) /\ Len(other) = Len(events)
      BY <2>1, <3>1
    <3> QED  BY <2>1, <3>1, <3>2, FingerprintsIdentify
  <2>2. Timeline!FingerprintIdentifiesAudit
    BY <2>1 DEF Timeline!FingerprintIdentifiesAudit
  <2> QED  BY <2>2 DEF TimelineInv, AuditExplains, Timeline!AuditExplains
<1> QED  BY <1>1, TimelineInitInv, TimelineStep, PTL DEF Timeline!Spec

-----------------------------------------------------------------------------
(* Side by side, each record behaves as it does alone, so all of them stay  *)
(* consistent.  The timeline starts in any state; the others do not move    *)
(* with it.                                                                 *)
THEOREM RecordsStayConsistent ==
  ASSUME Codes \cap Timeline!EventKinds = {}
  PROVE  MCSpec => /\ []CountsAreSound /\ []AuditExplains
                   /\ ContextIsControlled /\ InvalidationHolds
<1>1. MCInit => Init /\ Timeline!Init /\ Shared!Init /\ Cited!Init
  BY DEF MCInit
<1>2. [MCNext]_<<moving, vars, timelineVars, sharedVars, citationVars>> =>
        /\ [Next]_vars /\ [Timeline!Next]_(Timeline!vars)
        /\ [Shared!Next]_(Shared!vars) /\ [Cited!Next]_(Cited!vars)
  BY DEF MCNext, timelineVars, sharedVars, citationVars, Timeline!vars, Shared!vars, Cited!vars
<1>3. MCSpec => Spec /\ Timeline!Spec /\ Shared!Spec /\ Cited!Spec
  BY <1>1, <1>2, PTL DEF MCSpec, Spec, Timeline!Spec, Shared!Spec, Cited!Spec
<1>4. Timeline!Spec => []AuditExplains
  BY AuditAlwaysExplains
<1> QED  BY <1>3, <1>4, CountsStaySound, ContextStaysControlled, NoOldCopyTakesItBack

=============================================================================
