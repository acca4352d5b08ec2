---------------------- MODULE GuardedIntegrationProofs ----------------------
(* Theorems about GuardedIntegration, for any threads, returns and plans. *)
EXTENDS GuardedIntegration, TLAPS

-----------------------------------------------------------------------------
(* What the location of a call says about its local variables. *)
CallInv ==
  \A t \in Threads :
    /\ event[t] # NoReturn => t \in Returners /\ pc[t] # "idle"
    /\ pc[t] \in {"duplicate", "pending", "admit", "revision", "clean", "acquire",
                  "integrate", "publish", "open", "release"} => event[t] # NoReturn
    /\ pc[t] \in {"publish", "open", "request", "accepted", "refused", "scan", "wake"}
         => audit[t] # NoAudit
    /\ pc[t] = "release" /\ decision[t] = "integration_completed" => audit[t] # NoAudit

(* A handle_return call that runs the port or the delivery owns the lock. *)
LockInv == \A t \in Threads : HoldsLock(t) => lock = t

(* No step takes an attribute, local or observation out of its type. *)
LEMMA TypeStep ==
  ASSUME TypeOK, CallInv, [Next]_vars
  PROVE  TypeOK'
<1> USE DEF TypeOK, Locations, Decisions, DeliveryStates,
            Goto, Proceed, Finish, Announce, EndDelivery,
            coordinator, ports, locals, history
<1>1. ASSUME NEW t \in Threads, RejectReturn(t) PROVE TypeOK'
  BY <1>1 DEF RejectReturn
<1>2. ASSUME NEW t \in Threads, NEW e \in Returns, HandleReturn(t, e)
      PROVE  TypeOK'
  BY <1>2 DEF HandleReturn
<1>3. ASSUME NEW t \in Threads, RetryPendingAudit(t) PROVE TypeOK'
  BY <1>3 DEF RetryPendingAudit
<1>4. ASSUME NEW t \in Threads, NEW c \in Correlations, AuditRefused(t, c)
      PROVE  TypeOK'
  BY <1>4 DEF AuditRefused
<1>5. ASSUME NEW t \in Threads, NEW c \in Correlations,
             NEW approved \in BOOLEAN, HandleAudit(t, c, approved)
      PROVE  TypeOK'
  BY <1>5 DEF HandleAudit, Decide
<1>6. ASSUME NEW t \in Threads, CheckDuplicate(t) PROVE TypeOK'
  BY <1>6 DEF CheckDuplicate
<1>7. ASSUME NEW t \in Threads, CheckPending(t) PROVE TypeOK'
  BY <1>7 DEF CheckPending
<1>8. ASSUME NEW t \in Threads, Admit(t) PROVE TypeOK'
  BY <1>8 DEF Admit, CallInv, Correlations, EventIds
<1>9. ASSUME NEW t \in Threads, CheckRevision(t) PROVE TypeOK'
  BY <1>9 DEF CheckRevision
<1>10. ASSUME NEW t \in Threads, CheckClean(t) PROVE TypeOK'
  BY <1>10 DEF CheckClean
<1>11. ASSUME NEW t \in Threads, TryAcquire(t) PROVE TypeOK'
  BY <1>11 DEF TryAcquire
<1>12. ASSUME NEW t \in Threads, IntegrationCompletes(t) PROVE TypeOK'
  BY <1>12 DEF IntegrationCompletes, CallInv, Correlations, Tickets, Audits,
               Revisions
<1>13. ASSUME NEW t \in Threads, IntegrationFails(t) PROVE TypeOK'
  BY <1>13 DEF IntegrationFails, CallInv, Correlations, Revisions
<1>14. ASSUME NEW t \in Threads, PublishMain(t) PROVE TypeOK'
  BY <1>14 DEF PublishMain, CallInv, Audits
<1>15. ASSUME NEW t \in Threads, OpenAudit(t) PROVE TypeOK'
  BY <1>15 DEF OpenAudit, CallInv
<1>16. ASSUME NEW t \in Threads, AdmitDelivery(t) PROVE TypeOK'
  BY <1>16 DEF AdmitDelivery, CallInv
<1>17. ASSUME NEW t \in Threads, RequestAudit(t) PROVE TypeOK'
  BY <1>17 DEF RequestAudit, CallInv, Audits
<1>18. ASSUME NEW t \in Threads, RequestAuditRaises(t) PROVE TypeOK'
  BY <1>18 DEF RequestAuditRaises
<1>19. ASSUME NEW t \in Threads, MarkRetryable(t) PROVE TypeOK'
  BY <1>19 DEF MarkRetryable
<1>20. ASSUME NEW t \in Threads, MarkDelivered(t) PROVE TypeOK'
  BY <1>20 DEF MarkDelivered
<1>21. ASSUME NEW t \in Threads, ScanProposals(t) PROVE TypeOK'
  BY <1>21 DEF ScanProposals
<1>22. ASSUME NEW t \in Threads, WakeDependents(t) PROVE TypeOK'
  BY <1>22 DEF WakeDependents, CallInv, Audits
<1>23. ASSUME NEW t \in Threads, ReleaseLock(t) PROVE TypeOK'
  BY <1>23 DEF ReleaseLock, CallInv, Audits
<1>24. CASE UNCHANGED vars
  BY <1>24 DEF vars
<1>25. QED
  BY <1>1, <1>2, <1>3, <1>4, <1>5, <1>6, <1>7, <1>8, <1>9, <1>10, <1>11, <1>12,
     <1>13, <1>14, <1>15, <1>16, <1>17, <1>18, <1>19, <1>20, <1>21, <1>22, <1>23, <1>24
     DEF Next, Call, Continue

(* A call keeps the local variables its location needs. *)
LEMMA CallStep ==
  ASSUME TypeOK, CallInv, [Next]_vars
  PROVE  CallInv'
<1> USE DEF TypeOK, Goto, Proceed, Finish, EndDelivery,
            coordinator, ports, locals, CallInv
<1>1. ASSUME NEW t \in Threads, RejectReturn(t) PROVE CallInv'
  BY SentinelsAssumption, <1>1 DEF RejectReturn
<1>2. ASSUME NEW t \in Threads, NEW e \in Returns, HandleReturn(t, e)
      PROVE  CallInv'
  BY SentinelsAssumption, <1>2 DEF HandleReturn
<1>3. ASSUME NEW t \in Threads, RetryPendingAudit(t) PROVE CallInv'
  BY SentinelsAssumption, <1>3 DEF RetryPendingAudit
<1>4. ASSUME NEW t \in Threads, NEW c \in Correlations, AuditRefused(t, c)
      PROVE  CallInv'
  BY SentinelsAssumption, <1>4 DEF AuditRefused
<1>5. ASSUME NEW t \in Threads, NEW c \in Correlations,
             NEW approved \in BOOLEAN, HandleAudit(t, c, approved)
      PROVE  CallInv'
  BY SentinelsAssumption, <1>5 DEF HandleAudit, Decide
<1>6. ASSUME NEW t \in Threads, CheckDuplicate(t) PROVE CallInv'
  BY SentinelsAssumption, <1>6 DEF CheckDuplicate
<1>7. ASSUME NEW t \in Threads, CheckPending(t) PROVE CallInv'
  BY SentinelsAssumption, <1>7 DEF CheckPending
<1>8. ASSUME NEW t \in Threads, Admit(t) PROVE CallInv'
  BY SentinelsAssumption, <1>8 DEF Admit
<1>9. ASSUME NEW t \in Threads, CheckRevision(t) PROVE CallInv'
  BY SentinelsAssumption, <1>9 DEF CheckRevision
<1>10. ASSUME NEW t \in Threads, CheckClean(t) PROVE CallInv'
  BY SentinelsAssumption, <1>10 DEF CheckClean
<1>11. ASSUME NEW t \in Threads, TryAcquire(t) PROVE CallInv'
  BY SentinelsAssumption, <1>11 DEF TryAcquire
<1>12. ASSUME NEW t \in Threads, IntegrationCompletes(t) PROVE CallInv'
  BY SentinelsAssumption, <1>12 DEF IntegrationCompletes, Audits, Correlations, Tickets, Revisions
<1>13. ASSUME NEW t \in Threads, IntegrationFails(t) PROVE CallInv'
  BY SentinelsAssumption, <1>13 DEF IntegrationFails
<1>14. ASSUME NEW t \in Threads, PublishMain(t) PROVE CallInv'
  BY SentinelsAssumption, <1>14 DEF PublishMain
<1>15. ASSUME NEW t \in Threads, OpenAudit(t) PROVE CallInv'
  BY SentinelsAssumption, <1>15 DEF OpenAudit
<1>16. ASSUME NEW t \in Threads, AdmitDelivery(t) PROVE CallInv'
  BY SentinelsAssumption, <1>16 DEF AdmitDelivery
<1>17. ASSUME NEW t \in Threads, RequestAudit(t) PROVE CallInv'
  BY SentinelsAssumption, <1>17 DEF RequestAudit
<1>18. ASSUME NEW t \in Threads, RequestAuditRaises(t) PROVE CallInv'
  BY SentinelsAssumption, <1>18 DEF RequestAuditRaises
<1>19. ASSUME NEW t \in Threads, MarkRetryable(t) PROVE CallInv'
  BY SentinelsAssumption, <1>19 DEF MarkRetryable
<1>20. ASSUME NEW t \in Threads, MarkDelivered(t) PROVE CallInv'
  BY SentinelsAssumption, <1>20 DEF MarkDelivered
<1>21. ASSUME NEW t \in Threads, ScanProposals(t) PROVE CallInv'
  BY SentinelsAssumption, <1>21 DEF ScanProposals
<1>22. ASSUME NEW t \in Threads, WakeDependents(t) PROVE CallInv'
  BY SentinelsAssumption, <1>22 DEF WakeDependents
<1>23. ASSUME NEW t \in Threads, ReleaseLock(t) PROVE CallInv'
  BY SentinelsAssumption, <1>23 DEF ReleaseLock
<1>24. CASE UNCHANGED vars
  BY SentinelsAssumption, <1>24 DEF vars
<1>25. QED
  BY <1>1, <1>2, <1>3, <1>4, <1>5, <1>6, <1>7, <1>8, <1>9, <1>10, <1>11, <1>12,
     <1>13, <1>14, <1>15, <1>16, <1>17, <1>18, <1>19, <1>20, <1>21, <1>22, <1>23, <1>24
     DEF Next, Call, Continue

(* The lock passes from one handle_return call to the next. *)
LEMMA LockStep ==
  ASSUME TypeOK, CallInv, LockInv, [Next]_vars
  PROVE  LockInv'
<1> USE DEF TypeOK, Goto, Proceed, Finish, EndDelivery,
            coordinator, ports, locals,
            CallInv, LockInv, HoldsLock
<1>1. ASSUME NEW t \in Threads, RejectReturn(t) PROVE LockInv'
  BY SentinelsAssumption, <1>1 DEF RejectReturn
<1>2. ASSUME NEW t \in Threads, NEW e \in Returns, HandleReturn(t, e)
      PROVE  LockInv'
  BY SentinelsAssumption, <1>2 DEF HandleReturn
<1>3. ASSUME NEW t \in Threads, RetryPendingAudit(t) PROVE LockInv'
  BY SentinelsAssumption, <1>3 DEF RetryPendingAudit
<1>4. ASSUME NEW t \in Threads, NEW c \in Correlations, AuditRefused(t, c)
      PROVE  LockInv'
  BY SentinelsAssumption, <1>4 DEF AuditRefused
<1>5. ASSUME NEW t \in Threads, NEW c \in Correlations,
             NEW approved \in BOOLEAN, HandleAudit(t, c, approved)
      PROVE  LockInv'
  BY SentinelsAssumption, <1>5 DEF HandleAudit, Decide
<1>6. ASSUME NEW t \in Threads, CheckDuplicate(t) PROVE LockInv'
  BY SentinelsAssumption, <1>6 DEF CheckDuplicate
<1>7. ASSUME NEW t \in Threads, CheckPending(t) PROVE LockInv'
  BY SentinelsAssumption, <1>7 DEF CheckPending
<1>8. ASSUME NEW t \in Threads, Admit(t) PROVE LockInv'
  BY SentinelsAssumption, <1>8 DEF Admit
<1>9. ASSUME NEW t \in Threads, CheckRevision(t) PROVE LockInv'
  BY SentinelsAssumption, <1>9 DEF CheckRevision
<1>10. ASSUME NEW t \in Threads, CheckClean(t) PROVE LockInv'
  BY SentinelsAssumption, <1>10 DEF CheckClean
<1>11. ASSUME NEW t \in Threads, TryAcquire(t) PROVE LockInv'
  BY SentinelsAssumption, <1>11 DEF TryAcquire
<1>12. ASSUME NEW t \in Threads, IntegrationCompletes(t) PROVE LockInv'
  BY SentinelsAssumption, <1>12 DEF IntegrationCompletes
<1>13. ASSUME NEW t \in Threads, IntegrationFails(t) PROVE LockInv'
  BY SentinelsAssumption, <1>13 DEF IntegrationFails
<1>14. ASSUME NEW t \in Threads, PublishMain(t) PROVE LockInv'
  BY SentinelsAssumption, <1>14 DEF PublishMain
<1>15. ASSUME NEW t \in Threads, OpenAudit(t) PROVE LockInv'
  BY SentinelsAssumption, <1>15 DEF OpenAudit
<1>16. ASSUME NEW t \in Threads, AdmitDelivery(t) PROVE LockInv'
  BY SentinelsAssumption, <1>16 DEF AdmitDelivery
<1>17. ASSUME NEW t \in Threads, RequestAudit(t) PROVE LockInv'
  BY SentinelsAssumption, <1>17 DEF RequestAudit
<1>18. ASSUME NEW t \in Threads, RequestAuditRaises(t) PROVE LockInv'
  BY SentinelsAssumption, <1>18 DEF RequestAuditRaises
<1>19. ASSUME NEW t \in Threads, MarkRetryable(t) PROVE LockInv'
  BY SentinelsAssumption, <1>19 DEF MarkRetryable
<1>20. ASSUME NEW t \in Threads, MarkDelivered(t) PROVE LockInv'
  BY SentinelsAssumption, <1>20 DEF MarkDelivered
<1>21. ASSUME NEW t \in Threads, ScanProposals(t) PROVE LockInv'
  BY SentinelsAssumption, <1>21 DEF ScanProposals
<1>22. ASSUME NEW t \in Threads, WakeDependents(t) PROVE LockInv'
  BY SentinelsAssumption, <1>22 DEF WakeDependents
<1>23. ASSUME NEW t \in Threads, ReleaseLock(t) PROVE LockInv'
  BY SentinelsAssumption, <1>23 DEF ReleaseLock
<1>24. CASE UNCHANGED vars
  BY SentinelsAssumption, <1>24 DEF vars
<1>25. QED
  BY <1>1, <1>2, <1>3, <1>4, <1>5, <1>6, <1>7, <1>8, <1>9, <1>10, <1>11, <1>12,
     <1>13, <1>14, <1>15, <1>16, <1>17, <1>18, <1>19, <1>20, <1>21, <1>22, <1>23, <1>24
     DEF Next, Call, Continue

LEMMA InitInv == Init => TypeOK /\ CallInv /\ LockInv
BY SentinelsAssumption
   DEF Init, TypeOK, CallInv, LockInv, HoldsLock, Locations, Decisions,
       DeliveryStates, Revisions

(* Every variable keeps its type, and every call the locals it needs. *)
THEOREM TypeCorrect == Spec => [](TypeOK /\ CallInv)
<1>1. Init => TypeOK /\ CallInv
  BY InitInv
<1>2. TypeOK /\ CallInv /\ [Next]_vars => (TypeOK /\ CallInv)'
  BY TypeStep, CallStep
<1> QED
  BY <1>1, <1>2, PTL DEF Spec

(* The port and the delivery of a return are run by one handle_return call *)
(* at a time, however many threads handle returns and however often the    *)
(* release of the lock fails.                                              *)
THEOREM Exclusive == Spec => []IntegrationExclusive
<1>1. Init => LockInv
  BY InitInv
<1>2. TypeOK /\ CallInv /\ LockInv /\ [Next]_vars => LockInv'
  BY LockStep
<1>3. LockInv => IntegrationExclusive
  BY DEF LockInv, IntegrationExclusive
<1> QED
  BY <1>1, <1>2, <1>3, TypeCorrect, PTL DEF Spec

-----------------------------------------------------------------------------
(* Main follows the repository: an integration that is not published yet is *)
(* between the two, and the lock lets only one be on its way.               *)
RevisionInv ==
  /\ main.revision <= repo
  /\ \A t \in Threads : pc[t] = "publish" =>
       main.revision <= audit[t].revision /\ audit[t].revision <= repo

LEMMA RevisionStep ==
  ASSUME TypeOK, CallInv, LockInv, RevisionInv, [Next]_vars
  PROVE  RevisionInv' /\ main'.revision >= main.revision
<1>1. /\ main.revision \in Nat /\ repo \in Nat /\ pc \in [Threads -> Locations]
      /\ DOMAIN audit = Threads
  BY DEF TypeOK, Revisions
<1>2. \A t \in Threads : pc[t] = "publish" => audit[t].revision \in Nat
  BY DEF TypeOK, CallInv, Audits, Revisions
<1>3. \A s, t \in Threads :
        pc[s] \in {"integrate", "publish"} /\ pc[t] \in {"integrate", "publish"} => s = t
  BY DEF CallInv, LockInv, HoldsLock
<1>4. ASSUME NEW t \in Threads, IntegrationCompletes(t)
      PROVE  RevisionInv' /\ main'.revision >= main.revision
  <2>1. /\ repo' = repo + 1 /\ main' = main /\ audit'[t].revision = repo + 1
        /\ pc[t] = "integrate" /\ pc' = [pc EXCEPT ![t] = "publish"]
    BY <1>1, <1>4 DEF IntegrationCompletes, Goto, coordinator
  <2>2. \A s \in Threads : pc'[s] = "publish" => s = t
    BY <1>1, <1>3, <2>1
  <2> QED BY <1>1, <2>1, <2>2 DEF RevisionInv
<1>5. ASSUME NEW t \in Threads, IntegrationFails(t)
      PROVE  RevisionInv' /\ main'.revision >= main.revision
  <2>1. /\ repo' \in {repo, repo + 1} /\ main' = main /\ audit' = audit
        /\ pc' = [pc EXCEPT ![t] = "release"]
    BY <1>5 DEF IntegrationFails, Goto, coordinator
  <2> QED BY <1>1, <1>2, <2>1 DEF RevisionInv
<1>6. ASSUME NEW t \in Threads, PublishMain(t)
      PROVE  RevisionInv' /\ main'.revision >= main.revision
  <2>1. /\ main'.revision = audit[t].revision /\ repo' = repo /\ audit' = audit
        /\ pc[t] = "publish" /\ pc' = [pc EXCEPT ![t] = "open"]
    BY <1>6 DEF PublishMain, Proceed, Goto, ports, locals
  <2>2. \A s \in Threads : pc'[s] # "publish"
    BY <1>1, <1>3, <2>1
  <2> QED BY <1>1, <1>2, <2>1, <2>2 DEF RevisionInv
<1>7. \/ /\ main' = main /\ repo' = repo
         /\ \A t \in Threads : pc'[t] = "publish" => pc[t] = "publish" /\ audit'[t] = audit[t]
      \/ \E t \in Threads : IntegrationCompletes(t) \/ IntegrationFails(t) \/ PublishMain(t)
  BY <1>1 DEF TypeOK, Next, Call, Continue, RejectReturn, HandleReturn, RetryPendingAudit,
     AuditRefused, HandleAudit, CheckDuplicate, CheckPending, Admit, CheckRevision, CheckClean,
     TryAcquire, OpenAudit, AdmitDelivery, RequestAudit, RequestAuditRaises,
     MarkRetryable, MarkDelivered, ScanProposals, WakeDependents, ReleaseLock,
     EndDelivery, Finish, Proceed, Goto, vars, coordinator, ports, locals
<1>8. CASE /\ main' = main /\ repo' = repo
           /\ \A t \in Threads : pc'[t] = "publish" => pc[t] = "publish" /\ audit'[t] = audit[t]
  BY <1>1, <1>8 DEF RevisionInv
<1> QED BY <1>4, <1>5, <1>6, <1>7, <1>8

(* However many threads handle returns, and although each reads the main    *)
(* snapshot long before it publishes its own, main never goes back.         *)
THEOREM MainGoesForward == Spec => MainNeverRegresses
<1>1. Init => RevisionInv
  BY DEF Init, RevisionInv
<1>2. Init => LockInv
  BY InitInv
<1>3. TypeOK /\ CallInv /\ LockInv /\ [Next]_vars => LockInv'
  BY LockStep
<1>4. TypeOK /\ CallInv /\ LockInv /\ RevisionInv /\ [Next]_vars
        => RevisionInv' /\ [main'.revision >= main.revision]_vars
  BY RevisionStep
<1> QED
  BY <1>1, <1>2, <1>3, <1>4, TypeCorrect, PTL DEF Spec, MainNeverRegresses

-----------------------------------------------------------------------------
(* The invariant of a coordinator whose returns are handled by one thread. *)
OneReturner == \A s, t \in Returners : s = t

(* The correlations whose audit is or was pending. *)
Opened ==
  reviewed \cup corrected \cup
  {c \in Correlations : pending # NoAudit /\ pending.correlation = c}

(* A return between the duplicate check and the opening of its audit finds *)
(* no audit pending, and was not seen before it was admitted.              *)
AdmissionInv ==
  \A t \in Threads :
    /\ pc[t] \in {"admit", "revision", "clean", "acquire", "integrate", "publish", "open"}
         => pending = NoAudit
    /\ pc[t] \in {"pending", "admit"} => event[t].correlation \notin seen
    /\ pc[t] \in {"revision", "clean", "acquire", "integrate", "publish", "open"}
         => event[t].correlation \in seen \ Opened
    /\ pc[t] \in {"revision", "clean", "acquire", "integrate"}
         => event[t].correlation \notin integrated
    /\ pc[t] \in {"clean", "acquire", "integrate"}
         => event[t].expected = main.revision
    /\ pc[t] \in {"publish", "open"} => audit[t].correlation = event[t].correlation
    /\ pc[t] = "open" => audit[t].revision = main.revision

SeenInv == Opened \subseteq seen /\ integrated \subseteq seen /\ requested \subseteq Opened

(* At most one delivery runs, and it is for the pending audit. *)
Delivering(t) == pc[t] \in {"request", "accepted", "refused"}

DeliveryInv ==
  /\ \A t \in Threads : Delivering(t) => delivery = "delivering" /\ pending = audit[t]
  /\ \A s, t \in Threads : Delivering(s) /\ Delivering(t) => s = t
  /\ \A t \in Threads :
       /\ pc[t] \in {"request", "refused"} => audit[t].correlation \notin requested
       /\ pc[t] = "accepted" => audit[t].correlation \in requested
  /\ pending # NoAudit /\ delivery = "retryable" => pending.correlation \notin requested
  /\ pending # NoAudit /\ delivery = "delivered" => pending.correlation \in requested

ClosedInv ==
  /\ pending # NoAudit => pending.correlation \notin reviewed \cup corrected
  /\ reviewed \cap corrected = {}

GateInv ==
  /\ AdmissionInv
  /\ SeenInv
  /\ DeliveryInv
  /\ ClosedInv
  /\ PendingAuditNamesMain

(* The admission of a return is not disturbed by retries and audits. *)
LEMMA AdmissionStep ==
  ASSUME OneReturner, TypeOK, CallInv, GateInv, [Next]_vars
  PROVE  AdmissionInv'
<1> USE DEF TypeOK, CallInv, GateInv, OneReturner,
            Goto, Proceed, Finish, EndDelivery, Announce,
            coordinator, ports, locals, history,
            AdmissionInv, SeenInv, DeliveryInv, ClosedInv, Opened
<1>1. ASSUME NEW t \in Threads, RejectReturn(t) PROVE AdmissionInv'
  BY SentinelsAssumption, RolesAssumption, <1>1 DEF RejectReturn
<1>2. ASSUME NEW t \in Threads, NEW e \in Returns, HandleReturn(t, e)
      PROVE  AdmissionInv'
  BY SentinelsAssumption, RolesAssumption, <1>2 DEF HandleReturn
<1>3. ASSUME NEW t \in Threads, RetryPendingAudit(t) PROVE AdmissionInv'
  BY SentinelsAssumption, RolesAssumption, <1>3 DEF RetryPendingAudit
<1>4. ASSUME NEW t \in Threads, NEW c \in Correlations, AuditRefused(t, c)
      PROVE  AdmissionInv'
  BY SentinelsAssumption, RolesAssumption, <1>4 DEF AuditRefused
<1>5. ASSUME NEW t \in Threads, NEW c \in Correlations,
             NEW approved \in BOOLEAN, HandleAudit(t, c, approved)
      PROVE  AdmissionInv'
  BY SentinelsAssumption, RolesAssumption, <1>5 DEF HandleAudit, Decide
<1>6. ASSUME NEW t \in Threads, CheckDuplicate(t) PROVE AdmissionInv'
  BY SentinelsAssumption, RolesAssumption, <1>6 DEF CheckDuplicate, IsDuplicate
<1>7. ASSUME NEW t \in Threads, CheckPending(t) PROVE AdmissionInv'
  BY SentinelsAssumption, RolesAssumption, <1>7 DEF CheckPending
<1>8. ASSUME NEW t \in Threads, Admit(t) PROVE AdmissionInv'
  BY SentinelsAssumption, RolesAssumption, <1>8 DEF Admit
<1>9. ASSUME NEW t \in Threads, CheckRevision(t) PROVE AdmissionInv'
  BY SentinelsAssumption, RolesAssumption, <1>9 DEF CheckRevision
<1>10. ASSUME NEW t \in Threads, CheckClean(t) PROVE AdmissionInv'
  BY SentinelsAssumption, RolesAssumption, <1>10 DEF CheckClean
<1>11. ASSUME NEW t \in Threads, TryAcquire(t) PROVE AdmissionInv'
  BY SentinelsAssumption, RolesAssumption, <1>11 DEF TryAcquire
<1>12. ASSUME NEW t \in Threads, IntegrationCompletes(t) PROVE AdmissionInv'
  BY SentinelsAssumption, RolesAssumption, <1>12 DEF IntegrationCompletes
<1>13. ASSUME NEW t \in Threads, IntegrationFails(t) PROVE AdmissionInv'
  BY SentinelsAssumption, RolesAssumption, <1>13 DEF IntegrationFails
<1>14. ASSUME NEW t \in Threads, PublishMain(t) PROVE AdmissionInv'
  BY SentinelsAssumption, RolesAssumption, <1>14 DEF PublishMain
<1>15. ASSUME NEW t \in Threads, OpenAudit(t) PROVE AdmissionInv'
  BY SentinelsAssumption, RolesAssumption, <1>15 DEF OpenAudit
<1>16. ASSUME NEW t \in Threads, AdmitDelivery(t) PROVE AdmissionInv'
  BY SentinelsAssumption, RolesAssumption, <1>16 DEF AdmitDelivery
<1>17. ASSUME NEW t \in Threads, RequestAudit(t) PROVE AdmissionInv'
  BY SentinelsAssumption, RolesAssumption, <1>17 DEF RequestAudit
<1>18. ASSUME NEW t \in Threads, RequestAuditRaises(t) PROVE AdmissionInv'
  BY SentinelsAssumption, RolesAssumption, <1>18 DEF RequestAuditRaises
<1>19. ASSUME NEW t \in Threads, MarkRetryable(t) PROVE AdmissionInv'
  BY SentinelsAssumption, RolesAssumption, <1>19 DEF MarkRetryable
<1>20. ASSUME NEW t \in Threads, MarkDelivered(t) PROVE AdmissionInv'
  BY SentinelsAssumption, RolesAssumption, <1>20 DEF MarkDelivered
<1>21. ASSUME NEW t \in Threads, ScanProposals(t) PROVE AdmissionInv'
  BY SentinelsAssumption, RolesAssumption, <1>21 DEF ScanProposals
<1>22. ASSUME NEW t \in Threads, WakeDependents(t) PROVE AdmissionInv'
  BY SentinelsAssumption, RolesAssumption, <1>22 DEF WakeDependents
<1>23. ASSUME NEW t \in Threads, ReleaseLock(t) PROVE AdmissionInv'
  BY SentinelsAssumption, RolesAssumption, <1>23 DEF ReleaseLock
<1>24. CASE UNCHANGED vars
  BY SentinelsAssumption, RolesAssumption, <1>24 DEF vars
<1>25. QED
  BY <1>1, <1>2, <1>3, <1>4, <1>5, <1>6, <1>7, <1>8, <1>9, <1>10, <1>11, <1>12,
     <1>13, <1>14, <1>15, <1>16, <1>17, <1>18, <1>19, <1>20, <1>21, <1>22, <1>23, <1>24
     DEF Next, Call, Continue

(* What was opened, integrated or requested has been seen. *)
LEMMA SeenStep ==
  ASSUME OneReturner, TypeOK, CallInv, GateInv, [Next]_vars
  PROVE  SeenInv'
<1> USE DEF TypeOK, CallInv, GateInv, OneReturner,
            Goto, Proceed, Finish, EndDelivery, Announce,
            coordinator, ports, locals, history,
            AdmissionInv, SeenInv, DeliveryInv, Opened, Delivering
<1>1. ASSUME NEW t \in Threads, RejectReturn(t) PROVE SeenInv'
  BY SentinelsAssumption, RolesAssumption, <1>1 DEF RejectReturn
<1>2. ASSUME NEW t \in Threads, NEW e \in Returns, HandleReturn(t, e)
      PROVE  SeenInv'
  BY SentinelsAssumption, RolesAssumption, <1>2 DEF HandleReturn
<1>3. ASSUME NEW t \in Threads, RetryPendingAudit(t) PROVE SeenInv'
  BY SentinelsAssumption, RolesAssumption, <1>3 DEF RetryPendingAudit
<1>4. ASSUME NEW t \in Threads, NEW c \in Correlations, AuditRefused(t, c)
      PROVE  SeenInv'
  BY SentinelsAssumption, RolesAssumption, <1>4 DEF AuditRefused
<1>5. ASSUME NEW t \in Threads, NEW c \in Correlations,
             NEW approved \in BOOLEAN, HandleAudit(t, c, approved)
      PROVE  SeenInv'
  BY SentinelsAssumption, RolesAssumption, <1>5 DEF HandleAudit, Decide
<1>6. ASSUME NEW t \in Threads, CheckDuplicate(t) PROVE SeenInv'
  BY SentinelsAssumption, RolesAssumption, <1>6 DEF CheckDuplicate
<1>7. ASSUME NEW t \in Threads, CheckPending(t) PROVE SeenInv'
  BY SentinelsAssumption, RolesAssumption, <1>7 DEF CheckPending
<1>8. ASSUME NEW t \in Threads, Admit(t) PROVE SeenInv'
  BY SentinelsAssumption, RolesAssumption, <1>8 DEF Admit
<1>9. ASSUME NEW t \in Threads, CheckRevision(t) PROVE SeenInv'
  BY SentinelsAssumption, RolesAssumption, <1>9 DEF CheckRevision
<1>10. ASSUME NEW t \in Threads, CheckClean(t) PROVE SeenInv'
  BY SentinelsAssumption, RolesAssumption, <1>10 DEF CheckClean
<1>11. ASSUME NEW t \in Threads, TryAcquire(t) PROVE SeenInv'
  BY SentinelsAssumption, RolesAssumption, <1>11 DEF TryAcquire
<1>12. ASSUME NEW t \in Threads, IntegrationCompletes(t) PROVE SeenInv'
  BY SentinelsAssumption, RolesAssumption, <1>12 DEF IntegrationCompletes
<1>13. ASSUME NEW t \in Threads, IntegrationFails(t) PROVE SeenInv'
  BY SentinelsAssumption, RolesAssumption, <1>13 DEF IntegrationFails
<1>14. ASSUME NEW t \in Threads, PublishMain(t) PROVE SeenInv'
  BY SentinelsAssumption, RolesAssumption, <1>14 DEF PublishMain
<1>15. ASSUME NEW t \in Threads, OpenAudit(t) PROVE SeenInv'
  BY SentinelsAssumption, RolesAssumption, <1>15 DEF OpenAudit
<1>16. ASSUME NEW t \in Threads, AdmitDelivery(t) PROVE SeenInv'
  BY SentinelsAssumption, RolesAssumption, <1>16 DEF AdmitDelivery
<1>17. ASSUME NEW t \in Threads, RequestAudit(t) PROVE SeenInv'
  BY SentinelsAssumption, RolesAssumption, <1>17 DEF RequestAudit, Audits
<1>18. ASSUME NEW t \in Threads, RequestAuditRaises(t) PROVE SeenInv'
  BY SentinelsAssumption, RolesAssumption, <1>18 DEF RequestAuditRaises
<1>19. ASSUME NEW t \in Threads, MarkRetryable(t) PROVE SeenInv'
  BY SentinelsAssumption, RolesAssumption, <1>19 DEF MarkRetryable
<1>20. ASSUME NEW t \in Threads, MarkDelivered(t) PROVE SeenInv'
  BY SentinelsAssumption, RolesAssumption, <1>20 DEF MarkDelivered
<1>21. ASSUME NEW t \in Threads, ScanProposals(t) PROVE SeenInv'
  BY SentinelsAssumption, RolesAssumption, <1>21 DEF ScanProposals
<1>22. ASSUME NEW t \in Threads, WakeDependents(t) PROVE SeenInv'
  BY SentinelsAssumption, RolesAssumption, <1>22 DEF WakeDependents
<1>23. ASSUME NEW t \in Threads, ReleaseLock(t) PROVE SeenInv'
  BY SentinelsAssumption, RolesAssumption, <1>23 DEF ReleaseLock
<1>24. CASE UNCHANGED vars
  BY SentinelsAssumption, RolesAssumption, <1>24 DEF vars
<1>25. QED
  BY <1>1, <1>2, <1>3, <1>4, <1>5, <1>6, <1>7, <1>8, <1>9, <1>10, <1>11, <1>12,
     <1>13, <1>14, <1>15, <1>16, <1>17, <1>18, <1>19, <1>20, <1>21, <1>22, <1>23, <1>24
     DEF Next, Call, Continue

(* Deliveries of the pending audit stay exclusive. *)
LEMMA DeliveryStep ==
  ASSUME OneReturner, TypeOK, CallInv, GateInv, [Next]_vars
  PROVE  DeliveryInv'
<1> USE DEF TypeOK, CallInv, GateInv, OneReturner,
            Goto, Proceed, Finish, EndDelivery, Announce,
            coordinator, ports, locals, history,
            AdmissionInv, SeenInv, DeliveryInv, ClosedInv, Opened, Delivering
<1>1. ASSUME NEW t \in Threads, RejectReturn(t) PROVE DeliveryInv'
  BY SentinelsAssumption, RolesAssumption, <1>1 DEF RejectReturn
<1>2. ASSUME NEW t \in Threads, NEW e \in Returns, HandleReturn(t, e)
      PROVE  DeliveryInv'
  BY SentinelsAssumption, RolesAssumption, <1>2 DEF HandleReturn
<1>3. ASSUME NEW t \in Threads, RetryPendingAudit(t) PROVE DeliveryInv'
  BY SentinelsAssumption, RolesAssumption, <1>3 DEF RetryPendingAudit
<1>4. ASSUME NEW t \in Threads, NEW c \in Correlations, AuditRefused(t, c)
      PROVE  DeliveryInv'
  BY SentinelsAssumption, RolesAssumption, <1>4 DEF AuditRefused
<1>5. ASSUME NEW t \in Threads, NEW c \in Correlations,
             NEW approved \in BOOLEAN, HandleAudit(t, c, approved)
      PROVE  DeliveryInv'
  BY SentinelsAssumption, RolesAssumption, <1>5 DEF HandleAudit, Decide
<1>6. ASSUME NEW t \in Threads, CheckDuplicate(t) PROVE DeliveryInv'
  BY SentinelsAssumption, RolesAssumption, <1>6 DEF CheckDuplicate
<1>7. ASSUME NEW t \in Threads, CheckPending(t) PROVE DeliveryInv'
  BY SentinelsAssumption, RolesAssumption, <1>7 DEF CheckPending
<1>8. ASSUME NEW t \in Threads, Admit(t) PROVE DeliveryInv'
  BY SentinelsAssumption, RolesAssumption, <1>8 DEF Admit
<1>9. ASSUME NEW t \in Threads, CheckRevision(t) PROVE DeliveryInv'
  BY SentinelsAssumption, RolesAssumption, <1>9 DEF CheckRevision
<1>10. ASSUME NEW t \in Threads, CheckClean(t) PROVE DeliveryInv'
  BY SentinelsAssumption, RolesAssumption, <1>10 DEF CheckClean
<1>11. ASSUME NEW t \in Threads, TryAcquire(t) PROVE DeliveryInv'
  BY SentinelsAssumption, RolesAssumption, <1>11 DEF TryAcquire
<1>12. ASSUME NEW t \in Threads, IntegrationCompletes(t) PROVE DeliveryInv'
  BY SentinelsAssumption, RolesAssumption, <1>12 DEF IntegrationCompletes
<1>13. ASSUME NEW t \in Threads, IntegrationFails(t) PROVE DeliveryInv'
  BY SentinelsAssumption, RolesAssumption, <1>13 DEF IntegrationFails
<1>14. ASSUME NEW t \in Threads, PublishMain(t) PROVE DeliveryInv'
  BY SentinelsAssumption, RolesAssumption, <1>14 DEF PublishMain
<1>15. ASSUME NEW t \in Threads, OpenAudit(t) PROVE DeliveryInv'
  BY SentinelsAssumption, RolesAssumption, <1>15 DEF OpenAudit
<1>16. ASSUME NEW t \in Threads, AdmitDelivery(t) PROVE DeliveryInv'
  BY SentinelsAssumption, RolesAssumption, <1>16 DEF AdmitDelivery
<1>17. ASSUME NEW t \in Threads, RequestAudit(t) PROVE DeliveryInv'
  BY SentinelsAssumption, RolesAssumption, <1>17 DEF RequestAudit
<1>18. ASSUME NEW t \in Threads, RequestAuditRaises(t) PROVE DeliveryInv'
  BY SentinelsAssumption, RolesAssumption, <1>18 DEF RequestAuditRaises
<1>19. ASSUME NEW t \in Threads, MarkRetryable(t) PROVE DeliveryInv'
  BY SentinelsAssumption, RolesAssumption, <1>19 DEF MarkRetryable
<1>20. ASSUME NEW t \in Threads, MarkDelivered(t) PROVE DeliveryInv'
  BY SentinelsAssumption, RolesAssumption, <1>20 DEF MarkDelivered
<1>21. ASSUME NEW t \in Threads, ScanProposals(t) PROVE DeliveryInv'
  BY SentinelsAssumption, RolesAssumption, <1>21 DEF ScanProposals
<1>22. ASSUME NEW t \in Threads, WakeDependents(t) PROVE DeliveryInv'
  BY SentinelsAssumption, RolesAssumption, <1>22 DEF WakeDependents
<1>23. ASSUME NEW t \in Threads, ReleaseLock(t) PROVE DeliveryInv'
  BY SentinelsAssumption, RolesAssumption, <1>23 DEF ReleaseLock
<1>24. CASE UNCHANGED vars
  BY SentinelsAssumption, RolesAssumption, <1>24 DEF vars
<1>25. QED
  BY <1>1, <1>2, <1>3, <1>4, <1>5, <1>6, <1>7, <1>8, <1>9, <1>10, <1>11, <1>12,
     <1>13, <1>14, <1>15, <1>16, <1>17, <1>18, <1>19, <1>20, <1>21, <1>22, <1>23, <1>24
     DEF Next, Call, Continue

(* No audit is decided twice. *)
LEMMA ClosedStep ==
  ASSUME OneReturner, TypeOK, CallInv, GateInv, [Next]_vars
  PROVE  ClosedInv'
<1> USE DEF TypeOK, CallInv, GateInv, OneReturner,
            Goto, Proceed, Finish, EndDelivery, Announce,
            coordinator, ports, locals, history,
            AdmissionInv, ClosedInv, Opened
<1>1. ASSUME NEW t \in Threads, RejectReturn(t) PROVE ClosedInv'
  BY SentinelsAssumption, RolesAssumption, <1>1 DEF RejectReturn
<1>2. ASSUME NEW t \in Threads, NEW e \in Returns, HandleReturn(t, e)
      PROVE  ClosedInv'
  BY SentinelsAssumption, RolesAssumption, <1>2 DEF HandleReturn
<1>3. ASSUME NEW t \in Threads, RetryPendingAudit(t) PROVE ClosedInv'
  BY SentinelsAssumption, RolesAssumption, <1>3 DEF RetryPendingAudit
<1>4. ASSUME NEW t \in Threads, NEW c \in Correlations, AuditRefused(t, c)
      PROVE  ClosedInv'
  BY SentinelsAssumption, RolesAssumption, <1>4 DEF AuditRefused
<1>5. ASSUME NEW t \in Threads, NEW c \in Correlations,
             NEW approved \in BOOLEAN, HandleAudit(t, c, approved)
      PROVE  ClosedInv'
  BY SentinelsAssumption, RolesAssumption, <1>5 DEF HandleAudit, Decide
<1>6. ASSUME NEW t \in Threads, CheckDuplicate(t) PROVE ClosedInv'
  BY SentinelsAssumption, RolesAssumption, <1>6 DEF CheckDuplicate
<1>7. ASSUME NEW t \in Threads, CheckPending(t) PROVE ClosedInv'
  BY SentinelsAssumption, RolesAssumption, <1>7 DEF CheckPending
<1>8. ASSUME NEW t \in Threads, Admit(t) PROVE ClosedInv'
  BY SentinelsAssumption, RolesAssumption, <1>8 DEF Admit
<1>9. ASSUME NEW t \in Threads, CheckRevision(t) PROVE ClosedInv'
  BY SentinelsAssumption, RolesAssumption, <1>9 DEF CheckRevision
<1>10. ASSUME NEW t \in Threads, CheckClean(t) PROVE ClosedInv'
  BY SentinelsAssumption, RolesAssumption, <1>10 DEF CheckClean
<1>11. ASSUME NEW t \in Threads, TryAcquire(t) PROVE ClosedInv'
  BY SentinelsAssumption, RolesAssumption, <1>11 DEF TryAcquire
<1>12. ASSUME NEW t \in Threads, IntegrationCompletes(t) PROVE ClosedInv'
  BY SentinelsAssumption, RolesAssumption, <1>12 DEF IntegrationCompletes
<1>13. ASSUME NEW t \in Threads, IntegrationFails(t) PROVE ClosedInv'
  BY SentinelsAssumption, RolesAssumption, <1>13 DEF IntegrationFails
<1>14. ASSUME NEW t \in Threads, PublishMain(t) PROVE ClosedInv'
  BY SentinelsAssumption, RolesAssumption, <1>14 DEF PublishMain
<1>15. ASSUME NEW t \in Threads, OpenAudit(t) PROVE ClosedInv'
  BY SentinelsAssumption, RolesAssumption, <1>15 DEF OpenAudit
<1>16. ASSUME NEW t \in Threads, AdmitDelivery(t) PROVE ClosedInv'
  BY SentinelsAssumption, RolesAssumption, <1>16 DEF AdmitDelivery
<1>17. ASSUME NEW t \in Threads, RequestAudit(t) PROVE ClosedInv'
  BY SentinelsAssumption, RolesAssumption, <1>17 DEF RequestAudit
<1>18. ASSUME NEW t \in Threads, RequestAuditRaises(t) PROVE ClosedInv'
  BY SentinelsAssumption, RolesAssumption, <1>18 DEF RequestAuditRaises
<1>19. ASSUME NEW t \in Threads, MarkRetryable(t) PROVE ClosedInv'
  BY SentinelsAssumption, RolesAssumption, <1>19 DEF MarkRetryable
<1>20. ASSUME NEW t \in Threads, MarkDelivered(t) PROVE ClosedInv'
  BY SentinelsAssumption, RolesAssumption, <1>20 DEF MarkDelivered
<1>21. ASSUME NEW t \in Threads, ScanProposals(t) PROVE ClosedInv'
  BY SentinelsAssumption, RolesAssumption, <1>21 DEF ScanProposals
<1>22. ASSUME NEW t \in Threads, WakeDependents(t) PROVE ClosedInv'
  BY SentinelsAssumption, RolesAssumption, <1>22 DEF WakeDependents
<1>23. ASSUME NEW t \in Threads, ReleaseLock(t) PROVE ClosedInv'
  BY SentinelsAssumption, RolesAssumption, <1>23 DEF ReleaseLock
<1>24. CASE UNCHANGED vars
  BY SentinelsAssumption, RolesAssumption, <1>24 DEF vars
<1>25. QED
  BY <1>1, <1>2, <1>3, <1>4, <1>5, <1>6, <1>7, <1>8, <1>9, <1>10, <1>11, <1>12,
     <1>13, <1>14, <1>15, <1>16, <1>17, <1>18, <1>19, <1>20, <1>21, <1>22, <1>23, <1>24
     DEF Next, Call, Continue

(* The main snapshot does not move while an audit is pending. *)
LEMMA NamesMainStep ==
  ASSUME OneReturner, TypeOK, CallInv, GateInv, [Next]_vars
  PROVE  PendingAuditNamesMain'
<1> USE DEF TypeOK, CallInv, GateInv, OneReturner,
            Goto, Proceed, Finish, EndDelivery, Announce,
            coordinator, ports, locals, history,
            AdmissionInv, PendingAuditNamesMain, Audits
<1>1. ASSUME NEW t \in Threads, RejectReturn(t) PROVE PendingAuditNamesMain'
  BY SentinelsAssumption, RolesAssumption, <1>1 DEF RejectReturn
<1>2. ASSUME NEW t \in Threads, NEW e \in Returns, HandleReturn(t, e)
      PROVE  PendingAuditNamesMain'
  BY SentinelsAssumption, RolesAssumption, <1>2 DEF HandleReturn
<1>3. ASSUME NEW t \in Threads, RetryPendingAudit(t)
      PROVE  PendingAuditNamesMain'
  BY SentinelsAssumption, RolesAssumption, <1>3 DEF RetryPendingAudit
<1>4. ASSUME NEW t \in Threads, NEW c \in Correlations, AuditRefused(t, c)
      PROVE  PendingAuditNamesMain'
  BY SentinelsAssumption, RolesAssumption, <1>4 DEF AuditRefused
<1>5. ASSUME NEW t \in Threads, NEW c \in Correlations,
             NEW approved \in BOOLEAN, HandleAudit(t, c, approved)
      PROVE  PendingAuditNamesMain'
  BY SentinelsAssumption, RolesAssumption, <1>5 DEF HandleAudit, Decide
<1>6. ASSUME NEW t \in Threads, CheckDuplicate(t) PROVE PendingAuditNamesMain'
  BY SentinelsAssumption, RolesAssumption, <1>6 DEF CheckDuplicate
<1>7. ASSUME NEW t \in Threads, CheckPending(t) PROVE PendingAuditNamesMain'
  BY SentinelsAssumption, RolesAssumption, <1>7 DEF CheckPending
<1>8. ASSUME NEW t \in Threads, Admit(t) PROVE PendingAuditNamesMain'
  BY SentinelsAssumption, RolesAssumption, <1>8 DEF Admit
<1>9. ASSUME NEW t \in Threads, CheckRevision(t) PROVE PendingAuditNamesMain'
  BY SentinelsAssumption, RolesAssumption, <1>9 DEF CheckRevision
<1>10. ASSUME NEW t \in Threads, CheckClean(t) PROVE PendingAuditNamesMain'
  BY SentinelsAssumption, RolesAssumption, <1>10 DEF CheckClean
<1>11. ASSUME NEW t \in Threads, TryAcquire(t) PROVE PendingAuditNamesMain'
  BY SentinelsAssumption, RolesAssumption, <1>11 DEF TryAcquire
<1>12. ASSUME NEW t \in Threads, IntegrationCompletes(t)
      PROVE  PendingAuditNamesMain'
  BY SentinelsAssumption, RolesAssumption, <1>12 DEF IntegrationCompletes
<1>13. ASSUME NEW t \in Threads, IntegrationFails(t)
      PROVE  PendingAuditNamesMain'
  BY SentinelsAssumption, RolesAssumption, <1>13 DEF IntegrationFails
<1>14. ASSUME NEW t \in Threads, PublishMain(t) PROVE PendingAuditNamesMain'
  BY SentinelsAssumption, RolesAssumption, <1>14 DEF PublishMain
<1>15. ASSUME NEW t \in Threads, OpenAudit(t) PROVE PendingAuditNamesMain'
  BY SentinelsAssumption, RolesAssumption, <1>15 DEF OpenAudit
<1>16. ASSUME NEW t \in Threads, AdmitDelivery(t) PROVE PendingAuditNamesMain'
  BY SentinelsAssumption, RolesAssumption, <1>16 DEF AdmitDelivery
<1>17. ASSUME NEW t \in Threads, RequestAudit(t) PROVE PendingAuditNamesMain'
  BY SentinelsAssumption, RolesAssumption, <1>17 DEF RequestAudit
<1>18. ASSUME NEW t \in Threads, RequestAuditRaises(t)
      PROVE  PendingAuditNamesMain'
  BY SentinelsAssumption, RolesAssumption, <1>18 DEF RequestAuditRaises
<1>19. ASSUME NEW t \in Threads, MarkRetryable(t) PROVE PendingAuditNamesMain'
  BY SentinelsAssumption, RolesAssumption, <1>19 DEF MarkRetryable
<1>20. ASSUME NEW t \in Threads, MarkDelivered(t) PROVE PendingAuditNamesMain'
  BY SentinelsAssumption, RolesAssumption, <1>20 DEF MarkDelivered
<1>21. ASSUME NEW t \in Threads, ScanProposals(t) PROVE PendingAuditNamesMain'
  BY SentinelsAssumption, RolesAssumption, <1>21 DEF ScanProposals
<1>22. ASSUME NEW t \in Threads, WakeDependents(t) PROVE PendingAuditNamesMain'
  BY SentinelsAssumption, RolesAssumption, <1>22 DEF WakeDependents
<1>23. ASSUME NEW t \in Threads, ReleaseLock(t) PROVE PendingAuditNamesMain'
  BY SentinelsAssumption, RolesAssumption, <1>23 DEF ReleaseLock
<1>24. CASE UNCHANGED vars
  BY SentinelsAssumption, RolesAssumption, <1>24 DEF vars
<1>25. QED
  BY <1>1, <1>2, <1>3, <1>4, <1>5, <1>6, <1>7, <1>8, <1>9, <1>10, <1>11, <1>12,
     <1>13, <1>14, <1>15, <1>16, <1>17, <1>18, <1>19, <1>20, <1>21, <1>22, <1>23, <1>24
     DEF Next, Call, Continue

LEMMA InitGate == Init => GateInv
BY SentinelsAssumption
   DEF Init, GateInv, AdmissionInv, SeenInv, DeliveryInv, ClosedInv, Opened,
       Delivering, PendingAuditNamesMain

(* The inductive invariant behind the theorems below. *)
LEMMA GateInvariant ==
  ASSUME OneReturner
  PROVE  Spec => []GateInv
<1>1. Init => GateInv
  BY InitGate
<1>2. TypeOK /\ CallInv /\ GateInv /\ [Next]_vars => GateInv'
  BY AdmissionStep, SeenStep, DeliveryStep, ClosedStep, NamesMainStep DEF GateInv
<1> QED
  BY <1>1, <1>2, TypeCorrect, PTL DEF Spec

(* While an audit is pending, it names the revision main is at. *)
THEOREM AuditNamesMain ==
  ASSUME OneReturner
  PROVE  Spec => []PendingAuditNamesMain
<1>1. GateInv => PendingAuditNamesMain
  BY DEF GateInv
<1> QED
  BY <1>1, GateInvariant, PTL

(* No correlation is integrated twice, and none while an audit is pending or *)
(* onto another revision than the one its return was written for.            *)
THEOREM GuardsHoldAtThePort ==
  ASSUME OneReturner
  PROVE  Spec => IntegratedOnce /\ NoIntegrationWhilePending /\ NoStaleIntegration
<1>1. ASSUME TypeOK, CallInv, GateInv, [Next]_vars, NEW t \in Threads, Integrates(t)
      PROVE  /\ event[t].correlation \notin integrated
             /\ pending = NoAudit
             /\ event[t].expected = main.revision
  BY <1>1 DEF GateInv, AdmissionInv, Integrates
<1>2. TypeOK /\ CallInv /\ GateInv /\ [Next]_vars =>
        /\ [\A t \in Threads : Integrates(t) => event[t].correlation \notin integrated]_vars
        /\ [\A t \in Threads : Integrates(t) => pending = NoAudit]_vars
        /\ [\A t \in Threads : Integrates(t) => event[t].expected = main.revision]_vars
  BY <1>1
<1> QED
  BY <1>2, TypeCorrect, GateInvariant, PTL
     DEF Spec, IntegratedOnce, NoIntegrationWhilePending, NoStaleIntegration

(* A pending audit is given up only by its own decision, after the sink     *)
(* accepted its request.                                                    *)
THEOREM PendingAuditIsKept ==
  ASSUME OneReturner
  PROVE  Spec => PendingAuditKept
<1>1. ASSUME TypeOK, CallInv, GateInv, [Next]_vars, pending \notin {NoAudit, pending'}
      PROVE  pending' = NoAudit /\ pending.correlation \in requested
  <2>1. CASE \E t \in Threads : OpenAudit(t)
    BY <1>1, <2>1 DEF GateInv, AdmissionInv, OpenAudit
  <2>2. CASE \E t \in Threads, c \in Correlations, approved \in BOOLEAN :
               HandleAudit(t, c, approved)
    BY <1>1, <2>2 DEF GateInv, DeliveryInv, HandleAudit
  <2>3. UNCHANGED pending \/ (\E t \in Threads : OpenAudit(t))
          \/ (\E t \in Threads, c \in Correlations, approved \in BOOLEAN :
                HandleAudit(t, c, approved))
    BY <1>1 DEF Next, Call, Continue, RejectReturn, HandleReturn, RetryPendingAudit,
       AuditRefused, CheckDuplicate, CheckPending, Admit, CheckRevision, CheckClean,
       TryAcquire, IntegrationCompletes, IntegrationFails, PublishMain, AdmitDelivery,
       RequestAudit, RequestAuditRaises, MarkRetryable, MarkDelivered, ScanProposals,
       WakeDependents, ReleaseLock, vars, coordinator
  <2> QED
    BY <1>1, <2>1, <2>2, <2>3
<1>2. TypeOK /\ CallInv /\ GateInv /\ [Next]_vars =>
        [pending \notin {NoAudit, pending'} =>
           pending' = NoAudit /\ pending.correlation \in requested]_vars
  BY <1>1
<1> QED
  BY <1>2, TypeCorrect, GateInvariant, PTL DEF Spec, PendingAuditKept

(* The sink accepts at most one request per correlation. *)
THEOREM AuditIsRequestedOnce ==
  ASSUME OneReturner
  PROVE  Spec => AuditRequestedOnce
<1>1. GateInv =>
        [\A t \in Threads : pc[t] = "request" /\ pc'[t] = "accepted" =>
           audit[t].correlation \notin requested]_vars
  BY DEF GateInv, DeliveryInv
<1> QED
  BY <1>1, GateInvariant, PTL DEF AuditRequestedOnce

-----------------------------------------------------------------------------
(* A call on its way to announce an integration carries an audit that was   *)
(* accepted, that nobody announced and that no other call carries.          *)
Carries(t) ==
  pc[t] \in {"accepted", "scan", "wake"}
    \/ (pc[t] = "release" /\ decision[t] = "integration_completed")

AnnounceInv ==
  /\ announced \subseteq requested
  /\ \A t \in Threads : Carries(t) => audit[t].correlation \in requested \ announced
  /\ \A s, t \in Threads :
       Carries(s) /\ Carries(t) /\ audit[s].correlation = audit[t].correlation => s = t

(* What thread t hands to the Router in this step. *)
Announces(t) == pc[t] # "idle" /\ pc'[t] = "idle" /\ decision'[t] = "integration_completed"

(* A step in which nothing is requested or announced. *)
Quiet ==
  /\ requested' = requested /\ announced' = announced
  /\ \A t \in Threads :
       /\ Carries(t)' => Carries(t) /\ audit'[t] = audit[t]
       /\ ~Announces(t)

LEMMA AnnounceStep ==
  ASSUME TypeOK, CallInv, GateInv, AnnounceInv, [Next]_vars
  PROVE  /\ AnnounceInv'
         /\ \A t \in Threads : Announces(t) => audit[t].correlation \in requested \ announced
<1>1. /\ pc \in [Threads -> Locations] /\ DOMAIN audit = Threads
      /\ decision \in [Threads -> Decisions] /\ DOMAIN event = Threads
  BY DEF TypeOK
<1>2. ASSUME NEW t \in Threads, RequestAudit(t)
      PROVE  /\ AnnounceInv'
             /\ \A s \in Threads : ~Announces(s)
  <2>1. /\ pc[t] = "request" /\ pc' = [pc EXCEPT ![t] = "accepted"]
        /\ requested' = requested \cup {audit[t].correlation}
        /\ announced' = announced /\ audit' = audit /\ decision' = decision
    BY <1>2 DEF RequestAudit, Proceed, Goto, locals
  <2>2. audit[t].correlation \notin requested
    BY <2>1 DEF GateInv, DeliveryInv
  <2>3. \A s \in Threads \ {t} : Carries(s)' => Carries(s)
    BY <1>1, <2>1 DEF Carries
  <2> QED BY <1>1, <2>1, <2>2, <2>3 DEF AnnounceInv, Announces
<1>3. ASSUME NEW t \in Threads, WakeDependents(t) \/ ReleaseLock(t)
      PROVE  /\ AnnounceInv'
             /\ \A s \in Threads : Announces(s) => audit[s].correlation \in requested \ announced
  <2>1. /\ \A s \in Threads \ {t} :
             pc'[s] = pc[s] /\ audit'[s] = audit[s] /\ decision'[s] = decision[s]
        /\ requested' = requested
    BY <1>1, <1>3 DEF WakeDependents, ReleaseLock, EndDelivery, Finish, Goto
  <2>2. \/ Carries(t) /\ announced' = announced \cup {audit[t].correlation}
             /\ pc'[t] = "idle"
        \/ announced' = announced /\ pc'[t] = "idle" /\ ~Announces(t)
        \/ announced' = announced /\ Carries(t) /\ audit'[t] = audit[t] /\ pc'[t] = "release"
    BY <1>1, <1>3
       DEF WakeDependents, ReleaseLock, EndDelivery, Finish, Goto, Announce, Carries, Announces
  <2>3. \A s \in Threads \ {t} : (Carries(s)' <=> Carries(s)) /\ ~Announces(s)
    BY <2>1 DEF Carries, Announces
  <2>4. pc'[t] = "idle" => ~Carries(t)'
    BY DEF Carries
  <2> QED BY <1>1, <2>1, <2>2, <2>3, <2>4 DEF AnnounceInv, Announces
<1>4. Quiet \/ \E t \in Threads : RequestAudit(t) \/ WakeDependents(t) \/ ReleaseLock(t)
  <2> USE <1>1 DEF Quiet, Carries, Announces, EndDelivery, Finish, Announce, Proceed, Goto,
                   coordinator, ports, locals, history
  <2>1. ASSUME NEW t \in Threads, Call(t)
        PROVE  Quiet
    BY <2>1 DEF Call, RejectReturn, HandleReturn, RetryPendingAudit, AuditRefused, HandleAudit,
                Decide
  <2>2. ASSUME NEW t \in Threads,
               \/ CheckDuplicate(t) \/ CheckPending(t) \/ Admit(t) \/ CheckRevision(t)
               \/ CheckClean(t) \/ TryAcquire(t) \/ IntegrationCompletes(t)
               \/ IntegrationFails(t) \/ PublishMain(t) \/ OpenAudit(t)
        PROVE  Quiet
    BY <2>2 DEF CheckDuplicate, CheckPending, Admit, CheckRevision, CheckClean, TryAcquire,
                IntegrationCompletes, IntegrationFails, PublishMain, OpenAudit
  <2>3. ASSUME NEW t \in Threads,
               \/ AdmitDelivery(t) \/ RequestAuditRaises(t) \/ MarkRetryable(t)
               \/ MarkDelivered(t) \/ ScanProposals(t)
        PROVE  Quiet
    BY <2>3 DEF AdmitDelivery, RequestAuditRaises, MarkRetryable, MarkDelivered, ScanProposals
  <2>4. CASE UNCHANGED vars
    BY <2>4 DEF vars
  <2> QED BY <2>1, <2>2, <2>3, <2>4 DEF Next, Continue
<1>5. CASE Quiet
  BY <1>5 DEF AnnounceInv, Quiet
<1> QED BY <1>2, <1>3, <1>4, <1>5

(* Returns are integrated one by one, each onto the revision it was written *)
(* for and while no audit is pending, and each is announced to the Router    *)
(* once, after its audit request was accepted.                              *)
THEOREM ReturnsTakeTurns ==
  ASSUME OneReturner
  PROVE  Spec => IntegratesInTurn
<1>1. Init => AnnounceInv
  BY DEF Init, AnnounceInv, Carries
<1>2. TypeOK /\ CallInv /\ GateInv /\ AnnounceInv /\ [Next]_vars =>
        /\ AnnounceInv'
        /\ [\A t \in Threads :
              pc[t] # "idle" /\ pc'[t] = "idle" /\ decision'[t] = "integration_completed" =>
                audit[t].correlation \in requested \ announced]_vars
  BY AnnounceStep DEF Announces
<1>3. Spec => AnnouncedOnce
  BY <1>1, <1>2, TypeCorrect, GateInvariant, PTL DEF Spec, AnnouncedOnce
<1> QED
  BY <1>3, TypeCorrect, GuardsHoldAtThePort, PTL DEF IntegratesInTurn

-----------------------------------------------------------------------------
(* Refinement of AuditGate. *)

(* The correlations outside the gate are those never opened. *)
LEMMA PhaseOf ==
  ASSUME TypeOK, ClosedInv, NEW c \in Correlations
  PROVE  /\ Phase(c) = "reviewed" <=> c \in reviewed
         /\ Phase(c) = "corrected" <=> c \in corrected
         /\ Phase(c) = "outside" <=> c \notin Opened
         /\ Phase(c) \in {"integrated", "delivered"} <=>
              pending # NoAudit /\ pending.correlation = c
         /\ Phase(c) = "delivered" <=>
              pending # NoAudit /\ pending.correlation = c /\ delivery = "delivered"
         /\ Phase(c) \in Gate!Phases
BY DEF Phase, ClosedInv, Opened, Gate!Phases

LEMMA GateInit == Init => Gate!Init
BY DEF Init, Gate!Init, Phase

(* The gate does not move when the pending audit, the decisions and the      *)
(* delivered state stay what they are.                                       *)
LEMMA PhaseFrame ==
  ASSUME UNCHANGED <<pending, reviewed, corrected>>,
         delivery' = "delivered" <=> delivery = "delivered",
         NEW c \in Correlations
  PROVE  Phase(c)' = Phase(c)
BY DEF Phase

LEMMA GateStep ==
  ASSUME OneReturner, TypeOK, TypeOK', CallInv, GateInv, GateInv', [Next]_vars
  PROVE  [Gate!Next]_[c \in Correlations |-> Phase(c)]
<1>1. ASSUME NEW t \in Threads, OpenAudit(t),
             NEW k \in Correlations, audit[t].correlation = k
      PROVE  Gate!Integrate(k)
  <2>1. /\ k \notin Opened
        /\ pending = NoAudit /\ pending' # NoAudit /\ pending'.correlation = k
        /\ delivery' # "delivered"
        /\ UNCHANGED <<reviewed, corrected>>
    BY <1>1 DEF OpenAudit, TypeOK, CallInv, GateInv, AdmissionInv, Audits,
                Proceed, history
  <2>2. \A d \in Correlations : ~Gate!Waiting(d)
    BY <2>1, PhaseOf DEF Gate!Waiting, GateInv
  <2>3. Phase(k) = "outside" /\ Phase(k)' = "integrated"
    BY <2>1 DEF Phase, Opened
  <2>4. \A d \in Correlations \ {k} : Phase(d)' = Phase(d)
    BY <2>1 DEF Phase
  <2> QED
    BY <2>1, <2>2, <2>3, <2>4 DEF Gate!Integrate, Gate!Move
<1>2. ASSUME NEW t \in Threads, MarkDelivered(t),
             NEW k \in Correlations, audit[t].correlation = k
      PROVE  Gate!Deliver(k)
  <2>1. /\ pending # NoAudit /\ pending.correlation = k
        /\ k \notin reviewed \cup corrected
        /\ delivery # "delivered" /\ delivery' = "delivered"
        /\ UNCHANGED <<pending, reviewed, corrected>>
    BY <1>2 DEF MarkDelivered, TypeOK, CallInv, GateInv, DeliveryInv, Delivering,
                ClosedInv, Audits, Proceed, history
  <2>2. Phase(k) = "integrated" /\ Phase(k)' = "delivered"
    BY <2>1 DEF Phase
  <2>3. \A d \in Correlations \ {k} : Phase(d)' = Phase(d)
    BY <2>1 DEF Phase
  <2> QED
    BY <2>1, <2>2, <2>3 DEF Gate!Deliver, Gate!Move
<1>3. ASSUME NEW t \in Threads, NEW k \in Correlations, NEW approved \in BOOLEAN,
             HandleAudit(t, k, approved)
      PROVE  Gate!Decide(k)
  <2>1. /\ pending # NoAudit /\ pending.correlation = k /\ pending' = NoAudit
        /\ k \notin reviewed \cup corrected /\ delivery = "delivered"
        /\ \/ reviewed' = reviewed \cup {k} /\ corrected' = corrected
           \/ corrected' = corrected \cup {k} /\ reviewed' = reviewed
    BY <1>3 DEF HandleAudit, Decide, GateInv, ClosedInv
  <2>2. Phase(k) = "delivered" /\ Phase(k)' \in {"reviewed", "corrected"}
    BY <2>1 DEF Phase
  <2>3. \A d \in Correlations \ {k} : Phase(d)' = Phase(d)
    BY <2>1 DEF Phase
  <2> QED
    BY <2>1, <2>2, <2>3 DEF Gate!Decide, Gate!Move
<1>4. \/ /\ UNCHANGED <<pending, reviewed, corrected>>
         /\ delivery' = "delivered" <=> delivery = "delivered"
      \/ \E t \in Threads : OpenAudit(t) \/ MarkDelivered(t)
      \/ \E t \in Threads, k \in Correlations, approved \in BOOLEAN :
           HandleAudit(t, k, approved)
  BY DEF GateInv, DeliveryInv, Delivering,
       Next, Call, Continue, RejectReturn, HandleReturn, RetryPendingAudit,
       AuditRefused, CheckDuplicate, CheckPending, Admit, CheckRevision, CheckClean,
       TryAcquire, IntegrationCompletes, IntegrationFails, PublishMain, AdmitDelivery,
       RequestAudit, RequestAuditRaises, MarkRetryable, ScanProposals,
       WakeDependents, ReleaseLock, vars, coordinator, history
<1>5. CASE /\ UNCHANGED <<pending, reviewed, corrected>>
           /\ delivery' = "delivered" <=> delivery = "delivered"
  BY <1>5, PhaseFrame
<1>6. \A t \in Threads : OpenAudit(t) \/ MarkDelivered(t) =>
        audit[t].correlation \in Correlations
  BY DEF TypeOK, CallInv, Audits, OpenAudit, MarkDelivered
<1> QED
  BY <1>1, <1>2, <1>3, <1>4, <1>5, <1>6 DEF Gate!Next

(* The coordinator implements the audit gate: returns are integrated one at  *)
(* a time, each is audited once and only after its request was accepted.     *)
THEOREM CoordinatorImplementsGate ==
  ASSUME OneReturner
  PROVE  Spec => ImplementsGate
<1>1. TypeOK /\ TypeOK' /\ CallInv /\ GateInv /\ GateInv' /\ [Next]_vars =>
        [Gate!Next]_[c \in Correlations |-> Phase(c)]
  BY GateStep
<1> QED
  BY <1>1, GateInit, TypeCorrect, GateInvariant, PTL DEF Spec, ImplementsGate, Gate!Spec

=============================================================================
