------------------------------ MODULE MCProgress ------------------------------
(***************************************************************************)
(* What must eventually happen, in six components side by side: the        *)
(* replacement of a writer, the integration of returns, the lease of a     *)
(* silent role, the question that is open for a ticket, the run of a lane  *)
(* and the round that waits for a human.  None reads what another keeps,   *)
(* so one of them moves in each behaviour and the others rest.  Each       *)
(* property is about the one it names, under the fairness that its module  *)
(* states of it.                                                           *)
(***************************************************************************)
EXTENDS ExecutionReplacement, Sequences, TLC

CONSTANTS NoLease, None, t1, t2, o1, q1, m

(* Later receipts start from commit 1. *)
BaseOf == [r \in Receipts |-> IF r = FirstReceipt THEN 0 ELSE 1]

-----------------------------------------------------------------------------
(* Two returns, the second of which follows the first. *)
VARIABLES main, seen, seenEvents, pending, delivery, woken, repo, lock, pc, event, audit,
          view, awoken, decision, integrated, requested, announced, reviewed, corrected

integrationVars ==
  <<main, seen, seenEvents, pending, delivery, woken, repo, lock, pc, event, audit,
    view, awoken, decision, integrated, requested, announced, reviewed, corrected>>

InOrder == << <<"k1", "c1", "e1">>, <<"k2", "c2", "e2">> >>

Integration == INSTANCE GuardedIntegration WITH
  Threads <- {"r", "w"}, Returners <- {"r"},
  Returns <- {[event_id |-> InOrder[i][3], ticket |-> InOrder[i][1], completed |-> TRUE,
               correlation |-> InOrder[i][2], expected |-> i - 1] : i \in 1..2},
  Plans <- {[ticket |-> InOrder[i][1], correlation |-> InOrder[i][2], expected |-> i - 1,
             confirmed |-> TRUE] : i \in 1..2},
  Proposals <- {"p"}, DependsOn <- [p \in {"p"} |-> "k1"],
  PortChecksRevision <- TRUE,
  NoThread <- None, NoReturn <- None, NoAudit <- None

(* One execution that may be told of one fact at a time. *)
VARIABLES clock, lease, override, timer, facts, lastSeen, handedOff, began, asked, verdict,
          starts

leaseVars ==
  <<clock, lease, override, timer, facts, lastSeen, handedOff, began, asked, verdict, starts>>

Lease == INSTANCE SupervisionLease WITH
  LunaTotal <- 1, TerraInactivity <- 2, MaxClock <- 3, MaxLeases <- 1, MaxFacts <- 1

(* Two tickets and two clients that ask the same question. *)
VARIABLES byCorrelation, byTicket, clientPlans, requestFor, rendered, receipts, opened, lanes

questionVars ==
  <<byCorrelation, byTicket, clientPlans, requestFor, rendered, receipts, opened, lanes>>

Question == INSTANCE PrivateRouter WITH
  Tickets <- {t1, t2}, Owners <- {o1}, PlannedOwner <- o1, Terms <- {m},
  Registered <- {<<t, o1, m>> : t \in {t1, t2}},
  Clients <- {"a", "b"}, Asks <- {"k"}, Confirms <- {"f"}, RequestIds <- {1, 2},
  MaxOpenings <- 1, plans <- clientPlans

(* The lanes of a planned project whose executor returns what is expected. *)
VARIABLES stage, mode, steps, next, authority, latest, expected, openFor, approved,
          confirmed, audited

runVars ==
  <<stage, mode, steps, next, authority, latest, expected, openFor, approved, confirmed,
    audited>>

Run == INSTANCE ProjectLifecycle WITH
  Tickets <- {t1}, Owners <- {o1}, PlannedOwner <- o1, Terms <- {m}, TheTerms <- m,
  Registered <- {<<t1, o1, m>>}, Planning <- "planning", Question1 <- q1,
  MaxAutoSteps <- 2, Obedient <- TRUE,
  event <- next, decision <- latest, pending <- openFor

(* A round that may be sent two signals and lose a worker. *)
VARIABLES input, queue, history, scheduled, answered, wf, at, submitted, crashes

roundVars == <<input, queue, history, scheduled, answered, wf, at, submitted, crashes>>

Round == INSTANCE ApprovalRound WITH
  Tickets <- {t1}, Owners <- {o1}, PlannedOwner <- o1, Terms <- {m}, TheTicket <- t1,
  TheTerms <- m, TheQuestion <- q1, Registered <- {}, MaxSignals <- 2, MaxCrashes <- 1

-----------------------------------------------------------------------------
VARIABLE moving

allVars == <<moving, vars, integrationVars, leaseVars, questionVars, runVars, roundVars>>

MCInit ==
  /\ moving \in {"replacement", "integration", "lease", "question", "run", "round"}
  /\ Init /\ Integration!Init /\ Lease!Init /\ Question!Init /\ Run!Init /\ Round!Init
  /\ moving # "integration" => woken = {} /\ main.clean /\ ~main.conflict
  /\ moving # "round" => input = CHOOSE i \in Round!Inputs : TRUE

MCNext ==
  /\ UNCHANGED moving
  /\ \/ /\ moving = "replacement" /\ Next
        /\ UNCHANGED <<integrationVars, leaseVars, questionVars, runVars, roundVars>>
     \/ /\ moving = "integration" /\ Integration!Next
        /\ UNCHANGED <<vars, leaseVars, questionVars, runVars, roundVars>>
     \/ /\ moving = "lease" /\ Lease!Next
        /\ UNCHANGED <<vars, integrationVars, questionVars, runVars, roundVars>>
     \/ /\ moving = "question" /\ Question!Next
        /\ UNCHANGED <<vars, integrationVars, leaseVars, runVars, roundVars>>
     \/ /\ moving = "run" /\ Run!Next
        /\ UNCHANGED <<vars, integrationVars, leaseVars, questionVars, roundVars>>
     \/ /\ moving = "round" /\ Round!Next
        /\ UNCHANGED <<vars, integrationVars, leaseVars, questionVars, runVars>>

MCSpec == MCInit /\ [][MCNext]_allVars

-----------------------------------------------------------------------------
(* A replacement that was planned for an execution the host may still       *)
(* enable ends.                                                             *)
ReplacementsEnd == Fairness => ReplacementEnds

(* Every call of the coordinator returns, and a pending audit is accepted   *)
(* by a sink that recovers.                                                 *)
IntegrationGoesOn ==
  moving = "integration" /\ Integration!Fairness =>
    Integration!CallsReturn /\ Integration!PendingAuditDelivered

(* A role that stays silent past its deadline is noticed.                   *)
SilenceIsNoticed == moving = "lease" /\ Lease!Fairness => Lease!SilenceIsNoticed

(* No question stays open for good.                                         *)
QuestionCloses == moving = "question" /\ Question!Fairness => Question!QuestionCloses

(* No run goes on for ever.                                                 *)
RunsEnd == moving = "run" /\ Run!Fairness => Run!RunsEnd

(* A round that was sent a signal ends.                                     *)
SignalEndsWait == moving = "round" /\ Round!Fairness => Round!SignalEndsWait

=============================================================================
