----------------------------- MODULE ApprovalRound -----------------------------
(***************************************************************************)
(* temporal_runtime.py: one router round as a durable workflow that waits  *)
(* for a human's approval or denial, and graph.py's reading of a decision. *)
(*                                                                         *)
(* Temporal is external and modelled from its use: what happens to the     *)
(* workflow is recorded and handed to a worker in batches, the signals of a *)
(* batch before the workflow goes on; a worker that is lost is replaced by *)
(* one that replays the recorded batches; an activity is executed until it *)
(* has answered.  route_round is pure, so an execution whose answer is lost *)
(* leaves no trace.                                                        *)
(***************************************************************************)
EXTENDS RouterEngine, FiniteSetsExt, Sequences

CONSTANTS
  TheTicket, TheTerms, TheQuestion,
  MaxSignals,     \* bound of the signals submitted
  MaxCrashes      \* bound of the workers lost

(* ApprovalSignal.authority_matches_approval_event *)
Signals == {"APPROVAL_GRANTED", "APPROVAL_DENIED"}
AuthorityOf(signal) == IF signal = "APPROVAL_GRANTED" THEN "APPROVED" ELSE "DENIED"

(* RouterDecision, where nothing is registered and so no lane is planned.   *)
Decisions ==
  [outcome : {"ADVANCE", "RETRY", "SUSPEND", "STOP"},
   continuation : {"AUTO_CONTINUE", "WAIT_FOR_HUMAN", "HALT"},
   next : Stages \cup {"none"}, pending : {None}, lane : {None}, expected : SUBSET EventKinds]

(* RouterEngine() is given no registry; None is a missing signal, and a     *)
(* missing decision.                                                        *)
ApprovalAssumption ==
  /\ Registered = {}
  /\ TheTicket \in Tickets /\ TheTerms \in Terms
  /\ None \notin Signals \cup Decisions
  /\ MaxSignals \in Nat /\ MaxCrashes \in Nat

(* RouterRoundInput: any declared transition, with its sources or without. *)
Available ==
  {[kind |-> k, id |-> IF k = "TICKET" THEN TheTicket ELSE k] : k \in ArtifactKinds}

AskEvent ==
  [PlainEvent("TICKET_DISPATCH_REQUIRED") EXCEPT
     !.proposal = [ticket |-> TheTicket, question |-> TheQuestion, owner |-> PlannedOwner,
                   opened |-> TRUE],
     !.handoff = [ticket |-> TheTicket, owner |-> PlannedOwner, terms |-> TheTerms]]

Inputs ==
  {[state |-> PlainState(r.stage, "NOT_REQUIRED", sources),
    event |-> IF r.handoff THEN AskEvent ELSE PlainEvent(r.event)] :
     r \in Rules, sources \in {Available, {}}}

VARIABLES
  input,      \* the argument of run
  queue,      \* recorded and not yet handed to a worker: signals and answers
  history,    \* the batches handed to a worker
  scheduled,  \* the activities asked for, each by the signal it was asked with
  answered,   \* how many of them have answered
  wf,         \* the workflow object of the current worker
  at,         \* the batches that worker has applied
  submitted,  \* bound: the signals submitted
  crashes     \* bound: the workers lost

vars == <<input, queue, history, scheduled, answered, wf, at, submitted, crashes>>

(* RouterApprovalWorkflow.__init__; used is run's local approval. *)
Fresh == [pc |-> "start", pending |-> None, approval |-> None, used |-> None, result |-> None]

Init ==
  /\ input \in Inputs
  /\ queue = <<>> /\ history = <<>> /\ scheduled = <<>> /\ answered = 0
  /\ wf = Fresh /\ at = 0
  /\ submitted = 0 /\ crashes = 0

-----------------------------------------------------------------------------
(* route_round *)
RoundOf(signal) ==
  IF signal = None THEN Decide(input.state, input.event)
  ELSE Decide([input.state EXCEPT !.authority = AuthorityOf(signal)], PlainEvent(signal))

(* What is recorded: a signal or an answer. *)
Event(signal, answer) == [signal |-> signal, answer |-> answer]
IsSignal(x) == x.signal # None

SignalsOf(batch) == {i \in DOMAIN batch : IsSignal(batch[i])}

(* Fault: the first signal is kept. *)
WithFirstSignal(w, batch) ==
  IF SignalsOf(batch) = {} \/ w.approval # None THEN w
  ELSE [w EXCEPT !.approval = batch[Min(SignalsOf(batch))].signal]

(* submit_approval: the last signal of a batch is kept. *)
WithSignals(w, batch) ==
  IF SignalsOf(batch) = {} THEN w
  ELSE [w EXCEPT !.approval = batch[Max(SignalsOf(batch))].signal]

(* The answer of a batch; at most one activity is under way. *)
AnswerOf(batch) ==
  IF \E i \in DOMAIN batch : ~IsSignal(batch[i])
  THEN (CHOOSE x \in {batch[i] : i \in DOMAIN batch} : ~IsSignal(x)).answer ELSE None

(* Fault: a signal that came before the wait is cleared when it begins. *)
WaitClearing(w, d) == [w EXCEPT !.pc = "waiting", !.pending = d, !.approval = None]

Wait(w, d) == [w EXCEPT !.pc = "waiting", !.pending = d]

(* The wait ends as soon as there is a signal. *)
Resume(w) ==
  IF w.pc = "waiting" /\ w.approval # None
  THEN [w EXCEPT !.pc = "resuming", !.used = w.approval] ELSE w

(* run, from where it stands to its next await. *)
Run(w, answer) ==
  CASE w.pc = "start" -> [w EXCEPT !.pc = "routing"]
    [] w.pc = "routing" /\ answer # None ->
         IF answer.continuation # "WAIT_FOR_HUMAN"
         THEN [w EXCEPT !.pc = "done", !.result = answer]
         ELSE Resume(Wait(w, answer))
    [] w.pc = "resuming" /\ answer # None -> [w EXCEPT !.pc = "done", !.result = answer]
    [] OTHER -> Resume(w)

(* Fault: the second round is asked for with the signal that came last. *)
ActivateRereading(w, batch) ==
  LET r == Run(WithSignals(w, batch), AnswerOf(batch))
  IN  IF r.used # None THEN [r EXCEPT !.used = r.approval] ELSE r

Activate(w, batch) == Run(WithSignals(w, batch), AnswerOf(batch))

-----------------------------------------------------------------------------
Submit(signal) ==
  /\ submitted < MaxSignals /\ wf.pc # "done"
  /\ queue' = Append(queue, Event(signal, None))
  /\ submitted' = submitted + 1
  /\ UNCHANGED <<input, history, scheduled, answered, wf, at, crashes>>

Execute ==
  /\ answered < Len(scheduled)
  /\ queue' = Append(queue, Event(None, RoundOf(scheduled[answered + 1])))
  /\ answered' = answered + 1
  /\ UNCHANGED <<input, history, scheduled, wf, at, submitted, crashes>>

(* A worker that is up to date is given what was recorded since, and the    *)
(* activity it asks for is recorded with it.                                *)
Deliver ==
  /\ at = Len(history)
  /\ queue # <<>> \/ history = <<>>
  /\ LET next == Activate(wf, queue)
     IN  /\ wf' = next
         /\ scheduled' = IF next.pc # wf.pc /\ next.pc \in {"routing", "resuming"}
                         THEN Append(scheduled, next.used) ELSE scheduled
  /\ history' = Append(history, queue)
  /\ at' = at + 1
  /\ queue' = <<>>
  /\ UNCHANGED <<input, answered, submitted, crashes>>

Replay ==
  /\ at < Len(history)
  /\ wf' = Activate(wf, history[at + 1])
  /\ at' = at + 1
  /\ UNCHANGED <<input, queue, history, scheduled, answered, submitted, crashes>>

Crash ==
  /\ crashes < MaxCrashes /\ at > 0
  /\ wf' = Fresh /\ at' = 0
  /\ crashes' = crashes + 1
  /\ UNCHANGED <<input, queue, history, scheduled, answered, submitted>>

Next == (\E signal \in Signals : Submit(signal)) \/ Execute \/ Deliver \/ Replay \/ Crash

Spec == Init /\ [][Next]_vars

(* Temporal executes activities and keeps a worker on the workflow. *)
Fairness == WF_vars(Execute) /\ WF_vars(Deliver) /\ WF_vars(Replay)
FairSpec == Spec /\ Fairness

-----------------------------------------------------------------------------
(* graph.py select_terminal *)
Terminal(d) ==
  CASE d = None -> "halted"
    [] d.continuation = "AUTO_CONTINUE" -> "continue"
    [] d.continuation = "WAIT_FOR_HUMAN" -> "waiting"
    [] OTHER -> "halted"

TypeOK ==
  /\ wf.pc \in {"start", "routing", "waiting", "resuming", "done"}
  /\ {wf.approval, wf.used} \subseteq Signals \cup {None}
  /\ wf.pending # None => Terminal(wf.pending) = "waiting"
  /\ wf.result # None => ValidDecision(wf.result)
  /\ at \in 0..Len(history) /\ answered \in 0..Len(scheduled)

(* Of the signals in the batches the worker has applied, the last one is    *)
(* what the workflow goes on with.                                          *)
UsesLastWord ==
  \E b \in 1..at : \E i \in SignalsOf(history[b]) :
    /\ history[b][i].signal = wf.used
    /\ \A c \in b..at : \A j \in SignalsOf(history[c]) : c = b /\ j <= i

(* Only a grant, and of a specification, gets a waiting round past its      *)
(* gate: when the human's last word before the workflow went on was a       *)
(* denial, or the wait was for something else, the round ends halted.       *)
GateNeedsGrant ==
  wf.pc = "done" /\ wf.pending # None =>
    /\ Terminal(wf.result) = "continue" <=>
         wf.used = "APPROVAL_GRANTED" /\ input.state.stage = "SPEC"
    /\ Terminal(wf.result) # "waiting"

(* The workflow goes on with the last signal it had been handed.            *)
LastWordCounts ==
  [][wf'.pc = "resuming" /\ wf.pc # "resuming" => UsesLastWord']_vars

(* A worker that replays asks for the same second round as the one it       *)
(* replaces, although signals went on coming: there is one, with one signal. *)
ReplayAgrees ==
  /\ Len(scheduled) <= 2
  /\ wf.used # None => Len(scheduled) = 2 /\ scheduled[2] = wf.used

(* A round is decided once, by the word it replays with. *)
RoundIsSound == TypeOK /\ GateNeedsGrant /\ ReplayAgrees

(* A signal is never lost, even one that comes before the first round has   *)
(* answered or while a worker is replaced: the round ends.                  *)
SignalEndsWait == submitted > 0 ~> wf.pc = "done"

=============================================================================
