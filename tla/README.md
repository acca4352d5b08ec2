# Verification of the reusable capability library

This directory holds the TLA+ development kept beside `src/`: modules that
model components of the library, TLC configurations that check them on small
instances, and TLAPS proofs of what matters most for every instance. Every
definition is read from the Python source; `PROJECT.json` maps it to the lines.

Contents: [inventory](#inventory) · [plan](#plan) · [modules](#what-is-modelled)
· [runs](#runs) · [findings](#findings) · [proofs](#what-is-proved) ·
[limits](#what-is-not-modelled)

## Inventory

The repository is a Python library of independent capabilities. Almost all of
it is written as immutable values: an operation returns a new value and the
caller adopts it. The exceptions keep mutable state and call injected ports.
There is no test suite for the Python code in the repository.

### `library/workflow_router/`

| component | state | operations | hard behaviour | correct when |
|---|---|---|---|---|
| **Guarded integration** (`guarded_integration.py`) | main snapshot, seen correlations and event ids, one pending audit and its delivery state, dependent proposals | `handle_return`, `retry_pending_audit`, `handle_audit`, the Router adapter | threads; only the audit admission is locked, the integration lock never waits; the port, the lock, the sink and the event source may raise | a return is integrated once, onto the revision it was written for, with no audit pending; its audit is requested once and decided after that |
| Workflow router (`router.py`, `profile.py`, `policy_response.py`) | Router state (stage, lanes, authority), citation ledger, context leases | `RouterEngine.decide`, `decide_shared_context_access`, `decide_agent_context_transition`, `CitationLedger` | order of the guards; leases that close and are reopened | no stage is skipped, no grant without authority, one writer of a shared context |
| Router graph and approval workflow (`graph.py`, `temporal_runtime.py`) | pending decision, last approval signal | `run`, `submit_approval`, `pending_decision` | the signal may come before the wait, or twice | a suspended round resumes once, with an approval given for it |
| Private router (`private_router.py`) | service: pending dispatches by correlation and by ticket; client: local dispatch plans, accepted correlations | `decide`, `route`, `render_dispatch_response`, `run_until_pause` | confirmations lost, repeated or refused; the continuation loop is bounded | a dispatch is confirmed once, a refused one is cleared or retryable as the profile says |
| Execution replacement (`execution_replacement.py`) | binding and receipt life cycles | plan, complete, rebind, close, `validate_execution_event` | two plans from one binding; completion after close | one active writer per ticket |
| Supervision policy (`supervision_policy.py`, `supervision_runtime_contracts.py`, `deadline_contracts.py`) | one lease per supervised role | start, reduce, close, ticket repair | timers of an old lease; an observation at the deadline | a lease ends once, and not while activity keeps it alive |
| Wake, supervision, review contracts (`role_wake_contracts.py`, `role_supervision_contracts.py`, `review_inbox_contracts.py`) | none | validators | dependency graphs | rejected graphs are the cyclic ones |
| Dispatch and host contracts (`contracts.py`, `thread_*`, `live_dispatch_contracts.py`, `git_handoff_contracts.py`) | none | validators | cross-field agreement | — |
| Telemetry, context load, artifact tree, requirement lineage, target documents | none | pure functions | — | agree with their definitions |
| Library selection, readiness, collaboration, integrations | none | small adapters | — | — |

### `library/功能集群/` (feature cluster)

| component | state | operations | hard behaviour | correct when |
|---|---|---|---|---|
| **Reliability core** (`reliability_core.py`) | snapshot: jobs, audit entries, stop switch | `enqueue`, `claim`, `process_claimed`, `activate_emergency_stop` | a sender that raises after it was asked; the stop between claim and delivery; callers on old snapshots | a key is delivered at most once, the stop is complete, the log explains every job |
| Engagement rules (`engagement_rules.py`) | member state: qualification, progress, rewards, event ids | `evaluate` | repeated and rejected events, limits | limits hold and a repeated event changes nothing |
| Event timeline audit (`event_timeline_audit.py`) | audit of one replay | replay | conflicting ids, events out of order | the result depends on the accepted events only |
| Identity resolution, LINE transport | directory; fake transport | lookup, send | — | unknown identities are refused |
| Offline geo resolution (Kotlin) | none | lookup | — | has its own tests |

### `library/金流串接/` (payments) and `library/NLP/`

| component | state | operations | hard behaviour | correct when |
|---|---|---|---|---|
| **Payment contracts, subscription ledger** (`contracts.py`, `ledger.py`) | intent status; append-only events | confirm, cancel, refund, expire | old intent values, several keys per intent, shared entitlement ids | one grant per key, refund after confirm, at most once |
| **Reconciliation** (`reconciliation.py`) and provider ports | journal of applied events | `reconcile_provider_event` | provider events lost, repeated, out of order, contradicting | journal and ledger agree; what cannot be applied goes to review |
| NLP contracts, rule parser, ports | none | text functions | strings | outside this development |

How they interact: the Router engine decides a stage and the private router
carries the decision to a host; implementation returns come back as events to
the guarded integration coordinator, which asks the injected Git port to
integrate, wakes dependent proposals and hands `INTEGRATION_COMPLETED` and
`AUDIT_COMPLETED` events back to the Router. Supervision and replacement watch
the executions in between. Payments: a provider event reaches reconciliation,
which calls the ledger and records the event in its journal. The other
components are used alone.

## Plan

The order was the most consequential and least testable behaviour first:
guarded integration, outbox, payments, supervision, replacement, private
router, router engine with its lanes and contexts, approval rounds, engagement
and timeline. All of these have modules, and every safety and action property a run
checks has a proof. What is left are pure algorithms against reference
definitions: the dependency graph check of the review inbox, the artifact tree,
the requirement lineage.

## What is modelled

### `GuardedIntegration.tla`

A thread calls `handle_return`, `retry_pending_audit` or `handle_audit`. Its
program counter `pc[t]` names the next step of the call, and there is a step
for each access to shared state and for each port call, so that the calls of
different threads interleave wherever the Python code holds no lock. The
coordinator's attributes are `main`, `seen`, `seenEvents`, `pending`,
`delivery` and `woken` (the proposals in state WOKEN); `repo` and `lock` are
the ports' own state; `event`, `audit`, `view`, `awoken`, `decision` are the
call's locals and result; `integrated`, `requested`, `announced`, `reviewed`
and `corrected` record what the ports and the Router were told.

| code | actions |
|---|---|
| refusals before shared state is read (lines 397–423) | `RejectReturn` |
| `handle_return`, guards (424–435) | `HandleReturn`, `CheckDuplicate`, `CheckPending`, `Admit`, `CheckRevision`, `CheckClean` |
| lock and port (436–481) | `TryAcquire`, `IntegrationCompletes`, `IntegrationFails` |
| result (482–490) and `finally` (491–498) | `PublishMain`, `OpenAudit`, `ReleaseLock` |
| `retry_pending_audit` (500–537) | `RetryPendingAudit`, `AdmitDelivery`, `RequestAudit`, `RequestAuditRaises`, `MarkRetryable`, `MarkDelivered`, `ScanProposals`, `WakeDependents` |
| `handle_audit` (539–572) | `AuditRefused`, `HandleAudit` |

Abstractions: the fingerprints, owners, reviewers and context ids a return must
match are folded into `MatchesTrustedDispatch`; the halt errors into one
decision; the two set additions of lines 428–429 are one step, as is the
membership test of line 424. The port integrates with a fresh revision, refuses,
raises, or raises after its work was done. With `PortChecksRevision` the port
itself refuses a stale expected revision, which nothing in the repository
requires of it.

`Returners` is the set of threads that handle returns. Several properties need
it to have one member; the runs with two show what is lost.

`AuditGate.tla` states what the planner is promised: one return at a time is
integrated, delivered and then decided, and each passes the gate once.

### `ReliabilityCore.tla`

Each operation is a function from a snapshot to the next (`Enqueued`,
`Claimed`, `Completed`, `Failed`, `Stopped`) with its acceptance condition
(`MayEnqueue`, ...): a refused call returns the snapshot it was given, so it is
a stuttering step. `core` is the snapshot the caller has adopted, `attempts`
counts how often the sender was asked. A job's id is its position. Audit
entries are kept per job, in sequence order, since no property compares entries
of different jobs. `ProcessRaises` is a sender that was asked and then raised,
or answered with neither result type: no next snapshot exists. `RaisingKeys` are
the keys for which it may; nothing bounds how often a job with such a key is
handed over, so the promise is one to the others.

`OutboxPromise.tla` states the promise for a key: taken once, then delivered
once or blocked by the stop, which is final.

### `PaymentLedger.tla`, `Reconciliation.tla`

`PaymentLedger` holds the ledger's operations as functions from one sequence of
facts to the next, with their acceptance conditions, as in the outbox.
`Reconciliation` is the state machine: `ledger` and `journal` are the snapshots
the caller has adopted, `values` the intent values in callers' hands. Intents
are immutable, so every value ever returned may be presented again, together
with any event the provider may emit: `ReconcileConfirmed` and
`ReconcileRefunded` are the two ways `reconcile_provider_event` applies an event,
and `ConfirmPayment`, `CancelPayment`, `RefundPayment`, `ExpireEntitlement` the
direct calls. All answers that change nothing (review, already processed,
rejected) are the absence of a step; `Replayed` and `Conflicts` say when they are
given. `Restored` are orders of which a caller holds a confirmed value from
before, and `PaymentLifecycle` is promised to the intents that are in no such
value (`NotRestored`); `Issues` lets a provider give one outcome two event ids, which its port
does not exclude. `LatestIs` is `latest_final_state` as a predicate. Amounts and
provider failures change no state here and are left out.

`PaymentLifecycle.tla` states what a payment (an intent under a key) promises:
the transitions of `can_transition_to`, one settled payment per key, one refund
per intent.

### `SupervisionLease.tla`

`Start`, `Reduce(f)` (with one action for each decision of the reducer: `RejectFact`,
`RecordActivity`, `WakeReviewer`, `FindTicketDefect`, `ContinueImplementation`, `FindModelInsufficient`,
`HandOff`), `CloseLease` and `RepairTicket` change the lease. `Tick`,
`ArmDeadline`, `Fire` and `CancelDeadline` are the clock and the one-shot timer
of `deadline_contracts.py`. Facts occur at an instant, stay in `facts` and may
be reduced late, in any order, again, or lost. The composition
that holds lease and timer is not in the repository. A diagnosis told again at
the lease's origin counts as a second one, a late handoff older than the origin
is rejected, a rejection names no override whatever the ticket's is, and
`close_supervision_lease` leaves the override of the ticket as it is: the model
does the same. `SilenceWatch.tla` is the promise: a watch ends
once, after at most one continuation.

### `ExecutionReplacement.tla`

Bindings and plans are values, kept in the sets of all values ever returned.
`PlanReplacement`, `CompleteReplacement`, `RebindModel`, `CloseBinding` are the
operations; `Commit`, `DisableWriter` and `EnableWriter` are what the writers
and the host do in between. A writer writes from when the host enables it until
the host disables it, in both modes: it obeys no freeze, and a candidate enabled
early does not wait. Any reference may be a candidate's, that of an ended
execution or the current one's own included, and an old readback of it is
accepted as the code accepts it; the host does not enable again what it revoked.
With `Adopting` a caller goes on from the values it was returned and records the
commits of the active execution; without it any old value may be presented
again, and a commit may stay unrecorded. `head` is the latest commit of anybody,
`granted` the latest recorded of an active binding: `SuccessionIsClean` promises
the second to the successor, not the first. `WriterSuccession.tla` is the
promise of adopting callers.

### `RouterEngine.tla`

`RouterEngine.decide` as an operator `Decide(state, event)` over the whole
transition table of `profile.py` (`DiscoveryRules`, `SpecificationRules`,
`DeliveryRules`), with its blockers, the human gate, the evidence, the dispatch
proposal and the receipt. Which of several blockers is reported is left out.
`Terms` is what the proposal, the pending question and the receipt have in
common: handoff reference and expected main revision. The reviewed commits and
the control and review roles are in the handoff only; `Approves` stands for the
registry that opening a question checks them against, and `ReceiptMatches`
compares what the code compares.
Three modules use it:

- `PrivateRouter.tla`: the service's two indexes of pending dispatches and the
  clients' plans. A call of `route` is one step, in which the request or the
  answer may be lost; several clients ask about the same tickets.
  `DispatchDesk.tla` is the promise per ticket.
- `ProjectLifecycle.tla`: `AutomaticContinuationRunner` over the planning lane
  and one lane per ticket: `Route` (which goes on, waits
  or halts), `Execute`, and what people answer.
  The executor returns any event, or with `Obedient` one that the last decision
  expects. `DeliveryGates.tla` is the promise: specification, dispatch, check and
  review gates in order.
- `ApprovalRound.tla`: `RouterApprovalWorkflow` with signals at any time, the
  recorded history, a worker that is lost and the one that replays.

### `SharedContext.tla`, `AgentContext.tla`, `Citations.tla`

The gates `decide_shared_context_access` and `decide_agent_context_transition`
as operators `Decide`, asked by callers with what they read or were leased
earlier; the host that keeps the current state is external and gives it to each
decision. An agent may name any candidate lease in any request the contract
admits. `WorkingView.tla` is the promise of the second: a view that ended is
never used again, provided the host does not give an ended side context out
again (`FreshIds`) and puts ended leases away. `Citations` is the resolver and the
`CitationLedger`: consumers resolve, close, restart, look up the mappings of a
revision and invalidate those of a source, and close again whatever copy any of
these handed them; sources are revised.

### `EngagementRules.tla`, `TimelineReplay.tla`

`Evaluate` is `EngagementPolicyCatalog.evaluate` with every rejection, over
events delivered in any order, again, under two kinds and with another policy's
state. `Replay` is `replay_timeline` as a recursive function, with the summary
and the fingerprint (two audits have one fingerprint when their canonical rows
agree); `Record` lets the sequence grow and all of it be replayed.

## Runs

The components of a run that are named together share nothing, so the run puts
them side by side: a variable `moving` says which of them takes all the steps,
and the others rest in an initial state. Its behaviours are those of each
component alone, and its state space is the sum of theirs, not the product.

| run | instance | shows |
|---|---|---|
| `one_returner` | one returner and one retrying/auditing thread; five returns: a redelivery under another event id, a reused event id, a follow-up, a stale and an unconfirmed one | types; every guard still holds when the port runs; the pending audit names main; one request, one event; refinement of `AuditGate` |
| `racing_returners` | two returners, three returns, a port that does not check | what the lock alone gives: exclusion, and a main snapshot that never goes back |
| `outbox` | three keys, for one of which the sender may raise, two workers, at most three attempts per job | log, single delivery, complete stop, refinement of `OutboxPromise`; the log bounds the attempts |
| `payments` | five orders: two intents under two keys each, a key under three intents; three transactions of one payment and one of two, a confirmed value from elsewhere, two event ids per outcome | keys and refunds; an event answered as processed was applied; ledger and journal agree; refinement of `PaymentLifecycle` |
| `supervision` | a lease with two facts in flight, clock to 4, two leases in a row; beside it three writers of which any value is presented again | leases end in time, refinement of `SilenceWatch`; no replaced writer goes on writing |
| `routing` | two tickets, two questions, two terms, one client whose calls are lost; beside it a round with three signals and two lost workers, and two agents with three lanes, three side contexts and two sources | the indexes agree, lanes are answered, refinement of `DispatchDesk`; the last signal counts and a replay agrees; refinement of `WorkingView`, and who lost a lease is refused |
| `lifecycle_any_executor` | the planning lane and a ticket, any executor, a ceiling of one step | refinement of `DeliveryGates` |
| `obedient_executor` | the planning lane and a ticket, an executor that returns what is expected, a ceiling of two steps | what an executor is told to return is routed |
| `records` | two policies and events under six ids; timelines of up to four events; two architects and a reviewer over two manifests; one consumer and two sources | each record stays consistent |
| `progress` | one small instance of six components | liveness, and what an adopting caller is promised |
| `lost_wake`, `router_replayed_receipt` | smallest instances with the defect | see [Findings](#findings) |

Several properties are conjunctions, each with its parts named in the module:
`IntegratesInTurn`, `LeaseEndsInTime`, `SuccessionIsClean`, `QuestionsAgree`,
`RoundIsSound`, `RoutesWhatItExpects`, `LeasesChangeHands`, `CountsAreSound`,
`AuditExplains`, `ContextIsControlled`, `InvalidationHolds`,
`AccountsAgree`, `AuditBoundsDeliveries`, `IntegrationGoesOn`. The type invariant of a
module is one of the parts.

Bounds. Revisions grow only by an integration and every return is integrated at
most a few times. Two threads suffice for the races: each hazard listed is
between two calls; three returns give a predecessor, a competitor for the same
revision and a successor. `MaxAttempts` bounds a raising sender's attempts.
Five orders let an intent, a key and a transaction be shared, by payments with a
confirmed value from elsewhere among them and by others without;
keys, refunds, expiries and the outcomes of a transaction are each used up, so
ledger and journal need no bound. `MaxClock`, `MaxLeases` and `MaxFacts` give a
lease an expiry, a renewal, a diagnosis and a late fact, and a second lease to
confuse it with. `MaxOpenings` opens a question again after it was answered.
`MaxSignals` and `MaxCrashes` give a signal before the wait, one during it and
one while a worker replays. `MaxCommits` and `MaxPlans` give a commit before and
after a checkpoint and a second plan from the same binding. `MaxEditions` opens
the shared context again once, `MaxRevision` revises each source once,
which with one event and one consumer already gives open, closed and invalidated
copies of each reference,
`MaxEvents` reaches the end of a timeline. An engagement needs no bound: each of
its six event ids counts once, enough to reach both limits and be refused after.
`MaxAutoSteps` is the runner's ceiling, which the property about it counts.

Runs do not check deadlock where the system may stop: all keys used, all returns
spent, a project delivered, a wait that no human answers.

Fairness is stated by each module as `Fairness` and is the assumption of its own
liveness property (`moving = "lease" /\ Lease!Fairness => ...`):

- `GuardedIntegration`: a started call goes on, because its thread is scheduled
  and the ports answer or raise (weak); some thread keeps calling
  `retry_pending_audit`, which is what the method is for (weak); the sink does
  not refuse for ever (strong fairness of `RequestAudit`). Nobody has to start a
  return or an audit decision.
- `SupervisionLease`: time passes, a lease is armed, the timer fires and its
  signal is reduced in the end. Activity and reviewers may stay away.
- `ExecutionReplacement`: the host carries out a plan and its caller completes
  it; nobody has to plan. `ReplacementEnds` speaks of the plans whose candidate
  the host may enable: one that it revoked before, or that is the current
  writer itself, is never read back as enabled, or not as disabled with it.
- `PrivateRouter`: for an open question some client's denial is answered in the
  end; it need not be the client that asked, and a confirmation may never come.
- `ProjectLifecycle`: a run that may go on does; humans need not answer.
- `ApprovalRound`: an activity answers, records are delivered and a new worker
  replays; losses are bounded by `MaxCrashes`. A wait without a signal lasts,
  by design.

Every property has a mutant in `PROJECT.json`: a definition the module keeps
beside the real one, marked `Fault`, with the change a plausible bug would make.

## Findings

- `lost_wake`: `_wake_dependents` rebuilds the proposals tuple outside the
  admission lock; a delivery that read the old tuple puts a woken proposal back
  to planned, although "unrelated work remains untouched".
- `router_replayed_receipt`: a consumed receipt is forgotten with its question;
  when the same question is asked again, the old receipt grants a second lane,
  although `router-control.md:98` lets only an unconsumed receipt be consumed.

Other places where a text says more than the code does. They were met while
modelling; the model follows the code, and no run is kept for them:

- with two returners one correlation may be admitted and integrated twice
  (`guarded_integration.py:424`), a return integrated that was written for an
  older main (line 430, if the port does not check), and an audit replaced by
  another or requested twice (line 426), against "Queue exactly one typed audit
  request", line 338: the properties of `one_returner` say nothing of these;
- a failing `release` turns a delivery that woke proposals into a halt
  (`guarded_integration.py:496` against line 278);
- with one transaction for several intents, the second confirmation is answered
  as processed and not applied (`reconciliation.py:91` against line 87), as
  `FakePaymentProvider` would cause (`fake_provider.py:55`); the same loss is why
  `ReplayIsApplied` speaks only of payments with a transaction of their own;
- a client renders a plan whose question the service has discarded
  (`private_router.py:842` against line 893);
- the owner may be asked for information without end (`profile.py:637` against
  `router-control.md:74`);
- a draft is revised without an approved change (`router.py:522` against
  `router-control.md:52`);
- after two switches the side context of the first lease is accepted again
  (`router.py:868` against `agent-context-lifecycle.md:20`);
- what a frozen writer commits between the plan and its revocation is left out by
  the successor, which starts from the checkpoint of the plan
  (`execution_replacement.py:561` against "freeze the old writer pending proven
  revocation", line 392, where nothing but the binding's value is frozen);
- closing a reference a second time with the open copy raises (`router.py:1105`
  against "idempotently", line 1100), and a first close after the invalidation
  is recorded as closed;
- `invalidate_source` and `references_for_source` hand out copies that say
  INVALIDATED; closing one equals its record, passes the guard and puts the
  record back to CLOSED (`router.py:1107` against "Invalidate all mappings for
  the same logical source", line 1120). `NoOldCopyRevives` excludes this way and
  shows that there is no other;
- the fingerprint writes an unknown code spelled like a kind as that kind
  (`event_timeline_audit.py:421` against line 54).

Behaviour that no text settles: a return is spent by its first admission even
when a later guard refuses it; an event that came too early in a timeline keeps
its id, so that it is a duplicate when it comes again in its place, while the
engagement rules keep the id of an accepted event only; two replacement plans
made from one active value both complete once its writer is revoked, and two
bindings are active; at the ceiling a run stops with a granted decision that was
not followed; a `STOP` reaches the client of the private router as a halt.

## What is proved

TLAPS checks the theorems below for every value of the constants, under the
assumptions the modules state (`EngineAssumption`, `PrivateRouterAssumption`,
...); a composition states those of the components it instantiates
(`SupervisionAssumption`, `RecordsAssumption`, `RoundAssumption`,
`ContextAssumption`). Some of them say only that a value which stands for
"nothing" is not one of the values it is told apart from: `NoLeaseAssumption`,
`NoneAssumption`, `AskAssumption` and parts of `ApprovalAssumption` and
`ContextAssumption`. Hypotheses of a theorem that are more than that are named
with it. Each inductive invariant was checked by TLC before it was proved.

### `GuardedIntegrationProofs.tla`

- `TypeCorrect`, `Exclusive` and `MainGoesForward` for any number of threads.
  Exclusion needs `LockInv`: whoever is between acquire and release holds the
  lock, which a failing release never gives to another thread. That main never
  goes back is not inductive, since a thread publishes a revision it was given
  some steps earlier: `RevisionInv` says that an unpublished revision lies
  between main and the repository.
- Under `OneReturner` (at most one thread handles returns, any number retry and
  decide): `AuditNamesMain`, `GuardsHoldAtThePort` (integrated once, no
  integration while an audit is pending, nothing stale), `PendingAuditIsKept`,
  `AuditIsRequestedOnce`, `ReturnsTakeTurns`, `CoordinatorImplementsGate`. The
  inductive invariant (`GateInv`) records for each location of the returner what
  its earlier guards have established and no other thread can undo, who may be
  delivering which audit, and which correlations were integrated, requested and
  decided: the guards alone are not inductive because they are read steps before
  they are used. `AnnounceInv` adds, for the calls on their way out, that their
  audit was accepted, that nobody announced it and that no other call carries it.
  The run `racing_returners` and the findings show what is lost with two.

### `ReliabilityCoreProofs.tla`

- `OutboxTypeCorrect`, `AuditIsExplanation`, `StopLeavesNothing`, `OneDelivery`
  from one inductive invariant `IInv`: the log, the uniqueness of keys, the
  stop's completeness and the attempts have to be kept together, because the
  trail of a job tells which worker may end it and a claimed job after the stop
  would allow a delivery. `AdvanceStep` is the common step of claim, complete
  and fail.
- `LogBoundsDeliveries`, for every key, whether its sender answers or raises: a
  job whose log names no worker was never handed over, one reported delivered or
  failed was.
- `OutboxKeepsPromise`: every step is a step of `OutboxPromise`, for the keys
  whose sender answers, or a stutter. `FateOfJob` gives the mapping: with unique
  keys the fate of a key is the state of its only job.

### `ReconciliationProofs.tla`

For any orders however they share intents, keys and entitlements, and any
assignment of transactions:

- `PaymentsTypeCorrect`, `KeysAreSpentOnce`, `RefundsAreEarned`,
  `TransactionsNeverRegress` and `AccountsAlwaysAgree` (expiry once and after a
  grant; every journal record backed by a fact). `StepParts` splits a step into
  what it does to the ledger and to the journal, so that each invariant is proved
  over the four ways the ledger grows and the one way the journal does.
  `LastOutcome` is the fact about regression: a transaction with a record has a
  latest outcome.
- `ReplaysAreApplied`, whatever transactions other payments share; of those that
  share one it is false (see [Findings](#findings)). Its invariant
  `RecordsApplied` names the fact behind each record, where the property speaks
  of the events to come.
- `PaymentsFollowLifecycle`, the refinement of `PaymentLifecycle`. A confirmed
  value of another key, held from before, lets a refund be recorded for a payment
  that the ledger never confirmed, so the promise excludes the intents of such
  values, and what is done with them is a stutter (`RestoredStutters`). The
  invariant `HeldValuesPaid` ties the values in callers' hands to the ledger.

### `SupervisionProofs.tla`

The lease, for any durations and bounds:

- `LeaseTypeCorrect`, `HandoffEnds`, `ExpiryEarned`, `LeasesEndInTime` and the
  refinement `LeaseKeepsWatch`. `LeaseInv` adds to the types where the origin of
  a lease lies (`OriginsAreExact`: at the start for a Luna role, at the last
  counted activity for a Terra role, never in the future), without which "the
  deadline was due" says nothing about activity, and that a handoff leaves no
  defect to repair (`HandoffIsLast`).

The replacement:

- `ReplacementTypeCorrect` and `SilentPredecessors` for callers that present any
  old value: `SuccessionIsProven`, that a successor exists only of a writer
  proved silent, is the part that is inductive.
- With `Adopting`, `CleanSuccession` and the refinement `SuccessionIsKept`, for
  writers that write until they are disabled; `AdoptedInv` says that the caller
  holds one binding, that its last commit is the latest recorded one, and that
  every plan in use was made from it as it was frozen. A frozen writer's commits
  are not promised to the successor, here as in the code.

`SupervisionIsSafe` carries these over to the composition `MCSupervision`: a
step in which one of the two rests is a stutter of its specification.

### `RoutingProofs.tla`

- `QuestionsAlwaysAgree` and the refinement `RouterKeepsDesk`, for any clients,
  questions and lost calls. `QuestionsAgree` is inductive as it stands:
  agreement of the two indexes is what every operation of the service preserves.
  The lemmas on `Decide` (`AskDecided`, `ConfirmDecided`) say what the engine's
  answer to a question and to a receipt can be.
- `RoundsAreSound` and `LastWordAlwaysCounts`, for any number of signals and of
  lost workers. What a round decided is not to be read off its state: a worker
  that replays has a shorter past than the history. `RoundInv` therefore relates
  the workflow object of the worker to the one that a prefix of the history
  leads to. `Leads` is the chain of objects the recorded batches lead through,
  `Shaped` what each of them holds where it stands, `Heard` that it knows the
  last signal of the batches it has applied, and `Frontier` what is still to be
  handed over to a worker that has applied them all.
- `LeasesKeepHands` and `ViewsStayEnded`, for any agents, lanes, side contexts
  and sources, under `FreshIds`: a host that gives an ended side context out again
  revives the leases on it. `AgentInv` says that a side context tells apart the
  leases that can still be used: the one that works has not ended, and every
  other that an agent holds has. `LeaseStep` is what any of the transitions does
  to the leases (one rests, opens, is replaced, or ends), so that the two
  properties are proved over it and not over the gate's many answers.
- `RoutingIsSafe` states all six of the composition `MCRouting`.

### `ProjectLifecycleProofs.tla`

For any tickets, registry and ceiling:

- `LifecycleTypeCorrect` and the refinement `LifecycleKeepsGates`, for any
  executor. The transition table enters through lemmas that classify its rules
  (`RuleTable`: a rule goes on, waits, stops or dispatches) and from them every
  decision (`Decided`); no later step opens the table. `LifecycleInv` adds to
  the types what a lane may be routing and which gate that stands for
  (`RequestsEarned`), where an approval may be expected (`ExpectationsStand`),
  and that lanes at rest and lanes being built hold nothing they could pass a
  gate with later (`LanesRest`): a gate is opened when the request is made and
  passed rounds later.
- `ExpectedReturnsAreRouted`, for an obedient executor (`Obedient`) and
  registered tickets (`AllRegistered`). `FollowInv` says that whatever is
  expected, and whatever is being routed, has a rule at its stage with the
  authority, sources and question it demands; `ReturnsServed` is the agreement of
  `_POLICY_ROUTES` with the transition table.

### `RecordsProofs.tla`

- `CountsStaySound`, for any policies, limits and order of events.
  `EngagementInv` relates each counter to the set of ids that were counted and to
  what the caller was told, so that reaching a limit twice would need an id to
  count twice.
- `ContextStaysControlled`, for any callers, manifests and editions.
  `GrantsStand` says that a grant of the current edition was given for the
  manifest that is sealed now, which is why its readers agree.
- `NoOldCopyTakesItBack`, for any consumers, sources, token counts and budget. No
  more than the types (`CitedInv`) is needed: each way into the ledger is
  guarded by what it records of the reference, and the one way that takes an
  invalidation back is the close of the copy that says so.
- `AuditAlwaysExplains`, for timelines of any length, where no unknown code is
  spelled like a known kind (`Codes \cap EventKinds = {}`; see
  [Findings](#findings) for the other case). `TimelineInv` tells
  the replay from the events and not from the run, so that an appended event
  changes it by one entry. What holds of a replay of any length is proved by
  induction stated with a set of naturals (`SetInduction`). A fingerprint
  determines the audit because the rows are told apart place by place.
- `RecordsStayConsistent` states the four of the composition `MCRecords`.

### What the proofs found

`PendingFor` of `PrivateRouter` chose between two overlapping cases. Its
proof could not tell which is taken; the arms now exclude each other, in the
order in which the code tests them.

### Model-checked only

Liveness under fairness, which is outside the proof system's reach: the six
properties of `progress` that end in a leads-to or an eventuality
(`ReplacementsEnd`, `IntegrationGoesOn`, `SilenceIsNoticed`, `QuestionCloses`,
`RunsEnd`, `SignalEndsWait`). Every other property of a passing run is stated by
a theorem about the component's own specification; `SupervisionIsSafe`,
`RoutingIsSafe` and `RecordsStayConsistent` carry them over to the compositions
that the runs check.

## What is not modelled

- Interrupts that end a thread inside the sink's call (only `Exception` is
  caught there).
- Callers of the reliability core that keep an old snapshot. The payment models
  assume the latest ledger and journal too, but not the latest intents.
- Hosts and compositions that the repository leaves to its user: the store of
  the shared context and of the leases (the model gives every decision the
  current state), Temporal (modelled from its use), the process that holds a
  supervision lease.
- The observation of the same execution and `validate_execution_event`, which
  change nothing; the context gate of the private router; `inspect` and
  rendering.
- Value classes, validators and pure functions without a life cycle: the wake,
  review, thread, live-dispatch and git-handoff contracts, telemetry, the
  artifact tree, requirement lineage, library selection and readiness.
- Identity resolution, the LINE fake and the geo lookup: single lookups.
- Natural language: its subject is strings, which a model of control abstracts
  away. Skills, templates and commands are prose.
