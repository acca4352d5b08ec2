--------------------------- MODULE TimelineReplay ---------------------------
(***************************************************************************)
(* event_timeline_audit.py replay_timeline: the state, the audit and the    *)
(* fingerprint that follow from a configuration and a sequence of events,   *)
(* while the sequence grows and is replayed anew each time.                 *)
(***************************************************************************)
EXTENDS Naturals, SequencesExt

CONSTANTS
  EventIds,
  Codes,        \* texts of unknown events
  MaxEvents

TimelineAssumption == MaxEvents \in Nat

States == {"NOT_STARTED", "ACTIVE", "FINISHED"}
EventKinds == {"START", "ADVANCE", "FINISH"}
Events == [id : EventIds, known : {TRUE}, text : EventKinds]
            \cup [id : EventIds, known : {FALSE}, text : Codes]

VARIABLES
  initial,    \* TimelineConfiguration.initial_state
  events      \* the tuple that is replayed

vars == <<initial, events>>

-----------------------------------------------------------------------------
(* Fault: an active timeline can be started over. *)
NextStateRestarting(state, kind) ==
  CASE kind = "START" /\ state # "FINISHED" -> "ACTIVE"
    [] kind = "ADVANCE" /\ state = "ACTIVE" -> "ACTIVE"
    [] kind = "FINISH" /\ state = "ACTIVE" -> "FINISHED"
    [] OTHER -> "NONE"

NextState(state, kind) ==
  CASE kind = "START" /\ state = "NOT_STARTED" -> "ACTIVE"
    [] kind = "ADVANCE" /\ state = "ACTIVE" -> "ACTIVE"
    [] kind = "FINISH" /\ state = "ACTIVE" -> "FINISHED"
    [] OTHER -> "NONE"

Entry(event, before, after, outcome, reason) ==
  [event |-> event, before |-> before, after |-> after, outcome |-> outcome, reason |-> reason]

(* What one event does to a state in which the ids of seen have occurred. *)
ReplayOneEvent(event, state, seen) ==
  LET next == NextState(state, event.text) IN
  CASE event.id \in seen -> Entry(event, state, state, "CONFLICT", "DUPLICATE_EVENT_ID")
    [] event.id \notin seen /\ ~event.known
         -> Entry(event, state, state, "UNRESOLVED", "UNKNOWN_EVENT")
    [] event.id \notin seen /\ event.known /\ next = "NONE"
         -> Entry(event, state, state, "CONFLICT", "INVALID_TRANSITION")
    [] OTHER -> Entry(event, state, next, "APPLIED", "NONE")

Step(run, event) ==
  LET entry == ReplayOneEvent(event, run.state, run.seen) IN
  [state |-> entry.after, audit |-> Append(run.audit, entry), seen |-> run.seen \cup {event.id}]

Start(state) == [state |-> state, audit |-> <<>>, seen |-> {}]

Replay(state, sequence) ==
  LET after[n \in 0..Len(sequence)] ==
        IF n = 0 THEN Start(state) ELSE Step(after[n - 1], sequence[n])
  IN after[Len(sequence)]

CountOf(audit, outcome) == Cardinality({i \in DOMAIN audit : audit[i].outcome = outcome})
Summary(audit) ==
  [applied |-> CountOf(audit, "APPLIED"), unresolved |-> CountOf(audit, "UNRESOLVED"),
   conflict |-> CountOf(audit, "CONFLICT")]

(* The canonical row: a kind and an unknown code are written alike. *)
Row(entry) ==
  <<entry.event.id, entry.event.text, entry.before, entry.after, entry.outcome, entry.reason>>

(* SHA-256 of the rows, taken to be one to one. *)
Fingerprint(state, sequence) ==
  LET run == Replay(state, sequence) IN
  <<state, run.state>> \o [i \in DOMAIN run.audit |-> Row(run.audit[i])]

-----------------------------------------------------------------------------
Init == initial \in States /\ events = <<>>

Record ==
  /\ Len(events) < MaxEvents
  /\ \E event \in Events : events' = Append(events, event)
  /\ UNCHANGED initial

Next == Record

Spec == Init /\ [][Next]_vars

-----------------------------------------------------------------------------
(* What a replay should come to, said without running it: only the first     *)
(* event of an id counts, a timeline starts at the first START, if it is not *)
(* started already, and ends at the first FINISH after that.                 *)

Counts(i) == events[i].known /\ \A j \in 1..(i - 1) : events[j].id # events[i].id
Of(kind) == {i \in DOMAIN events : Counts(i) /\ events[i].text = kind}
Starts == IF initial = "NOT_STARTED" THEN Of("START") ELSE {0}
Finishes == {i \in Of("FINISH") : \E s \in Starts : s < i}
Closed == initial = "FINISHED" \/ Finishes # {}

ExpectedState ==
  CASE Closed -> "FINISHED"
    [] ~Closed /\ Starts # {} -> "ACTIVE"
    [] OTHER -> "NOT_STARTED"

ExpectedApplied ==
  IF initial = "FINISHED" THEN {}
  ELSE {i \in Of("START") : initial = "NOT_STARTED" /\ \A s \in Starts : i <= s}
       \cup {i \in Of("ADVANCE") : (\E s \in Starts : s < i) /\ \A f \in Finishes : i < f}
       \cup {i \in Finishes : \A f \in Finishes : i <= f}

(* The replay is that of its definition above, for every sequence: final     *)
(* state, what was applied, and a summary that adds up.                      *)
ReplayIsRight ==
  LET run == Replay(initial, events)
      summary == Summary(run.audit) IN
  /\ run.state = ExpectedState
  /\ {i \in DOMAIN run.audit : run.audit[i].outcome = "APPLIED"} = ExpectedApplied
  /\ summary.applied + summary.unresolved + summary.conflict = Len(run.audit)

(* The audit has one entry per event, in order, and each starts in the state *)
(* the one before it ended in: the final state can be read off the audit.    *)
AuditChains ==
  LET run == Replay(initial, events)
      audit == run.audit IN
  /\ [i \in DOMAIN audit |-> audit[i].event] = events
  /\ \A i \in DOMAIN audit :
       audit[i].before = IF i = 1 THEN initial ELSE audit[i - 1].after
  /\ run.state = IF audit = <<>> THEN initial ELSE Last(audit).after

(* A longer sequence replays to a longer audit: what was established about   *)
(* the earlier events is never rewritten by later ones.                      *)
AuditIsStable ==
  LET audit == Replay(initial, events).audit IN
  \A n \in DOMAIN events :
    Replay(initial, SubSeq(events, 1, n)).audit = SubSeq(audit, 1, n)

(* Two replays with one fingerprint have one audit (TimelineOutputHash,      *)
(* event_timeline_audit.py:55), here for sequences that differ in an event.  *)
FingerprintIdentifiesAudit ==
  \A i \in DOMAIN events, event \in Events :
    LET other == [events EXCEPT ![i] = event] IN
    Fingerprint(initial, events) = Fingerprint(initial, other)
      => Replay(initial, events).audit = Replay(initial, other).audit

(* An audit explains the final state, for every sequence. *)
AuditExplains == ReplayIsRight /\ AuditChains /\ AuditIsStable /\ FingerprintIdentifiesAudit

=============================================================================
