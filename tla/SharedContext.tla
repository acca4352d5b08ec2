---------------------------- MODULE SharedContext ----------------------------
(***************************************************************************)
(* router.py RouterEngine.decide_shared_context_access: the gate before the *)
(* context that all roles of a project share, and callers that ask it with  *)
(* what they read earlier.                                                  *)
(*                                                                         *)
(* The gate is pure.  The host that keeps the state between two decisions,  *)
(* and gives the current one to each, is not in the repository.  A manifest *)
(* is its revision and its content digest; its references are left out.     *)
(***************************************************************************)
EXTENDS Naturals

CONSTANTS
  Callers,
  Architects,      \* callers with the owner's role and the profile's capability
  ContextRefs,
  TheContext,      \* profile.shared_context_ref
  Manifests,       \* records [revision, digest]
  Stages,
  MaxEditions,     \* bound on the changes of a sealed context
  None

SharedContextAssumption ==
  /\ Architects \subseteq Callers
  /\ TheContext \in ContextRefs
  /\ \A m, n \in Manifests : m.revision = n.revision => m = n
  /\ \A m \in Manifests : m.revision # None
  /\ MaxEditions \in Nat

VARIABLES
  state,      \* SharedContextState of the profile's context
  seen,       \* caller -> the state it last read
  granted,    \* caller -> the edition and content of its last admitted read
  edition,    \* times the context was opened for changes
  last        \* who changed the context last, and how

vars == <<state, seen, granted, edition, last>>

Operations == {"CREATE_DRAFT", "REVISE_DRAFT", "SEAL", "READ_REFERENCE"}
Lifecycles == {"ABSENT", "ARCHITECTURE_DRAFT", "SEALED"}
DesignStages == {"ARCHITECTURE", "GRILL"}
ReadableStages == {"SPEC", "TICKETS", "IMPLEMENT", "SMOKE_TEST", "REVIEW", "HANDOFF"}

Content(lifecycle, manifest) == [lifecycle |-> lifecycle, manifest |-> manifest]
Nothing == [revision |-> None, digest |-> None]
Absent == Content("ABSENT", Nothing)

(* The shapes of a request: a manifest is offered by CREATE and REVISE, a   *)
(* revision is expected by all but CREATE, and only REVISE names a change.  *)
Requests(who, expected) ==
  {q \in [caller : {who}, ref : ContextRefs, operation : Operations, stage : Stages,
          expected : {None, expected}, candidate : Manifests \cup {Nothing},
          change : {None, "PROPOSED", "APPROVED"}] :
     /\ (q.operation = "CREATE_DRAFT") = (q.expected = None)
     /\ (q.operation \in {"CREATE_DRAFT", "REVISE_DRAFT"}) = (q.candidate # Nothing)
     /\ q.operation # "REVISE_DRAFT" => q.change = None}

-----------------------------------------------------------------------------
(* The gate: a refusal leaves the state as it is. *)

Refused(decision, s) == [decision |-> decision, state |-> s]
Allowed(s) == [decision |-> "ALLOW", state |-> s]
Unless(condition, refusal, outcome) == IF condition THEN outcome ELSE refusal

Forbid(s) == Refused("FORBID_ROLE_OR_STAGE", s)
Stale(s) == Refused("STALE_REVISION", s)

Read(q, s) ==
  Unless(s.lifecycle = "SEALED" /\ q.stage \in ReadableStages, Forbid(s), Allowed(s))

Create(q, s) ==
  Unless(s.lifecycle = "ABSENT" /\ q.stage \in DesignStages, Forbid(s),
         Allowed(Content("ARCHITECTURE_DRAFT", q.candidate)))

Revise(q, s) ==
  Unless(q.stage \in DesignStages, Forbid(s),
  Unless(s.lifecycle # "ABSENT" /\ q.candidate.revision # s.manifest.revision, Stale(s),
  Unless(s.lifecycle = "SEALED" => q.change = "APPROVED", Refused("REQUIRE_CHANGE_CONTROL", s),
         Allowed(Content("ARCHITECTURE_DRAFT", q.candidate)))))

Seal(q, s) ==
  Unless(s.lifecycle = "ARCHITECTURE_DRAFT" /\ q.stage = "CONTEXT", Forbid(s),
         Allowed([s EXCEPT !.lifecycle = "SEALED"]))

Admit(q, s) ==
  CASE q.operation = "READ_REFERENCE" -> Read(q, s)
    [] q.operation = "CREATE_DRAFT" -> Create(q, s)
    [] q.operation = "REVISE_DRAFT" -> Revise(q, s)
    [] q.operation = "SEAL" -> Seal(q, s)

(* Fault: the revision the caller expects is not compared. *)
DecideUnversioned(q, s) ==
  Unless(q.ref = TheContext, Stale(s),
  Unless(q.operation = "READ_REFERENCE" \/ q.caller \in Architects, Forbid(s),
         Admit(q, s)))

Decide(q, s) ==
  Unless(q.ref = TheContext, Stale(s),
  Unless(q.expected \in {None, s.manifest.revision}, Stale(s),
  Unless(q.operation = "READ_REFERENCE" \/ q.caller \in Architects, Forbid(s),
         Admit(q, s))))

-----------------------------------------------------------------------------
Init ==
  /\ state = Absent
  /\ seen = [c \in Callers |-> Absent]
  /\ granted = [c \in Callers |-> [edition |-> 0, manifest |-> Nothing]]
  /\ edition = 0
  /\ last = [caller |-> None, operation |-> None, change |-> None]

(* A caller looks at the stored metadata.  It needs no admission. *)
Look(c) ==
  /\ seen[c] # state
  /\ seen' = [seen EXCEPT ![c] = state]
  /\ UNCHANGED <<state, granted, edition, last>>

Reopens(s, t) == s.lifecycle = "SEALED" /\ t.lifecycle = "ARCHITECTURE_DRAFT"

(* A caller asks with the revision it saw; the host stores what is decided. *)
Ask(c, q) ==
  LET outcome == Decide(q, state) IN
  /\ state' = outcome.state
  /\ edition' = IF Reopens(state, state') THEN edition + 1 ELSE edition
  /\ edition' <= MaxEditions
  /\ granted' = IF q.operation = "READ_REFERENCE" /\ outcome.decision = "ALLOW"
                THEN [granted EXCEPT ![c] = [edition |-> edition, manifest |-> state.manifest]]
                ELSE granted
  /\ last' = IF outcome.state = state THEN last
              ELSE [caller |-> c, operation |-> q.operation, change |-> q.change]
  /\ UNCHANGED seen

Next ==
  \E c \in Callers :
    \/ Look(c)
    \/ \E q \in Requests(c, seen[c].manifest.revision) : Ask(c, q)

Spec == Init /\ [][Next]_vars

-----------------------------------------------------------------------------
(* The state is absent and empty, or present with a full identity. *)
TypeOK ==
  /\ state \in {Absent} \cup [lifecycle : Lifecycles \ {"ABSENT"}, manifest : Manifests]
  /\ edition \in 0..MaxEditions
  /\ last.caller \in Callers \cup {None}

(* Everyone who was let in to read the same edition read the same content,  *)
(* however the reads and the work of the architects are interleaved: a      *)
(* specification and the tickets cut from it rest on one text.              *)
ReadersAgree ==
  \A c, d \in Callers :
    (/\ granted[c].manifest # Nothing
     /\ granted[d].manifest # Nothing
     /\ granted[c].edition = granted[d].edition) => granted[c].manifest = granted[d].manifest

(* Nobody overwrites or seals a text that someone else put there since he    *)
(* looked: of two architects with the same draft in hand, one is refused.   *)
NothingUnseenReplaced ==
  [][\A c \in Callers :
       (/\ state.lifecycle # "ABSENT"
        /\ state' # state
        /\ last'.caller = c) => seen[c].manifest = state.manifest]_vars

(* What was sealed is opened again only by an architect, with an approved   *)
(* change; a caller of another role never changes the context at all.       *)
ChangesAreControlled ==
  [][state' # state =>
       /\ last'.caller \in Architects
       /\ Reopens(state, state') => last'.change = "APPROVED"]_vars

(* The one text of a project, as everyone reads and changes it. *)
ContextIsControlled == [](TypeOK /\ ReadersAgree) /\ NothingUnseenReplaced /\ ChangesAreControlled

=============================================================================
