------------------------------ MODULE Citations ------------------------------
(***************************************************************************)
(* router.py ContextResolver and CitationLedger: a consumer resolves an     *)
(* event to references of the sources it needs, closes them when it is      *)
(* done, and mappings are invalidated when a source has a new revision.     *)
(* Consumers are not in the repository: they are any callers of the ledger, *)
(* those that look mappings up or invalidate them included, and they may    *)
(* close again whatever copy the ledger handed them.                        *)
(*                                                                         *)
(* A reference is what its stable id is derived from: source, revision,     *)
(* event, consumer and place.  A consumer that restarts resolves its event  *)
(* again and gets the same references, open.                                *)
(***************************************************************************)
EXTENDS Naturals, Sequences, Functions

CONSTANTS
  Sources,
  Required,      \* required_sources: a sequence of sources
  Events,
  Consumers,
  TokensOf,      \* source -> revision -> estimated tokens of its snippet
  TokenBudget,
  MaxRevision

CitationsAssumption ==
  /\ Required \in Seq(Sources)
  /\ MaxRevision \in Nat \ {0}
  /\ TokensOf \in [Sources -> [1..MaxRevision -> Nat]]
  /\ TokenBudget \in Nat

VARIABLES
  revision,     \* source -> its newest revision; older ones stay readable
  held,         \* consumer -> references it holds, with the status of its copy
  records       \* CitationLedger.records: reference -> its status

vars == <<revision, held, records>>

References ==
  [source : Sources, revision : 1..MaxRevision, event : Events, consumer : Consumers,
   place : 1..Len(Required)]
Statuses == {"OPEN", "CLOSED", "INVALIDATED"}
Recorded == DOMAIN records
Copy(ref, status) == [ref |-> ref, status |-> status]

Init ==
  /\ revision = [s \in Sources |-> 1]
  /\ held = [c \in Consumers |-> {}]
  /\ records = <<>>

-----------------------------------------------------------------------------
(* The decision named a revision of each source, not always the newest.  A   *)
(* packet over the budget is refused as a whole.                             *)
Resolve(c, e) ==
  \E chosen \in [Sources -> 1..MaxRevision] :
    /\ \A s \in Sources : chosen[s] <= revision[s]
    /\ FoldFunction(+, 0, [i \in DOMAIN Required |-> TokensOf[Required[i]][chosen[Required[i]]]])
         <= TokenBudget
    /\ held' = [held EXCEPT ![c] =
         {Copy([source |-> Required[i], revision |-> chosen[Required[i]], event |-> e,
                consumer |-> c, place |-> i], "OPEN") : i \in 1..Len(Required)}]
    /\ UNCHANGED <<revision, records>>

Restart(c) ==
  /\ held[c] # {}
  /\ held' = [held EXCEPT ![c] = {}]
  /\ UNCHANGED <<revision, records>>

(* Fault: a record is closed whatever it says already. *)
AdmitsAnything(copy) == TRUE

(* existing == reference or existing.status is OPEN; a record is never open. *)
Admits(copy) == copy.ref \in Recorded => records[copy.ref] = copy.status

(* A close that is not admitted raises ValueError and changes nothing.  The  *)
(* consumer keeps the closed copy that is returned.  A copy that says        *)
(* INVALIDATED is equal to its record as long as that says so: it is closed. *)
Close(c, copy) ==
  /\ Admits(copy)
  /\ records' = [r \in Recorded \cup {copy.ref} |->
                   IF r = copy.ref THEN "CLOSED" ELSE records[r]]
  /\ held' = [held EXCEPT ![c] = (@ \ {copy}) \cup {Copy(copy.ref, "CLOSED")}]
  /\ UNCHANGED revision

Revise(s) ==
  /\ revision[s] < MaxRevision
  /\ revision' = [revision EXCEPT ![s] = @ + 1]
  /\ UNCHANGED <<held, records>>

(* references_for_source: copies of the records of one exact revision. *)
ReferencesFor(c, s, n) ==
  /\ held' = [held EXCEPT ![c] = @ \cup
       {Copy(r, records[r]) : r \in {q \in Recorded : q.source = s /\ q.revision = n}}]
  /\ UNCHANGED <<revision, records>>

(* invalidate_source: every record of the logical source; the caller gets    *)
(* copies of them.                                                           *)
Invalidate(c, s) ==
  /\ records' = [r \in Recorded |-> IF r.source = s THEN "INVALIDATED" ELSE records[r]]
  /\ held' = [held EXCEPT ![c] = @ \cup
       {Copy(r, "INVALIDATED") : r \in {q \in Recorded : q.source = s}}]
  /\ UNCHANGED revision

Next ==
  \/ \E c \in Consumers :
       \/ \E e \in Events : Resolve(c, e)
       \/ Restart(c)
       \/ \E copy \in held[c] : Close(c, copy)
       \/ \E s \in Sources, n \in 1..MaxRevision : ReferencesFor(c, s, n)
       \/ \E s \in Sources : Invalidate(c, s)
  \/ \E s \in Sources : Revise(s)

Spec == Init /\ [][Next]_vars

-----------------------------------------------------------------------------
(* Records and copies are of references that can be handed out. *)
TypeOK ==
  /\ Recorded \subseteq References
  /\ \A r \in Recorded : records[r] \in {"CLOSED", "INVALIDATED"}
  /\ \A c \in Consumers : \A copy \in held[c] :
       copy.ref \in References /\ copy.status \in Statuses

(* A mapping that was invalidated is reported as closed again only to a      *)
(* consumer that closes the very copy that says INVALIDATED, handed to it    *)
(* after the invalidation.  A copy from before it, open or closed, does not  *)
(* take it back: not in a consumer that closes late or twice, and not in one *)
(* that restarted and resolved its event again.                              *)
NoOldCopyRevives ==
  [][\A r \in Recorded :
       (records[r] = "INVALIDATED" /\ records'[r] # "INVALIDATED") =>
         \E c \in Consumers : /\ Copy(r, "INVALIDATED") \in held[c]
                             /\ Copy(r, "INVALIDATED") \notin held'[c]]_vars

(* A new revision takes every mapping of its source with it, those of the    *)
(* older revisions that consumers still cite included, and none of another.  *)
SourcesFallTogether ==
  [][\A r, q \in Recorded :
       (/\ r.source = q.source
        /\ records[r] # "INVALIDATED"
        /\ records'[r] = "INVALIDATED") => records'[q] = "INVALIDATED"]_vars

(* An invalidation takes back all it should, and nothing a consumer got      *)
(* before it takes it back.                                                  *)
InvalidationHolds == []TypeOK /\ NoOldCopyRevives /\ SourcesFallTogether

=============================================================================
