--------------------------- MODULE WriterSuccession ---------------------------
(***************************************************************************)
(* What execution replacement promises about a ticket: one execution at a  *)
(* time holds the write authority; it is frozen for exactly one successor, *)
(* which then holds it, until the ticket is closed.  The successor may be   *)
(* the same execution.                                                     *)
(***************************************************************************)
CONSTANTS Refs, Nobody

VARIABLES holder, successor, closed

Init == holder \in Refs /\ successor = Nobody /\ closed = FALSE

Freeze ==
  /\ ~closed /\ successor = Nobody
  /\ successor' \in Refs
  /\ UNCHANGED <<holder, closed>>

Succeed ==
  /\ ~closed /\ successor # Nobody
  /\ holder' = successor /\ successor' = Nobody
  /\ UNCHANGED closed

Close == closed' = TRUE /\ successor' = Nobody /\ UNCHANGED holder

Next == Freeze \/ Succeed \/ Close

Spec == Init /\ [][Next]_<<holder, successor, closed>>

=============================================================================
