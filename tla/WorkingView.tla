----------------------------- MODULE WorkingView -----------------------------
(***************************************************************************)
(* What the agent-context gate promises: one view at a time, and a view     *)
(* that ended never works again.                                            *)
(***************************************************************************)
EXTENDS FiniteSets

CONSTANTS Views, None

VARIABLES
  working,   \* the view work may go on in, or None
  open,      \* a view was started and not yet put away
  ended      \* views that were replaced, closed or invalidated

vars == <<working, open, ended>>

Init == working = None /\ ~open /\ ended = {}

Start ==
  /\ ~open
  /\ \E v \in Views \ ended : working' = v
  /\ open'
  /\ UNCHANGED ended

Replace ==
  /\ working # None
  /\ \E v \in Views \ (ended \cup {working}) : working' = v
  /\ ended' = ended \cup {working}
  /\ UNCHANGED open

End == working # None /\ working' = None /\ ended' = ended \cup {working} /\ UNCHANGED open

PutAway == open /\ working = None /\ ~open' /\ UNCHANGED <<working, ended>>

Next == Start \/ Replace \/ End \/ PutAway

Spec == Init /\ [][Next]_vars

=============================================================================
