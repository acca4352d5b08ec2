----------------------------- MODULE DispatchDesk -----------------------------
(***************************************************************************)
(* What the private router promises about dispatching tickets: a ticket has *)
(* at most one question open at a time, and a lane is granted only by       *)
(* answering the question that is open, which closes it.                    *)
(***************************************************************************)
EXTENDS Naturals

CONSTANTS Tickets, Questions, None

VARIABLES
  open,     \* the question open for each ticket
  granted   \* how many lanes each question was granted

vars == <<open, granted>>

Init ==
  /\ open = [t \in Tickets |-> None]
  /\ granted = [q \in Questions |-> 0]

Ask(t, q) ==
  /\ open[t] = None
  /\ \A u \in Tickets : open[u] # q
  /\ open' = [open EXCEPT ![t] = q]
  /\ UNCHANGED granted

Close(t) ==
  /\ open[t] # None
  /\ open' = [open EXCEPT ![t] = None]

Grant(t) ==
  /\ Close(t)
  /\ granted' = [granted EXCEPT ![open[t]] = @ + 1]

Drop(t) == Close(t) /\ UNCHANGED granted

Next == \E t \in Tickets : Grant(t) \/ Drop(t) \/ \E q \in Questions : Ask(t, q)

Spec == Init /\ [][Next]_vars

=============================================================================
