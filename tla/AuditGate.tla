------------------------------ MODULE AuditGate ------------------------------
(***************************************************************************)
(* What guarded integration promises its planner, whatever its threads do: *)
(* one return at a time is integrated and waits for its audit, the audit   *)
(* is decided only after its request was delivered, and every return goes  *)
(* through the gate at most once.                                          *)
(***************************************************************************)
CONSTANT Correlations

VARIABLE phase

Phases == {"outside", "integrated", "delivered", "reviewed", "corrected"}

Waiting(c) == phase[c] \in {"integrated", "delivered"}

Init == phase = [c \in Correlations |-> "outside"]

Move(c, from, to) == phase[c] = from /\ phase' = [phase EXCEPT ![c] = to]

Integrate(c) ==
  /\ \A d \in Correlations : ~Waiting(d)
  /\ Move(c, "outside", "integrated")

Deliver(c) == Move(c, "integrated", "delivered")

Decide(c) == Move(c, "delivered", "reviewed") \/ Move(c, "delivered", "corrected")

Next == \E c \in Correlations : Integrate(c) \/ Deliver(c) \/ Decide(c)

Spec == Init /\ [][Next]_phase
=============================================================================
