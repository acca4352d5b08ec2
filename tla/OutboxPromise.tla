---------------------------- MODULE OutboxPromise ----------------------------
(***************************************************************************)
(* What reliability_core.py promises of one idempotency key: it is taken   *)
(* once, then delivered once or blocked by the emergency stop, and the     *)
(* stop is the last thing that happens.                                    *)
(***************************************************************************)
CONSTANT Keys
VARIABLES
  fate,  \* key -> "absent", "queued", "delivered" or "blocked"
  open   \* the emergency stop has not been activated

vars == <<fate, open>>

Init == fate = [k \in Keys |-> "absent"] /\ open = TRUE

Take(k) ==
  /\ open /\ fate[k] = "absent"
  /\ fate' = [fate EXCEPT ![k] = "queued"]
  /\ open' = open

Deliver(k) ==
  /\ open /\ fate[k] = "queued"
  /\ fate' = [fate EXCEPT ![k] = "delivered"]
  /\ open' = open

Stop ==
  /\ open /\ open' = FALSE
  /\ fate' = [k \in Keys |-> IF fate[k] = "queued" THEN "blocked" ELSE fate[k]]

Next == (\E k \in Keys : Take(k) \/ Deliver(k)) \/ Stop

Spec == Init /\ [][Next]_vars

=============================================================================
