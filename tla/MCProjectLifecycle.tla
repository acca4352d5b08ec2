-------------------------- MODULE MCProjectLifecycle --------------------------
(* Small projects for TLC. *)
EXTENDS ProjectLifecycle

(* Every ticket is registered. *)
RegisteredOf == {<<t, PlannedOwner, TheTerms>> : t \in Tickets}

=============================================================================
