----------------------------- MODULE SilenceWatch -----------------------------
(***************************************************************************)
(* What supervision promises about one execution: it is watched, a first   *)
(* stop or silence of a Terra role is diagnosed and followed by one last   *)
(* watch, a second one ends it; a Luna role is watched once.  What has     *)
(* ended stays ended until another execution of the ticket starts.         *)
(***************************************************************************)

CONSTANT Luna   \* the class that is never diagnosed

VARIABLES class, watch

Init == watch = "none"

Begin == watch \in {"none", "ended"} /\ watch' = "first"

Follows(from, to) == watch = from /\ watch' = to /\ class' = class

Diagnose == class # Luna /\ (Follows("first", "diagnosing") \/ Follows("last", "diagnosing_again"))

Continue == Follows("diagnosing", "last")

End == watch \notin {"none", "ended"} /\ watch' = "ended" /\ class' = class

Next == Begin \/ Diagnose \/ Continue \/ End

Spec == Init /\ [][Next]_<<class, watch>>

=============================================================================
