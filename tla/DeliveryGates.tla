----------------------------- MODULE DeliveryGates -----------------------------
(***************************************************************************)
(* What the workflow promises about its gates.  A lane is planned only on  *)
(* an approval of its specification, and each approval opens the gate once;  *)
(* a ticket is built only on a confirmed dispatch out of a planned lane;    *)
(* nothing is delivered that was not checked, or audited, and reviewed      *)
(* since it was last built.                                                 *)
(***************************************************************************)
CONSTANTS Lanes, Tickets, Planning

VARIABLES phase, approved, confirmed, audited

Init ==
  /\ phase = [l \in Lanes |-> IF l = Planning THEN "planning" ELSE "none"]
  /\ approved = {} /\ confirmed = {} /\ audited = {}

Approve(l) ==
  /\ phase[l] = "planning"
  /\ approved' = approved \cup {l}
  /\ UNCHANGED <<phase, confirmed, audited>>

Audit(l) ==
  /\ phase[l] = "planning"
  /\ audited' = audited \cup {l}
  /\ UNCHANGED <<phase, approved, confirmed>>

Confirm(t) == confirmed' = confirmed \cup {t} /\ UNCHANGED <<phase, approved, audited>>

Plan(l) ==
  /\ phase[l] = "planning" /\ l \in approved
  /\ phase' = [phase EXCEPT ![l] = "planned"]
  /\ approved' = approved \ {l}
  /\ UNCHANGED <<confirmed, audited>>

Dispatch(l, t) ==
  /\ phase[l] = "planned" /\ t \in confirmed
  /\ phase' = [phase EXCEPT ![l] = "planning", ![t] = "building"]
  /\ confirmed' = confirmed \ {t}
  /\ approved' = approved \ {t} /\ audited' = audited \ {t}

CheckAudited(l) ==
  /\ phase[l] = "planning" /\ l \in audited
  /\ phase' = [phase EXCEPT ![l] = "checked"]
  /\ audited' = audited \ {l}
  /\ UNCHANGED <<approved, confirmed>>

Moves(l, from, to) ==
  /\ phase[l] = from
  /\ phase' = [phase EXCEPT ![l] = to]
  /\ UNCHANGED <<approved, confirmed, audited>>

Next ==
  \/ \E t \in Tickets : Confirm(t)
  \/ \E l \in Lanes :
       \/ Approve(l) \/ Audit(l) \/ Plan(l) \/ CheckAudited(l)
       \/ \E t \in Tickets : Dispatch(l, t)
       \/ Moves(l, "building", "planning")      \* the requirement changed
       \/ Moves(l, "building", "checked")
       \/ Moves(l, "planning", "abandoned")
       \/ Moves(l, "checked", "delivering")
       \/ Moves(l, "delivering", "delivered")

Spec == Init /\ [][Next]_<<phase, approved, confirmed, audited>>

=============================================================================
