------------------------ MODULE MCGuardedIntegration ------------------------
(* Instances of GuardedIntegration for TLC. *)
EXTENDS GuardedIntegration, TLC

CONSTANTS r1, r2, w, p1, p2

Plan(k, c, rev, ok) == [ticket |-> k, correlation |-> c, expected |-> rev, confirmed |-> ok]
Return(id, k, c, rev, done) ==
  [event_id |-> id, ticket |-> k, correlation |-> c, expected |-> rev, completed |-> done]

(* k2 follows k1; k3 was planned on the same revision as k1; k4 has a plan   *)
(* that was never confirmed.                                                 *)
MCPlans ==
  {Plan("k1", "c1", 0, TRUE), Plan("k2", "c2", 1, TRUE), Plan("k3", "c3", 0, TRUE),
   Plan("k4", "c4", 0, FALSE)}

(* c1 arrives under two event ids, and c3 reuses one of them. *)
MCReturns ==
  {Return("e1", "k1", "c1", 0, TRUE), Return("e2", "k1", "c1", 0, TRUE),
   Return("e3", "k2", "c2", 1, TRUE), Return("e2", "k3", "c3", 0, TRUE),
   Return("e4", "k4", "c4", 0, TRUE)}

(* One after the other, without duplicates: for the lost wake. *)
MCReturnsInOrder == {Return("e1", "k1", "c1", 0, TRUE), Return("e3", "k2", "c2", 1, TRUE)}

(* Two returns for one revision and one for the next: for racing returners. *)
MCReturnsRacing ==
  {Return("e1", "k1", "c1", 0, TRUE), Return("e4", "k3", "c3", 0, TRUE),
   Return("e3", "k2", "c2", 1, TRUE)}

MCDependsOn == p1 :> "k1" @@ p2 :> "k2"
=============================================================================
