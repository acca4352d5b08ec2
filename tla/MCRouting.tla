------------------------------ MODULE MCRouting ------------------------------
(***************************************************************************)
(* The private router and, beside it, one approval round and the agents    *)
(* that work under a context lease.  All of them call the router engine,   *)
(* which keeps nothing, so a behaviour in which one moves and the others   *)
(* rest shows all that the one can do.                                     *)
(***************************************************************************)
EXTENDS PrivateRouter, Sequences, TLC

CONSTANTS
  TheTicket, TheTerms, TheQuestion, MaxSignals, MaxCrashes,
  Agents, LeaseRefs, SideContexts, Lanes, ContextSources, Returns, FreshIds

VARIABLES
  moving,
  input, queue, history, scheduled, answered, wf, at, submitted, crashes,
  current, held, used, ended, last

roundVars == <<input, queue, history, scheduled, answered, wf, at, submitted, crashes>>
contextVars == <<current, held, used, ended, last>>

(* The artifacts of every ticket are registered under the first terms.  The *)
(* activity makes its router with an empty registry.                        *)
RegisteredOf == {<<t, PlannedOwner, TheTerms>> : t \in Tickets}

(* Two tickets, and a lane of the second that shares a branch with the first. *)
Lane(t, c, b) == [ticket |-> t, receipt |-> c, branch |-> b]
ThreeLanes == {Lane("t1", "c1", "b1"), Lane("t2", "c2", "b2"), Lane("t2", "c2", "b1")}

(* The models name none of these apart from the others. *)
Interchangeable ==
  Permutations(SideContexts) \cup Permutations(LeaseRefs) \cup Permutations(Returns)
    \cup Permutations(Agents)

Round == INSTANCE ApprovalRound WITH Registered <- {}
Context == INSTANCE AgentContext

ASSUME RoundAssumption == Round!ApprovalAssumption
ASSUME ContextAssumption == Context!AgentContextAssumption

MCInit ==
  /\ moving \in {"router", "round", "context"}
  /\ Init /\ Round!Init /\ Context!Init
  /\ moving # "round" => input = CHOOSE i \in Round!Inputs : TRUE

MCNext ==
  /\ UNCHANGED moving
  /\ \/ moving = "router" /\ Next /\ UNCHANGED <<roundVars, contextVars>>
     \/ moving = "round" /\ Round!Next /\ UNCHANGED <<vars, contextVars>>
     \/ moving = "context" /\ Context!Next /\ UNCHANGED <<vars, roundVars>>

MCSpec == MCInit /\ [][MCNext]_<<moving, vars, roundVars, contextVars>>

(* The approval a round goes on with is the last one it was handed.         *)
LastWordCounts == Round!LastWordCounts

(* RoundIsSound, of the approval round.                                     *)
RoundIsSound == Round!RoundIsSound

(* One working view at a time, and none that ended works again, whatever the *)
(* agents that still hold an old lease ask for.                              *)
ViewsEndForGood == Context!ViewsEndForGood

(* A lease changes hands only through the agent that holds it, and cleanly.  *)
LeasesChangeHands == Context!LeasesChangeHands

=============================================================================
