--------------------------- MODULE MCCoordinator ----------------------------
(* The coordinator for TLC: two restarts, and both outcomes of the race of    *)
(* completion and cancellation.                                               *)
EXTENDS Coordinator

RestartTwice(race) ==
    [restart |-> "ALWAYS_WITH_LIMIT", maxRestarts |-> 2, completion |-> "SINGLE_RESULT",
     allowZeroWork |-> FALSE, migratable |-> FALSE, suspendable |-> TRUE,
     cancelRace |-> race]

CoordinatorPolicies == {RestartTwice("CANCEL_FIRST"), RestartTwice("COMPLETION_FIRST")}
=============================================================================
