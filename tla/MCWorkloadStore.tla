-------------------------- MODULE MCWorkloadStore ---------------------------
(* The durable workload for TLC: a policy that allows everything, and whose   *)
(* completion criterion can be met in states that do not lead to COMPLETED.   *)
EXTENDS WorkloadStore

CONSTANTS b1, none

StorePolicies ==
    {[restart |-> "ALWAYS_WITH_LIMIT", maxRestarts |-> 0, completion |-> "REQUIRED_UNITS",
      allowZeroWork |-> FALSE, migratable |-> TRUE, suspendable |-> FALSE,
      cancelRace |-> "COMPLETION_FIRST"]}

(* No operation reads the result of an earlier one.                           *)
StoreView == <<aggregate, episodeCounter, disk, torn, missed>>
=============================================================================
