----------------------------- MODULE MCWorkload -----------------------------
(* The workload for TLC.  The policies of a run differ in every field the     *)
(* operations read, the completion kind of the engine run excepted.           *)
EXTENDS Workload

CONSTANTS b1, none

(* Restarts always, migrates, suspends; completion may win the race.          *)
Flexible(max, kind) ==
    [restart |-> "ALWAYS_WITH_LIMIT", maxRestarts |-> max, completion |-> kind,
     allowZeroWork |-> TRUE, migratable |-> TRUE, suspendable |-> TRUE,
     cancelRace |-> "COMPLETION_FIRST"]

(* Restarts on worker loss only, neither migrates nor suspends; a requested   *)
(* cancellation wins the race.                                                *)
Strict(max, kind) ==
    [restart |-> "ON_WORKER_LOSS", maxRestarts |-> max, completion |-> kind,
     allowZeroWork |-> FALSE, migratable |-> FALSE, suspendable |-> FALSE,
     cancelRace |-> "CANCEL_FIRST"]

(* No operation reads the result of an earlier one, so states that differ in  *)
(* outcome alone have the same futures.                                       *)
View == <<aggregate, episodeCounter>>

EnginePolicies == {Flexible(0, "SINGLE_RESULT"), Strict(1, "SINGLE_RESULT")}

NoRestartPolicy == {Strict(0, "SINGLE_RESULT")}

AggregatePolicies ==
    {Flexible(0, "REQUIRED_UNITS"), Flexible(0, "ALL_PHASES"), Strict(0, "EXPLICIT_FINALIZE")}
=============================================================================
