--------------------------- MODULE WorkloadStates ---------------------------
(* The lifecycle vocabulary of include/workload_fabric/state.hpp: the states  *)
(* of a workload and of an episode, the predicates on states the operations   *)
(* test, and the edge list kTransitionTable, here as the set of successors of *)
(* every state.  The module has no variables: Workload.tla is built on it.    *)

(* enum class WorkloadState.                                                  *)
WorkloadState ==
    {"CREATED", "VALIDATING", "BLOCKED", "WAITING_FOR_DEPENDENCIES",
     "WAITING_FOR_RESOURCES", "READY", "STARTING", "RUNNING", "DEGRADED",
     "SUSPEND_REQUESTED", "SUSPENDING", "SUSPENDED", "PREEMPTION_REQUESTED",
     "PREEMPTED", "MIGRATION_PENDING", "MIGRATING", "RECOVERING",
     "RESTART_PENDING", "CANCELLATION_REQUESTED", "CANCELLING", "COMPLETING",
     "COMPLETED", "FAILED_RECOVERABLE", "FAILED_TERMINAL", "CANCELLED",
     "SUPERSEDED"}

(* enum class EpisodeState.                                                   *)
EpisodeState ==
    {"PENDING", "ADMITTED", "RUNNING", "SUSPENDED", "PREEMPTED", "MIGRATING",
     "LOST", "CANCELLED", "COMPLETED", "FAILED"}

isTerminal(s) == s \in {"COMPLETED", "FAILED_TERMINAL", "CANCELLED", "SUPERSEDED"}

isCancelling(s) == s \in {"CANCELLATION_REQUESTED", "CANCELLING"}

isActivelyRunning(s) == s \in {"RUNNING", "DEGRADED", "STARTING"}

(* kTransitionTable: the successors of each state.  FAILED_RECOVERABLE is not *)
(* terminal, yet no edge leaves it.                                           *)
allowedFrom ==
    [s \in WorkloadState |->
        CASE s = "CREATED" ->
                 {"VALIDATING", "BLOCKED", "WAITING_FOR_DEPENDENCIES",
                  "CANCELLED", "COMPLETED"}
          [] s = "VALIDATING" ->
                 {"CREATED", "BLOCKED", "WAITING_FOR_DEPENDENCIES",
                  "WAITING_FOR_RESOURCES", "READY", "FAILED_TERMINAL", "CANCELLED"}
          [] s = "BLOCKED" ->
                 {"VALIDATING", "WAITING_FOR_DEPENDENCIES",
                  "WAITING_FOR_RESOURCES", "READY", "CANCELLED"}
          [] s = "WAITING_FOR_DEPENDENCIES" ->
                 {"VALIDATING", "BLOCKED", "WAITING_FOR_RESOURCES", "READY", "CANCELLED"}
          [] s = "WAITING_FOR_RESOURCES" ->
                 {"VALIDATING", "BLOCKED", "WAITING_FOR_DEPENDENCIES", "READY", "CANCELLED"}
          [] s = "READY" ->
                 {"STARTING", "WAITING_FOR_RESOURCES", "WAITING_FOR_DEPENDENCIES", "CANCELLED"}
          [] s = "STARTING" ->
                 {"RUNNING", "READY", "RESTART_PENDING", "FAILED_RECOVERABLE",
                  "CANCELLATION_REQUESTED"}
          [] s = "RUNNING" ->
                 {"DEGRADED", "COMPLETING", "SUSPEND_REQUESTED", "PREEMPTION_REQUESTED",
                  "MIGRATION_PENDING", "CANCELLATION_REQUESTED", "RECOVERING",
                  "FAILED_RECOVERABLE", "FAILED_TERMINAL"}
          [] s = "DEGRADED" ->
                 {"RUNNING", "COMPLETING", "SUSPEND_REQUESTED", "PREEMPTION_REQUESTED",
                  "MIGRATION_PENDING", "CANCELLATION_REQUESTED", "RECOVERING",
                  "FAILED_RECOVERABLE"}
          [] s = "SUSPEND_REQUESTED" ->
                 {"SUSPENDING", "RUNNING", "CANCELLATION_REQUESTED", "FAILED_RECOVERABLE"}
          [] s = "SUSPENDING" ->
                 {"SUSPENDED", "RUNNING", "CANCELLATION_REQUESTED", "FAILED_RECOVERABLE"}
          [] s = "SUSPENDED" ->
                 {"READY", "RUNNING", "CANCELLATION_REQUESTED", "SUPERSEDED",
                  "FAILED_RECOVERABLE"}
          [] s = "PREEMPTION_REQUESTED" ->
                 {"PREEMPTED", "RUNNING", "SUSPEND_REQUESTED", "CANCELLATION_REQUESTED"}
          [] s = "PREEMPTED" ->
                 {"RUNNING", "READY", "RESTART_PENDING", "SUPERSEDED",
                  "CANCELLATION_REQUESTED"}
          [] s = "MIGRATION_PENDING" ->
                 {"MIGRATING", "RUNNING", "SUSPEND_REQUESTED", "CANCELLATION_REQUESTED",
                  "FAILED_RECOVERABLE"}
          [] s = "MIGRATING" ->
                 {"RUNNING", "RECOVERING", "READY", "RESTART_PENDING", "SUPERSEDED",
                  "CANCELLATION_REQUESTED"}
          [] s = "RECOVERING" ->
                 {"RUNNING", "RESTART_PENDING", "READY", "FAILED_RECOVERABLE",
                  "FAILED_TERMINAL", "CANCELLATION_REQUESTED"}
          [] s = "RESTART_PENDING" ->
                 {"READY", "RUNNING", "FAILED_TERMINAL", "CANCELLATION_REQUESTED"}
          [] s = "CANCELLATION_REQUESTED" -> {"CANCELLING", "CANCELLED", "COMPLETING"}
          [] s = "CANCELLING" -> {"CANCELLED", "COMPLETED"}
          [] s = "COMPLETING" ->
                 {"COMPLETED", "FAILED_RECOVERABLE", "FAILED_TERMINAL", "CANCELLED"}
          [] OTHER -> {}]

(* Mutant: the edge that commits a migration is missing from the table.       *)
canTransitionNoCommit(from, to) ==
    to \in allowedFrom[from] /\ <<from, to>> # <<"MIGRATING", "RUNNING">>

canTransition(from, to) == to \in allowedFrom[from]

(* The states of the zero-work gate of guardedTransition: COMPLETED may be    *)
(* reached from them only if the policy allows completion without work.       *)
ZeroWorkStates ==
    {"CREATED", "VALIDATING", "BLOCKED", "WAITING_FOR_DEPENDENCIES", "WAITING_FOR_RESOURCES"}

(* The states startEpisode accepts.                                           *)
ResumeEligible == {"READY", "RESTART_PENDING", "SUSPENDED", "PREEMPTED", "RECOVERING"}
=============================================================================
