--------------------------- MODULE WorkloadStore ----------------------------
(* A workload together with its durable record: WorkloadEngine saves the      *)
(* workload after every operation that returned ALLOW (persist in             *)
(* src/coordinator.cpp, the codec and the stores in src/persistence.cpp), and *)
(* a process that comes up after a crash loads the record.  persist drops     *)
(* what save returns: where the file cannot be opened or written, the         *)
(* operation has still returned ALLOW.  The byte layout is left out: what     *)
(* matters here is which fields the codec carries, and                        *)
(* episodeCounterForMigration_ is not among them; FileStore.tla has the file. *)
EXTENDS Workload

CONSTANT MaxMissed  \* bound: saves that may fail in a row

ASSUME MissedAssumption == MaxMissed \in Nat

VARIABLES
    disk,    \* the record last written
    torn,    \* the store holds only a part of it, or nothing: no load succeeds
    missed   \* how many saves have failed since one reached the store

storeVars == <<vars, disk, torn, missed>>

(* What Workload::encode writes.                                              *)
Encoded ==
    [state |-> state, generation |-> generation, episodes |-> episodes,
     progress |-> progress, restartCount |-> restartCount,
     cancellationRequested |-> cancellationRequested, cancelledFinal |-> cancelledFinal,
     policy |-> policy, depsReady |-> depsReady, contractSatisfied |-> contractSatisfied]

(* Mutant: the final cancellation is not restored.                            *)
DecodeForgettingCancel(record) ==
    /\ state' = record.state
    /\ generation' = record.generation
    /\ episodes' = record.episodes
    /\ progress' = record.progress
    /\ restartCount' = record.restartCount
    /\ cancellationRequested' = record.cancellationRequested
    /\ cancelledFinal' = FALSE
    /\ policy' = record.policy
    /\ depsReady' = record.depsReady
    /\ contractSatisfied' = record.contractSatisfied
    /\ migrationCounter' = FirstMigrationId

(* A workload Workload::decode builds from a record: the counter of migration *)
(* episodes has its initial value again.                                      *)
Decode(record) ==
    /\ state' = record.state
    /\ generation' = record.generation
    /\ episodes' = record.episodes
    /\ progress' = record.progress
    /\ restartCount' = record.restartCount
    /\ cancellationRequested' = record.cancellationRequested
    /\ cancelledFinal' = record.cancelledFinal
    /\ policy' = record.policy
    /\ depsReady' = record.depsReady
    /\ contractSatisfied' = record.contractSatisfied
    /\ migrationCounter' = FirstMigrationId

(* Mutant: startEpisode does not save.                                        *)
SavedExceptStart ==
    /\ disk' = IF episodeCounter' = episodeCounter THEN Encoded' ELSE disk
    /\ torn' = FALSE
    /\ missed' = 0

(* The save succeeds.                                                         *)
Saved == disk' = Encoded' /\ torn' = FALSE /\ missed' = 0

(* The save fails: before the file was opened, which keeps what it holds, or  *)
(* in the middle of it, the file being truncated already.                     *)
SaveFailed ==
    /\ missed < MaxMissed
    /\ missed' = missed + 1
    /\ \/ UNCHANGED <<disk, torn>>
       \/ disk' = Encoded' /\ torn' = TRUE

(* persist: whatever save returns, the operation has returned ALLOW.          *)
Persist ==
    \/ outcome' # "ALLOW" /\ UNCHANGED <<disk, torn, missed>>
    \/ outcome' = "ALLOW" /\ (Saved \/ SaveFailed)

(* WorkloadEngine::create saves the new workload, with the same indifference  *)
(* to a failure.                                                              *)
StoreInit ==
    /\ Init
    /\ disk = Encoded
    /\ \/ torn = FALSE /\ missed = 0
       \/ torn = TRUE /\ missed = 1 /\ missed <= MaxMissed

EngineOperation == EngineNext /\ Persist

(* The process dies between two operations and its successor loads the        *)
(* record; a torn record does not decode, and the workload is lost.           *)
(* WorkloadEngine has no operation that adopts a loaded workload: the         *)
(* successor calls the operations of the Workload itself, with episode ids it *)
(* chooses, and is taken to choose new ones and to save like the engine.      *)
CrashAndReload ==
    /\ ~torn
    /\ Decode(disk)
    /\ outcome' = "ALLOW"
    /\ missed' = 0
    /\ UNCHANGED <<episodeCounter, disk, torn>>

StoreNext == EngineOperation \/ CrashAndReload

StoreSpec == StoreInit /\ [][StoreNext]_storeVars

-----------------------------------------------------------------------------
(* The record is the workload: a refused operation never moves the state,     *)
(* adds an incarnation or books progress, so saving only after ALLOW loses    *)
(* none of them.  What it can miss is one flag: a commitCompletion under      *)
(* REQUIRED_UNITS marks the current episode completed before its transition   *)
(* is refused.                                                                *)
RecordIsWorkload ==
    /\ disk.state = state
    /\ disk.generation = generation
    /\ disk.progress = progress
    /\ Len(disk.episodes) = Len(episodes)
    /\ \A i \in DOMAIN episodes :
          \/ disk.episodes[i] = episodes[i]
          \/ /\ policy.completion = "REQUIRED_UNITS" /\ ProgressComplete
             /\ i \in CurrentEpisode
             /\ disk.episodes[i] = [episodes[i] EXCEPT !.completed = FALSE]

(* The record is a past of the workload: the same incarnations so far, no     *)
(* work the workload does not have, no end it has not reached.                *)
RecordIsPast ==
    /\ disk.generation <= generation
    /\ Len(disk.episodes) <= Len(episodes)
    /\ \A i \in 1..Len(disk.episodes) : disk.episodes[i].id = episodes[i].id
    /\ disk.progress.completed <= progress.completed
    /\ isTerminal(disk.state) => state = disk.state

(* "Persists each mutation" (coordinator.hpp): a crash between two operations *)
(* is invisible in the lifecycle as long as every save reached the store;     *)
(* after one that failed behind an ALLOW, what the store still holds lags     *)
(* behind but never diverges from the workload.                               *)
DurableLifecycle ==
    /\ missed = 0 => ~torn /\ RecordIsWorkload
    /\ ~torn => RecordIsPast

(* No operation and no crash rolls back the generation, the completed work or *)
(* a terminal state, but for the reload of a record an ignored failure left   *)
(* old: that takes the workload back to the record as a whole, never to a mix *)
(* of the two.                                                                *)
NoRollback ==
    [][\/ /\ generation' >= generation
          /\ progress'.completed >= progress.completed
          /\ isTerminal(state) => state' = state
       \/ /\ missed > 0 /\ missed' = 0 /\ ~torn /\ UNCHANGED disk
          /\ state' = disk.state /\ generation' = disk.generation
          /\ episodes' = disk.episodes /\ progress' = disk.progress]_storeVars
=============================================================================
