------------------------------ MODULE Workload ------------------------------
(* One durable workload (src/workload.cpp) and the operations WorkloadEngine  *)
(* (src/coordinator.cpp) applies to it.  Every engine operation holds the     *)
(* engine's mutex from beginning to end, so an operation is one action; what  *)
(* interleaves are the calls of independent callers (the coordinator loop, a  *)
(* loss detector, a user cancelling, an operator migrating), each of which    *)
(* presents a generation it read at some earlier time.                        *)
(*                                                                            *)
(* An operation that returns early leaves the workload alone, but many        *)
(* operations change fields BEFORE the transition they end with is refused:   *)
(* the actions keep those partial changes.                                    *)
(*                                                                            *)
(* Left out: the audit history and the revision it drives, names, owners,     *)
(* explanations, and the write-only counters restartGen_, migrationId_,       *)
(* migrationGen_, completionGen_, lastRestartReason_, lastSourceEpisode_ and  *)
(* cancellationWasRejected_, which no operation reads.                        *)
EXTENDS WorkloadStates, Integers, Sequences, FiniteSets

CONSTANTS
    Policies,          \* the policies create and setPolicy may install
    Boots,             \* (WorkerId, WorkerBootId) pairs of worker incarnations
    NoBoot,            \* the pair of an episode that was never dispatched
    Deltas,            \* the increments a progress report may carry
    MaxU64,            \* the largest value of the 64-bit progress counters
    TotalKind,         \* "KNOWN" or "UNKNOWN": Progress::totalKind
    Total,             \* Progress::total, meaningful when KNOWN
    FirstEpisodeId,    \* initial episodeCounter_ of the engine (1000)
    EpisodeIdLimit,    \* bound: a run ends where the engine's counter reaches this
    FirstMigrationId,  \* initial episodeCounterForMigration_ (2000)
    MaxEpisodes        \* bound: episodes per workload

RestartKind ==
    {"NEVER", "ON_KNOWN_FAILURE", "ON_WORKER_LOSS", "ON_INFRASTRUCTURE_FAILURE",
     "ON_AMBIGUOUS_EXECUTION", "ALWAYS_WITH_LIMIT", "MANUAL_ONLY"}

CompletionKind == {"SINGLE_RESULT", "ALL_PHASES", "REQUIRED_UNITS", "EXPLICIT_FINALIZE"}

(* The fields of Policy the operations read.                                  *)
Policy ==
    [restart: RestartKind, maxRestarts: Nat, completion: CompletionKind,
     allowZeroWork: BOOLEAN, migratable: BOOLEAN, suspendable: BOOLEAN,
     cancelRace: {"CANCEL_FIRST", "COMPLETION_FIRST"}]

ASSUME PoliciesAssumption == Policies \subseteq Policy

ASSUME BootsAssumption == NoBoot \notin Boots

ASSUME ProgressAssumption ==
    /\ MaxU64 \in Nat
    /\ Deltas \subseteq 0..MaxU64
    /\ TotalKind \in {"KNOWN", "UNKNOWN"}
    /\ Total \in 0..MaxU64

(* Nothing keeps the engine's counter below FirstMigrationId: it only starts  *)
(* 1000 below it.  EpisodeIdLimit bounds a run, on either side of it.         *)
ASSUME EpisodeIdAssumption ==
    /\ FirstEpisodeId \in Nat \ {0}
    /\ EpisodeIdLimit \in Nat
    /\ FirstMigrationId \in Nat
    /\ FirstEpisodeId <= EpisodeIdLimit
    /\ MaxEpisodes \in Nat

(* The outcomes the modelled operations return.                               *)
Outcome ==
    {"ALLOW", "REJECT_STALE_WORKLOAD_GENERATION", "REJECT_TERMINAL",
     "REJECT_INVALID_TRANSITION", "REJECT_COMPLETION_POLICY", "REJECT_CANCELLED",
     "REJECT_EPISODE_INELIGIBLE", "REJECT_STALE_EPISODE", "REJECT_STALE_BOOT",
     "REJECT_PROGRESS_DOUBLE_COUNT", "REJECT_UNKNOWN", "REJECT_RESTART_LIMIT",
     "REJECT_DEGRADED_POLICY", "REJECT_NOT_SUSPENDED", "REJECT_NOT_RESUMABLE",
     "REJECT_MIGRATION_INELIGIBLE", "REJECT_IMMUTABLE_CONTRACT",
     "REJECT_STALE_DEPENDENCY", "REJECT_UNKNOWN_DEPENDENCY",
     "REJECT_STALE_RESOURCE_CONTRACT", "REJECT_RESOURCE_DOUBLE_RELEASE"}

(* The classes of restart trigger; "OTHER" is any string the switch of        *)
(* planRestart does not name.                                                 *)
RestartReason == {"WORKER_LOSS", "INFRASTRUCTURE_LOSS", "AMBIGUOUS_EXECUTION", "OTHER"}

Progress == [completed: 0..MaxU64, checkpointed: 0..MaxU64]

Episode ==
    [id: Nat, state: EpisodeState, boot: Boots \cup {NoBoot}, progress: Progress,
     authoritative: BOOLEAN, completed: BOOLEAN, workerLost: BOOLEAN]

VARIABLES
    state,                  \* state_
    generation,             \* generation_
    episodes,               \* episodes_
    progress,               \* progress_
    restartCount,           \* restartCount_
    cancellationRequested,  \* cancellationRequested_
    cancelledFinal,         \* cancelledFinal_
    policy,                 \* policy_
    depsReady,              \* deps_.ready()
    contractSatisfied,      \* contract_.satisfied()
    episodeCounter,         \* WorkloadEngine::episodeCounter_
    migrationCounter,       \* episodeCounterForMigration_
    outcome                 \* what the last operation returned

(* The workload proper: everything but the engine's counter and the result.   *)
lineage == <<generation, episodes, migrationCounter>>

cancel == <<cancellationRequested, cancelledFinal>>

setup == <<policy, depsReady, contractSatisfied>>

aggregate == <<state, lineage, progress, restartCount, cancel, setup>>

vars == <<aggregate, episodeCounter, outcome>>

(* The types the code declares for the fields.                                *)
TypeOK ==
    /\ state \in WorkloadState
    /\ generation \in Nat
    /\ episodes \in Seq(Episode)
    /\ progress \in Progress
    /\ restartCount \in Nat
    /\ cancellationRequested \in BOOLEAN
    /\ cancelledFinal \in BOOLEAN
    /\ policy \in Policies
    /\ depsReady \in BOOLEAN
    /\ contractSatisfied \in BOOLEAN
    /\ episodeCounter \in FirstEpisodeId..EpisodeIdLimit
    /\ migrationCounter \in Nat
    /\ outcome \in Outcome

-----------------------------------------------------------------------------
(* Mutant: the counters start uninitialised, both at zero.                    *)
CountersUninitialised == episodeCounter = 0 /\ migrationCounter = 0

(* The two id counters: the engine's, shared by its workloads, and the        *)
(* workload's own for the episodes commitMigration creates.                   *)
Counters == episodeCounter = FirstEpisodeId /\ migrationCounter = FirstMigrationId

(* Workload::create with the policy WorkloadEngine::create installs.  No      *)
(* dependency is defined yet, so they are ready; no grant was applied, so the *)
(* contract is not satisfied.                                                 *)
Init ==
    /\ state = "CREATED"
    /\ generation = 1
    /\ episodes = <<>>
    /\ progress = [completed |-> 0, checkpointed |-> 0]
    /\ restartCount = 0
    /\ cancellationRequested = FALSE
    /\ cancelledFinal = FALSE
    /\ policy \in Policies
    /\ depsReady = TRUE
    /\ contractSatisfied = FALSE
    /\ Counters
    /\ outcome = "ALLOW"

-----------------------------------------------------------------------------
(* Helpers of the operations.                                                 *)

(* The outcome of guardedTransition(to) from state s under the current        *)
(* generation.                                                                *)
TransitionVerdict(s, to) ==
    IF s = to THEN "ALLOW"
    ELSE IF isTerminal(s) THEN "REJECT_TERMINAL"
    ELSE IF ~canTransition(s, to) THEN "REJECT_INVALID_TRANSITION"
    ELSE IF to = "COMPLETED" /\ ~policy.allowZeroWork /\ s \in ZeroWorkStates
         THEN "REJECT_COMPLETION_POLICY"
    ELSE "ALLOW"

(* guardedTransition as a function: where it leaves the state, and what it    *)
(* returns.                                                                   *)
Attempt(s, to) ==
    LET verdict == TransitionVerdict(s, to)
    IN  [state |-> IF verdict = "ALLOW" THEN to ELSE s, outcome |-> verdict]

(* A further transition, tried only if the one before was allowed.            *)
Then(r, to) == IF r.outcome = "ALLOW" THEN Attempt(r.state, to) ELSE r

Finish(r) == state' = r.state /\ outcome' = r.outcome

(* Only the state moves.                                                      *)
Move(r) ==
    /\ Finish(r)
    /\ UNCHANGED <<lineage, progress, restartCount, cancel, setup, episodeCounter>>

(* The state moves and the episodes become eps.                               *)
MoveWith(r, eps) ==
    /\ Finish(r)
    /\ episodes' = eps
    /\ UNCHANGED <<generation, migrationCounter, progress, restartCount, cancel, setup,
                   episodeCounter>>

(* An operation that ends without trying a transition.                        *)
Stay == [state |-> state, outcome |-> "ALLOW"]

(* An early return: nothing of the workload changes.                          *)
Reject(o) == outcome' = o /\ UNCHANGED <<aggregate, episodeCounter>>

(* The generation check operations begin with.                                *)
Fenced(expecting, Operation) ==
    \/ expecting # generation /\ Reject("REJECT_STALE_WORKLOAD_GENERATION")
    \/ expecting = generation /\ Operation

(* The position of the first episode with this id: no or one position.        *)
Lookup(id) ==
    {i \in DOMAIN episodes : /\ episodes[i].id = id
                             /\ \A j \in 1..(i - 1) : episodes[j].id # id}

(* currentEpisode(): the first authoritative episode, else the last one, else *)
(* none.                                                                      *)
CurrentEpisode ==
    {i \in DOMAIN episodes :
        IF \E k \in DOMAIN episodes : episodes[k].authoritative
        THEN episodes[i].authoritative /\ \A j \in 1..(i - 1) : ~episodes[j].authoritative
        ELSE i = Len(episodes)}

(* The episodes with e in place of the one at position i.                     *)
WithEpisode(i, e) == [episodes EXCEPT ![i] = e]

(* Mutant: the superseded episodes keep their authority.                      *)
SupersedeSharingAuthority(id, epState, boot) ==
    Append(episodes,
           [id |-> id, state |-> epState, boot |-> boot, progress |-> progress,
            authoritative |-> TRUE, completed |-> FALSE, workerLost |-> FALSE])

(* Mutant: the new episode starts from zero progress.                         *)
SupersedeFromZero(id, epState, boot) ==
    Append([i \in 1..Len(episodes) |-> [episodes[i] EXCEPT !.authoritative = FALSE]],
           [id |-> id, state |-> epState, boot |-> boot,
            progress |-> [completed |-> 0, checkpointed |-> 0],
            authoritative |-> TRUE, completed |-> FALSE, workerLost |-> FALSE])

(* A fresh episode that takes the authority from all earlier ones and carries *)
(* the known progress forward.                                                *)
Supersede(id, epState, boot) ==
    Append([i \in 1..Len(episodes) |-> [episodes[i] EXCEPT !.authoritative = FALSE]],
           [id |-> id, state |-> epState, boot |-> boot, progress |-> progress,
            authoritative |-> TRUE, completed |-> FALSE, workerLost |-> FALSE])

(* Mutant: the generation is not advanced.                                    *)
IncarnateSameGeneration(id, epState, boot) ==
    /\ episodes' = Supersede(id, epState, boot)
    /\ UNCHANGED generation

(* An incarnation boundary: a new authoritative episode, a new generation.    *)
Incarnate(id, epState, boot) ==
    /\ episodes' = Supersede(id, epState, boot)
    /\ generation' = generation + 1

(* Progress::complete().                                                      *)
ProgressComplete == TotalKind = "KNOWN" /\ progress.completed >= Total

(* 64-bit unsigned addition.                                                  *)
Plus(a, b) == (a + b) % (MaxU64 + 1)

(* The double-count test of reportProgress; its sum may wrap.                 *)
OverCommits(delta) == TotalKind = "KNOWN" /\ Plus(progress.completed, delta) > Total

(* Mutant: no overflow guard.                                                 *)
NeverOverflows(delta) == FALSE

(* The overflow guard of Progress::advance.                                   *)
Overflows(delta) == MaxU64 - progress.completed < delta

(* Progress::advance on the counters.                                         *)
Advance(p, delta, durable) ==
    LET done == Plus(p.completed, delta)
    IN  [completed |-> done, checkpointed |-> IF durable THEN done ELSE p.checkpointed]

-----------------------------------------------------------------------------
(* Admission: policy, preconditions, validation, settling.                    *)

(* WorkloadEngine::validate.                                                  *)
Validate == Move(Attempt(state, "VALIDATING"))

(* WorkloadEngine::setPolicy: accepted in every state, terminal ones too.     *)
SetPolicy(p) ==
    /\ policy' = p
    /\ outcome' = "ALLOW"
    /\ UNCHANGED <<state, lineage, progress, restartCount, cancel, depsReady,
                   contractSatisfied, episodeCounter>>

(* addDependency and setDependencyStatus, reduced to what they do to ready(); *)
(* Admission.tla shows that the full DependencySet does nothing else.         *)
EditDependencies ==
    \/ /\ depsReady' \in BOOLEAN
       /\ outcome' = "ALLOW"
       /\ UNCHANGED <<state, lineage, progress, restartCount, cancel, policy,
                      contractSatisfied, episodeCounter>>
    \/ \E o \in {"REJECT_UNKNOWN_DEPENDENCY", "REJECT_STALE_DEPENDENCY"} : Reject(o)

(* addResourceRequirement and applyGrant, reduced to what they do to          *)
(* satisfied(), and, for a caller that holds the Workload itself, the other   *)
(* operations of its ResourceContract; Admission.tla has them in full.        *)
EditContract ==
    \/ /\ contractSatisfied' \in BOOLEAN
       /\ outcome' = "ALLOW"
       /\ UNCHANGED <<state, lineage, progress, restartCount, cancel, policy,
                      depsReady, episodeCounter>>
    \/ \E o \in {"REJECT_IMMUTABLE_CONTRACT", "REJECT_STALE_RESOURCE_CONTRACT",
                 "REJECT_RESOURCE_DOUBLE_RELEASE"} : Reject(o)

(* Mutant: the resource contract is not looked at.                            *)
SettleTargetDepsOnly == IF ~depsReady THEN "WAITING_FOR_DEPENDENCIES" ELSE "READY"

(* Where settle wants the workload to be.                                     *)
SettleTarget ==
    IF ~depsReady THEN "WAITING_FOR_DEPENDENCIES"
    ELSE IF ~contractSatisfied THEN "WAITING_FOR_RESOURCES"
    ELSE "READY"

(* settle, which the engine calls with the current generation.                *)
Settle ==
    \/ /\ SettleTarget # "READY"
       /\ isTerminal(state) \/ isCancelling(state)
       /\ Reject("REJECT_TERMINAL")
    \/ /\ SettleTarget = "READY" \/ ~(isTerminal(state) \/ isCancelling(state))
       /\ Move(Attempt(state, SettleTarget))

-----------------------------------------------------------------------------
(* Episodes.                                                                  *)

(* A refused startEpisode: the engine has already drawn the episode id.       *)
RefuseStart(o) == outcome' = o /\ UNCHANGED aggregate

(* Mutant: a final cancellation does not stop new episodes.                   *)
StartVerdictAfterCancel ==
    IF isCancelling(state) THEN "REJECT_CANCELLED"
    ELSE IF isTerminal(state) THEN "REJECT_TERMINAL"
    ELSE IF state \notin ResumeEligible THEN "REJECT_EPISODE_INELIGIBLE"
    ELSE "ALLOW"

(* The early returns of startEpisode.                                         *)
StartVerdict ==
    IF cancelledFinal \/ isCancelling(state) THEN "REJECT_CANCELLED"
    ELSE IF isTerminal(state) THEN "REJECT_TERMINAL"
    ELSE IF state \notin ResumeEligible THEN "REJECT_EPISODE_INELIGIBLE"
    ELSE "ALLOW"

(* startEpisode (advanceGeneration is true in every call).  A resumable state *)
(* is first moved to READY, then to STARTING.                                 *)
StartEpisode ==
    /\ episodeCounter < EpisodeIdLimit
    /\ episodeCounter' = episodeCounter + 1
    /\ \/ StartVerdict # "ALLOW" /\ RefuseStart(StartVerdict)
       \/ /\ StartVerdict = "ALLOW"
          /\ Len(episodes) < MaxEpisodes
          /\ LET r == Then(Attempt(state, "READY"), "STARTING")
             IN  /\ Finish(r)
                 /\ IF r.outcome = "ALLOW"
                    THEN Incarnate(episodeCounter, "ADMITTED", NoBoot)
                    ELSE UNCHANGED <<episodes, generation>>
          /\ UNCHANGED <<migrationCounter, progress, restartCount, cancel, setup>>

(* admitDispatch: fenced by the episode's own state only.                     *)
AdmitDispatch(id, boot) ==
    \/ /\ \A i \in Lookup(id) : episodes[i].state \notin {"ADMITTED", "PREEMPTED"}
       /\ Reject("REJECT_EPISODE_INELIGIBLE")
    \/ \E i \in Lookup(id) :
          /\ episodes[i].state \in {"ADMITTED", "PREEMPTED"}
          /\ MoveWith(IF state = "STARTING" THEN Attempt(state, "RUNNING") ELSE Stay,
                      WithEpisode(i, [episodes[i] EXCEPT !.boot = boot, !.state = "RUNNING"]))

(* Every episode is created with generation 1 and keeps it.                   *)
EpisodeGeneration == 1

(* Mutant: superseded episodes may report progress.                           *)
ProgressVerdictAnyEpisode(i, epGen, delta) ==
    IF epGen # EpisodeGeneration THEN "REJECT_STALE_EPISODE"
    ELSE IF cancelledFinal \/ isCancelling(state) THEN "REJECT_CANCELLED"
    ELSE IF isTerminal(state) THEN "REJECT_TERMINAL"
    ELSE IF OverCommits(delta) THEN "REJECT_PROGRESS_DOUBLE_COUNT"
    ELSE IF Overflows(delta) THEN "REJECT_UNKNOWN"
    ELSE "ALLOW"

(* Mutant: a terminal workload accepts progress.                              *)
ProgressVerdictAfterEnd(i, epGen, delta) ==
    IF epGen # EpisodeGeneration THEN "REJECT_STALE_EPISODE"
    ELSE IF ~episodes[i].authoritative THEN "REJECT_EPISODE_INELIGIBLE"
    ELSE IF cancelledFinal \/ isCancelling(state) THEN "REJECT_CANCELLED"
    ELSE IF OverCommits(delta) THEN "REJECT_PROGRESS_DOUBLE_COUNT"
    ELSE IF Overflows(delta) THEN "REJECT_UNKNOWN"
    ELSE "ALLOW"

(* Mutant: no double-count test.                                              *)
ProgressVerdictNoTotal(i, epGen, delta) ==
    IF epGen # EpisodeGeneration THEN "REJECT_STALE_EPISODE"
    ELSE IF ~episodes[i].authoritative THEN "REJECT_EPISODE_INELIGIBLE"
    ELSE IF cancelledFinal \/ isCancelling(state) THEN "REJECT_CANCELLED"
    ELSE IF isTerminal(state) THEN "REJECT_TERMINAL"
    ELSE IF Overflows(delta) THEN "REJECT_UNKNOWN"
    ELSE "ALLOW"

(* The verdict of reportProgress on the episode at position i.                *)
ProgressVerdict(i, epGen, delta) ==
    IF epGen # EpisodeGeneration THEN "REJECT_STALE_EPISODE"
    ELSE IF ~episodes[i].authoritative THEN "REJECT_EPISODE_INELIGIBLE"
    ELSE IF cancelledFinal \/ isCancelling(state) THEN "REJECT_CANCELLED"
    ELSE IF isTerminal(state) THEN "REJECT_TERMINAL"
    ELSE IF OverCommits(delta) THEN "REJECT_PROGRESS_DOUBLE_COUNT"
    ELSE IF Overflows(delta) THEN "REJECT_UNKNOWN"
    ELSE "ALLOW"

(* reportProgress: the workload's counters and those of the episode advance   *)
(* together.                                                                  *)
ReportProgress(id, epGen, delta, durable) ==
    \/ /\ Lookup(id) = {}
       /\ Reject("REJECT_EPISODE_INELIGIBLE")
    \/ \E i \in Lookup(id) :
          LET verdict == ProgressVerdict(i, epGen, delta)
          IN  \/ verdict # "ALLOW" /\ Reject(verdict)
              \/ /\ verdict = "ALLOW"
                 /\ progress' = Advance(progress, delta, durable)
                 /\ episodes' = WithEpisode(i, [episodes[i] EXCEPT !.progress =
                                                   Advance(@, delta, durable)])
                 /\ outcome' = "ALLOW"
                 /\ UNCHANGED <<state, generation, migrationCounter, restartCount,
                                cancel, setup, episodeCounter>>

(* markEpisodeCompleted and markEpisodeFailed: neither is fenced.             *)
MarkEpisode(id, epState) ==
    \/ /\ Lookup(id) = {}
       /\ Reject("REJECT_EPISODE_INELIGIBLE")
    \/ \E i \in Lookup(id) :
          MoveWith(Stay, WithEpisode(i, [episodes[i] EXCEPT
                                            !.state = epState,
                                            !.completed = @ \/ epState = "COMPLETED"]))

MarkEpisodeCompleted(id) == MarkEpisode(id, "COMPLETED")

MarkEpisodeFailed(id) == MarkEpisode(id, "FAILED")

-----------------------------------------------------------------------------
(* Worker loss and restart.                                                   *)

(* onWorkerLost: a report must name the boot recorded for the current         *)
(* episode.                                                                   *)
OnWorkerLost(boot, expecting) ==
    Fenced(expecting,
        \/ CurrentEpisode = {} /\ Reject("REJECT_EPISODE_INELIGIBLE")
        \/ /\ \E i \in CurrentEpisode : episodes[i].boot # boot
           /\ Reject("REJECT_STALE_BOOT")
        \/ \E i \in CurrentEpisode :
              /\ episodes[i].boot = boot
              /\ MoveWith(IF state \in {"RUNNING", "DEGRADED"}
                          THEN Attempt(state, "RECOVERING") ELSE Stay,
                          WithEpisode(i, [episodes[i] EXCEPT !.workerLost = TRUE,
                                                             !.state = "LOST"])))

(* The reasons each RestartKind admits.                                       *)
RestartReasonsOf(kind) ==
    CASE kind = "ALWAYS_WITH_LIMIT" -> RestartReason
      [] kind = "ON_KNOWN_FAILURE" -> RestartReason \ {"WORKER_LOSS"}
      [] kind = "ON_WORKER_LOSS" -> {"WORKER_LOSS"}
      [] kind = "ON_INFRASTRUCTURE_FAILURE" -> {"INFRASTRUCTURE_LOSS", "WORKER_LOSS"}
      [] kind = "ON_AMBIGUOUS_EXECUTION" -> {"AMBIGUOUS_EXECUTION"}
      [] OTHER -> {}

(* Mutant: off by one.                                                        *)
restartAllowedInclusive(count, max) == count <= max

restartAllowed(count, max) == count < max

(* planRestart: the restart is counted before the transition is tried.        *)
PlanRestart(reason, expecting) ==
    Fenced(expecting,
        LET allowed == /\ reason \in RestartReasonsOf(policy.restart)
                       /\ restartAllowed(restartCount, policy.maxRestarts)
        IN  \/ isTerminal(state) /\ Reject("REJECT_TERMINAL")
            \/ ~isTerminal(state) /\ ~allowed /\ Reject("REJECT_RESTART_LIMIT")
            \/ /\ ~isTerminal(state) /\ allowed
               /\ restartCount' = restartCount + 1
               /\ Finish(Attempt(state, "RESTART_PENDING"))
               /\ UNCHANGED <<lineage, progress, cancel, setup, episodeCounter>>)

-----------------------------------------------------------------------------
(* Suspension, resumption, migration.                                         *)

RequestSuspend(expecting) ==
    Fenced(expecting,
        \/ ~policy.suspendable /\ Reject("REJECT_DEGRADED_POLICY")
        \/ /\ policy.suspendable /\ ~isActivelyRunning(state)
           /\ Reject("REJECT_NOT_SUSPENDED")
        \/ /\ policy.suspendable /\ isActivelyRunning(state)
           /\ Move(Attempt(state, "SUSPEND_REQUESTED")))

(* completeSuspend: from SUSPEND_REQUESTED it passes through SUSPENDING.      *)
CompleteSuspend(expecting) ==
    Fenced(expecting,
        \/ state = "SUSPENDED" /\ Reject("ALLOW")
        \/ /\ state \notin {"SUSPENDED", "SUSPEND_REQUESTED", "SUSPENDING"}
           /\ Reject("REJECT_NOT_RESUMABLE")
        \/ /\ state \in {"SUSPEND_REQUESTED", "SUSPENDING"}
           /\ MoveWith(Then(Attempt(state, "SUSPENDING"), "SUSPENDED"),
                       [i \in 1..Len(episodes) |->
                          IF i \in CurrentEpisode
                          THEN [episodes[i] EXCEPT !.state = "SUSPENDED",
                                                   !.workerLost = FALSE]
                          ELSE episodes[i]]))

RequestResume(expecting) ==
    Fenced(expecting,
        \/ state \notin {"SUSPENDED", "PREEMPTED"} /\ Reject("REJECT_NOT_SUSPENDED")
        \/ /\ state \in {"SUSPENDED", "PREEMPTED"}
           /\ Move(Attempt(state, "READY")))

RequestMigration(expecting) ==
    Fenced(expecting,
        LET eligible == /\ policy.migratable
                        /\ isActivelyRunning(state) \/ state = "MIGRATION_PENDING"
        IN  \/ ~eligible /\ Reject("REJECT_MIGRATION_INELIGIBLE")
            \/ /\ eligible
               /\ Move(Attempt(state, "MIGRATION_PENDING")))

(* commitMigration: the target episode takes over, running on the target      *)
(* worker, and the generation advances.                                       *)
CommitMigration(boot, expecting) ==
    Fenced(expecting,
        \/ /\ state \notin {"MIGRATION_PENDING", "MIGRATING"}
           /\ Reject("REJECT_MIGRATION_INELIGIBLE")
        \/ /\ state \in {"MIGRATION_PENDING", "MIGRATING"}
           /\ Len(episodes) < MaxEpisodes
           /\ LET quiesced == Attempt(state, "MIGRATING")
              IN  /\ Finish(Then(quiesced, "RUNNING"))
                  /\ IF quiesced.outcome = "ALLOW"
                     THEN /\ Incarnate(migrationCounter, "RUNNING", boot)
                          /\ migrationCounter' = migrationCounter + 1
                     ELSE UNCHANGED <<episodes, migrationCounter, generation>>
           /\ UNCHANGED <<progress, restartCount, cancel, setup, episodeCounter>>)

-----------------------------------------------------------------------------
(* Completion and cancellation.                                               *)

(* Mutant: any completed episode satisfies the criterion.                     *)
CompletionCriterionAnyEpisode ==
    LET result == \E i \in DOMAIN episodes : episodes[i].completed
    IN  CASE policy.completion = "SINGLE_RESULT" -> result
          [] policy.completion = "ALL_PHASES" -> result /\ ProgressComplete
          [] policy.completion = "REQUIRED_UNITS" -> ProgressComplete
          [] OTHER -> FALSE

CompletionCriterion ==
    LET result == \E i \in CurrentEpisode : episodes[i].completed
    IN  CASE policy.completion = "SINGLE_RESULT" -> result
          [] policy.completion = "ALL_PHASES" -> result /\ ProgressComplete
          [] policy.completion = "REQUIRED_UNITS" -> ProgressComplete
          [] OTHER -> FALSE

(* Mutant: the race semantics is not consulted.                               *)
CancelNeverFirst == FALSE

CancelFirst == policy.cancelRace = "CANCEL_FIRST"

(* commitCompletion: the current episode is marked and a pending cancellation *)
(* dropped before the transitions to COMPLETING and COMPLETED are tried.      *)
CommitCompletion(expecting) ==
    Fenced(expecting,
        \/ isTerminal(state) /\ Reject("REJECT_TERMINAL")
        \/ /\ ~isTerminal(state)
           /\ cancellationRequested /\ CancelFirst
           /\ Reject("REJECT_CANCELLED")
        \/ /\ ~isTerminal(state) /\ ~(cancellationRequested /\ CancelFirst)
           /\ ~CompletionCriterion
           /\ Reject("REJECT_COMPLETION_POLICY")
        \/ /\ ~isTerminal(state) /\ ~(cancellationRequested /\ CancelFirst)
           /\ CompletionCriterion
           /\ episodes' = [i \in 1..Len(episodes) |->
                             [episodes[i] EXCEPT !.completed = @ \/ i \in CurrentEpisode]]
           /\ cancellationRequested' = FALSE
           /\ Finish(Then(Attempt(state, "COMPLETING"), "COMPLETED"))
           /\ UNCHANGED <<generation, migrationCounter, progress, restartCount,
                          cancelledFinal, setup, episodeCounter>>)

(* finalize, for EXPLICIT_FINALIZE only; the engine does not expose it.       *)
Finalize(expecting) ==
    Fenced(expecting,
        \/ /\ policy.completion # "EXPLICIT_FINALIZE"
           /\ Reject("REJECT_COMPLETION_POLICY")
        \/ /\ policy.completion = "EXPLICIT_FINALIZE" /\ isTerminal(state)
           /\ Reject("REJECT_TERMINAL")
        \/ /\ policy.completion = "EXPLICIT_FINALIZE" /\ ~isTerminal(state)
           /\ Move(Then(Attempt(state, "COMPLETING"), "COMPLETED")))

(* requestCancellationWorkloadScope: the request is recorded even when the    *)
(* transition is refused.                                                     *)
RequestCancellation(expecting) ==
    Fenced(expecting,
        \/ isTerminal(state) /\ Reject("REJECT_TERMINAL")
        \/ /\ ~isTerminal(state)
           /\ cancellationRequested' = TRUE
           /\ Finish(IF isCancelling(state) THEN Stay
                     ELSE Attempt(state, "CANCELLATION_REQUESTED"))
           /\ UNCHANGED <<lineage, progress, restartCount, cancelledFinal, setup,
                          episodeCounter>>)

(* completeCancellation: both flags are set before the transitions through    *)
(* CANCELLATION_REQUESTED and CANCELLING to CANCELLED are tried.              *)
CompleteCancellation(expecting) ==
    Fenced(expecting,
        \/ /\ state = "CANCELLED"
           /\ cancelledFinal' = TRUE
           /\ outcome' = "ALLOW"
           /\ UNCHANGED <<state, lineage, progress, restartCount,
                          cancellationRequested, setup, episodeCounter>>
        \/ state # "CANCELLED" /\ isTerminal(state) /\ Reject("REJECT_TERMINAL")
        \/ /\ ~isTerminal(state)
           /\ cancelledFinal' = TRUE
           /\ cancellationRequested' = TRUE
           /\ Finish(Then(Then(Attempt(state, "CANCELLATION_REQUESTED"), "CANCELLING"),
                          "CANCELLED"))
           /\ UNCHANGED <<lineage, progress, restartCount, setup, episodeCounter>>)

(* transition: the public guardedTransition, with the caller's generation.    *)
(* Through the engine only Validate uses it.                                  *)
Transition(to, expecting) ==
    Fenced(expecting,
        /\ Move(Attempt(state, to)))

-----------------------------------------------------------------------------
(* A caller names an episode it was told of, or one the workload never had,   *)
(* and a generation it read at some time.                                     *)
NoEpisode == 0

KnownIds == {NoEpisode} \cup {episodes[i].id : i \in DOMAIN episodes}

PastGenerations == 1..generation

(* The operations WorkloadEngine exposes that leave the gates alone.          *)
LifecycleNext ==
    \/ Validate
    \/ \E p \in Policies : SetPolicy(p)
    \/ Settle
    \/ StartEpisode
    \/ \E id \in KnownIds, boot \in Boots : AdmitDispatch(id, boot)
    \/ \E id \in KnownIds, epGen \in {1, 2}, delta \in Deltas, durable \in BOOLEAN :
          ReportProgress(id, epGen, delta, durable)
    \/ \E id \in KnownIds : MarkEpisodeCompleted(id)
    \/ \E boot \in Boots, g \in PastGenerations : OnWorkerLost(boot, g)
    \/ \E reason \in RestartReason, g \in PastGenerations : PlanRestart(reason, g)
    \/ \E g \in PastGenerations : RequestSuspend(g)
    \/ \E g \in PastGenerations : CompleteSuspend(g)
    \/ \E g \in PastGenerations : RequestResume(g)
    \/ \E g \in PastGenerations : RequestMigration(g)
    \/ \E boot \in Boots, g \in PastGenerations : CommitMigration(boot, g)
    \/ \E g \in PastGenerations : CommitCompletion(g)
    \/ \E g \in PastGenerations : RequestCancellation(g)
    \/ \E g \in PastGenerations : CompleteCancellation(g)

(* The operations WorkloadEngine exposes.                                     *)
EngineNext == EditDependencies \/ EditContract \/ LifecycleNext

(* All public operations of Workload.                                         *)
Next ==
    \/ EngineNext
    \/ \E to \in WorkloadState, g \in PastGenerations : Transition(to, g)
    \/ \E g \in PastGenerations : Finalize(g)
    \/ \E id \in KnownIds : MarkEpisodeFailed(id)

(* The workload under every caller of its public interface, and the workload  *)
(* as reached through the engine alone.                                       *)
Spec == Init /\ [][Next]_vars

EngineSpec == Init /\ [][EngineNext]_vars

-----------------------------------------------------------------------------
(* Properties of every caller's use of the workload (Spec).                   *)

(* Each episode is one incarnation: startEpisode and commitMigration append   *)
(* an episode and advance the generation, and nothing else does either, so a  *)
(* generation a caller holds is current exactly while its episode is the      *)
(* newest.                                                                    *)
GenerationCountsEpisodes == generation = 1 + Len(episodes)

(* "Exactly one episode may advance progress" (workload.hpp): it is the       *)
(* newest, whatever restarts and migrations came before.                      *)
SoleAuthority ==
    \A i \in DOMAIN episodes : episodes[i].authoritative <=> i = Len(episodes)

(* reportProgress keeps the books of the workload and of its authoritative    *)
(* episode equal, and a new episode starts from where its predecessor         *)
(* stopped: no work is lost or counted twice across incarnations.             *)
ProgressLineage ==
    /\ episodes # <<>> => episodes[Len(episodes)].progress = progress
    /\ \A i \in 1..(Len(episodes) - 1) :
          episodes[i].progress.completed <= episodes[i + 1].progress.completed

(* The ids both counters have handed out: the engine's, which refused starts  *)
(* and its other workloads advance too, has passed FirstMigrationId, and the  *)
(* workload has migrated.                                                     *)
CollidingIds ==
    FirstEpisodeId..(episodeCounter - 1) \cap FirstMigrationId..(migrationCounter - 1)

(* "Exactly one episode may advance progress" (workload.hpp), so the id of    *)
(* the authoritative episode must find that episode: admitDispatch,           *)
(* reportProgress and markEpisodeCompleted take the first episode with the id *)
(* they are given, and if that is a superseded one nobody can report.  The    *)
(* one thing that hides it is a collision of the two counters, which the code *)
(* does not prevent; no order of starts and migrations else does.             *)
AuthorityAddressable ==
    episodes # <<>> =>
        LET id == episodes[Len(episodes)].id
        IN  Len(episodes) \in Lookup(id) \/ id \in CollidingIds

(* What is checkpointed has been completed, and a KNOWN total is never        *)
(* exceeded although the double-count test of reportProgress may itself wrap. *)
ProgressBounded ==
    /\ progress.checkpointed <= progress.completed
    /\ TotalKind = "KNOWN" => progress.completed <= Total

(* Completed work never decreases, even when a report would overflow the      *)
(* 64-bit counter (Progress::advance).                                        *)
ProgressMonotonic == [][progress'.completed >= progress.completed]_vars

(* An episode that lost its authority never regains it, and no late report of *)
(* its worker is booked to it.                                                *)
SupersededFrozen ==
    [][\A i \in 1..(Len(episodes) - 1) :
          /\ ~episodes'[i].authoritative
          /\ episodes'[i].progress = episodes[i].progress]_vars

(* A terminal workload is never reopened: no operation of any caller moves    *)
(* its state, adds an incarnation, books progress or counts a restart.        *)
TerminalIsFinal ==
    [][isTerminal(state) =>
          UNCHANGED <<state, generation, progress, restartCount>>]_vars

-----------------------------------------------------------------------------
(* Properties of the workload behind the engine (EngineSpec).                 *)

(* Between two operations the engine's workload is never halfway: the chains  *)
(* through SUSPENDING, MIGRATING, CANCELLING and COMPLETING run to their end, *)
(* because none of their later transitions can be refused.                    *)
NeverHalfway ==
    state \in {"CREATED", "VALIDATING", "WAITING_FOR_DEPENDENCIES",
               "WAITING_FOR_RESOURCES", "READY", "STARTING", "RUNNING",
               "SUSPEND_REQUESTED", "SUSPENDED", "MIGRATION_PENDING", "RECOVERING",
               "RESTART_PENDING", "CANCELLATION_REQUESTED", "COMPLETED", "CANCELLED"}

(* No restart is planned beyond the limit in force, also where setPolicy has  *)
(* since lowered it below the count, and RESTART_PENDING is entered only with *)
(* the restart counted.                                                       *)
RestartBudget ==
    [][/\ restartCount' # restartCount
             => restartCount' = restartCount + 1 /\ restartCount' <= policy.maxRestarts
       /\ state # "RESTART_PENDING" /\ state' = "RESTART_PENDING"
             => restartCount' # restartCount]_vars

(* The states before execution, in which a cancellation is recorded although  *)
(* its transition is refused.                                                 *)
BeforeExecution ==
    {"CREATED", "VALIDATING", "WAITING_FOR_DEPENDENCIES", "WAITING_FOR_RESOURCES", "READY"}

(* COMPLETE and CANCEL never both win (policy.hpp: "once one side commits,    *)
(* the other is rejected"): a completed workload holds no cancellation, a     *)
(* cancelled one is final, an accepted cancellation is not forgotten, and a   *)
(* finally cancelled workload never executes again.                           *)
OneTerminalWinner ==
    /\ state = "COMPLETED" => ~cancelledFinal /\ ~cancellationRequested
    /\ state = "CANCELLED" => cancelledFinal /\ cancellationRequested
    /\ state = "CANCELLATION_REQUESTED" => cancellationRequested
    /\ cancelledFinal => state \in BeforeExecution \cup {"CANCELLED"}

(* A SINGLE_RESULT workload completes on the result of the authoritative      *)
(* episode: the completion of a superseded episode, which episodeCompleted    *)
(* records without any fence, does not complete the workload.                 *)
CompletionByAuthority ==
    [][(/\ policy.completion = "SINGLE_RESULT"
        /\ state # "COMPLETED"
        /\ state' = "COMPLETED") => episodes[Len(episodes)].completed]_vars

-----------------------------------------------------------------------------
(* What the documentation says and the engine does not keep; each is refuted  *)
(* by a run of its own.                                                       *)

(* "Rejected restart must not consume a slot" (tests/test_core.cpp).          *)
RejectedRestartKeepsSlot == [][restartCount' # restartCount => outcome' = "ALLOW"]_vars

(* Lifecycle operations are "all generation-fenced" (workload.hpp): the       *)
(* dispatch that starts the workload is the authoritative episode's.          *)
DispatchIsFenced ==
    [][state = "STARTING" /\ state' = "RUNNING"
          => episodes'[Len(episodes)].state = "RUNNING"]_vars

(* "max_restarts=N must not restart N+1 times" (policy.hpp): the episodes     *)
(* that replaced one whose worker was lost are within the limit.              *)
RestartLimitHolds ==
    LET replaced == {i \in 1..(Len(episodes) - 1) : episodes[i].workerLost}
    IN  \E p \in Policies : Cardinality(replaced) <= p.maxRestarts
=============================================================================
