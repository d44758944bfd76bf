--------------------------- MODULE WorkloadProofs ---------------------------
(* Theorems about Workload.tla, for all policies, workers, increments, widths *)
(* and bounds.                                                                *)
EXTENDS Workload, TLAPS

-----------------------------------------------------------------------------
(* Types of the helpers.                                                      *)

(* What a transition or a chain of transitions ends with.                     *)
Result == [state: WorkloadState, outcome: Outcome]

(* guardedTransition leaves a workload in a state and returns an outcome.     *)
LEMMA AttemptResult ==
    ASSUME NEW s \in WorkloadState, NEW to \in WorkloadState
    PROVE  Attempt(s, to) \in Result
<1>1. TransitionVerdict(s, to) \in Outcome
  BY DEF TransitionVerdict, Outcome
<1> QED
  BY <1>1 DEF Attempt, Result

(* So does a chain of transitions.                                            *)
LEMMA ThenResult ==
    ASSUME NEW r \in Result, NEW to \in WorkloadState
    PROVE  Then(r, to) \in Result
<1>1. r.state \in WorkloadState
  BY DEF Result
<1>2. Attempt(r.state, to) \in Result
  BY <1>1, AttemptResult
<1> QED
  BY <1>2 DEF Then

(* An operation that only moves the state keeps the types.                    *)
LEMMA MoveType ==
    ASSUME TypeOK, NEW r \in Result, Move(r)
    PROVE  TypeOK'
BY DEF TypeOK, Move, Finish, Result, lineage, cancel, setup

(* An operation that moves the state and rewrites episodes keeps the types.   *)
LEMMA MoveWithType ==
    ASSUME TypeOK, NEW r \in Result, NEW eps \in Seq(Episode), MoveWith(r, eps)
    PROVE  TypeOK'
BY DEF TypeOK, MoveWith, Finish, Result, cancel, setup

(* An early return keeps the types.                                           *)
LEMMA RejectType ==
    ASSUME TypeOK, NEW o \in Outcome, Reject(o)
    PROVE  TypeOK'
BY DEF TypeOK, Reject, aggregate, lineage, cancel, setup

(* Ending without a transition is a result too.                               *)
LEMMA StayResult ==
    ASSUME TypeOK
    PROVE  Stay \in Result
BY DEF TypeOK, Stay, Result, Outcome

(* An episode that lost its authority is an episode.                          *)
LEMMA DropAuthority ==
    \A e \in Episode : [e EXCEPT !.authoritative = FALSE] \in Episode
BY DEF Episode

(* A dispatched episode is an episode (admitDispatch).                        *)
LEMMA DispatchEpisode ==
    \A e \in Episode, b \in Boots : [e EXCEPT !.boot = b, !.state = "RUNNING"] \in Episode
BY DEF Episode, EpisodeState

(* A completed or failed episode is an episode (markEpisodeCompleted,         *)
(* markEpisodeFailed).                                                        *)
LEMMA MarkedEpisode ==
    \A e \in Episode, st \in {"COMPLETED", "FAILED"} :
       [e EXCEPT !.state = st, !.completed = @ \/ st = "COMPLETED"] \in Episode
BY DEF Episode, EpisodeState

(* An episode whose completion was committed is an episode                    *)
(* (commitCompletion).                                                        *)
LEMMA CompletedEpisode ==
    \A e \in Episode, done \in BOOLEAN : [e EXCEPT !.completed = @ \/ done] \in Episode
BY DEF Episode

(* An episode whose worker was lost is an episode (onWorkerLost).             *)
LEMMA LostEpisode ==
    \A e \in Episode : [e EXCEPT !.workerLost = TRUE, !.state = "LOST"] \in Episode
BY DEF Episode, EpisodeState

(* A suspended episode is an episode (completeSuspend).                       *)
LEMMA SuspendedEpisode ==
    \A e \in Episode : [e EXCEPT !.state = "SUSPENDED", !.workerLost = FALSE] \in Episode
BY DEF Episode, EpisodeState

(* An episode with new progress counters is an episode (reportProgress).      *)
LEMMA AdvancedEpisode ==
    \A e \in Episode, p \in Progress : [e EXCEPT !.progress = p] \in Episode
BY DEF Episode

(* Every position of episodes_ holds an episode.                              *)
LEMMA EpisodeAt ==
    ASSUME TypeOK
    PROVE  \A i \in 1..Len(episodes) : episodes[i] \in Episode
BY DEF TypeOK

(* Replacing one episode leaves a sequence of episodes.                       *)
LEMMA ReplaceEpisode ==
    ASSUME TypeOK, NEW i \in DOMAIN episodes, NEW e \in Episode
    PROVE  WithEpisode(i, e) \in Seq(Episode)
BY DEF TypeOK, WithEpisode

(* Appending an incarnation leaves a sequence of episodes.                    *)
LEMMA SupersedeType ==
    ASSUME TypeOK, NEW id \in Nat, NEW st \in EpisodeState,
           NEW boot \in Boots \cup {NoBoot}
    PROVE  Supersede(id, st, boot) \in Seq(Episode)
<1> DEFINE old == [i \in 1..Len(episodes) |-> [episodes[i] EXCEPT !.authoritative = FALSE]]
           new == [id |-> id, state |-> st, boot |-> boot, progress |-> progress,
                   authoritative |-> TRUE, completed |-> FALSE, workerLost |-> FALSE]
<1>1. \A i \in 1..Len(episodes) : episodes[i] \in Episode
  BY DEF TypeOK
<1>2. \A i \in 1..Len(episodes) : [episodes[i] EXCEPT !.authoritative = FALSE] \in Episode
  BY <1>1, DropAuthority
<1>3. old \in Seq(Episode)
  BY <1>2 DEF TypeOK
<1>4. new \in Episode
  BY DEF TypeOK, Episode
<1> QED
  BY <1>3, <1>4 DEF Supersede

(* A sum reduced modulo the width fits the width.                             *)
LEMMA RemainderRange ==
    ASSUME NEW a \in Nat, NEW m \in Nat
    PROVE  a % (m + 1) \in 0..m
OBVIOUS

(* Progress::advance yields counters within the width, also when it wraps.    *)
LEMMA AdvanceType ==
    ASSUME NEW p \in Progress, NEW delta \in Deltas, NEW durable \in BOOLEAN
    PROVE  Advance(p, delta, durable) \in Progress
<1>1. p.completed + delta \in Nat /\ MaxU64 \in Nat
  BY ProgressAssumption DEF Progress
<1>2. Plus(p.completed, delta) \in 0..MaxU64
  BY <1>1, RemainderRange DEF Plus
<1> QED
  BY <1>2 DEF Advance, Progress

(* The search for an episode by id ends at an episode.                        *)
LEMMA LookupInDomain ==
    ASSUME TypeOK, NEW id, NEW i \in Lookup(id)
    PROVE  i \in DOMAIN episodes /\ episodes[i] \in Episode
BY DEF TypeOK, Lookup

(* currentEpisode() is an episode of the workload.                            *)
LEMMA CurrentInDomain ==
    ASSUME TypeOK, NEW i \in CurrentEpisode
    PROVE  i \in DOMAIN episodes /\ episodes[i] \in Episode
BY DEF TypeOK, CurrentEpisode

-----------------------------------------------------------------------------
(* Type correctness.                                                          *)

(* A workload fresh from create has the right types.                          *)
LEMMA InitType == Init => TypeOK
<1> SUFFICES ASSUME Init PROVE TypeOK
  OBVIOUS
<1>1. episodes \in Seq(Episode)
  BY DEF Init
<1>2. progress \in Progress
  BY ProgressAssumption DEF Init, Progress
<1>3. episodeCounter \in FirstEpisodeId..EpisodeIdLimit /\ migrationCounter \in Nat
  BY EpisodeIdAssumption DEF Init, Counters
<1> QED
  BY <1>1, <1>2, <1>3 DEF Init, TypeOK, WorkloadState, Outcome

(* Policy, gates, validation and settle keep the types.                       *)
LEMMA SetupType ==
    ASSUME TypeOK, \/ Validate \/ \E p \in Policies : SetPolicy(p)
                   \/ EditDependencies \/ EditContract \/ Settle
    PROVE  TypeOK'
<1>1. CASE Validate
  <2>1. Attempt(state, "VALIDATING") \in Result
    BY AttemptResult DEF TypeOK, WorkloadState
  <2> QED
    BY <1>1, <2>1, MoveType DEF Validate
<1>2. CASE \E p \in Policies : SetPolicy(p)
  BY <1>2 DEF TypeOK, SetPolicy, lineage, cancel, Outcome
<1>3. CASE EditDependencies
  <2>1. CASE \E o \in {"REJECT_UNKNOWN_DEPENDENCY", "REJECT_STALE_DEPENDENCY"} : Reject(o)
    BY <2>1, RejectType DEF Outcome
  <2>2. CASE ~\E o \in {"REJECT_UNKNOWN_DEPENDENCY", "REJECT_STALE_DEPENDENCY"} : Reject(o)
    BY <1>3, <2>2 DEF EditDependencies, TypeOK, lineage, cancel, Outcome
  <2> QED
    BY <2>1, <2>2
<1>4. CASE EditContract
  <2>1. CASE \E o \in {"REJECT_IMMUTABLE_CONTRACT", "REJECT_STALE_RESOURCE_CONTRACT",
                       "REJECT_RESOURCE_DOUBLE_RELEASE"} : Reject(o)
    BY <2>1, RejectType DEF Outcome
  <2>2. CASE ~\E o \in {"REJECT_IMMUTABLE_CONTRACT", "REJECT_STALE_RESOURCE_CONTRACT",
                        "REJECT_RESOURCE_DOUBLE_RELEASE"} : Reject(o)
    BY <1>4, <2>2 DEF EditContract, TypeOK, lineage, cancel, Outcome
  <2> QED
    BY <2>1, <2>2
<1>5. CASE Settle
  <2>1. CASE Reject("REJECT_TERMINAL")
    BY <2>1, RejectType DEF Outcome
  <2>2. Attempt(state, SettleTarget) \in Result
    BY AttemptResult DEF TypeOK, WorkloadState, SettleTarget
  <2>3. CASE Move(Attempt(state, SettleTarget))
    BY <2>2, <2>3, MoveType
  <2> QED
    BY <1>5, <2>1, <2>3 DEF Settle
<1> QED
  BY <1>1, <1>2, <1>3, <1>4, <1>5

(* An incarnation boundary keeps the types of lineage and generation.         *)
LEMMA IncarnateType ==
    ASSUME TypeOK, NEW id \in Nat, NEW st \in EpisodeState,
           NEW boot \in Boots \cup {NoBoot}, Incarnate(id, st, boot)
    PROVE  episodes' \in Seq(Episode) /\ generation' \in Nat
BY SupersedeType DEF Incarnate, TypeOK

(* startEpisode keeps the types; the engine draws ids within its range.       *)
LEMMA StartType ==
    ASSUME TypeOK, StartEpisode
    PROVE  TypeOK'
<1>1. episodeCounter' \in FirstEpisodeId..EpisodeIdLimit
  BY EpisodeIdAssumption DEF StartEpisode, TypeOK
<1>2. CASE StartVerdict # "ALLOW" /\ RefuseStart(StartVerdict)
  <2>1. StartVerdict \in Outcome
    BY DEF StartVerdict, Outcome
  <2> QED
    BY <1>1, <1>2, <2>1 DEF RefuseStart, TypeOK, aggregate, lineage, cancel, setup
<1>3. CASE StartVerdict = "ALLOW"
  <2> DEFINE r == Then(Attempt(state, "READY"), "STARTING")
  <2>1. r \in Result
    BY AttemptResult, ThenResult DEF TypeOK, WorkloadState
  <2>2. Finish(r)
    BY <1>3 DEF StartEpisode
  <2>3. episodes' \in Seq(Episode) /\ generation' \in Nat
    <3>1. CASE Incarnate(episodeCounter, "ADMITTED", NoBoot)
      BY <3>1, IncarnateType, EpisodeIdAssumption DEF TypeOK, EpisodeState
    <3>2. CASE UNCHANGED <<episodes, generation>>
      BY <3>2 DEF TypeOK
    <3> QED
      BY <1>3, <3>1, <3>2 DEF StartEpisode
  <2> HIDE DEF r
  <2> QED
    BY <1>1, <1>3, <2>1, <2>2, <2>3
    DEF StartEpisode, Finish, Result, TypeOK, cancel, setup
<1> QED
  BY <1>2, <1>3 DEF StartEpisode

(* admitDispatch keeps the types.                                             *)
LEMMA DispatchType ==
    ASSUME TypeOK, NEW id, NEW boot \in Boots, AdmitDispatch(id, boot)
    PROVE  TypeOK'
<1>1. CASE Reject("REJECT_EPISODE_INELIGIBLE")
  BY <1>1, RejectType DEF Outcome
<1>2. ASSUME NEW i \in Lookup(id),
             MoveWith(IF state = "STARTING" THEN Attempt(state, "RUNNING") ELSE Stay,
                      WithEpisode(i, [episodes[i] EXCEPT !.boot = boot, !.state = "RUNNING"]))
      PROVE  TypeOK'
  <2> DEFINE r == IF state = "STARTING" THEN Attempt(state, "RUNNING") ELSE Stay
             e == [episodes[i] EXCEPT !.boot = boot, !.state = "RUNNING"]
  <2>1. Attempt(state, "RUNNING") \in Result
    BY AttemptResult DEF TypeOK, WorkloadState
  <2>2. r \in Result
    BY <2>1, StayResult
  <2>3. e \in Episode /\ i \in DOMAIN episodes
    BY LookupInDomain, DispatchEpisode
  <2>4. WithEpisode(i, e) \in Seq(Episode)
    BY <2>3, ReplaceEpisode
  <2>5. MoveWith(r, WithEpisode(i, e))
    BY <1>2
  <2> HIDE DEF r, e
  <2> QED
    BY <2>2, <2>4, <2>5, MoveWithType
<1> QED
  BY <1>1, <1>2 DEF AdmitDispatch

(* reportProgress keeps the types: the counters stay within their width.      *)
LEMMA ProgressType ==
    ASSUME TypeOK, NEW id, NEW epGen, NEW delta \in Deltas, NEW durable \in BOOLEAN,
           ReportProgress(id, epGen, delta, durable)
    PROVE  TypeOK'
<1>1. CASE Reject("REJECT_EPISODE_INELIGIBLE")
  BY <1>1, RejectType DEF Outcome
<1>2. ASSUME NEW i \in Lookup(id), Reject(ProgressVerdict(i, epGen, delta))
      PROVE  TypeOK'
  <2>1. ProgressVerdict(i, epGen, delta) \in Outcome
    BY DEF ProgressVerdict, Outcome
  <2> QED
    BY <1>2, <2>1, RejectType
<1>3. ASSUME NEW i \in Lookup(id),
             progress' = Advance(progress, delta, durable),
             episodes' = WithEpisode(i, [episodes[i] EXCEPT !.progress =
                                            Advance(@, delta, durable)]),
             outcome' = "ALLOW",
             UNCHANGED <<state, generation, migrationCounter, restartCount,
                         cancel, setup, episodeCounter>>
      PROVE  TypeOK'
  <2>1. progress' \in Progress
    BY <1>3, AdvanceType DEF TypeOK
  <2>2. i \in DOMAIN episodes /\ episodes[i] \in Episode
    BY LookupInDomain
  <2>3. Advance(episodes[i].progress, delta, durable) \in Progress
    BY <2>2, AdvanceType DEF Episode
  <2>4. [episodes[i] EXCEPT !.progress = Advance(@, delta, durable)] \in Episode
    BY <2>2, <2>3, AdvancedEpisode
  <2>5. episodes' \in Seq(Episode)
    BY <1>3, <2>2, <2>4, ReplaceEpisode
  <2> QED
    BY <1>3, <2>1, <2>5 DEF TypeOK, cancel, setup, Outcome
<1> QED
  BY <1>1, <1>2, <1>3 DEF ReportProgress

(* markEpisodeCompleted and markEpisodeFailed keep the types.                 *)
LEMMA MarkType ==
    ASSUME TypeOK, NEW id, NEW st \in {"COMPLETED", "FAILED"}, MarkEpisode(id, st)
    PROVE  TypeOK'
<1>1. CASE Reject("REJECT_EPISODE_INELIGIBLE")
  BY <1>1, RejectType DEF Outcome
<1>2. ASSUME NEW i \in Lookup(id),
             MoveWith(Stay, WithEpisode(i, [episodes[i] EXCEPT
                                               !.state = st,
                                               !.completed = @ \/ st = "COMPLETED"]))
      PROVE  TypeOK'
  <2> DEFINE e == [episodes[i] EXCEPT !.state = st, !.completed = @ \/ st = "COMPLETED"]
  <2>1. e \in Episode /\ i \in DOMAIN episodes
    BY LookupInDomain, MarkedEpisode
  <2>2. WithEpisode(i, e) \in Seq(Episode)
    BY <2>1, ReplaceEpisode
  <2>3. MoveWith(Stay, WithEpisode(i, e))
    BY <1>2
  <2> HIDE DEF e
  <2> QED
    BY <2>2, <2>3, StayResult, MoveWithType
<1> QED
  BY <1>1, <1>2 DEF MarkEpisode

(* onWorkerLost keeps the types.                                              *)
LEMMA LossType ==
    ASSUME TypeOK, NEW boot \in Boots, NEW g, OnWorkerLost(boot, g)
    PROVE  TypeOK'
<1>1. CASE \E o \in {"REJECT_STALE_WORKLOAD_GENERATION", "REJECT_EPISODE_INELIGIBLE",
                     "REJECT_STALE_BOOT"} : Reject(o)
  BY <1>1, RejectType DEF Outcome
<1>2. ASSUME NEW i \in CurrentEpisode,
             MoveWith(IF state \in {"RUNNING", "DEGRADED"}
                      THEN Attempt(state, "RECOVERING") ELSE Stay,
                      WithEpisode(i, [episodes[i] EXCEPT !.workerLost = TRUE,
                                                         !.state = "LOST"]))
      PROVE  TypeOK'
  <2> DEFINE r == IF state \in {"RUNNING", "DEGRADED"}
                  THEN Attempt(state, "RECOVERING") ELSE Stay
             e == [episodes[i] EXCEPT !.workerLost = TRUE, !.state = "LOST"]
  <2>1. Attempt(state, "RECOVERING") \in Result
    BY AttemptResult DEF TypeOK, WorkloadState
  <2>2. r \in Result
    BY <2>1, StayResult
  <2>3. e \in Episode /\ i \in DOMAIN episodes
    BY CurrentInDomain, LostEpisode
  <2>4. WithEpisode(i, e) \in Seq(Episode)
    BY <2>3, ReplaceEpisode
  <2>5. MoveWith(r, WithEpisode(i, e))
    BY <1>2
  <2> HIDE DEF r, e
  <2> QED
    BY <2>2, <2>4, <2>5, MoveWithType
<1> QED
  BY <1>1, <1>2 DEF OnWorkerLost, Fenced

(* planRestart keeps the types.                                               *)
LEMMA RestartType ==
    ASSUME TypeOK, NEW reason, NEW g, PlanRestart(reason, g)
    PROVE  TypeOK'
<1>1. CASE \E o \in {"REJECT_STALE_WORKLOAD_GENERATION", "REJECT_TERMINAL",
                     "REJECT_RESTART_LIMIT"} : Reject(o)
  BY <1>1, RejectType DEF Outcome
<1>2. CASE /\ restartCount' = restartCount + 1
           /\ Finish(Attempt(state, "RESTART_PENDING"))
           /\ UNCHANGED <<lineage, progress, cancel, setup, episodeCounter>>
  <2>1. Attempt(state, "RESTART_PENDING") \in Result
    BY AttemptResult DEF TypeOK, WorkloadState
  <2> QED
    BY <1>2, <2>1 DEF TypeOK, Finish, Result, lineage, cancel, setup
<1> QED
  BY <1>1, <1>2 DEF PlanRestart, Fenced

(* The suspend, resume and migration requests keep the types.                 *)
LEMMA SuspensionType ==
    ASSUME TypeOK, NEW g,
           RequestSuspend(g) \/ CompleteSuspend(g) \/ RequestResume(g) \/ RequestMigration(g)
    PROVE  TypeOK'
<1>1. CASE \E o \in Outcome : Reject(o)
  BY <1>1, RejectType
<1>2. ASSUME NEW to \in WorkloadState, Move(Attempt(state, to))
      PROVE  TypeOK'
  BY <1>2, AttemptResult, MoveType DEF TypeOK
<1>3. CASE RequestSuspend(g)
  BY <1>1, <1>2, <1>3 DEF RequestSuspend, Fenced, Outcome, WorkloadState
<1>4. CASE RequestResume(g)
  BY <1>1, <1>2, <1>4 DEF RequestResume, Fenced, Outcome, WorkloadState
<1>5. CASE RequestMigration(g)
  BY <1>1, <1>2, <1>5 DEF RequestMigration, Fenced, Outcome, WorkloadState
<1>6. CASE CompleteSuspend(g)
  <2> DEFINE r == Then(Attempt(state, "SUSPENDING"), "SUSPENDED")
             e(i) == IF i \in CurrentEpisode
                     THEN [episodes[i] EXCEPT !.state = "SUSPENDED", !.workerLost = FALSE]
                     ELSE episodes[i]
             eps == [i \in 1..Len(episodes) |-> e(i)]
  <2>1. r \in Result
    BY AttemptResult, ThenResult DEF TypeOK, WorkloadState
  <2>2. \A i \in 1..Len(episodes) : e(i) \in Episode
    BY EpisodeAt, SuspendedEpisode
  <2>3. eps \in Seq(Episode)
    <3>1. Len(episodes) \in Nat
      BY DEF TypeOK
    <3> HIDE DEF e
    <3> QED
      BY <2>2, <3>1
  <2>4. CASE MoveWith(r, eps)
    <3> HIDE DEF r, eps
    <3> QED
      BY <2>1, <2>3, <2>4, MoveWithType
  <2>5. (\E o \in Outcome : Reject(o)) \/ MoveWith(r, eps)
    <3> HIDE DEF r, eps
    <3>1. \/ Reject("REJECT_STALE_WORKLOAD_GENERATION")
          \/ Reject("ALLOW")
          \/ Reject("REJECT_NOT_RESUMABLE")
          \/ MoveWith(r, eps)
      BY <1>6 DEF CompleteSuspend, Fenced, r, eps
    <3> QED
      BY <3>1 DEF Outcome
  <2> QED
    BY <1>1, <2>4, <2>5
<1> QED
  BY <1>3, <1>4, <1>5, <1>6

(* commitMigration keeps the types.                                           *)
LEMMA MigrationType ==
    ASSUME TypeOK, NEW boot \in Boots, NEW g, CommitMigration(boot, g)
    PROVE  TypeOK'
<1>1. CASE \E o \in {"REJECT_STALE_WORKLOAD_GENERATION", "REJECT_MIGRATION_INELIGIBLE"} :
             Reject(o)
  BY <1>1, RejectType DEF Outcome
<1>2. CASE /\ Finish(Then(Attempt(state, "MIGRATING"), "RUNNING"))
           /\ \/ /\ Incarnate(migrationCounter, "RUNNING", boot)
                 /\ migrationCounter' = migrationCounter + 1
              \/ UNCHANGED <<episodes, migrationCounter, generation>>
           /\ UNCHANGED <<progress, restartCount, cancel, setup, episodeCounter>>
  <2> DEFINE r == Then(Attempt(state, "MIGRATING"), "RUNNING")
  <2>1. r \in Result
    BY AttemptResult, ThenResult DEF TypeOK, WorkloadState
  <2>2. episodes' \in Seq(Episode) /\ generation' \in Nat /\ migrationCounter' \in Nat
    <3>1. CASE Incarnate(migrationCounter, "RUNNING", boot)
      BY <1>2, <3>1, IncarnateType DEF TypeOK, EpisodeState
    <3>2. CASE UNCHANGED <<episodes, migrationCounter, generation>>
      BY <3>2 DEF TypeOK
    <3> QED
      BY <1>2, <3>1, <3>2
  <2> HIDE DEF r
  <2> QED
    BY <1>2, <2>1, <2>2 DEF Finish, Result, TypeOK, cancel, setup, r
<1> QED
  BY <1>1, <1>2 DEF CommitMigration, Fenced

(* The operations that complete, cancel or move a workload keep the types.    *)
LEMMA EndType ==
    ASSUME TypeOK, NEW g,
           \/ CommitCompletion(g) \/ Finalize(g) \/ RequestCancellation(g)
           \/ CompleteCancellation(g) \/ \E to \in WorkloadState : Transition(to, g)
    PROVE  TypeOK'
<1>1. CASE \E o \in Outcome : Reject(o)
  BY <1>1, RejectType
<1> DEFINE done == Then(Attempt(state, "COMPLETING"), "COMPLETED")
<1>2. done \in Result
  BY AttemptResult, ThenResult DEF TypeOK, WorkloadState
<1>3. CASE CommitCompletion(g)
  <2> DEFINE eps == [i \in 1..Len(episodes) |->
                       [episodes[i] EXCEPT !.completed = @ \/ i \in CurrentEpisode]]
  <2>1. \A i \in 1..Len(episodes) :
           [episodes[i] EXCEPT !.completed = @ \/ i \in CurrentEpisode] \in Episode
    BY EpisodeAt, CompletedEpisode
  <2>2. eps \in Seq(Episode)
    BY <2>1 DEF TypeOK
  <2>3. CASE /\ episodes' = eps
             /\ cancellationRequested' = FALSE
             /\ Finish(done)
             /\ UNCHANGED <<generation, migrationCounter, progress, restartCount,
                            cancelledFinal, setup, episodeCounter>>
    <3> HIDE DEF eps, done
    <3> QED
      BY <1>2, <2>2, <2>3 DEF Finish, Result, TypeOK, setup
  <2> QED
    <3> HIDE DEF eps, done
    <3>1. \/ \E o \in {"REJECT_STALE_WORKLOAD_GENERATION", "REJECT_TERMINAL",
                       "REJECT_CANCELLED", "REJECT_COMPLETION_POLICY"} : Reject(o)
          \/ /\ episodes' = eps
             /\ cancellationRequested' = FALSE
             /\ Finish(done)
             /\ UNCHANGED <<generation, migrationCounter, progress, restartCount,
                            cancelledFinal, setup, episodeCounter>>
      BY <1>3 DEF CommitCompletion, Fenced, eps, done
    <3> QED
      BY <1>1, <2>3, <3>1 DEF Outcome
<1>4. CASE Finalize(g)
  <2>1. CASE Move(done)
    <3> HIDE DEF done
    <3> QED
      BY <1>2, <2>1, MoveType
  <2> QED
    BY <1>1, <1>4, <2>1 DEF Finalize, Fenced, Outcome
<1>5. CASE RequestCancellation(g)
  <2> DEFINE r == IF isCancelling(state) THEN Stay
                  ELSE Attempt(state, "CANCELLATION_REQUESTED")
  <2>1. r \in Result
    BY AttemptResult, StayResult DEF TypeOK, WorkloadState
  <2>2. CASE /\ cancellationRequested' = TRUE
             /\ Finish(r)
             /\ UNCHANGED <<lineage, progress, restartCount, cancelledFinal, setup,
                            episodeCounter>>
    <3> HIDE DEF r
    <3> QED
      BY <2>1, <2>2 DEF Finish, Result, TypeOK, lineage, setup
  <2> QED
    BY <1>1, <1>5, <2>2 DEF RequestCancellation, Fenced, Outcome
<1>6. CASE CompleteCancellation(g)
  <2> DEFINE r == Then(Then(Attempt(state, "CANCELLATION_REQUESTED"), "CANCELLING"),
                       "CANCELLED")
  <2>1. r \in Result
    BY AttemptResult, ThenResult DEF TypeOK, WorkloadState
  <2>2. CASE /\ cancelledFinal' = TRUE
             /\ cancellationRequested' = TRUE
             /\ Finish(r)
             /\ UNCHANGED <<lineage, progress, restartCount, setup, episodeCounter>>
    <3> HIDE DEF r
    <3> QED
      BY <2>1, <2>2 DEF Finish, Result, TypeOK, lineage, setup
  <2>3. CASE /\ cancelledFinal' = TRUE
             /\ outcome' = "ALLOW"
             /\ UNCHANGED <<state, lineage, progress, restartCount,
                            cancellationRequested, setup, episodeCounter>>
    BY <2>3 DEF TypeOK, lineage, setup, Outcome
  <2> QED
    BY <1>1, <1>6, <2>2, <2>3 DEF CompleteCancellation, Fenced, Outcome
<1>7. CASE \E to \in WorkloadState : Transition(to, g)
  <2>1. ASSUME NEW to \in WorkloadState, Move(Attempt(state, to))
        PROVE  TypeOK'
    BY <2>1, AttemptResult, MoveType DEF TypeOK
  <2> QED
    BY <1>1, <1>7, <2>1 DEF Transition, Fenced, Outcome
<1> QED
  BY <1>3, <1>4, <1>5, <1>6, <1>7

(* Every operation of every caller keeps the types.                           *)
LEMMA TypeStep ==
    ASSUME TypeOK, [Next]_vars
    PROVE  TypeOK'
<1>1. CASE UNCHANGED vars
  BY <1>1 DEF vars, aggregate, lineage, cancel, setup, TypeOK
<1>2. CASE EngineNext
  BY <1>2, SetupType, StartType, DispatchType, ProgressType, MarkType, LossType,
     RestartType, SuspensionType, MigrationType, EndType
  DEF EngineNext, LifecycleNext, MarkEpisodeCompleted
<1>3. CASE Next /\ ~EngineNext
  BY <1>3, EndType, MarkType DEF Next, MarkEpisodeFailed
<1> QED
  BY <1>1, <1>2, <1>3

(* So every field stays within what the code declares for it, for all         *)
(* policies, widths and bounds.                                               *)
THEOREM TypeCorrect == Spec => []TypeOK
<1>1. TypeOK /\ [Next]_vars => TypeOK'
  BY TypeStep
<1> QED
  BY InitType, <1>1, PTL DEF Spec
=============================================================================
