---------------------------- MODULE StoreProofs -----------------------------
(* The durable workload: what a crash between two operations of the engine    *)
(* and a reload of the record cannot change, for every policy, total and      *)
(* bound.  Where every save succeeds, saving after ALLOW is enough because a  *)
(* refused operation leaves the lifecycle alone (RefusedKeeps); where one     *)
(* fails the record is still a past of the workload (PastStays).              *)
EXTENDS WorkloadStore, EngineProofs

-----------------------------------------------------------------------------
(* What a refused operation changes.                                          *)

(* commitCompletion marks the current episode.                                *)
Marked ==
    [i \in 1..Len(episodes) |->
       [episodes[i] EXCEPT !.completed = @ \/ i \in CurrentEpisode]]

(* Nothing the store would have to save, a mark excepted.                     *)
Unsaved ==
    /\ UNCHANGED <<state, generation, progress, policy>>
    /\ \/ UNCHANGED episodes
       \/ /\ policy.completion = "REQUIRED_UNITS" /\ ProgressComplete
          /\ episodes' = Marked

(* An early return changes nothing.                                           *)
LEMMA RejectUnsaved ==
    ASSUME NEW o, Reject(o)
    PROVE  Unsaved
BY DEF Reject, aggregate, lineage, setup, Unsaved

(* A refused transition leaves the state.                                     *)
LEMMA RefusedMove ==
    ASSUME NEW to, Move(Attempt(state, to)), outcome' # "ALLOW"
    PROVE  Unsaved
BY AttemptEnds DEF Move, Finish, lineage, setup, Unsaved

(* The transitions behind the guards of the operations are in the table.      *)
LEMMA GuardedEdges ==
    /\ \A s \in ResumeEligible : s = "READY" \/ canTransition(s, "READY")
    /\ canTransition("READY", "STARTING")
    /\ canTransition("STARTING", "RUNNING")
    /\ \A s \in {"RUNNING", "DEGRADED"} : canTransition(s, "RECOVERING")
    /\ canTransition("SUSPEND_REQUESTED", "SUSPENDING")
    /\ canTransition("SUSPENDING", "SUSPENDED")
    /\ canTransition("MIGRATION_PENDING", "MIGRATING")
    /\ canTransition("MIGRATING", "RUNNING")
    /\ canTransition("COMPLETING", "COMPLETED")
    /\ canTransition("CANCELLATION_REQUESTED", "CANCELLING")
    /\ canTransition("CANCELLING", "CANCELLED")
BY DEF canTransition, allowedFrom, WorkloadState, ResumeEligible

(* So a chain that leaves its first state runs to its end.                    *)
LEMMA ChainPasses ==
    ASSUME NEW s, NEW mid, NEW to, ~isTerminal(mid), canTransition(mid, to),
           to # "COMPLETED" \/ mid \notin ZeroWorkStates,
           Then(Attempt(s, mid), to).outcome # "ALLOW"
    PROVE  /\ Attempt(s, mid).outcome # "ALLOW"
           /\ Then(Attempt(s, mid), to).state = s
<1>1. Attempt(mid, to).outcome = "ALLOW"
  BY AttemptPasses
<1>2. Attempt(s, mid).outcome # "ALLOW"
  BY <1>1, AttemptEnds DEF Then
<1> QED
  BY <1>2, AttemptEnds DEF Then

(* A transition into an allowed state is not refused.                         *)
LEMMA EdgePasses ==
    ASSUME NEW s, NEW to, s = to \/ canTransition(s, to), ~isTerminal(s), to # "COMPLETED"
    PROVE  Attempt(s, to).outcome = "ALLOW"
BY AttemptEnds, AttemptPasses

(* Validation, settle, and an id drawn in vain.                               *)
LEMMA SetupRefused ==
    ASSUME outcome' # "ALLOW",
           \/ Validate \/ \E p \in Policies : SetPolicy(p)
           \/ EditDependencies \/ EditContract \/ Settle \/ StartEpisode
    PROVE  Unsaved
<1>1. CASE Validate \/ Settle
  BY <1>1, RejectUnsaved, RefusedMove DEF Validate, Settle
<1>2. CASE (\E p \in Policies : SetPolicy(p)) \/ EditDependencies \/ EditContract
  BY <1>2, RejectUnsaved DEF SetPolicy, EditDependencies, EditContract
<1>3. CASE StartEpisode
  <2>1. CASE UNCHANGED aggregate
    BY <2>1 DEF aggregate, lineage, setup, Unsaved
  <2>2. CASE StartVerdict = "ALLOW" /\ Finish(Then(Attempt(state, "READY"), "STARTING"))
    <3>1. state \in ResumeEligible
      BY <2>2 DEF StartVerdict
    <3>2. Attempt(state, "READY").outcome = "ALLOW"
      BY <3>1, GuardedEdges, EdgePasses DEF isTerminal, ResumeEligible
    <3>3. Attempt(state, "READY").state = "READY"
      BY <3>2, AttemptEnds
    <3>4. Attempt("READY", "STARTING").outcome = "ALLOW"
      BY GuardedEdges, EdgePasses DEF isTerminal
    <3> QED
      BY <2>2, <3>2, <3>3, <3>4 DEF Finish, Then
  <2> QED
    BY <1>3, <2>1, <2>2 DEF StartEpisode, RefuseStart
<1> QED
  BY <1>1, <1>2, <1>3

(* Dispatches, reports, marks and losses are refused by early returns alone.  *)
LEMMA EpisodeRefused ==
    ASSUME outcome' # "ALLOW",
           \/ \E id, boot : AdmitDispatch(id, boot)
           \/ \E id, epGen, delta, durable : ReportProgress(id, epGen, delta, durable)
           \/ \E id : MarkEpisodeCompleted(id)
           \/ \E boot, g : OnWorkerLost(boot, g)
    PROVE  Unsaved
<1>1. ~Finish(Stay)
  BY DEF Finish, Stay
<1>2. ASSUME NEW id, NEW boot, AdmitDispatch(id, boot) PROVE Unsaved
  <2>1. state = "STARTING" => Attempt(state, "RUNNING").outcome = "ALLOW"
    BY GuardedEdges, EdgePasses DEF isTerminal
  <2> QED
    BY <1>1, <1>2, <2>1, RejectUnsaved DEF AdmitDispatch, MoveWith, Finish
<1>3. ASSUME NEW id, NEW epGen, NEW delta, NEW durable,
             ReportProgress(id, epGen, delta, durable)
      PROVE  Unsaved
  BY <1>3, RejectUnsaved DEF ReportProgress
<1>4. ASSUME NEW id, MarkEpisodeCompleted(id) PROVE Unsaved
  BY <1>1, <1>4, RejectUnsaved DEF MarkEpisodeCompleted, MarkEpisode, MoveWith
<1>5. ASSUME NEW boot, NEW g, OnWorkerLost(boot, g) PROVE Unsaved
  <2>1. state \in {"RUNNING", "DEGRADED"} => Attempt(state, "RECOVERING").outcome = "ALLOW"
    BY GuardedEdges, EdgePasses DEF isTerminal
  <2> QED
    BY <1>1, <1>5, <2>1, RejectUnsaved DEF OnWorkerLost, Fenced, MoveWith, Finish
<1> QED
  BY <1>2, <1>3, <1>4, <1>5

(* There is one current episode, so marking it again changes nothing.         *)
LEMMA MarkedAgain ==
    ASSUME TypeOK, NEW i \in CurrentEpisode, episodes[i].completed
    PROVE  Marked = episodes
<1>1. \A j \in CurrentEpisode : j = i
  BY DEF TypeOK, CurrentEpisode
<1>2. ASSUME NEW j \in 1..Len(episodes)
      PROVE  [episodes[j] EXCEPT !.completed = @ \/ j \in CurrentEpisode] = episodes[j]
  <2> DEFINE e == episodes[j]
  <2>1. e \in Episode
    BY DEF TypeOK
  <2>2. (e.completed \/ j \in CurrentEpisode) = e.completed
    <3>1. e.completed \in BOOLEAN
      BY <2>1 DEF Episode
    <3>2. j \in CurrentEpisode => e.completed
      BY <1>1
    <3> QED
      BY <3>1, <3>2, Zenon
  <2> HIDE DEF e
  <2>3. [e EXCEPT !.completed = e.completed] = e
    BY <2>1 DEF Episode
  <2> QED
    BY <2>2, <2>3 DEF e
<1>3. Marked = [j \in 1..Len(episodes) |-> episodes[j]]
  BY <1>2 DEF Marked
<1> QED
  BY <1>3 DEF TypeOK

(* commitCompletion: only REQUIRED_UNITS lets it mark an episode that has no  *)
(* result yet.                                                                *)
LEMMA CompletionRefused ==
    ASSUME TypeOK, NEW g, CommitCompletion(g), outcome' # "ALLOW"
    PROVE  Unsaved
<1>1. CASE \E o : Reject(o)
  BY <1>1, RejectUnsaved
<1>2. CASE /\ CompletionCriterion /\ episodes' = Marked
           /\ Finish(Then(Attempt(state, "COMPLETING"), "COMPLETED"))
           /\ UNCHANGED <<generation, progress, policy>>
  <2>1. UNCHANGED state
    BY <1>2, ChainPasses, GuardedEdges DEF Finish, isTerminal, ZeroWorkStates
  <2>2. CASE policy.completion = "REQUIRED_UNITS"
    BY <1>2, <2>1, <2>2 DEF CompletionCriterion, Unsaved
  <2>3. CASE \E i \in CurrentEpisode : episodes[i].completed
    BY <1>2, <2>1, <2>3, MarkedAgain DEF Unsaved
  <2> QED
    BY <1>2, <2>2, <2>3 DEF CompletionCriterion
<1> QED
  BY <1>1, <1>2 DEF CommitCompletion, Fenced, Marked, setup

(* The chains of suspension and migration are never refused halfway.          *)
LEMMA SuspensionRefused ==
    ASSUME outcome' # "ALLOW", NEW g,
           \/ RequestSuspend(g) \/ CompleteSuspend(g) \/ RequestResume(g)
           \/ RequestMigration(g) \/ \E boot : CommitMigration(boot, g)
    PROVE  Unsaved
<1>1. CASE RequestSuspend(g) \/ RequestResume(g) \/ RequestMigration(g)
  BY <1>1, RejectUnsaved, RefusedMove
  DEF RequestSuspend, RequestResume, RequestMigration, Fenced
<1>2. CASE CompleteSuspend(g)
  <2>1. state \in {"SUSPEND_REQUESTED", "SUSPENDING"}
          => /\ Attempt(state, "SUSPENDING").outcome = "ALLOW"
             /\ Attempt(state, "SUSPENDING").state = "SUSPENDING"
    BY GuardedEdges, AttemptPasses, AttemptEnds DEF isTerminal
  <2>2. Attempt("SUSPENDING", "SUSPENDED").outcome = "ALLOW"
    BY GuardedEdges, AttemptPasses DEF isTerminal
  <2>3. state \in {"SUSPEND_REQUESTED", "SUSPENDING"}
          => Then(Attempt(state, "SUSPENDING"), "SUSPENDED").outcome = "ALLOW"
    BY <2>1, <2>2 DEF Then
  <2> QED
    BY <1>2, <2>3, RejectUnsaved DEF CompleteSuspend, Fenced, MoveWith, Finish
<1>3. ASSUME NEW boot, CommitMigration(boot, g) PROVE Unsaved
  <2>1. state \in {"MIGRATION_PENDING", "MIGRATING"}
          => /\ Attempt(state, "MIGRATING").outcome = "ALLOW"
             /\ Attempt(state, "MIGRATING").state = "MIGRATING"
    BY GuardedEdges, AttemptPasses, AttemptEnds DEF isTerminal
  <2>2. Attempt("MIGRATING", "RUNNING").outcome = "ALLOW"
    BY GuardedEdges, AttemptPasses DEF isTerminal
  <2>3. state \in {"MIGRATION_PENDING", "MIGRATING"}
          => Then(Attempt(state, "MIGRATING"), "RUNNING").outcome = "ALLOW"
    BY <2>1, <2>2 DEF Then
  <2> QED
    BY <1>3, <2>3, RejectUnsaved DEF CommitMigration, Fenced, Finish
<1> QED
  BY <1>1, <1>2, <1>3

(* A refused restart is counted, a refused cancellation is recorded; neither  *)
(* moves the state.                                                           *)
LEMMA RestartAndCancelRefused ==
    ASSUME outcome' # "ALLOW", NEW g,
           \/ \E reason : PlanRestart(reason, g)
           \/ RequestCancellation(g) \/ CompleteCancellation(g)
    PROVE  Unsaved
<1>1. CASE \E o : Reject(o)
  BY <1>1, RejectUnsaved
<1>2. ASSUME NEW to, Finish(Attempt(state, to)) PROVE UNCHANGED state
  BY <1>2, AttemptEnds DEF Finish
<1>3. CASE ~(\E o : Reject(o)) /\ \E reason : PlanRestart(reason, g)
  BY <1>2, <1>3 DEF PlanRestart, Fenced, lineage, setup, Unsaved
<1>4. CASE ~(\E o : Reject(o)) /\ RequestCancellation(g)
  <2>1. UNCHANGED state
    BY <1>2, <1>4 DEF RequestCancellation, Fenced, Finish, Stay
  <2> QED
    BY <1>4, <2>1 DEF RequestCancellation, Fenced, lineage, setup, Unsaved
<1>5. CASE ~(\E o : Reject(o)) /\ CompleteCancellation(g)
  <2> DEFINE asked == Attempt(state, "CANCELLATION_REQUESTED")
             begun == Then(asked, "CANCELLING")
  <2>1. Finish(Then(begun, "CANCELLED")) /\ UNCHANGED <<lineage, progress, setup>>
    BY <1>5 DEF CompleteCancellation, Fenced
  <2>2. /\ Attempt("CANCELLATION_REQUESTED", "CANCELLING").outcome = "ALLOW"
        /\ Attempt("CANCELLATION_REQUESTED", "CANCELLING").state = "CANCELLING"
        /\ Attempt("CANCELLING", "CANCELLED").outcome = "ALLOW"
    BY GuardedEdges, AttemptPasses DEF isTerminal
  <2>3. asked.outcome = "ALLOW" => asked.state = "CANCELLATION_REQUESTED"
    BY AttemptEnds
  <2>4. asked.outcome # "ALLOW" => asked.state = state
    BY AttemptEnds
  <2> HIDE DEF asked
  <2>5. asked.outcome # "ALLOW" /\ begun = asked
    BY <2>1, <2>2, <2>3 DEF Finish, Then
  <2>6. UNCHANGED state
    BY <2>1, <2>4, <2>5 DEF Finish, Then
  <2> QED
    BY <2>1, <2>6 DEF lineage, setup, Unsaved
<1> QED
  BY <1>1, <1>3, <1>4, <1>5

(* The save after ALLOW misses at most a mark.                                *)
LEMMA RefusedKeeps ==
    ASSUME TypeOK, EngineNext, outcome' # "ALLOW"
    PROVE  Unsaved
BY SetupRefused, EpisodeRefused, CompletionRefused, SuspensionRefused,
   RestartAndCancelRefused
DEF EngineNext, LifecycleNext

-----------------------------------------------------------------------------
(* The record, and the workload a successor builds from it.                   *)

Record == INSTANCE Workload WITH
    state <- disk.state, generation <- disk.generation, episodes <- disk.episodes,
    progress <- disk.progress, restartCount <- disk.restartCount,
    cancellationRequested <- disk.cancellationRequested,
    cancelledFinal <- disk.cancelledFinal, policy <- disk.policy,
    depsReady <- disk.depsReady, contractSatisfied <- disk.contractSatisfied,
    migrationCounter <- FirstMigrationId, outcome <- "ALLOW"

(* What holds of the record, whatever was saved and whenever the process      *)
(* died.                                                                      *)
RecordInv ==
    /\ Record!TypeOK
    /\ Record!NeverHalfway
    /\ Record!OneTerminalWinner
    /\ Record!GenerationCountsEpisodes
    /\ Record!SoleAuthority
    /\ Record!ProgressLineage
    /\ Record!ProgressBounded

(* And of the workload.                                                       *)
WorkloadInv == TypeOK /\ LineageInv /\ ProgressBounded /\ LifecycleInv

StoreInv ==
    /\ WorkloadInv
    /\ RecordInv
    /\ RecordIsPast
    /\ missed \in Nat
    /\ missed = 0 => ~torn /\ RecordIsWorkload

(* The instance declares the same types.                                      *)
LEMMA RecordTypes ==
    /\ Record!WorkloadState = WorkloadState
    /\ Record!Episode = Episode
    /\ Record!Progress = Progress
    /\ Record!Outcome = Outcome
<1>1. Record!Progress = Progress
  BY DEF Record!Progress, Progress
<1>2. Record!EpisodeState = EpisodeState
  BY DEF Record!EpisodeState, EpisodeState
<1>3. Record!WorkloadState = WorkloadState /\ Record!Outcome = Outcome
  BY DEF Record!WorkloadState, WorkloadState, Record!Outcome, Outcome
<1> QED
  BY <1>1, <1>2, <1>3 DEF Record!Episode, Episode

(* A successor is what the record says, so what held of the record holds of   *)
(* the successor.                                                             *)
LEMMA ReloadIsRecord ==
    ASSUME CrashAndReload, RecordInv
    PROVE  WorkloadInv' /\ RecordIsWorkload'
<1>1. /\ state' = disk.state /\ generation' = disk.generation
      /\ episodes' = disk.episodes /\ progress' = disk.progress /\ disk' = disk
  BY DEF CrashAndReload, Decode
<1>2. TypeOK'
  BY RecordTypes DEF CrashAndReload, Decode, RecordInv, Record!TypeOK, TypeOK
<1>3. NeverHalfway'
  BY <1>1 DEF RecordInv, Record!NeverHalfway, NeverHalfway
<1>4. OneTerminalWinner'
  BY DEF CrashAndReload, Decode, RecordInv, Record!OneTerminalWinner, OneTerminalWinner,
         Record!BeforeExecution, BeforeExecution
<1>5. LineageInv'
  BY <1>1 DEF RecordInv, LineageInv, Record!GenerationCountsEpisodes,
     GenerationCountsEpisodes, Record!SoleAuthority, SoleAuthority,
     Record!ProgressLineage, ProgressLineage
<1>6. ProgressBounded'
  BY <1>1 DEF RecordInv, Record!ProgressBounded, ProgressBounded
<1>7. RecordIsWorkload'
  BY <1>1 DEF RecordIsWorkload
<1> QED
  BY <1>2, <1>3, <1>4, <1>5, <1>6, <1>7 DEF LifecycleInv, WorkloadInv

(* A saved workload is its record.                                            *)
LEMMA SavedRecord ==
    ASSUME disk' = Encoded', WorkloadInv'
    PROVE  RecordInv' /\ RecordIsWorkload'
<1>1. /\ disk'.state = state' /\ disk'.generation = generation'
      /\ disk'.episodes = episodes' /\ disk'.progress = progress'
      /\ disk'.restartCount = restartCount'
      /\ disk'.cancellationRequested = cancellationRequested'
      /\ disk'.cancelledFinal = cancelledFinal' /\ disk'.policy = policy'
      /\ disk'.depsReady = depsReady' /\ disk'.contractSatisfied = contractSatisfied'
  BY DEF Encoded
<1>2. Record!TypeOK'
  BY <1>1, RecordTypes, EpisodeIdAssumption DEF WorkloadInv, Record!TypeOK, TypeOK, Outcome
<1>3. Record!NeverHalfway'
  BY <1>1 DEF Record!NeverHalfway, NeverHalfway, WorkloadInv, LifecycleInv
<1>4. Record!OneTerminalWinner'
  BY <1>1 DEF WorkloadInv, LifecycleInv, Record!OneTerminalWinner, OneTerminalWinner,
              Record!BeforeExecution, BeforeExecution
<1>5. Record!GenerationCountsEpisodes' /\ Record!SoleAuthority' /\ Record!ProgressLineage'
  BY <1>1 DEF WorkloadInv, LineageInv, Record!GenerationCountsEpisodes,
     GenerationCountsEpisodes, Record!SoleAuthority, SoleAuthority,
     Record!ProgressLineage, ProgressLineage
<1>6. Record!ProgressBounded'
  BY <1>1 DEF WorkloadInv, Record!ProgressBounded, ProgressBounded
<1>7. RecordIsWorkload'
  BY <1>1 DEF RecordIsWorkload
<1> QED
  BY <1>2, <1>3, <1>4, <1>5, <1>6, <1>7 DEF RecordInv

(* A record no step touches stays what it is.                                 *)
LEMMA RecordStays ==
    ASSUME RecordInv, UNCHANGED disk, TypeOK'
    PROVE  RecordInv'
BY DEF RecordInv, Record!TypeOK, Record!NeverHalfway, Record!OneTerminalWinner,
   Record!GenerationCountsEpisodes, Record!SoleAuthority, Record!ProgressLineage,
   Record!ProgressBounded, TypeOK

(* What is the workload is a past of it.                                      *)
LEMMA WorkloadIsPast ==
    ASSUME TypeOK', RecordIsWorkload'
    PROVE  RecordIsPast'
<1>1. /\ Len(episodes') \in Nat /\ DOMAIN episodes' = 1..Len(episodes')
      /\ generation' \in Nat /\ progress'.completed \in Nat
  BY ProgressAssumption DEF TypeOK, Progress
<1>2. /\ disk'.state = state' /\ disk'.generation = generation'
      /\ disk'.progress = progress' /\ Len(disk'.episodes) = Len(episodes')
  BY DEF RecordIsWorkload
<1>3. ASSUME NEW i \in 1..Len(episodes') PROVE disk'.episodes[i].id = episodes'[i].id
  <2> DEFINE e == episodes'[i]
  <2>1. e \in Episode
    BY <1>1, <1>3 DEF TypeOK
  <2>2. disk'.episodes[i] = e \/ disk'.episodes[i] = [e EXCEPT !.completed = FALSE]
    BY <1>1, <1>3 DEF RecordIsWorkload
  <2> HIDE DEF e
  <2>3. [e EXCEPT !.completed = FALSE].id = e.id
    BY <2>1 DEF Episode
  <2>4. disk'.episodes[i].id = e.id
    BY <2>2, <2>3
  <2> QED
    BY <2>4 DEF e
<1> QED
  BY <1>1, <1>2, <1>3 DEF RecordIsPast

(* No operation takes back what an earlier save wrote.                        *)
LEMMA PastStays ==
    ASSUME WorkloadInv, Record!TypeOK, RecordIsPast, [Next]_vars, UNCHANGED disk
    PROVE  RecordIsPast'
<1>1. /\ disk.generation \in Nat /\ disk.progress.completed \in Nat
      /\ Len(disk.episodes) \in Nat
  BY RecordTypes, ProgressAssumption DEF Record!TypeOK, Progress
<1>2. /\ generation \in Nat /\ generation' \in Nat /\ generation' >= generation
  BY KnowledgeStays DEF WorkloadInv
<1>3. disk.generation <= generation'
  BY <1>1, <1>2 DEF RecordIsPast
<1>4. /\ progress.completed \in Nat /\ progress'.completed \in Nat
      /\ progress'.completed >= progress.completed
  <2>1. TypeOK /\ TypeOK'
    BY TypeStep DEF WorkloadInv
  <2>2. progress.completed \in Nat /\ progress'.completed \in Nat
    BY <2>1, ProgressAssumption DEF TypeOK, Progress
  <2> QED
    BY <2>2, ProgressStep DEF WorkloadInv
<1>5. disk.progress.completed <= progress'.completed
  BY <1>1, <1>4 DEF RecordIsPast
<1>6. /\ Len(episodes) \in Nat /\ Len(episodes') \in Nat /\ Len(episodes') >= Len(episodes)
      /\ \A i \in 1..Len(episodes) : episodes'[i].id = episodes[i].id
  <2>1. Len(episodes) \in Nat /\ Len(episodes') \in Nat
    <3>1. TypeOK /\ TypeOK'
      BY TypeStep DEF WorkloadInv
    <3> QED
      BY <3>1 DEF TypeOK
  <2> QED
    BY <2>1, IdsStay DEF WorkloadInv
<1>7. /\ Len(disk.episodes) <= Len(episodes')
      /\ \A i \in 1..Len(disk.episodes) : disk.episodes[i].id = episodes'[i].id
  BY <1>1, <1>6 DEF RecordIsPast
<1>8. isTerminal(disk.state) => state' = disk.state
  BY ClosedStep DEF RecordIsPast, WorkloadInv, Closed
<1> QED
  BY <1>3, <1>5, <1>7, <1>8 DEF RecordIsPast

(* A refused operation leaves the record true, the lost mark excepted.        *)
LEMMA RefusedDurable ==
    ASSUME TypeOK, Record!TypeOK, RecordIsWorkload, Unsaved, UNCHANGED disk
    PROVE  RecordIsWorkload'
<1>1. /\ disk'.state = state' /\ disk'.generation = generation'
      /\ disk'.progress = progress' /\ UNCHANGED <<policy, progress>>
  BY DEF Unsaved, RecordIsWorkload
<1>2. ProgressComplete' <=> ProgressComplete
  BY <1>1 DEF ProgressComplete
<1>3. CASE UNCHANGED episodes
  <2>1. CurrentEpisode' = CurrentEpisode
    BY <1>3 DEF CurrentEpisode
  <2> QED
    BY <1>1, <1>2, <1>3, <2>1 DEF RecordIsWorkload
<1>4. CASE policy.completion = "REQUIRED_UNITS" /\ ProgressComplete /\ episodes' = Marked
  <2>1. /\ Len(episodes') = Len(episodes) /\ DOMAIN episodes' = 1..Len(episodes)
        /\ DOMAIN episodes = 1..Len(episodes) /\ Len(episodes) \in Nat
        /\ \A i \in 1..Len(episodes) : episodes[i] \in Episode
        /\ \A i \in 1..Len(episodes) :
              episodes'[i] = [episodes[i] EXCEPT !.completed = @ \/ i \in CurrentEpisode]
    BY <1>4 DEF TypeOK, Marked
  <2>2. \A i \in 1..Len(episodes) : episodes'[i].authoritative = episodes[i].authoritative
    BY <2>1 DEF Episode
  <2>3. CurrentEpisode' = CurrentEpisode
    <3>1. ASSUME NEW i \in 1..Len(episodes), NEW j \in 1..(i - 1)
          PROVE  j \in 1..Len(episodes)
      BY <2>1
    <3> QED
      BY <2>1, <2>2, <3>1 DEF CurrentEpisode
  <2>4. ASSUME NEW i \in DOMAIN episodes'
        PROVE  \/ disk.episodes[i] = episodes'[i]
               \/ /\ i \in CurrentEpisode
                  /\ disk.episodes[i] = [episodes'[i] EXCEPT !.completed = FALSE]
    <3> DEFINE e == episodes[i]
               f == disk.episodes[i]
    <3>1. /\ e \in Episode /\ e.completed \in BOOLEAN
          /\ episodes'[i] = [e EXCEPT !.completed = e.completed \/ i \in CurrentEpisode]
      BY <2>1, <2>4 DEF Episode
    <3>2. f = e \/ (i \in CurrentEpisode /\ f = [e EXCEPT !.completed = FALSE])
      BY <2>1, <2>4 DEF RecordIsWorkload
    <3> HIDE DEF e, f
    <3>3. CASE i \notin CurrentEpisode
      <4>1. (e.completed \/ i \in CurrentEpisode) = e.completed
        BY <3>1, <3>3, Zenon
      <4>2. episodes'[i] = e
        BY <3>1, <4>1 DEF Episode
      <4> QED
        BY <3>2, <3>3, <4>2 DEF f
    <3>4. CASE i \in CurrentEpisode
      <4>1. (e.completed \/ i \in CurrentEpisode) = TRUE
        BY <3>4, Zenon
      <4>2. episodes'[i] = [e EXCEPT !.completed = TRUE]
        BY <3>1, <4>1
      <4>3. [episodes'[i] EXCEPT !.completed = FALSE] = [e EXCEPT !.completed = FALSE]
        BY <3>1, <4>2 DEF Episode
      <4>4. CASE f = [e EXCEPT !.completed = FALSE]
        BY <3>4, <4>3, <4>4 DEF f
      <4>5. CASE f = e /\ e.completed
        <5>1. episodes'[i] = e
          BY <3>1, <4>2, <4>5 DEF Episode
        <5> QED
          BY <4>5, <5>1 DEF f
      <4>6. CASE f = e /\ ~e.completed
        <5>1. [e EXCEPT !.completed = FALSE] = e
          BY <3>1, <4>6 DEF Episode
        <5> QED
          BY <3>4, <4>3, <4>6, <5>1 DEF f
      <4> QED
        BY <3>2, <4>4, <4>5, <4>6
    <3> QED
      BY <3>3, <3>4
  <2> QED
    BY <1>1, <1>2, <1>4, <2>1, <2>3, <2>4 DEF RecordIsWorkload
<1> QED
  BY <1>3, <1>4 DEF Unsaved

(* persist after an operation that kept the invariant of the workload:        *)
(* whatever save returned, or if it was not called.                           *)
LEMMA PersistKeeps ==
    ASSUME StoreInv, WorkloadInv', EngineNext, Persist
    PROVE  StoreInv'
<1>1. [Next]_vars /\ TypeOK'
  BY DEF Next, WorkloadInv
<1>2. CASE outcome' # "ALLOW" /\ UNCHANGED <<disk, torn, missed>>
  <2>1. RecordInv' /\ RecordIsPast'
    BY <1>1, <1>2, RecordStays, PastStays DEF StoreInv, RecordInv
  <2>2. missed' = 0 => ~torn' /\ RecordIsWorkload'
    BY <1>2, RefusedKeeps, RefusedDurable DEF StoreInv, WorkloadInv, RecordInv
  <2> QED
    BY <1>2, <2>1, <2>2 DEF StoreInv
<1>3. CASE Saved
  <2>1. RecordInv' /\ RecordIsWorkload'
    BY <1>3, SavedRecord DEF Saved
  <2> QED
    BY <1>1, <1>3, <2>1, WorkloadIsPast DEF StoreInv, Saved
<1>4. CASE SaveFailed
  <2>1. missed' \in Nat /\ missed' # 0
    BY <1>4 DEF SaveFailed, StoreInv
  <2>2. CASE UNCHANGED disk
    BY <1>1, <2>1, <2>2, RecordStays, PastStays DEF StoreInv, RecordInv
  <2>3. CASE disk' = Encoded'
    BY <1>1, <2>1, <2>3, SavedRecord, WorkloadIsPast DEF StoreInv
  <2> QED
    BY <1>4, <2>2, <2>3 DEF SaveFailed
<1> QED
  BY <1>2, <1>3, <1>4 DEF Persist

(* What an operation, a crash or a stutter may do to the lifecycle.           *)
Forward ==
    /\ generation' >= generation
    /\ progress'.completed >= progress.completed
    /\ isTerminal(state) => state' = state

BackToRecord ==
    /\ missed > 0 /\ missed' = 0 /\ ~torn /\ UNCHANGED disk
    /\ state' = disk.state /\ generation' = disk.generation
    /\ episodes' = disk.episodes /\ progress' = disk.progress

(* Whatever is saved, refused or lost, the invariant holds; only the reload   *)
(* of a record that missed a save goes back, and it goes back to the record.  *)
LEMMA StoreStep ==
    ASSUME StoreInv, [StoreNext]_storeVars
    PROVE  StoreInv' /\ (Forward \/ BackToRecord)
<1>1. generation \in Nat /\ progress.completed \in Nat
  BY ProgressAssumption DEF StoreInv, WorkloadInv, TypeOK, Progress
<1>2. CASE EngineOperation \/ UNCHANGED storeVars
  <2>1. [EngineNext]_vars /\ [Next]_vars
    BY <1>2 DEF EngineOperation, storeVars, Next
  <2>2. WorkloadInv'
    BY <2>1, TypeStep, LineageStep, ProgressStep, EngineSteps, StepKeepsLifecycle
    DEF StoreInv, WorkloadInv
  <2>3. Forward
    BY <2>1, ProgressStep, ClosedStep, KnowledgeStays
    DEF StoreInv, WorkloadInv, Closed, Forward
  <2>4. StoreInv'
    <3>1. CASE EngineOperation
      BY <2>2, <3>1, PersistKeeps DEF EngineOperation
    <3>2. CASE UNCHANGED storeVars
      <4>1. Unsaved /\ UNCHANGED <<disk, torn, missed>>
        BY <3>2 DEF storeVars, vars, aggregate, lineage, setup, Unsaved
      <4>2. RecordInv' /\ RecordIsPast'
        BY <2>1, <2>2, <4>1, RecordStays, PastStays DEF StoreInv, RecordInv, WorkloadInv
      <4> QED
        BY <2>2, <4>1, <4>2, RefusedDurable DEF StoreInv, RecordInv, WorkloadInv
    <3> QED
      BY <1>2, <3>1, <3>2
  <2> QED
    BY <2>3, <2>4
<1>3. CASE CrashAndReload
  <2>1. UNCHANGED <<disk, torn>> /\ ~torn /\ missed' = 0
    BY <1>3 DEF CrashAndReload
  <2>2. WorkloadInv' /\ RecordIsWorkload'
    BY <1>3, ReloadIsRecord DEF StoreInv
  <2>3. StoreInv'
    BY <2>1, <2>2, RecordStays, WorkloadIsPast DEF StoreInv, WorkloadInv
  <2>4. /\ state' = disk.state /\ generation' = disk.generation
        /\ episodes' = disk.episodes /\ progress' = disk.progress
    BY <1>3 DEF CrashAndReload, Decode
  <2>5. CASE missed = 0
    <3>1. UNCHANGED <<state, generation, progress>>
      BY <2>4, <2>5 DEF StoreInv, RecordIsWorkload
    <3> QED
      BY <1>1, <2>3, <3>1 DEF Forward
  <2>6. CASE missed # 0
    BY <2>1, <2>3, <2>4, <2>6 DEF StoreInv, BackToRecord
  <2> QED
    BY <2>5, <2>6
<1> QED
  BY <1>2, <1>3 DEF StoreNext

(* The invariant of the durable workload, inductive across failed saves and   *)
(* crashes: in particular authority, books and generation of the incarnations *)
(* survive them, and so do the states the engine leaves a workload in.        *)
THEOREM StoreCorrect == StoreSpec => []StoreInv
<1>1. StoreInit => StoreInv
  <2> SUFFICES ASSUME StoreInit PROVE StoreInv
    OBVIOUS
  <2>1. TypeOK
    BY InitType DEF StoreInit
  <2>2. WorkloadInv
    BY <2>1, ProgressAssumption
    DEF StoreInit, Init, WorkloadInv, LineageInv, GenerationCountsEpisodes,
        SoleAuthority, ProgressLineage, ProgressBounded, LifecycleInv, NeverHalfway,
        OneTerminalWinner, BeforeExecution
  <2>3. RecordIsWorkload
    BY DEF StoreInit, Encoded, RecordIsWorkload
  <2>4. RecordIsPast
    BY DEF StoreInit, Init, Encoded, RecordIsPast
  <2>5. RecordInv
    <3>1. Record!TypeOK
      BY <2>1, RecordTypes, EpisodeIdAssumption
      DEF StoreInit, Encoded, TypeOK, Record!TypeOK, Outcome
    <3>2. Record!NeverHalfway /\ Record!OneTerminalWinner
      BY DEF StoreInit, Init, Encoded, Record!NeverHalfway, Record!OneTerminalWinner,
         Record!BeforeExecution
    <3>3. /\ Record!GenerationCountsEpisodes /\ Record!SoleAuthority
          /\ Record!ProgressLineage /\ Record!ProgressBounded
      BY ProgressAssumption
      DEF StoreInit, Init, Encoded, Record!GenerationCountsEpisodes,
          Record!SoleAuthority, Record!ProgressLineage, Record!ProgressBounded
    <3> QED
      BY <3>1, <3>2, <3>3 DEF RecordInv
  <2> QED
    BY <2>2, <2>3, <2>4, <2>5 DEF StoreInv, StoreInit
<1>2. StoreInv /\ [StoreNext]_storeVars => StoreInv'
  BY StoreStep
<1> QED
  BY <1>1, <1>2, PTL DEF StoreSpec

(* Where every save reached the store the record is the workload, and where   *)
(* one failed behind an ALLOW the record is still a past of the workload.     *)
THEOREM DurableCorrect == StoreSpec => []DurableLifecycle
<1>1. StoreInv => DurableLifecycle
  BY DEF StoreInv, DurableLifecycle
<1> QED
  BY <1>1, StoreCorrect, PTL

(* Neither an operation nor a crash rolls back the generation, the completed  *)
(* work or a terminal state, but for the reload of a record that missed a     *)
(* save, which restores the whole of that record.                             *)
THEOREM NoRollbackCorrect == StoreSpec => NoRollback
<1>1. StoreInv /\ [StoreNext]_storeVars
        => [\/ /\ generation' >= generation
               /\ progress'.completed >= progress.completed
               /\ isTerminal(state) => state' = state
            \/ /\ missed > 0 /\ missed' = 0 /\ ~torn /\ UNCHANGED disk
               /\ state' = disk.state /\ generation' = disk.generation
               /\ episodes' = disk.episodes /\ progress' = disk.progress]_storeVars
  BY StoreStep DEF Forward, BackToRecord
<1> QED
  BY <1>1, StoreCorrect, PTL DEF StoreSpec, NoRollback

(* COMPLETE and CANCEL never both win, failed saves, crashes and reloads      *)
(* included.                                                                  *)
THEOREM DurableWinnerCorrect == StoreSpec => []OneTerminalWinner
<1>1. StoreInv => OneTerminalWinner
  BY DEF StoreInv, WorkloadInv, LifecycleInv
<1> QED
  BY <1>1, StoreCorrect, PTL
=============================================================================
