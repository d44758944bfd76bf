-------------------------- MODULE LifecycleProofs ---------------------------
(* What no operation of any caller does to the state of a workload, and how   *)
(* restarts are counted, for every policy and bound.                          *)
EXTENDS LineageProofs

(* A transition out of a terminal state is refused, one into it is a no-op.   *)
LEMMA TerminalAttempt ==
    ASSUME NEW s, NEW to, isTerminal(s)
    PROVE  Attempt(s, to).state = s
BY DEF Attempt, TransitionVerdict

(* The variables a terminal workload keeps.                                   *)
Closed == UNCHANGED <<state, generation, progress, restartCount>>

(* An early return, and the change of an episode's flags alone, keep them.    *)
LEMMA RejectClosed ==
    ASSUME NEW o, Reject(o)
    PROVE  Closed
BY DEF Reject, Closed, aggregate, lineage

(* Policy, gates, validation and settle do not reopen a terminal workload.    *)
LEMMA SetupClosed ==
    ASSUME TypeOK, isTerminal(state),
           \/ Validate \/ \E p \in Policies : SetPolicy(p)
           \/ EditDependencies \/ EditContract \/ Settle
    PROVE  Closed
BY TerminalAttempt, RejectClosed
DEF Validate, SetPolicy, EditDependencies, EditContract, Settle, Move, Finish, Closed, lineage

(* Starting, dispatching, reporting and marking do not reopen one either.     *)
LEMMA EpisodeClosed ==
    ASSUME TypeOK, isTerminal(state),
           \/ StartEpisode
           \/ \E id \in KnownIds, boot \in Boots : AdmitDispatch(id, boot)
           \/ \E id \in KnownIds, epGen \in {1, 2}, delta \in Deltas, durable \in BOOLEAN :
                 ReportProgress(id, epGen, delta, durable)
           \/ \E id \in KnownIds, st \in {"COMPLETED", "FAILED"} : MarkEpisode(id, st)
    PROVE  Closed
<1>1. state # "STARTING"
  BY DEF isTerminal
<1>2. CASE StartEpisode
  BY <1>2 DEF StartEpisode, StartVerdict, RefuseStart, Closed, aggregate, lineage
<1>3. ASSUME NEW id, NEW boot, AdmitDispatch(id, boot) PROVE Closed
  BY <1>1, <1>3, RejectClosed DEF AdmitDispatch, MoveWith, Finish, Stay, Closed
<1>4. ASSUME NEW id, NEW epGen, NEW delta, NEW durable,
             ReportProgress(id, epGen, delta, durable)
      PROVE  Closed
  <2>1. \A i : ProgressVerdict(i, epGen, delta) # "ALLOW"
    BY DEF ProgressVerdict
  <2> QED
    BY <1>4, <2>1, RejectClosed DEF ReportProgress
<1>5. ASSUME NEW id, NEW st, MarkEpisode(id, st) PROVE Closed
  BY <1>5, RejectClosed DEF MarkEpisode, MoveWith, Finish, Stay, Closed
<1> QED
  BY <1>2, <1>3, <1>4, <1>5

(* Nor does any operation that presents a generation.                         *)
LEMMA CallerClosed ==
    ASSUME TypeOK, isTerminal(state), NEW g,
           \/ \E boot \in Boots : OnWorkerLost(boot, g) \/ CommitMigration(boot, g)
           \/ \E reason \in RestartReason : PlanRestart(reason, g)
           \/ RequestSuspend(g) \/ CompleteSuspend(g) \/ RequestResume(g)
           \/ RequestMigration(g) \/ CommitCompletion(g) \/ Finalize(g)
           \/ RequestCancellation(g) \/ CompleteCancellation(g)
           \/ \E to \in WorkloadState : Transition(to, g)
    PROVE  Closed
<1>1. state \in {"COMPLETED", "FAILED_TERMINAL", "CANCELLED", "SUPERSEDED"}
  BY DEF isTerminal
<1>2. ASSUME NEW boot, OnWorkerLost(boot, g) PROVE Closed
  BY <1>1, <1>2, RejectClosed DEF OnWorkerLost, Fenced, MoveWith, Finish, Stay, Closed
<1>3. ASSUME NEW boot, CommitMigration(boot, g) PROVE Closed
  BY <1>1, <1>3, RejectClosed DEF CommitMigration, Fenced
<1>4. ASSUME NEW reason, PlanRestart(reason, g) PROVE Closed
  BY <1>4, RejectClosed DEF PlanRestart, Fenced
<1>5. CASE RequestSuspend(g) \/ RequestMigration(g)
  BY <1>1, <1>5, RejectClosed DEF RequestSuspend, RequestMigration, Fenced, isActivelyRunning
<1>6. CASE CompleteSuspend(g) \/ RequestResume(g)
  BY <1>1, <1>6, RejectClosed DEF CompleteSuspend, RequestResume, Fenced
<1>7. CASE CommitCompletion(g) \/ Finalize(g) \/ RequestCancellation(g)
  BY <1>7, RejectClosed DEF CommitCompletion, Finalize, RequestCancellation, Fenced
<1>8. CASE CompleteCancellation(g)
  BY <1>8, RejectClosed DEF CompleteCancellation, Fenced, Closed, lineage
<1>9. CASE \E to \in WorkloadState : Transition(to, g)
  BY <1>9, RejectClosed, TerminalAttempt DEF Transition, Fenced, Move, Finish, Closed, lineage
<1> QED
  BY <1>2, <1>3, <1>4, <1>5, <1>6, <1>7, <1>8, <1>9

(* Nor does any other step.                                                   *)
LEMMA ClosedStep ==
    ASSUME TypeOK, [Next]_vars, isTerminal(state)
    PROVE  Closed
<1>1. CASE UNCHANGED vars
  BY <1>1 DEF vars, aggregate, lineage, Closed
<1>2. CASE EngineNext
  BY <1>2, SetupClosed, EpisodeClosed, CallerClosed
  DEF EngineNext, LifecycleNext, MarkEpisodeCompleted
<1>3. CASE Next /\ ~EngineNext
  BY <1>3, EpisodeClosed, CallerClosed DEF Next, MarkEpisodeFailed
<1> QED
  BY <1>1, <1>2, <1>3

(* A terminal workload is never reopened, whatever operation is called on it. *)
THEOREM TerminalCorrect == Spec => TerminalIsFinal
<1>1. TypeOK /\ [Next]_vars
        => [isTerminal(state) => UNCHANGED <<state, generation, progress, restartCount>>]_vars
  BY ClosedStep DEF Closed
<1> QED
  BY <1>1, TypeCorrect, PTL DEF Spec, TerminalIsFinal

-----------------------------------------------------------------------------
(* Restart accounting.                                                        *)

(* Only planRestart counts, and only below the limit of the policy in force.  *)
LEMMA CountedBelowLimit ==
    ASSUME [Next]_vars
    PROVE  \/ UNCHANGED restartCount
           \/ restartCount' = restartCount + 1 /\ restartCount < policy.maxRestarts
<1> DEFINE Counted == \/ UNCHANGED restartCount
                      \/ restartCount' = restartCount + 1 /\ restartCount < policy.maxRestarts
<1>1. ASSUME NEW o, Reject(o) PROVE Counted
  BY <1>1 DEF Reject, aggregate
<1>2. ASSUME NEW r, Move(r) PROVE Counted
  BY <1>2 DEF Move
<1>3. ASSUME NEW r, NEW eps, MoveWith(r, eps) PROVE Counted
  BY <1>3 DEF MoveWith
<1>4. ASSUME UNCHANGED vars PROVE Counted
  BY <1>4 DEF vars, aggregate
<1>5. ASSUME \/ Validate \/ \E p \in Policies : SetPolicy(p)
             \/ EditDependencies \/ EditContract \/ Settle \/ StartEpisode
      PROVE  Counted
  BY <1>1, <1>2, <1>5
  DEF Validate, SetPolicy, EditDependencies, EditContract, Settle, StartEpisode,
      RefuseStart, aggregate
<1>6. ASSUME NEW id, NEW boot, AdmitDispatch(id, boot) PROVE Counted
  BY <1>1, <1>3, <1>6 DEF AdmitDispatch
<1>7. ASSUME NEW id, NEW epGen, NEW delta, NEW durable,
             ReportProgress(id, epGen, delta, durable)
      PROVE  Counted
  BY <1>1, <1>7 DEF ReportProgress
<1>8. ASSUME NEW id, NEW st, MarkEpisode(id, st) PROVE Counted
  BY <1>1, <1>3, <1>8 DEF MarkEpisode
<1>9. ASSUME NEW reason, NEW g, PlanRestart(reason, g) PROVE Counted
  BY <1>1, <1>9 DEF PlanRestart, Fenced, restartAllowed
<1>10. ASSUME NEW boot, NEW g, OnWorkerLost(boot, g) \/ CommitMigration(boot, g)
       PROVE  Counted
  BY <1>1, <1>3, <1>10 DEF OnWorkerLost, CommitMigration, Fenced
<1>11. ASSUME NEW g, \/ RequestSuspend(g) \/ CompleteSuspend(g) \/ RequestResume(g)
                     \/ RequestMigration(g) \/ CommitCompletion(g) \/ Finalize(g)
                     \/ RequestCancellation(g) \/ CompleteCancellation(g)
                     \/ \E to \in WorkloadState : Transition(to, g)
       PROVE  Counted
  BY <1>1, <1>2, <1>3, <1>11
  DEF RequestSuspend, CompleteSuspend, RequestResume, RequestMigration, CommitCompletion,
      Finalize, RequestCancellation, CompleteCancellation, Transition, Fenced
<1> HIDE DEF Counted
<1>12. ASSUME EngineNext PROVE Counted
  BY <1>5, <1>6, <1>7, <1>8, <1>9, <1>10, <1>11, <1>12
  DEF EngineNext, LifecycleNext, MarkEpisodeCompleted
<1>13. ASSUME Next, ~EngineNext PROVE Counted
  BY <1>8, <1>11, <1>13 DEF Next, MarkEpisodeFailed
<1>14. Counted
  BY <1>4, <1>12, <1>13
<1> QED
  BY <1>14 DEF Counted
=============================================================================
