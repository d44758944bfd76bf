---------------------------- MODULE EngineProofs ----------------------------
(* The lifecycle of a workload that is reached through the engine alone, and  *)
(* the ids of its episodes, proved for every policy, worker and bound.  A     *)
(* step of the engine does one of seven things to the state and the two       *)
(* cancellation flags; EngineStep shows it once for all operations, and the   *)
(* theorems on states and flags argue on those seven alone.                   *)
EXTENDS LifecycleProofs

(* The states of an incarnation that has been started and has not ended.      *)
Executing ==
    {"STARTING", "RUNNING", "SUSPEND_REQUESTED", "SUSPENDED", "MIGRATION_PENDING",
     "RECOVERING", "RESTART_PENDING"}

(* Nothing happens to state and flags.                                        *)
Idle == UNCHANGED <<state, cancel>>

(* A move among the states before execution.                                  *)
Admit ==
    /\ state \in BeforeExecution /\ state' \in BeforeExecution
    /\ UNCHANGED cancel

(* A move among the states of an incarnation; it may be left for READY, and   *)
(* entered from there unless the workload was finally cancelled.              *)
Execute ==
    /\ state \in Executing \cup {"READY"} /\ state' \in Executing \cup {"READY"}
    /\ state = "READY" => ~cancelledFinal
    /\ UNCHANGED cancel

(* commitCompletion, allowed: a pending cancellation is dropped.              *)
Complete ==
    /\ state \in {"RUNNING", "CANCELLATION_REQUESTED"} /\ state' = "COMPLETED"
    /\ ~cancellationRequested'
    /\ UNCHANGED cancelledFinal

(* commitCompletion, refused by the table: the cancellation is dropped too.   *)
Withdraw ==
    /\ state \in (BeforeExecution \cup Executing) \ {"RUNNING"}
    /\ ~cancellationRequested'
    /\ UNCHANGED <<state, cancelledFinal>>

(* A cancellation is recorded; before execution the state does not follow.    *)
Ask ==
    /\ cancellationRequested'
    /\ UNCHANGED cancelledFinal
    /\ \/ state \in BeforeExecution /\ UNCHANGED state
       \/ state \in Executing \cup {"CANCELLATION_REQUESTED"}
          /\ state' = "CANCELLATION_REQUESTED"

(* A cancellation is carried out; before execution the state does not follow, *)
(* and afterwards it is only confirmed.                                       *)
Conclude ==
    /\ cancelledFinal'
    /\ \/ state \in BeforeExecution /\ UNCHANGED state
       \/ state \in Executing \cup {"CANCELLATION_REQUESTED"}
          /\ state' = "CANCELLED" /\ cancellationRequested'
       \/ state = "CANCELLED" /\ UNCHANGED <<state, cancellationRequested>>

-----------------------------------------------------------------------------
(* The transition table, as far as the engine uses it.                        *)

(* A transition ends where it started or where it was to go.                  *)
LEMMA AttemptEnds ==
    ASSUME NEW s, NEW to
    PROVE  /\ Attempt(s, to).outcome = "ALLOW" => Attempt(s, to).state = to
           /\ Attempt(s, to).outcome # "ALLOW" => Attempt(s, to).state = s
           /\ s = to => Attempt(s, to).outcome = "ALLOW"
           /\ Attempt(s, to).outcome = "ALLOW" => s = to \/ canTransition(s, to)
BY DEF Attempt, TransitionVerdict

(* An edge of the table is taken, unless the zero-work gate stands before it. *)
LEMMA AttemptPasses ==
    ASSUME NEW s, NEW to, canTransition(s, to), ~isTerminal(s),
           to # "COMPLETED" \/ s \notin ZeroWorkStates
    PROVE  Attempt(s, to).outcome = "ALLOW" /\ Attempt(s, to).state = to
BY DEF Attempt, TransitionVerdict

(* The edges into the states the operations aim at, among the states the      *)
(* engine leaves a workload in.                                               *)
LEMMA EngineEdges ==
    ASSUME NEW s \in BeforeExecution \cup Executing \cup {"CANCELLATION_REQUESTED"}
    PROVE  /\ \A to \in {"VALIDATING", "WAITING_FOR_DEPENDENCIES", "WAITING_FOR_RESOURCES"} :
                 canTransition(s, to) => s \in BeforeExecution
           /\ canTransition(s, "READY") => s # "CANCELLATION_REQUESTED"
           /\ canTransition(s, "RESTART_PENDING") => s \in Executing
           /\ canTransition(s, "COMPLETING") <=> s \in {"RUNNING", "CANCELLATION_REQUESTED"}
           /\ canTransition(s, "CANCELLATION_REQUESTED") <=> s \in Executing
BY DEF BeforeExecution, Executing, canTransition, allowedFrom, WorkloadState

(* The later edges of the chains through the transient states are all there.  *)
LEMMA ChainEdges ==
    /\ canTransition("SUSPEND_REQUESTED", "SUSPENDING")
    /\ canTransition("SUSPENDING", "SUSPENDED")
    /\ canTransition("MIGRATION_PENDING", "MIGRATING")
    /\ canTransition("MIGRATING", "RUNNING")
    /\ canTransition("COMPLETING", "COMPLETED")
    /\ canTransition("CANCELLATION_REQUESTED", "CANCELLING")
    /\ canTransition("CANCELLING", "CANCELLED")
BY DEF canTransition, allowedFrom, WorkloadState

-----------------------------------------------------------------------------
(* What each operation of the engine does to state and flags.                 *)

EngineStep == Idle \/ Admit \/ Execute \/ Complete \/ Withdraw \/ Ask \/ Conclude

(* The state and the flags of a workload behind the engine.                   *)
LifecycleInv == NeverHalfway /\ OneTerminalWinner

(* The states of NeverHalfway by their part in the lifecycle.                 *)
LEMMA EngineStates ==
    NeverHalfway <=> state \in BeforeExecution \cup Executing
                                  \cup {"CANCELLATION_REQUESTED", "COMPLETED", "CANCELLED"}
BY DEF NeverHalfway, BeforeExecution, Executing

(* An early return is idle.                                                   *)
LEMMA RejectIdle ==
    ASSUME NEW o, Reject(o)
    PROVE  EngineStep
BY DEF Reject, aggregate, Idle, EngineStep

(* A terminal workload moves nowhere.                                         *)
LEMMA TerminalMove ==
    ASSUME NEW to, Finish(Attempt(state, to)), UNCHANGED cancel, isTerminal(state)
    PROVE  EngineStep
BY TerminalAttempt DEF Finish, Idle, EngineStep

(* A transition towards a state of the incarnation stays within it.           *)
LEMMA ExecuteMove ==
    ASSUME LifecycleInv, state \in Executing,
           NEW to \in Executing \cup {"READY"},
           Finish(Attempt(state, to)), UNCHANGED cancel
    PROVE  EngineStep
BY AttemptEnds DEF Finish, Execute, EngineStep, Executing

(* Validation and settle move among the states before execution, or back to   *)
(* READY.                                                                     *)
LEMMA SetupStep ==
    ASSUME LifecycleInv,
           \/ Validate \/ \E p \in Policies : SetPolicy(p)
           \/ EditDependencies \/ EditContract \/ Settle
    PROVE  EngineStep
<1>1. ASSUME NEW to \in {"VALIDATING", "WAITING_FOR_DEPENDENCIES",
                         "WAITING_FOR_RESOURCES", "READY"},
             Move(Attempt(state, to))
      PROVE  EngineStep
  <2>1. Finish(Attempt(state, to)) /\ UNCHANGED cancel
    BY <1>1 DEF Move
  <2>2. CASE isTerminal(state)
    BY <2>1, <2>2, TerminalMove
  <2>3. CASE ~isTerminal(state)
    <3>1. state \in BeforeExecution \cup Executing \cup {"CANCELLATION_REQUESTED"}
      BY <2>3, EngineStates DEF LifecycleInv, isTerminal
    <3>2. CASE UNCHANGED state
      BY <2>1, <3>2 DEF Idle, EngineStep
    <3>3. CASE state' = to /\ canTransition(state, to)
      <4>1. CASE state \in BeforeExecution
        BY <2>1, <3>3, <4>1 DEF Admit, EngineStep, BeforeExecution
      <4>2. CASE state \in Executing /\ to = "READY"
        BY <2>1, <3>3, <4>2 DEF Execute, EngineStep, Executing
      <4> QED
        BY <3>1, <3>3, <4>1, <4>2, EngineEdges DEF BeforeExecution, Executing
    <3> QED
      BY <2>1, <3>2, <3>3, AttemptEnds DEF Finish
  <2> QED
    BY <2>2, <2>3
<1>2. CASE Validate
  BY <1>1, <1>2 DEF Validate
<1>3. CASE Settle
  BY <1>1, <1>3, RejectIdle DEF Settle, SettleTarget
<1>4. CASE (\E p \in Policies : SetPolicy(p)) \/ EditDependencies \/ EditContract
  BY <1>4, RejectIdle DEF SetPolicy, EditDependencies, EditContract, Idle, EngineStep
<1> QED
  BY <1>2, <1>3, <1>4

(* startEpisode begins an incarnation only without a final cancellation.      *)
LEMMA StartStep ==
    ASSUME LifecycleInv, StartEpisode
    PROVE  EngineStep
<1>1. CASE UNCHANGED aggregate
  BY <1>1 DEF aggregate, Idle, EngineStep
<1>2. CASE StartVerdict = "ALLOW" /\ UNCHANGED cancel
           /\ Finish(Then(Attempt(state, "READY"), "STARTING"))
  <2>1. ~cancelledFinal /\ state \in Executing \cup {"READY"}
    BY <1>2, EngineStates
    DEF StartVerdict, ResumeEligible, LifecycleInv, Executing, BeforeExecution
  <2>2. state' \in {state, "READY", "STARTING"}
    BY <1>2, AttemptEnds DEF Finish, Then
  <2> QED
    BY <1>2, <2>1, <2>2 DEF Execute, EngineStep, Executing
<1> QED
  BY <1>1, <1>2 DEF StartEpisode, RefuseStart

(* Dispatches, reports and marks move an incarnation at most to RUNNING.      *)
LEMMA EpisodeStep ==
    ASSUME LifecycleInv,
           \/ \E id, boot : AdmitDispatch(id, boot)
           \/ \E id, epGen, delta, durable : ReportProgress(id, epGen, delta, durable)
           \/ \E id, st : MarkEpisode(id, st)
    PROVE  EngineStep
<1>1. ASSUME NEW id, NEW boot, AdmitDispatch(id, boot) PROVE EngineStep
  <2>1. CASE Reject("REJECT_EPISODE_INELIGIBLE")
    BY <2>1, RejectIdle
  <2>2. CASE state = "STARTING" /\ Finish(Attempt(state, "RUNNING")) /\ UNCHANGED cancel
    BY <2>2, ExecuteMove DEF Executing
  <2>3. CASE Finish(Stay) /\ UNCHANGED cancel
    BY <2>3 DEF Finish, Stay, Idle, EngineStep
  <2> QED
    BY <1>1, <2>1, <2>2, <2>3 DEF AdmitDispatch, MoveWith
<1>2. ASSUME NEW id, NEW epGen, NEW delta, NEW durable,
             ReportProgress(id, epGen, delta, durable)
      PROVE  EngineStep
  BY <1>2, RejectIdle DEF ReportProgress, Idle, EngineStep
<1>3. ASSUME NEW id, NEW st, MarkEpisode(id, st) PROVE EngineStep
  BY <1>3, RejectIdle DEF MarkEpisode, MoveWith, Finish, Stay, Idle, EngineStep
<1> QED
  BY <1>1, <1>2, <1>3

(* Loss, restart, suspension and migration move an incarnation among its      *)
(* states: none stops in SUSPENDING or MIGRATING.                             *)
LEMMA CallerStep ==
    ASSUME LifecycleInv, NEW g,
           \/ \E boot : OnWorkerLost(boot, g) \/ CommitMigration(boot, g)
           \/ \E reason : PlanRestart(reason, g)
           \/ RequestSuspend(g) \/ CompleteSuspend(g) \/ RequestResume(g)
           \/ RequestMigration(g)
    PROVE  EngineStep
<1>1. ASSUME NEW to \in Executing \cup {"READY"}, state \in Executing,
             Finish(Attempt(state, to)), UNCHANGED cancel
      PROVE  EngineStep
  BY <1>1, ExecuteMove
<1>2. ASSUME Finish(Stay), UNCHANGED cancel PROVE EngineStep
  BY <1>2 DEF Finish, Stay, Idle, EngineStep
<1>3. ASSUME NEW boot, OnWorkerLost(boot, g) PROVE EngineStep
  <2>1. state \in {"RUNNING", "DEGRADED"} => state \in Executing
    BY DEF LifecycleInv, NeverHalfway, Executing
  <2>2. \/ \E o : Reject(o)
        \/ Finish(Stay) /\ UNCHANGED cancel
        \/ /\ state \in {"RUNNING", "DEGRADED"}
           /\ Finish(Attempt(state, "RECOVERING")) /\ UNCHANGED cancel
    BY <1>3 DEF OnWorkerLost, Fenced, MoveWith
  <2>3. "RECOVERING" \in Executing
    BY DEF Executing
  <2> QED
    BY <1>1, <1>2, <2>1, <2>2, <2>3, RejectIdle
<1>4. ASSUME NEW boot, CommitMigration(boot, g) PROVE EngineStep
  <2>1. CASE \E o : Reject(o)
    BY <2>1, RejectIdle
  <2>2. CASE /\ state \in {"MIGRATION_PENDING", "MIGRATING"} /\ UNCHANGED cancel
             /\ Finish(Then(Attempt(state, "MIGRATING"), "RUNNING"))
    <3>1. state = "MIGRATION_PENDING"
      BY <2>2 DEF LifecycleInv, NeverHalfway
    <3>2. /\ Attempt("MIGRATION_PENDING", "MIGRATING").outcome = "ALLOW"
          /\ Attempt("MIGRATION_PENDING", "MIGRATING").state = "MIGRATING"
      BY ChainEdges, AttemptPasses DEF isTerminal
    <3>3. Attempt("MIGRATING", "RUNNING").state = "RUNNING"
      BY ChainEdges, AttemptPasses DEF isTerminal
    <3> QED
      BY <2>2, <3>1, <3>2, <3>3 DEF Finish, Then, Execute, EngineStep, Executing
  <2> QED
    BY <1>4, <2>1, <2>2 DEF CommitMigration, Fenced
<1>5. ASSUME NEW reason, PlanRestart(reason, g) PROVE EngineStep
  <2>1. CASE \E o : Reject(o)
    BY <2>1, RejectIdle
  <2>2. CASE /\ ~isTerminal(state) /\ UNCHANGED cancel
             /\ Finish(Attempt(state, "RESTART_PENDING"))
    <3>1. CASE state \in Executing
      BY <1>1, <2>2, <3>1 DEF Executing
    <3>2. CASE state \notin Executing
      <4>1. state # "RESTART_PENDING" /\ ~canTransition(state, "RESTART_PENDING")
        BY <2>2, <3>2, EngineStates, EngineEdges DEF LifecycleInv, isTerminal, Executing
      <4>2. UNCHANGED state
        BY <2>2, <4>1, AttemptEnds DEF Finish
      <4> QED
        BY <2>2, <4>2 DEF Idle, EngineStep
    <3> QED
      BY <3>1, <3>2
  <2> QED
    BY <1>5, <2>1, <2>2 DEF PlanRestart, Fenced
<1>6. CASE RequestSuspend(g) \/ RequestResume(g) \/ RequestMigration(g)
  <2>1. CASE \E o : Reject(o)
    BY <2>1, RejectIdle
  <2>2. CASE ~\E o : Reject(o)
    <3>1. /\ isActivelyRunning(state) \/ state \in {"SUSPENDED", "PREEMPTED", "MIGRATION_PENDING"}
          /\ \E to \in {"SUSPEND_REQUESTED", "READY", "MIGRATION_PENDING"} :
                Finish(Attempt(state, to)) /\ UNCHANGED cancel
      BY <1>6, <2>2 DEF RequestSuspend, RequestResume, RequestMigration, Fenced, Move
    <3>2. state \in Executing
      BY <3>1 DEF LifecycleInv, NeverHalfway, Executing, isActivelyRunning
    <3>3. {"SUSPEND_REQUESTED", "READY", "MIGRATION_PENDING"} \subseteq Executing \cup {"READY"}
      BY DEF Executing
    <3> QED
      BY <1>1, <3>1, <3>2, <3>3
  <2> QED
    BY <2>1, <2>2
<1>7. CASE CompleteSuspend(g)
  <2>1. CASE \E o : Reject(o)
    BY <2>1, RejectIdle
  <2>2. CASE /\ state \in {"SUSPEND_REQUESTED", "SUSPENDING"} /\ UNCHANGED cancel
             /\ Finish(Then(Attempt(state, "SUSPENDING"), "SUSPENDED"))
    <3>1. state = "SUSPEND_REQUESTED"
      BY <2>2 DEF LifecycleInv, NeverHalfway
    <3>2. /\ Attempt("SUSPEND_REQUESTED", "SUSPENDING").outcome = "ALLOW"
          /\ Attempt("SUSPEND_REQUESTED", "SUSPENDING").state = "SUSPENDING"
      BY ChainEdges, AttemptPasses DEF isTerminal
    <3>3. Attempt("SUSPENDING", "SUSPENDED").state = "SUSPENDED"
      BY ChainEdges, AttemptPasses DEF isTerminal
    <3> QED
      BY <2>2, <3>1, <3>2, <3>3 DEF Finish, Then, Execute, EngineStep, Executing
  <2> QED
    BY <1>7, <2>1, <2>2 DEF CompleteSuspend, Fenced, MoveWith
<1> QED
  BY <1>3, <1>4, <1>5, <1>6, <1>7

(* A completion that is tried commits, or is refused at its first transition. *)
LEMMA CompletionStep ==
    ASSUME LifecycleInv, NEW g, CommitCompletion(g)
    PROVE  EngineStep
<1> DEFINE r == Then(Attempt(state, "COMPLETING"), "COMPLETED")
<1>1. CASE \E o : Reject(o)
  BY <1>1, RejectIdle
<1>2. CASE /\ ~isTerminal(state) /\ Finish(r)
           /\ cancellationRequested' = FALSE /\ UNCHANGED cancelledFinal
  <2>1. state \in BeforeExecution \cup Executing \cup {"CANCELLATION_REQUESTED"}
    BY <1>2, EngineStates DEF LifecycleInv, isTerminal
  <2>2. CASE state \in {"RUNNING", "CANCELLATION_REQUESTED"}
    <3>1. canTransition(state, "COMPLETING")
      BY <2>1, <2>2, EngineEdges
    <3>2. /\ Attempt(state, "COMPLETING").outcome = "ALLOW"
          /\ Attempt(state, "COMPLETING").state = "COMPLETING"
      BY <1>2, <3>1, AttemptPasses
    <3>3. Attempt("COMPLETING", "COMPLETED").state = "COMPLETED"
      BY ChainEdges, AttemptPasses DEF isTerminal, ZeroWorkStates
    <3> QED
      BY <1>2, <2>2, <3>2, <3>3 DEF Finish, Then, Complete, EngineStep
  <2>3. CASE state \notin {"RUNNING", "CANCELLATION_REQUESTED"}
    <3>1. state # "COMPLETING" /\ ~canTransition(state, "COMPLETING")
      BY <2>1, <2>3, EngineEdges DEF BeforeExecution, Executing
    <3>2. Attempt(state, "COMPLETING").outcome # "ALLOW" /\ UNCHANGED state
      BY <1>2, <3>1, AttemptEnds DEF Finish, Then
    <3> QED
      BY <1>2, <2>1, <2>3, <3>2 DEF Withdraw, EngineStep
  <2> QED
    BY <2>2, <2>3
<1> QED
  BY <1>1, <1>2 DEF CommitCompletion, Fenced

(* A request for cancellation is recorded before and during execution.        *)
LEMMA RequestCancellationStep ==
    ASSUME LifecycleInv, NEW g, RequestCancellation(g)
    PROVE  EngineStep
<1>1. CASE \E o : Reject(o)
  BY <1>1, RejectIdle
<1>2. CASE /\ ~isTerminal(state)
           /\ cancellationRequested' = TRUE /\ UNCHANGED cancelledFinal
           /\ Finish(IF isCancelling(state) THEN Stay
                     ELSE Attempt(state, "CANCELLATION_REQUESTED"))
  <2>1. state \in BeforeExecution \cup Executing \cup {"CANCELLATION_REQUESTED"}
    BY <1>2, EngineStates DEF LifecycleInv, isTerminal
  <2>2. CASE state = "CANCELLATION_REQUESTED"
    BY <1>2, <2>2 DEF isCancelling, Finish, Stay, Ask, EngineStep
  <2>3. CASE state # "CANCELLATION_REQUESTED"
    <3>1. Finish(Attempt(state, "CANCELLATION_REQUESTED"))
      BY <1>2, <2>1, <2>3 DEF isCancelling, BeforeExecution, Executing
    <3>2. CASE state \in Executing
      BY <1>2, <2>1, <3>1, <3>2, EngineEdges, AttemptPasses DEF Finish, Ask, EngineStep
    <3>3. CASE state \in BeforeExecution
      <4>1. ~canTransition(state, "CANCELLATION_REQUESTED")
        BY <2>1, <3>3, EngineEdges DEF BeforeExecution, Executing
      <4> QED
        BY <1>2, <2>3, <3>1, <3>3, <4>1, AttemptEnds DEF Finish, Ask, EngineStep
    <3> QED
      BY <2>1, <2>3, <3>2, <3>3
  <2> QED
    BY <2>2, <2>3
<1> QED
  BY <1>1, <1>2 DEF RequestCancellation, Fenced

(* A cancellation that is carried out runs to CANCELLED, unless the workload  *)
(* has not been started.                                                      *)
LEMMA CompleteCancellationStep ==
    ASSUME LifecycleInv, NEW g, CompleteCancellation(g)
    PROVE  EngineStep
<1> DEFINE asked == Attempt(state, "CANCELLATION_REQUESTED")
           r == Then(Then(asked, "CANCELLING"), "CANCELLED")
<1>1. CASE \E o : Reject(o)
  BY <1>1, RejectIdle
<1>2. CASE state = "CANCELLED" /\ cancelledFinal' = TRUE
           /\ UNCHANGED <<state, cancellationRequested>>
  BY <1>2 DEF Conclude, EngineStep
<1>3. CASE /\ ~isTerminal(state)
           /\ cancelledFinal' = TRUE /\ cancellationRequested' = TRUE /\ Finish(r)
  <2>1. state \in BeforeExecution \cup Executing \cup {"CANCELLATION_REQUESTED"}
    BY <1>3, EngineStates DEF LifecycleInv, isTerminal
  <2>2. CASE state \in BeforeExecution
    <3>1. /\ ~canTransition(state, "CANCELLATION_REQUESTED")
          /\ state # "CANCELLATION_REQUESTED"
      BY <2>1, <2>2, EngineEdges DEF BeforeExecution, Executing
    <3>2. asked.outcome # "ALLOW" /\ asked.state = state
      BY <3>1, AttemptEnds
    <3> QED
      BY <1>3, <2>2, <3>2 DEF Finish, Then, Conclude, EngineStep
  <2>3. CASE state \in Executing \cup {"CANCELLATION_REQUESTED"}
    <3>1. asked.outcome = "ALLOW" /\ asked.state = "CANCELLATION_REQUESTED"
      BY <1>3, <2>1, <2>3, EngineEdges, AttemptEnds, AttemptPasses
    <3>2. /\ Attempt("CANCELLATION_REQUESTED", "CANCELLING").outcome = "ALLOW"
          /\ Attempt("CANCELLATION_REQUESTED", "CANCELLING").state = "CANCELLING"
      BY ChainEdges, AttemptPasses DEF isTerminal
    <3>3. Attempt("CANCELLING", "CANCELLED").state = "CANCELLED"
      BY ChainEdges, AttemptPasses DEF isTerminal
    <3>4. state' = "CANCELLED"
      <4> HIDE DEF asked
      <4> QED
        BY <1>3, <3>1, <3>2, <3>3 DEF Finish, Then
    <3> QED
      BY <1>3, <2>3, <3>4 DEF Conclude, EngineStep
  <2> QED
    BY <2>1, <2>2, <2>3
<1> QED
  BY <1>1, <1>2, <1>3 DEF CompleteCancellation, Fenced

(* Every step of the engine is one of the seven.                              *)
LEMMA EngineSteps ==
    ASSUME LifecycleInv, [EngineNext]_vars
    PROVE  EngineStep
<1>1. CASE UNCHANGED vars
  BY <1>1 DEF vars, aggregate, Idle, EngineStep
<1>2. CASE EngineNext
  BY <1>2, SetupStep, StartStep, EpisodeStep, CallerStep, CompletionStep,
     RequestCancellationStep, CompleteCancellationStep
  DEF EngineNext, LifecycleNext, MarkEpisodeCompleted
<1> QED
  BY <1>1, <1>2

-----------------------------------------------------------------------------
(* The theorems.                                                              *)

(* The engine's operations are among the workload's, so every theorem about   *)
(* Spec holds behind the engine.                                              *)
LEMMA EngineRefinesSpec == EngineSpec => Spec
<1>1. [EngineNext]_vars => [Next]_vars
  BY DEF Next
<1> QED
  BY <1>1, PTL DEF EngineSpec, Spec

(* Each of the seven keeps the invariant.                                     *)
LEMMA StepKeepsLifecycle ==
    ASSUME LifecycleInv, EngineStep
    PROVE  LifecycleInv'
<1> DEFINE All == BeforeExecution \cup Executing
                     \cup {"CANCELLATION_REQUESTED", "COMPLETED", "CANCELLED"}
<1>1. state \in All
  BY EngineStates DEF LifecycleInv
<1>2. state' \in All
  BY <1>1 DEF EngineStep, Idle, Admit, Execute, Complete, Withdraw, Ask, Conclude,
              BeforeExecution
<1>3. NeverHalfway'
  BY <1>2 DEF NeverHalfway, BeforeExecution, Executing
<1>4. OneTerminalWinner'
  <2> USE DEF LifecycleInv, OneTerminalWinner, BeforeExecution, Executing, cancel
  <2>1. CASE Idle \/ Admit
    BY <2>1 DEF Idle, Admit
  <2>2. CASE Execute
    BY <2>2 DEF Execute
  <2>3. CASE Complete \/ Withdraw
    BY <2>3 DEF Complete, Withdraw
  <2>4. CASE Ask
    BY <2>4 DEF Ask
  <2>5. CASE Conclude
    BY <2>5 DEF Conclude
  <2> QED
    BY <2>1, <2>2, <2>3, <2>4, <2>5 DEF EngineStep
<1> QED
  BY <1>3, <1>4 DEF LifecycleInv

(* The two invariants are inductive together: that completion and             *)
(* cancellation never both win rests on no chain being left halfway, where    *)
(* the table has edges from CANCELLING to COMPLETED and from COMPLETING to    *)
(* CANCELLED.                                                                 *)
THEOREM LifecycleCorrect == EngineSpec => []LifecycleInv
<1>1. Init => LifecycleInv
  BY DEF Init, LifecycleInv, NeverHalfway, OneTerminalWinner, BeforeExecution
<1>2. LifecycleInv /\ [EngineNext]_vars => LifecycleInv'
  BY EngineSteps, StepKeepsLifecycle
<1> QED
  BY <1>1, <1>2, PTL DEF EngineSpec

(* No operation of the engine leaves a workload in SUSPENDING, MIGRATING,     *)
(* CANCELLING, COMPLETING or any other state only a chain passes through.     *)
THEOREM NeverHalfwayCorrect == EngineSpec => []NeverHalfway
<1>1. LifecycleInv => NeverHalfway
  BY DEF LifecycleInv
<1> QED
  BY <1>1, LifecycleCorrect, PTL

(* COMPLETE and CANCEL never both win, whatever races with what.              *)
THEOREM OneWinnerCorrect == EngineSpec => []OneTerminalWinner
<1>1. LifecycleInv => OneTerminalWinner
  BY DEF LifecycleInv
<1> QED
  BY <1>1, LifecycleCorrect, PTL

(* While the newest episode alone has the authority, currentEpisode() is it.  *)
LEMMA CurrentIsNewest ==
    ASSUME TypeOK, SoleAuthority, NEW i \in CurrentEpisode
    PROVE  i = Len(episodes)
BY DEF TypeOK, SoleAuthority, CurrentEpisode

(* Only commitCompletion completes a workload behind the engine, only         *)
(* completeCancellation cancels it, only planRestart makes it wait for a      *)
(* restart, and only settle and requestResume leave it READY.                 *)
LEMMA EnteredBy ==
    ASSUME NEW t \in {"COMPLETED", "CANCELLED", "RESTART_PENDING", "READY"},
           state # t, state' = t
    PROVE  /\ ~(\/ Validate \/ \E p \in Policies : SetPolicy(p)
                \/ EditDependencies \/ EditContract \/ StartEpisode)
           /\ Settle => t = "READY" /\ SettleTarget = "READY"
           /\ \A id, boot : ~AdmitDispatch(id, boot)
           /\ \A id, epGen, delta, durable : ~ReportProgress(id, epGen, delta, durable)
           /\ \A id : ~MarkEpisodeCompleted(id)
           /\ \A boot, g : ~OnWorkerLost(boot, g) /\ ~CommitMigration(boot, g)
           /\ \A g : ~RequestSuspend(g) /\ ~RequestMigration(g)
           /\ \A g : ~CompleteSuspend(g) /\ ~RequestCancellation(g)
           /\ t # "RESTART_PENDING" => \A reason, g : ~PlanRestart(reason, g)
           /\ t # "READY" => \A g : ~RequestResume(g)
           /\ t # "CANCELLED" => \A g : ~CompleteCancellation(g)
           /\ t # "COMPLETED" => \A g : ~CommitCompletion(g)
<1>1. ASSUME NEW o, Reject(o) PROVE FALSE
  BY <1>1 DEF Reject, aggregate
<1>2. ASSUME NEW to, to # t, Finish(Attempt(state, to)) PROVE FALSE
  BY <1>2, AttemptEnds DEF Finish
<1>3. ASSUME NEW a, NEW b, a # t, b # t,
             Finish(Then(Attempt(state, a), b))
      PROVE  FALSE
  BY <1>3, AttemptEnds DEF Finish, Then
<1>4. ASSUME NEW a, NEW b, NEW c, a # t, b # t, c # t,
             Finish(Then(Then(Attempt(state, a), b), c))
      PROVE  FALSE
  BY <1>4, AttemptEnds DEF Finish, Then
<1>5. ~Finish(Stay)
  BY DEF Finish, Stay
<1>6. ~StartEpisode
  <2>1. Attempt("READY", "STARTING").state = "STARTING"
    BY AttemptPasses DEF canTransition, allowedFrom, WorkloadState, isTerminal
  <2>2. ~Finish(Then(Attempt(state, "READY"), "STARTING"))
    BY <2>1, AttemptEnds DEF Finish, Then
  <2> QED
    BY <2>2 DEF StartEpisode, RefuseStart, aggregate
<1>7. /\ ~(\/ Validate \/ \E p \in Policies : SetPolicy(p)
           \/ EditDependencies \/ EditContract)
      /\ Settle => t = "READY" /\ SettleTarget = "READY"
  <2>1. SettleTarget \notin {"COMPLETED", "CANCELLED", "RESTART_PENDING"}
    BY DEF SettleTarget
  <2> QED
    BY <1>1, <1>2, <2>1
    DEF Validate, SetPolicy, EditDependencies, EditContract, Settle, Move
<1>8. \A id, boot : ~AdmitDispatch(id, boot)
  BY <1>1, <1>2, <1>5 DEF AdmitDispatch, MoveWith
<1>9. \A id, epGen, delta, durable : ~ReportProgress(id, epGen, delta, durable)
  BY <1>1 DEF ReportProgress
<1>10. \A id : ~MarkEpisodeCompleted(id)
  BY <1>1, <1>5 DEF MarkEpisodeCompleted, MarkEpisode, MoveWith
<1>11. \A boot, g : ~OnWorkerLost(boot, g) /\ ~CommitMigration(boot, g)
  BY <1>1, <1>2, <1>3, <1>5 DEF OnWorkerLost, CommitMigration, MoveWith, Fenced
<1>12. \A g : ~RequestSuspend(g) /\ ~RequestMigration(g)
  BY <1>1, <1>2 DEF RequestSuspend, RequestMigration, Move, Fenced
<1>13. \A g : ~CompleteSuspend(g)
  BY <1>1, <1>3 DEF CompleteSuspend, MoveWith, Fenced
<1>14. \A g : ~RequestCancellation(g)
  BY <1>1, <1>2, <1>5 DEF RequestCancellation, Fenced
<1>15. t # "RESTART_PENDING" => \A reason, g : ~PlanRestart(reason, g)
  BY <1>1, <1>2 DEF PlanRestart, Fenced
<1>16. t # "READY" => \A g : ~RequestResume(g)
  BY <1>1, <1>2 DEF RequestResume, Move, Fenced
<1>17. t # "CANCELLED" => \A g : ~CompleteCancellation(g)
  BY <1>1, <1>4 DEF CompleteCancellation, Fenced
<1>18. t # "COMPLETED" => \A g : ~CommitCompletion(g)
  BY <1>1, <1>3 DEF CommitCompletion, Fenced
<1> QED
  BY <1>6, <1>7, <1>8, <1>9, <1>10, <1>11, <1>12, <1>13, <1>14, <1>15, <1>16, <1>17, <1>18

(* So a workload that completes does so by a commitCompletion.                *)
LEMMA CompletedByCommit ==
    ASSUME LifecycleInv, EngineNext, state # "COMPLETED", state' = "COMPLETED"
    PROVE  \E g \in PastGenerations : CommitCompletion(g)
BY EnteredBy DEF EngineNext, LifecycleNext

(* A SINGLE_RESULT workload completes on the result of the authoritative      *)
(* episode, never on that of a superseded one.                                *)
THEOREM CompletionCorrect == EngineSpec => CompletionByAuthority
<1>1. TypeOK /\ SoleAuthority /\ LifecycleInv /\ [EngineNext]_vars
        => [(/\ policy.completion = "SINGLE_RESULT"
             /\ state # "COMPLETED"
             /\ state' = "COMPLETED") => episodes[Len(episodes)].completed]_vars
  <2> SUFFICES ASSUME TypeOK, SoleAuthority, LifecycleInv, EngineNext,
                      policy.completion = "SINGLE_RESULT",
                      state # "COMPLETED", state' = "COMPLETED"
               PROVE  episodes[Len(episodes)].completed
    OBVIOUS
  <2>1. PICK g \in PastGenerations : CommitCompletion(g)
    BY CompletedByCommit
  <2>2. CompletionCriterion
    BY <2>1 DEF CommitCompletion, Fenced, Reject, aggregate
  <2>3. PICK i \in CurrentEpisode : episodes[i].completed
    BY <2>2 DEF CompletionCriterion
  <2> QED
    BY <2>3, CurrentIsNewest
<1> QED
  BY <1>1, EngineRefinesSpec, TypeCorrect, AuthorityCorrect, LifecycleCorrect, PTL
  DEF EngineSpec, CompletionByAuthority

(* A workload waits for a restart only by a planRestart.                      *)
LEMMA PendingByPlan ==
    ASSUME EngineNext, state # "RESTART_PENDING", state' = "RESTART_PENDING"
    PROVE  \E reason \in RestartReason, g \in PastGenerations : PlanRestart(reason, g)
BY EnteredBy DEF EngineNext, LifecycleNext

(* It becomes READY only by a settle that finds both gates open, or by the    *)
(* resumption of a suspended workload.                                        *)
LEMMA ReadyBySettleOrResume ==
    ASSUME EngineNext, state # "READY", state' = "READY"
    PROVE  \/ Settle /\ SettleTarget = "READY"
           \/ \E g \in PastGenerations : RequestResume(g)
BY EnteredBy DEF EngineNext, LifecycleNext

(* The limit in force binds every restart that is planned, also where it was  *)
(* lowered below the count, and no workload waits for one that was not        *)
(* counted.                                                                   *)
THEOREM BudgetCorrect == EngineSpec => RestartBudget
<1> DEFINE Budget == /\ restartCount' # restartCount
                           => /\ restartCount' = restartCount + 1
                              /\ restartCount' <= policy.maxRestarts
                     /\ state # "RESTART_PENDING" /\ state' = "RESTART_PENDING"
                           => restartCount' # restartCount
<1>1. TypeOK /\ [EngineNext]_vars => [Budget]_vars
  <2> SUFFICES ASSUME TypeOK, EngineNext PROVE Budget
    OBVIOUS
  <2>1. /\ restartCount \in Nat /\ policy.maxRestarts \in Nat
    BY PoliciesAssumption DEF TypeOK, Policy
  <2>2. ASSUME restartCount' # restartCount
        PROVE  restartCount' = restartCount + 1 /\ restartCount' <= policy.maxRestarts
    <3>1. restartCount' = restartCount + 1 /\ restartCount < policy.maxRestarts
      BY <2>2, CountedBelowLimit DEF Next
    <3> QED
      BY <2>1, <3>1
  <2>3. ASSUME state # "RESTART_PENDING", state' = "RESTART_PENDING"
        PROVE  restartCount' # restartCount
    <3>1. PICK reason \in RestartReason, g \in PastGenerations : PlanRestart(reason, g)
      BY <2>3, PendingByPlan
    <3>2. restartCount' = restartCount + 1
      BY <2>3, <3>1 DEF PlanRestart, Fenced, Reject, aggregate
    <3> QED
      BY <2>1, <3>2
  <2> QED
    BY <2>2, <2>3
<1> QED
  BY <1>1, EngineRefinesSpec, TypeCorrect, PTL DEF EngineSpec, RestartBudget

-----------------------------------------------------------------------------
(* What a caller of the engine relies on between its calls.                   *)

(* No operation takes an incarnation away or changes the id of one.           *)
LEMMA IdsStay ==
    ASSUME TypeOK, [Next]_vars
    PROVE  /\ Len(episodes') >= Len(episodes)
           /\ \A i \in 1..Len(episodes) : episodes'[i].id = episodes[i].id
<1>1. Len(episodes) \in Nat
  BY DEF TypeOK
<1>2. CASE KeepIds
  BY <1>1, <1>2 DEF KeepIds
<1>3. CASE \E id, st, boot : Incarnate(id, st, boot)
  <2>1. PICK id, st, boot : Incarnate(id, st, boot)
    BY <1>3
  <2>2. /\ Len(episodes') = Len(episodes) + 1
        /\ \A i \in 1..Len(episodes) : episodes'[i].id = episodes[i].id
    BY <2>1, GrownEpisodes
  <2> QED
    BY <1>1, <2>2
<1> QED
  BY <1>2, <1>3, StepIds DEF NewEngineId, NewMigrationId

(* Only startEpisode starts a workload that waits to be executed.             *)
LEMMA StartedByStart ==
    ASSUME EngineNext, state \in BeforeExecution, state' \in Executing
    PROVE  StartEpisode
<1>1. state \notin Executing /\ state' # state
  BY DEF BeforeExecution, Executing
<1>2. ASSUME NEW o, Reject(o) PROVE FALSE
  BY <1>1, <1>2 DEF Reject, aggregate
<1>3. ASSUME NEW to, to \notin Executing, Finish(Attempt(state, to)) PROVE FALSE
  BY <1>1, <1>3, AttemptEnds DEF Finish
<1>4. ~Finish(Stay)
  BY <1>1 DEF Finish, Stay
<1>5. ~(\/ Validate \/ \E p \in Policies : SetPolicy(p)
        \/ EditDependencies \/ EditContract \/ Settle)
  <2>1. SettleTarget \notin Executing /\ "VALIDATING" \notin Executing
    BY DEF SettleTarget, Executing
  <2> QED
    BY <1>1, <1>2, <1>3, <2>1
    DEF Validate, SetPolicy, EditDependencies, EditContract, Settle, Move
<1>6. /\ \A id, boot : ~AdmitDispatch(id, boot)
      /\ \A id, epGen, delta, durable : ~ReportProgress(id, epGen, delta, durable)
      /\ \A id : ~MarkEpisodeCompleted(id)
      /\ \A boot, g : ~OnWorkerLost(boot, g)
  <2>1. state \notin {"STARTING", "RUNNING", "DEGRADED"}
    BY DEF BeforeExecution
  <2> QED
    BY <1>1, <1>2, <1>4, <2>1
    DEF AdmitDispatch, ReportProgress, MarkEpisodeCompleted, MarkEpisode, OnWorkerLost,
        MoveWith, Fenced
<1>7. \A reason, g : ~PlanRestart(reason, g)
  <2>1. ~canTransition(state, "RESTART_PENDING") /\ state # "RESTART_PENDING"
    BY EngineEdges DEF BeforeExecution, Executing
  <2>2. Attempt(state, "RESTART_PENDING").state = state
    BY <2>1, AttemptEnds
  <2>3. ~Finish(Attempt(state, "RESTART_PENDING"))
    BY <1>1, <2>2 DEF Finish
  <2> QED
    BY <1>2, <2>3 DEF PlanRestart, Fenced
<1>8. \A g : ~RequestSuspend(g) /\ ~CompleteSuspend(g) /\ ~RequestResume(g) /\ ~RequestMigration(g)
  BY <1>2
  DEF RequestSuspend, CompleteSuspend, RequestResume, RequestMigration, Fenced,
      isActivelyRunning, BeforeExecution
<1>9. \A boot, g : ~CommitMigration(boot, g)
  BY <1>2 DEF CommitMigration, Fenced, BeforeExecution
<1>10. \A g : ~CommitCompletion(g)
  <2>1. Then(Attempt(state, "COMPLETING"), "COMPLETED").state \notin Executing
    BY <1>1, AttemptEnds DEF Then, Executing
  <2> QED
    BY <1>2, <2>1 DEF CommitCompletion, Fenced, Finish
<1>11. \A g : ~RequestCancellation(g)
  <2>1. "CANCELLATION_REQUESTED" \notin Executing
    BY DEF Executing
  <2> QED
    BY <1>2, <1>3, <1>4, <2>1 DEF RequestCancellation, Fenced
<1>12. \A g : ~CompleteCancellation(g)
  <2> DEFINE r == Then(Then(Attempt(state, "CANCELLATION_REQUESTED"), "CANCELLING"), "CANCELLED")
  <2>1. r.state \in {state, "CANCELLATION_REQUESTED", "CANCELLING", "CANCELLED"}
    BY AttemptEnds DEF Then
  <2>2. r.state \notin Executing
    BY <1>1, <2>1 DEF Executing
  <2> QED
    BY <1>1, <1>2, <2>2 DEF CompleteCancellation, Fenced, Finish
<1> QED
  BY <1>5, <1>6, <1>7, <1>8, <1>9, <1>10, <1>11, <1>12 DEF EngineNext, LifecycleNext

(* A workload without an incarnation is not executing.                        *)
NotStarted == episodes = <<>> => state \notin Executing \cup {"CANCELLATION_REQUESTED"}

LEMMA StepNotStarted ==
    ASSUME TypeOK, LifecycleInv, NotStarted, [EngineNext]_vars
    PROVE  NotStarted'
<1> SUFFICES ASSUME episodes' = <<>>
             PROVE  state' \notin Executing \cup {"CANCELLATION_REQUESTED"}
  BY DEF NotStarted
<1>1. [Next]_vars
  BY DEF Next
<1>2. episodes = <<>>
  <2>1. Len(episodes') = 0 /\ Len(episodes) \in Nat /\ Len(episodes') >= Len(episodes)
    BY <1>1, IdsStay DEF TypeOK
  <2> QED
    BY <2>1 DEF TypeOK
<1>3. state \in BeforeExecution \cup {"COMPLETED", "CANCELLED"}
  BY <1>2, EngineStates DEF NotStarted, LifecycleInv
<1>4. CASE state \in {"COMPLETED", "CANCELLED"}
  <2>1. UNCHANGED state
    BY <1>1, <1>4, ClosedStep DEF isTerminal, Closed
  <2> QED
    BY <1>4, <2>1 DEF Executing
<1>5. CASE state \in BeforeExecution
  <2>1. state \notin Executing \cup {"CANCELLATION_REQUESTED"}
    BY <1>5 DEF BeforeExecution, Executing
  <2>2. state' # "CANCELLATION_REQUESTED"
    BY <1>5, <2>1, EngineSteps
    DEF EngineStep, Idle, Admit, Execute, Complete, Withdraw, Ask, Conclude,
        BeforeExecution, Executing
  <2>3. ASSUME state' \in Executing PROVE FALSE
    <3>1. EngineNext
      BY <2>1, <2>3 DEF vars, aggregate
    <3>2. StartEpisode
      BY <1>5, <2>3, <3>1, StartedByStart
    <3>3. Incarnate(episodeCounter, "ADMITTED", NoBoot)
      <4> DEFINE r == Then(Attempt(state, "READY"), "STARTING")
      <4>1. state' = r.state /\ (r.outcome = "ALLOW" => Incarnate(episodeCounter, "ADMITTED", NoBoot))
        BY <2>1, <2>3, <3>2 DEF StartEpisode, RefuseStart, aggregate, Finish
      <4>2. r.outcome # "ALLOW" => r.state \in {state, "READY"}
        BY AttemptEnds DEF Then
      <4>3. "READY" \notin Executing /\ state \notin Executing
        BY <2>1 DEF Executing
      <4> HIDE DEF r
      <4>4. r.outcome = "ALLOW"
        BY <2>3, <4>1, <4>2, <4>3
      <4> QED
        BY <4>1, <4>4
    <3>4. Len(episodes') = Len(episodes) + 1
      BY <3>3, GrownEpisodes
    <3>5. Len(episodes') = 0 /\ Len(episodes) = 0
      BY <1>2
    <3> QED
      BY <3>4, <3>5
  <2> QED
    BY <2>2, <2>3
<1> QED
  BY <1>3, <1>4, <1>5

(* So in every reachable state what is executed has an incarnation.           *)
LEMMA StartedCorrect == EngineSpec => []NotStarted
<1>1. Init => NotStarted
  BY DEF Init, NotStarted, Executing
<1>2. TypeOK /\ LifecycleInv /\ NotStarted /\ [EngineNext]_vars => NotStarted'
  BY StepNotStarted
<1> QED
  BY <1>1, <1>2, TypeCorrect, EngineRefinesSpec, LifecycleCorrect, PTL DEF EngineSpec

(* The first incarnation is one of a workload that was READY.                 *)
LEMMA FirstFromReady ==
    ASSUME TypeOK, LifecycleInv, NotStarted, EngineNext, episodes = <<>>, episodes' # <<>>
    PROVE  state = "READY"
<1>1. /\ Len(episodes) = 0
      /\ state \in BeforeExecution \cup {"COMPLETED", "CANCELLED"}
  BY EngineStates DEF NotStarted, LifecycleInv
<1>2. \A boot, g : ~CommitMigration(boot, g)
  BY <1>1 DEF CommitMigration, Fenced, Reject, aggregate, lineage, BeforeExecution
<1>3. StartEpisode
  <2> SUFFICES ASSUME ~StartEpisode PROVE FALSE
    OBVIOUS
  <2>1. Quiet \/ Book
    BY <1>2, SetupShape, DispatchShape, ReportShape, MarkShape, LossShape,
       RequestShape, CompleteSuspendShape, CompletionShape
    DEF EngineNext, LifecycleNext, MarkEpisodeCompleted
  <2>2. Len(episodes') = 0
    BY <1>1, <2>1 DEF Quiet, Kept, Book, TypeOK
  <2>3. episodes' \in Seq(Episode)
    BY TypeStep DEF Next, TypeOK
  <2> QED
    BY <2>2, <2>3
<1>4. state \in ResumeEligible
  BY <1>3 DEF StartEpisode, RefuseStart, aggregate, lineage, StartVerdict
<1> QED
  BY <1>1, <1>4 DEF ResumeEligible, BeforeExecution

(* An id it was told of stays known, and a generation it read stays in the    *)
(* past.                                                                      *)
LEMMA KnowledgeStays ==
    ASSUME TypeOK, [Next]_vars
    PROVE  /\ \A id \in KnownIds : id \in KnownIds'
           /\ generation \in Nat /\ generation' \in Nat /\ generation' >= generation
<1>1. /\ DOMAIN episodes = 1..Len(episodes) /\ Len(episodes) \in Nat
      /\ DOMAIN episodes' = 1..Len(episodes')
  <2>1. TypeOK'
    BY TypeStep
  <2> QED
    BY <2>1 DEF TypeOK
<1>2. /\ Len(episodes') >= Len(episodes)
      /\ \A i \in 1..Len(episodes) : episodes'[i].id = episodes[i].id
  BY IdsStay
<1>3. ASSUME NEW id \in KnownIds PROVE id \in KnownIds'
  <2>1. CASE id = NoEpisode
    BY <2>1 DEF KnownIds
  <2>2. CASE \E i \in DOMAIN episodes : id = episodes[i].id
    <3>1. PICK i \in 1..Len(episodes) : id = episodes[i].id
      BY <1>1, <2>2
    <3>2. i \in 1..Len(episodes')
      BY <1>1, <1>2
    <3> QED
      BY <1>1, <1>2, <3>1, <3>2 DEF KnownIds
  <2> QED
    BY <2>1, <2>2 DEF KnownIds
<1>4. generation \in Nat /\ (generation' = generation \/ generation' = generation + 1)
  BY StepShape DEF TypeOK, Quiet, Grow, Book, Incarnate
<1> QED
  BY <1>3, <1>4

(* A started episode can be named by the id the engine drew for it.           *)
LEMMA StartedIsKnown ==
    ASSUME TypeOK, StartEpisode, outcome' = "ALLOW"
    PROVE  /\ episodeCounter \in KnownIds' /\ episodeCounter \in 0..EpisodeIdLimit
           /\ generation' \in Nat \ {0} /\ generation' = generation + 1
<1>1. Incarnate(episodeCounter, "ADMITTED", NoBoot)
  BY DEF StartEpisode, RefuseStart, Finish
<1>2. /\ Len(episodes') = Len(episodes) + 1 /\ Len(episodes) \in Nat
      /\ episodes'[Len(episodes) + 1].id = episodeCounter
  <2>1. Len(episodes) \in Nat
    BY DEF TypeOK
  <2> QED
    BY <1>1, <2>1, GrownEpisodes
<1>3. DOMAIN episodes' = 1..Len(episodes')
  <2>1. TypeOK'
    BY StartType
  <2> QED
    BY <2>1 DEF TypeOK
<1>4. Len(episodes) + 1 \in DOMAIN episodes'
  BY <1>2, <1>3
<1>5. episodeCounter \in KnownIds'
  BY <1>2, <1>4 DEF KnownIds
<1>6. episodeCounter \in 0..EpisodeIdLimit
  BY EpisodeIdAssumption DEF TypeOK
<1>7. generation \in Nat /\ generation' = generation + 1
  BY <1>1 DEF Incarnate, TypeOK
<1> QED
  BY <1>5, <1>6, <1>7

(* Only reports change the books.                                             *)
LEMMA OnlyReportsBook ==
    ASSUME TypeOK,
           \/ Validate \/ EditContract \/ Settle \/ StartEpisode
           \/ \E id, boot : AdmitDispatch(id, boot)
           \/ \E id : MarkEpisodeCompleted(id)
           \/ \E boot, g : OnWorkerLost(boot, g)
           \/ \E reason \in RestartReason : \E g : PlanRestart(reason, g)
           \/ \E g : CommitCompletion(g) \/ RequestCancellation(g) \/ CompleteCancellation(g)
    PROVE  progress' = progress
<1>1. Quiet \/ Grow
  BY SetupShape, StartShape, DispatchShape, MarkShape, LossShape, RequestShape,
     CompletionShape
  DEF MarkEpisodeCompleted
<1> QED
  BY <1>1, NoBookProgress

(* A report is booked in full, on a workload that is neither terminal nor     *)
(* being cancelled, or refused.                                               *)
LEMMA ReportBooks ==
    ASSUME TypeOK, NEW id, NEW epGen, NEW delta \in Deltas, NEW durable \in BOOLEAN,
           ReportProgress(id, epGen, delta, durable)
    PROVE  /\ state' = state
           /\ \/ progress' = progress /\ outcome' # "ALLOW"
              \/ /\ progress'.completed = progress.completed + delta
                 /\ outcome' = "ALLOW"
                 /\ ~isTerminal(state) /\ ~isCancelling(state)
<1>1. CASE \E o : o # "ALLOW" /\ Reject(o)
  BY <1>1 DEF Reject, aggregate
<1>2. ASSUME NEW i \in Lookup(id), ProgressVerdict(i, epGen, delta) = "ALLOW",
             progress' = Advance(progress, delta, durable), outcome' = "ALLOW",
             UNCHANGED state
      PROVE  /\ state' = state /\ outcome' = "ALLOW"
             /\ progress'.completed = progress.completed + delta
             /\ ~isTerminal(state) /\ ~isCancelling(state)
  <2>1. ~Overflows(delta) /\ ~isTerminal(state) /\ ~isCancelling(state)
    BY <1>2 DEF ProgressVerdict
  <2> QED
    BY <1>2, <2>1, AdvanceAdds
<1> QED
  BY <1>1, <1>2 DEF ReportProgress

(* A request for cancellation that is accepted stands in the state.           *)
LEMMA AcceptedIsPending ==
    ASSUME LifecycleInv, NEW g, RequestCancellation(g), outcome' = "ALLOW"
    PROVE  state' = "CANCELLATION_REQUESTED"
<1>1. \/ isCancelling(state) /\ Finish(Stay)
      \/ ~isCancelling(state) /\ Finish(Attempt(state, "CANCELLATION_REQUESTED"))
  BY DEF RequestCancellation, Fenced, Reject
<1>2. CASE isCancelling(state) /\ Finish(Stay)
  BY <1>2 DEF LifecycleInv, NeverHalfway, isCancelling, Finish, Stay
<1>3. CASE ~isCancelling(state) /\ Finish(Attempt(state, "CANCELLATION_REQUESTED"))
  BY <1>3, AttemptEnds DEF Finish
<1> QED
  BY <1>1, <1>2, <1>3
=============================================================================
