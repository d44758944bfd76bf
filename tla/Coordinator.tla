---------------------------- MODULE Coordinator -----------------------------
(* The engine's workload, a coordinator that runs it on worker processes, and *)
(* a user who cancels it.                                                     *)
(*                                                                            *)
(* The repository's coordinator loop is the one of tests/mp_proof.cpp: make   *)
(* the workload ready, spawn and register a worker, start and dispatch an     *)
(* episode, book its reports, complete.  There a worker is killed once, at a  *)
(* chosen point, and replaced once; here it may die at any point, is replaced *)
(* as often as the policy allows, and a call that the script expects to       *)
(* succeed and that does not ends the loop.  The user is a second thread, as  *)
(* in tests/concurrency.cpp, and retries a refused cancellation.              *)
EXTENDS Worker

CONSTANTS
    Policies, MaxU64, Total, FirstEpisodeId, EpisodeIdLimit, FirstMigrationId,
    MaxEpisodes,
    Boots,   \* bound: the boot ids of the worker processes there may be
    NoBoot   \* the id no process has

VARIABLES
    state, generation, episodes, progress, restartCount, cancellationRequested,
    cancelledFinal, policy, depsReady, contractSatisfied, episodeCounter,
    migrationCounter, outcome,
    phase,    \* the next call of the coordinator loop
    held,     \* the episode it dispatched and the generation it read then
    user,     \* the next call of the user
    userHeld  \* the generation the user read

(* The engine is not told the total; the worker alone knows it.               *)
W == INSTANCE Workload WITH TotalKind <- "UNKNOWN", Deltas <- 0..Units

(* What the workload assumes; the job fits the 64-bit counters, and a boot id *)
(* is a number other than zero.                                               *)
ASSUME WorkloadAssumption ==
    /\ Policies \subseteq W!Policy
    /\ Boots \subseteq Nat \ {0} /\ NoBoot = 0
    /\ MaxU64 \in Nat /\ Units <= MaxU64 /\ Total \in 0..MaxU64
    /\ FirstEpisodeId \in Nat \ {0} /\ EpisodeIdLimit \in Nat
    /\ FirstMigrationId \in Nat /\ FirstEpisodeId <= EpisodeIdLimit
    /\ MaxEpisodes \in Nat

workload == <<state, generation, episodes, progress, restartCount, cancellationRequested,
              cancelledFinal, policy, depsReady, contractSatisfied, episodeCounter,
              migrationCounter, outcome>>

loop == <<phase, held>>

caller == <<user, userHeld>>

coordinatorVars == <<workload, loop, caller, worker, transport>>

LoopPhase ==
    {"GRANT", "VALIDATE", "SETTLE", "SPAWN", "REGISTER", "ACKNOWLEDGE", "START",
     "ADMIT", "DISPATCH", "READ", "LOST", "RESTART", "MARK", "COMMIT", "CANCEL",
     "DRAIN", "SHUTDOWN", "CLOSE", "KILL", "DONE", "ABANDONED"}

UserPhase == {"IDLE", "LOOK", "CANCEL", "FINISH", "DONE"}

(* The types of the workload, the two threads, the worker and the connection. *)
CoordinatorTypeOK ==
    /\ W!TypeOK
    /\ phase \in LoopPhase
    /\ held \in [episode : 0..EpisodeIdLimit, generation : 0..generation]
    /\ user \in UserPhase /\ userHeld \in 0..generation
    /\ workerPhase \in WorkerPhase /\ bootId \in Boots \cup {NoBoot}
    /\ remaining \in 0..Units
    /\ inbox \in [Ends -> Seq(Frame)] /\ open \subseteq Ends

CoordinatorInit ==
    /\ W!Init
    /\ NoConnection
    /\ NoWorker
    /\ phase = "GRANT"
    /\ held = [episode |-> 0, generation |-> 0]
    /\ user = "IDLE"
    /\ userHeld = 0

-----------------------------------------------------------------------------
(* The coordinator loop.                                                      *)

Goto(next) == phase' = next /\ UNCHANGED held

(* The loop at one of its calls to the engine: where it goes if the call is   *)
(* allowed, and where if not.                                                 *)
Call(at, Operation, allowed, refused) ==
    /\ phase = at
    /\ Operation
    /\ Goto(IF outcome' = "ALLOW" THEN allowed ELSE refused)
    /\ UNCHANGED <<caller, worker, transport>>

(* addResourceRequirement and applyGrant.                                     *)
Grant ==
    /\ W!EditContract
    /\ contractSatisfied' = TRUE

Prepare ==
    \/ Call("GRANT", Grant, "VALIDATE", "ABANDONED")
    \/ Call("VALIDATE", W!Validate, "SETTLE", "ABANDONED")
    \/ Call("SETTLE", W!Settle, "SPAWN", "ABANDONED")

(* The loop at one of its calls to the worker or its connection.              *)
OnConnection(at, next) ==
    /\ phase = at
    /\ Goto(next)
    /\ UNCHANGED <<workload, caller>>

(* spawnWorker and accept.                                                    *)
Spawn ==
    /\ OnConnection("SPAWN", "REGISTER")
    /\ StartWorker /\ bootId' \in Boots
    /\ Connect

(* The process cannot be created or does not connect in time.                 *)
SpawnFails ==
    /\ OnConnection("SPAWN", "ABANDONED")
    /\ UNCHANGED <<worker, transport>>

(* killProc and close.                                                        *)
KillAndClose ==
    /\ Disconnect
    /\ Become("EXITED")

(* Mutant: the registration is not acknowledged.                              *)
AwaitHelloSilently ==
    \/ /\ OnConnection("REGISTER", "START")
       /\ Receive("coordinator")
       /\ UNCHANGED worker
    \/ /\ OnConnection("REGISTER", "ABANDONED")
       /\ PeerClosed("coordinator")
       /\ KillAndClose

(* registerWorker reads the HELLO, the first frame of every worker, ...       *)
AwaitHello ==
    \/ /\ OnConnection("REGISTER", "ACKNOWLEDGE")
       /\ Receive("coordinator")
       /\ UNCHANGED worker
    \/ /\ OnConnection("REGISTER", "ABANDONED")
       /\ PeerClosed("coordinator")
       /\ KillAndClose

HelloTimeout ==
    /\ OnConnection("REGISTER", "ABANDONED")
    /\ TimesOut("coordinator")
    /\ KillAndClose

(* ... and answers with a REGISTER.                                           *)
Acknowledge ==
    \/ /\ OnConnection("ACKNOWLEDGE", "START")
       /\ Send("coordinator", Bare("REGISTER"))
       /\ UNCHANGED worker
    \/ /\ OnConnection("ACKNOWLEDGE", "ABANDONED")
       /\ SendFails("coordinator")
       /\ KillAndClose

(* startEpisode, and the snapshot of the generation the later calls present.  *)
Start ==
    /\ phase = "START"
    /\ W!StartEpisode
    /\ phase' = IF outcome' = "ALLOW" THEN "ADMIT" ELSE "CANCEL"
    /\ held' = IF outcome' = "ALLOW"
               THEN [episode |-> episodeCounter, generation |-> generation']
               ELSE held
    /\ UNCHANGED <<caller, worker, transport>>

Admit == Call("ADMIT", W!AdmitDispatch(held.episode, bootId), "DISPATCH", "CANCEL")

(* Mutant: every episode is dispatched from the beginning.                    *)
ResumeFromZero == 0

(* The resume point of a dispatch: the durable progress.                      *)
ResumeFrom == progress.completed

Dispatch ==
    \/ /\ OnConnection("DISPATCH", "READ")
       /\ Send("coordinator", [type |-> "DISPATCH", value |-> ResumeFrom])
       /\ UNCHANGED worker
    \/ /\ OnConnection("DISPATCH", "LOST")
       /\ SendFails("coordinator")
       /\ KillAndClose

(* A PROGRESS is booked to the episode the loop holds.                        *)
BookProgress ==
    /\ phase = "READ"
    /\ Receive("coordinator")
    /\ LET frame == Head(inbox["coordinator"])
       IN  /\ frame.type = "PROGRESS"
           /\ W!ReportProgress(held.episode, 1, frame.value, TRUE)
    /\ Goto(IF outcome' = "ALLOW" THEN "READ" ELSE "CANCEL")
    /\ UNCHANGED <<caller, worker>>

SeeComplete ==
    /\ OnConnection("READ", "MARK")
    /\ Receive("coordinator")
    /\ Head(inbox["coordinator"]).type = "COMPLETE"
    /\ UNCHANGED worker

(* Frames of any other type are skipped.                                      *)
SkipReply ==
    /\ OnConnection("READ", "READ")
    /\ Receive("coordinator")
    /\ Head(inbox["coordinator"]).type \notin {"PROGRESS", "COMPLETE"}
    /\ UNCHANGED worker

(* A liveness probe to a registered worker, at most one on its way            *)
(* (protocol.hpp; no caller in the repository sends it).  A computing worker  *)
(* answers it after its COMPLETE only.                                        *)
Ping ==
    /\ phase \in {"START", "DISPATCH", "READ"}
    /\ \A end \in Ends : ~Contains(inbox[end], Bare("PING"))
    /\ Send("coordinator", Bare("PING"))
    /\ UNCHANGED <<workload, loop, caller, worker>>

(* The peer is gone ...                                                       *)
SeeLoss ==
    /\ OnConnection("READ", "LOST")
    /\ PeerClosed("coordinator")
    /\ KillAndClose

(* ... or too slow, which the loop cannot tell apart.                         *)
ReadTimeout ==
    /\ OnConnection("READ", "LOST")
    /\ TimesOut("coordinator")
    /\ KillAndClose

ReportLoss ==
    Call("LOST", W!OnWorkerLost(bootId, held.generation), "RESTART", "DONE")

PlanRestart ==
    Call("RESTART", W!PlanRestart("WORKER_LOSS", held.generation), "SPAWN", "DONE")

Complete ==
    \/ Call("MARK", W!MarkEpisodeCompleted(held.episode), "COMMIT", "SHUTDOWN")
    \/ Call("COMMIT", W!CommitCompletion(held.generation), "SHUTDOWN", "SHUTDOWN")

(* The engine refuses the loop's work because the workload is cancelled: the  *)
(* worker is told (protocol.hpp; no caller in the repository sends a CANCEL), *)
(* and whatever it still reports is read and dropped.                         *)
CancelWorker ==
    /\ phase = "CANCEL"
    /\ \/ Send("coordinator", Bare("CANCEL"))
       \/ SendFails("coordinator") /\ UNCHANGED transport
    /\ Goto("DRAIN")
    /\ UNCHANGED <<workload, caller, worker>>

Drain ==
    \/ /\ OnConnection("DRAIN", "DRAIN")
       /\ Receive("coordinator")
       /\ UNCHANGED worker
    \/ /\ OnConnection("DRAIN", "CLOSE")
       /\ PeerClosed("coordinator")
       /\ UNCHANGED <<worker, transport>>

(* SHUTDOWN, close, killProc; whether the SHUTDOWN could be sent is ignored.  *)
Shutdown ==
    /\ OnConnection("SHUTDOWN", "CLOSE")
    /\ Send("coordinator", Bare("SHUTDOWN"))
    /\ UNCHANGED worker

CloseConnection ==
    /\ OnConnection("CLOSE", "KILL")
    /\ Close("coordinator", inbox["coordinator"] # <<>>)
    /\ UNCHANGED worker

Kill ==
    /\ OnConnection("KILL", "DONE")
    /\ KillAndClose

(* What the loop does by itself.                                              *)
LoopStep ==
    \/ Prepare \/ Spawn \/ AwaitHello \/ Acknowledge \/ Start \/ Admit \/ Dispatch
    \/ BookProgress \/ SeeComplete \/ SkipReply \/ SeeLoss \/ ReportLoss \/ PlanRestart
    \/ Complete \/ CancelWorker \/ Drain \/ Shutdown \/ CloseConnection \/ Kill

-----------------------------------------------------------------------------
(* The user.                                                                  *)

UserGoto(next) == user' = next /\ UNCHANGED <<userHeld, loop, worker, transport>>

(* At some time, or never, the user wants the workload cancelled.             *)
WantCancel == user = "IDLE" /\ UserGoto("LOOK") /\ UNCHANGED workload

Look ==
    /\ user = "LOOK"
    /\ user' = "CANCEL"
    /\ userHeld' = generation
    /\ UNCHANGED <<workload, loop, worker, transport>>

(* cancel with a generation that may be stale by now; refused, it is retried  *)
(* until the workload is terminal.                                            *)
RequestCancel ==
    /\ user = "CANCEL"
    /\ W!RequestCancellation(userHeld)
    /\ UserGoto(CASE outcome' = "ALLOW" -> "FINISH"
                  [] outcome' = "REJECT_TERMINAL" -> "DONE"
                  [] OTHER -> "LOOK")

FinishCancel ==
    /\ user = "FINISH"
    /\ W!CompleteCancellation(userHeld)
    /\ UserGoto("DONE")

UserStep == Look \/ RequestCancel \/ FinishCancel

-----------------------------------------------------------------------------
(* A step of the worker leaves the engine, the loop and the user alone.       *)
OfWorker(A) == A /\ UNCHANGED <<workload, loop, caller>>

CoordinatorNext ==
    \/ LoopStep
    \/ SpawnFails \/ HelloTimeout \/ ReadTimeout \/ Ping
    \/ UserStep \/ WantCancel
    \/ OfWorker(WorkerStep)
    \/ OfWorker(AckTimeout) \/ OfWorker(Crash)

(* Each thread and process keeps taking the steps that are its own; spawn     *)
(* failures, timeouts, crashes, probes and the wish to cancel need not occur. *)
CoordinatorSpec ==
    /\ CoordinatorInit
    /\ [][CoordinatorNext]_coordinatorVars
    /\ WF_coordinatorVars(LoopStep)
    /\ WF_coordinatorVars(UserStep)
    /\ WF_coordinatorVars(OfWorker(WorkerStep))

-----------------------------------------------------------------------------
(* Properties.                                                                *)

JobStatus ==
    CASE state = "COMPLETED" -> "COMPLETED"
      [] state = "CANCELLED" -> "CANCELLED"
      [] W!isCancelling(state) -> "CANCELLING"
      [] OTHER -> "OPEN"

Job == INSTANCE DurableJob WITH done <- progress.completed, status <- JobStatus

(* Engine, loop and workers together keep the promise of DurableJob: although *)
(* the engine does not know the total and a lost worker's reports may be lost *)
(* with it, each unit is booked once, the job completes only with all units   *)
(* booked, and nothing is booked once its cancellation is accepted.           *)
ImplementsDurableJob == Job!Spec

(* The totals a reader of the queue reaches after each of its frames, if it   *)
(* has booked start units before: none if the job has fewer units.            *)
RunningTotals(start, queue) ==
    {total \in [0..Len(queue) -> 0..Units] :
        /\ total[0] = start
        /\ \A i \in 1..Len(queue) :
              total[i] = total[i - 1]
                          + IF queue[i].type = "PROGRESS" THEN queue[i].value ELSE 0}

(* While the loop reads, no more units than the job has are booked and on     *)
(* their way, and while the worker lives exactly these: every unit is booked, *)
(* in a frame on its way, or still to be computed from exactly there on       *)
(* (worker.cpp resumes at the descriptor's resumeFrom and reports each unit   *)
(* once; no frame of a dead worker is ever read).                             *)
WorkConserved ==
    phase = "READ" =>
        \E total \in RunningTotals(progress.completed, inbox["coordinator"]) :
           LET reported == total[Len(inbox["coordinator"])]
           IN  \/ workerPhase = "EXITED"
               \/ workerPhase = "COMPUTING" /\ reported + remaining = Units
               \/ Contains(inbox["worker"], [type |-> "DISPATCH", value |-> reported])
               \/ Contains(inbox["coordinator"], Bare("COMPLETE")) /\ reported = Units

(* The restart policy is exhausted and the loop stopped after the last loss.  *)
GaveUp ==
    /\ phase = "DONE" /\ state = "RECOVERING"
    /\ restartCount >= policy.maxRestarts

(* A job ends, COMPLETED or CANCELLED, whenever its workers die, time out or  *)
(* are cancelled (the script of mp_proof.cpp with its kill placed anywhere),  *)
(* unless no worker could be registered or the policy allows no more restart. *)
JobEnds == <>(W!isTerminal(state) \/ phase = "ABANDONED" \/ GaveUp)

(* Under CANCEL_FIRST a cancellation the engine accepted ends CANCELLED,      *)
(* whatever the completion racing with it does (policy.hpp).                  *)
AcceptedCancelWins ==
    policy.cancelRace = "CANCEL_FIRST" /\ state = "CANCELLATION_REQUESTED"
        ~> state = "CANCELLED"

(* The worker reads no frame while it computes (worker.cpp), yet a CANCEL on  *)
(* its way ends the process, after the dispatch is computed at the latest.    *)
CancelHeard == Contains(inbox["worker"], Bare("CANCEL")) ~> workerPhase = "EXITED"

-----------------------------------------------------------------------------
(* What the documentation says and the system does not keep.                  *)

=============================================================================
