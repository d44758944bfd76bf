# Workload Fabric in TLA+

Workload Fabric keeps *durable workloads*: a unit of work that outlives the
worker that executes it. A workload goes through a lifecycle (admission,
execution, suspension, migration, recovery, completion or cancellation) and is
executed by a sequence of *episodes*, one incarnation each, of which one has the
authority to advance the workload's progress. This directory holds TLA+ models
of that core, the TLC configurations that check them on small instances, and
proofs checked by TLAPS.

Paths below are relative to `src/`.

## Inventory of the system

| Component | State | Operations | Correct when |
|---|---|---|---|
| State machine, `include/workload_fabric/state.hpp` | none | `canTransition`, predicates on states | terminal states have no way out; every chain an operation walks exists |
| Workload, `src/workload.cpp` | state, generation, episodes, progress, restart count, cancellation flags, policy, contract, dependencies | `settle`, `startEpisode`, `admitDispatch`, `reportProgress`, completion, cancellation, worker loss, restart, suspend, resume, migrate | one episode has the authority; progress is counted once; at most one terminal result; restarts are bounded |
| Engine, `src/coordinator.cpp` | map of workloads, episode counter, store | one method per workload operation, under one mutex, followed by a save if the result was ALLOW; what the save returns is dropped | what was acknowledged is in the store, or the store lags behind without diverging |
| Progress, `src/progress.cpp` | 64-bit completed and checkpointed counters, known or unknown total | `advance`, `reconcile` | monotonic, bounded by a known total, no wrap |
| Policy, `include/workload_fabric/policy.hpp` | restart, completion, migration, suspension, race policy | `restartAllowed` | limits hold |
| Resource contract, `src/resources.cpp` | generation, requirements, grant | `add`, `setRequirements`, `applyGrant`, `releaseGrant`, `advanceGeneration`, `satisfied` | a grant counts only for the requirements it answered |
| Dependency set, `src/dependencies.cpp` | definitions with last observed status | `define`, `clear`, `setStatus`, `ready` | late reports do not hide newer ones |
| Reference broker, `src/execution/reference.cpp` | grants it gave | `requestGrant`, `bindGrant`, `releaseGrant` | its grant satisfies the contract it read |
| Codec and stores, `src/persistence.cpp` | one record per workload | `encode`, `decode`, `save`, `load` | a reload is the workload that was saved |
| Reference execution fabric, checkpoint store | attempts, checkpoints | dispatch, cancel, preempt, resume | an operation reaches the attempt it names |
| Worker, protocol, transport, `src/worker.cpp`, `src/transport_win.cpp` | connection, current dispatch | HELLO, DISPATCH, PROGRESS, COMPLETE, CANCEL, SHUTDOWN, PING | a dispatch is answered in order; a lost peer ends the worker; a CANCEL is heard |
| Coordinator loop and callers, `tests/mp_proof.cpp`, `tests/concurrency.cpp` | the episode and generation they hold | spawn, register, dispatch, book, restart, complete; cancel | every unit is booked once; the job ends |
| Priority, `src/priority.cpp` | base and effective priority, generation | set, boost | fenced changes |
| Explanations, names, inspector, benchmarks, CUDA driver | none of the core's | reading and printing | out of scope |

**How they interact.** A coordinator process calls the engine. The engine locks
its mutex, finds the workload, calls one method of `Workload`, saves the
workload to its `StateStore` if the method returned ALLOW, without a look at
whether the save succeeded, and unlocks.
`Workload` owns its `DependencySet` and `ResourceContract` and asks them only
two questions, `ready()` and `satisfied()`, in `settle`. A broker reads the
contract, decides, and its grant is applied later. Workers talk to the
coordinator process over frames; what they report reaches the engine as calls
that name an episode, a boot and a generation.

**What is hard.** Each engine call is atomic; what interleaves is calls of callers
whose knowledge is old: a late progress report of a superseded worker, a loss
report that crosses a migration, a cancellation that crosses a completion, a
grant that answers a contract that has moved on. Several operations change
fields *before* the transition they end with is refused. The save comes after
the operation, only for ALLOW, and may fail unnoticed; on disk it truncates the record before it
writes, with readers that do not wait. A worker may die with reports on their
way, reads nothing while it computes, and takes the first frame it sees for its
acknowledgement; a coordinator cannot tell a slow worker from a dead one; and
both ends block in a send when the peer does not read. `PROJECT.json` lists each of these hazards at
its line with the properties that watch it.

## Modules

| Module | Models | Notes |
|---|---|---|
| `WorkloadStates` | `state.hpp` | the states, the predicates, `kTransitionTable` as a function from a state to its successors |
| `Workload` | `workload.cpp`, `coordinator.cpp`, `progress.cpp`, `policy.hpp` | one workload; one action per public operation |
| `WorkloadStore` | `persistence.cpp`, `persist` of `coordinator.cpp` | extends `Workload` with the durable record, a save that may fail, and a crash with reload |
| `DependencySet`, `ResourceContract` | `dependencies.cpp`, `resources.cpp`, `requestGrant` of `reference.cpp` | the two gates, as actions on their own variables |
| `Admission` | the composition | gates and broker in full, with every other operation of the engine; shown to implement `Workload` |
| `Transport` | `transport_win.cpp` | one connection: frames in order, bounded sockets, timeouts, close and reset |
| `Worker` | `worker.cpp`, `worker_main.cpp`, `protocol.hpp` | extends `Transport` with the worker process, one action per frame it reads or sends |
| `Coordinator` | `tests/mp_proof.cpp`, the cancelling thread of `tests/concurrency.cpp` | extends `Worker`, instantiates `Workload`: the loop, the user and the engine in full |
| `DurableJob` | the promise | abstract specification that `Coordinator` implements |
| `FileStore` | `FileStateStore` and the record's frame in `persistence.cpp`, `wf_inspect.cpp` | a save in place against a reader |
| `MCWorkload`, `MCWorkloadStore`, `MCAdmission`, `MCCoordinator`, `MCFileStore` | | constants for TLC |
| `WorkloadProofs`, `LineageProofs`, `LifecycleProofs`, `EngineProofs`, `StoreProofs` | | theorems about `Workload` and `WorkloadStore`, each module extending the one before it as far as it needs |
| `AdmissionProofs`, `FileStoreProofs`, `CoordinatorProofs` | | theorems about these components; the first and the last instantiate `EngineProofs` for the workload inside the composition |

**State.** The variables of `Workload` are the fields of class `Workload` under
their names without the trailing underscore, with `episodeCounter` of the engine
and `outcome`, what the last operation returned. `episodes` is the vector
`episodes_`; an episode keeps id, state, boot, progress, authority, completed
and workerLost. `(WorkerId, WorkerBootId)` pairs are one value, a *boot*. The
contents of the contract and the dependency set are the two Booleans
`contractSatisfied` and `depsReady` here and are computed in `Admission`.
Left out are fields that no operation reads (listed in the module's header), the
audit history with its revision counter, names and explanations.

**Actions.** `Attempt(s, to)` is `guardedTransition`: where it leaves the state
and what it returns; `Then` chains a second transition that is tried only if the
first was allowed. `Fenced(expecting, A)` is the generation check. An early
return is `Reject(outcome)`. An operation that sets fields before a transition
that is refused keeps what it set: `PlanRestart` counts, `CompleteCancellation`
sets both flags, `CommitCompletion` drops a pending cancellation.
The 64-bit arithmetic of progress is done modulo `MaxU64 + 1`. `EngineNext` has
the operations the engine exposes, `LifecycleNext` those of them that leave the
gates alone (`Admission` computes the gates and takes the rest from there); `Next` adds the ones only a direct holder of
a `Workload` can call (`transition` with any target, `finalize`,
`markEpisodeFailed`). A caller presents any generation that ever existed and
any episode id it could know, or one that never existed. The `*ForTest` setters
are not modelled.

**Save, crash and reload.** `disk` is the record last written, `torn` that no load
of it succeeds. `persist` drops what `save` returns: after ALLOW either `Saved`
or `SaveFailed` happens, the second keeping the old record (the directory or the
file cannot be opened) or leaving part of the new one (the write fails in the
truncated file, or at the flush). `missed` counts the saves that failed since one
succeeded. `create` drops the result of its save in the same way.

The engine has no operation that takes over a loaded
workload. `CrashAndReload` is a successor process that decodes the record and
goes on calling the workload's operations, choosing new episode ids and saving
the way the engine does. There is no successor to a torn record: the workload is
lost.

**Connection.** `inbox[end]` holds the frames sent to an end and not yet read;
`open` the ends whose socket is open. `Send` returns true, also into the void
when the peer has just gone, and has no step while the peer's socket is full;
`SendFails`, `PeerClosed` and `TimesOut` are the ways a call returns false. A
process that dies, or closes with frames unread, resets the connection: any
suffix of what it had sent is lost. A frame cut in the middle is one that was
never read, since `receiveFrame` fails on it and the caller drops the peer.

**Worker and loop.** `workerPhase` says where in `runWorker` the process is;
`remaining` is `remaining - reported` of its dispatch loop. The coordinator's
`phase` names its next call. `mp_proof.cpp` is a script with one kill at a
chosen point; the model keeps its calls and their order and generalises the
rest: the worker dies at any point, the loss is seen as in the script, the
worker is replaced as often as the policy allows, the resume point is the
snapshot's progress (the script writes 16, having checked that it is 16), and a
call that the script expects to be allowed and is not ends the loop. The user is
the cancelling thread of `concurrency.cpp`, carrying the cancellation out as
scenario E of the CUDA driver does and retrying when refused. No caller in the
repository sends a CANCEL or a PING; both are in the protocol and served by the
worker, so the model's loop sends a CANCEL when the engine refuses its work and
a PING at most one at a time. Every operation on the workload is the action of
`Workload` itself, through `INSTANCE`.

**File.** A record is a length, its parts and a checksum, written part by part
into a truncated file. `saving`, `unsaved` and the file say how far a save got;
`reader` is a load or an inspection, which asks for the size first and reads
afterwards. `acked`, `damaged` and `seen` only record history for the
properties. Different payloads are taken to have different checksums.

## Runs

The runs of `Workload`, `WorkloadStore` and `Admission` use `VIEW`s that drop
`outcome`. No operation reads it, so two states that differ in it alone have the
same successors, and TLC evaluates action properties on every transition it
generates, before the view is applied. Deadlock is checked in all runs except
those of `Coordinator`, where the job ends and everything stops; `JobEnds` says
there that it stops nowhere else.

| Run | Distinct states | Shows |
|---|---|---|
| `engine_lifecycle` | 317,216 | the engine's operations in every order, with stale generations |
| `aggregate` | 257,604 | every public operation, free transitions and `finalize` included, and the edge of the counter |
| `store` | 376,119 | saves that fail unnoticed and a crash between any two operations |
| `admission` | 160,050 | gates, broker, late and repeated grants, suspend and resume; refinement of `Workload` |
| `worker` | 70,511 | engine, coordinator, workers and user together; refinement of `DurableJob`; liveness |
| `file_store` | 193,626 | saves in place, torn writes and a concurrent reader |
| `rejected_restart`, `dispatch_fence`, `restart_limit`, `reload`, `stale_grant`, `cancel_wins` | | a documented claim refuted, see Findings |

**What the passing runs check.**

- *Lineage* (`GenerationCountsEpisodes`, `SoleAuthority`, `ProgressLineage`,
  `SupersededFrozen`, `AuthorityAddressable`): the generation counts
  incarnations, so a fence on the generation is a fence on the incarnation; the
  newest episode alone has the authority, its books equal the workload's, it
  starts where its predecessor stopped, and its id finds it unless the two
  counters that name episodes have both drawn that id (see Observations: the run
  reaches such a state).
- *Progress* (`ProgressMonotonic`, `ProgressBounded`): never decreases, never
  exceeds a known total, also where the double-count test itself wraps.
- *Lifecycle* (`TerminalIsFinal`, `NeverHalfway`, `OneTerminalWinner`,
  `CompletionByAuthority`, `RestartBudget`): a terminal workload is never
  reopened; no operation of the engine strands a workload in a transient state;
  completion and cancellation never both win; the result of a superseded episode
  does not complete the workload; a restart is counted only within the limit of
  the policy in force, also where that was lowered below the count, and
  RESTART_PENDING is entered only with a count.
- *Durability* (`DurableLifecycle`, `NoRollback`, `OneTerminalWinner`): while
  every save reaches the store, state, lineage and progress survive a crash
  although refused operations are not saved; what is lost at most is the completed
  mark a refused `commitCompletion` left on the current episode. After a save that
  failed behind an ALLOW the record is a past of the workload (its incarnations so
  far, no work and no end the workload has not), and a reload takes the workload
  back to all of that record, never to a mixture. Completion and cancellation
  never both win in either case.
- *Admission* (`GateHonoured`, `DelayedReportsIgnored`,
  `TighteningNeverUnblocks`, `OfferAnswersContract`, `BrokerServes`,
  `ImplementsWorkload`): the first episode starts only from READY, and a workload
  that has not run enters READY only with both gates open; a suspended one, which
  has run, passes READY without a look at them (`requestResume`, and
  `startEpisode` from a suspended state), and the property says that nothing else
  does; delayed
  reports are refused; a further requirement never opens the gate; a grant whose
  generation is current answers the current requirements, and opens the gate
  exactly when they allow it (a REQUIRED requirement with a minimum of zero,
  alone of its kind, never does, and its workload waits for ever); the
  composition is a behaviour of `Workload`.
- *Coordinator* (`WorkConserved`, `ImplementsDurableJob`, `JobEnds`,
  `AcceptedCancelWins`, `CancelHeard`): while the loop reads and the worker lives,
  every unit is booked, on its way or still to be computed from exactly there on,
  and what a dead worker left on its way never exceeds the job, although the
  engine is not told the total and could notice neither a gap nor an excess; each unit is booked
  once whatever dies when, the job completes only with all of them and books
  nothing after an accepted cancellation; it ends unless no worker registers or
  the restarts are used up; an accepted cancellation under CANCEL_FIRST is
  carried out; a CANCEL sent to a computing worker ends it, once it has computed.
- *File store* (`LoadIsGenuine`, `AckedIsWhole`, `QuietLoadSucceeds`): a load
  never returns a mixture or a torn record; what a save acknowledged stays whole
  until the next save opens the file, unless the flush failed behind the
  acknowledgement; a load no save runs into succeeds. A crash in the middle of a
  save does lose the previous record, as the code has it.

**Bounds.** `MaxEpisodes = 2` gives one supersession, by restart or by
migration: every property about lineage speaks of the newest episode and an
earlier one, and the proofs cover any number. The run `reload` needs three
episodes (one start and two migrations). `MaxU64 = 3` with increments 2, or 1
and 3 against a total of 2, reaches the wrap of the sum and the guard behind it.
The two policies of `engine_lifecycle` differ in every field the engine's
operations read except the completion kind (restart limits 0 and 1), and
`SetPolicy` switches between them at any time, so a limit may drop below the
count and a migration requested under one policy may be committed under the
other. `FirstMigrationId = 2` lies inside the ids the engine draws there, as 2000
does after a thousand calls of `startEpisode`, so that the two counters collide;
elsewhere it is out of the way. In `aggregate` the three policies cover the
remaining completion kinds; `store` completes under REQUIRED_UNITS with a known
total, the kind whose refused completion leaves a mark that is not saved, and
`MaxMissed = 1` lets one save fail at a time: a second failure in a row leaves
the store as one did, at an older record or a torn one, and the proofs cover any
number. One boot is
enough for `onWorkerLost`: an episode not yet dispatched has `NoBoot`, so a
report that names another boot occurs; a report from the worker of a superseded
episode carries an old generation. In `admission` four requirements cover one
that must be met, one that prohibits a kind, one with a minimum of zero, and one
preference, with two mutations of the contract, so a grant can be one generation
behind. Its policy allows suspension, progress is left out (`Deltas = {}`), and
the constraint `Followed` stops at a state with a refused start (which only draws
an id), with a second episode, or with an episode and a contract that has moved
more than once: what the properties of the run say of the gates concerns a
workload before its first episode and one that is suspended after it, and both
are followed; the proofs have no such bounds.
`EpisodeIdLimit` and `MaxContractGeneration` only cap counters. In `worker`,
five units in steps of two end with an uneven report, and three workers (`Boots`
caps the processes that may be spawned) give two losses, so a resume from a
resume; `SocketBuffer = 2` lets a worker block in the
middle of a dispatch while a CANCEL and a PING, the most the loop has on its way
behind a DISPATCH already read, still fit. `MaxU64` is out of the way there: the
edge of the counter belongs to `aggregate`. In `file_store` two records begin
alike and differ in the end, and one is longer, so a mixture of two can have the
right size.

**Fairness.** None for the engine and the stores: they are passive, and nothing
obliges a caller to make the next call. `CoordinatorSpec` assumes weak fairness
of `LoopStep`, `UserStep` and `WorkerStep`, each one thread or process: the
system schedules a thread that can go on, the engine's mutex is held for one
call at a time, and a blocked `send` or `recv` returns once there is room or a
frame. Weak is enough because each of the three waits only for conditions that
stay until it acts. Crashes, failed spawns, timeouts, probes and the user's wish
to cancel have no fairness, so no property relies on a timeout firing or a fault
occurring.

## Proofs

The theorems hold for every value of the constants that meets the assumptions of
the modules they are about: any policies, boots, increments, counter width, total
and number of episodes (`PoliciesAssumption`, `BootsAssumption`,
`ProgressAssumption`, `EpisodeIdAssumption` of `Workload`, gathered as
`WorkloadAssumption` in `Admission` and `Coordinator`, which instantiate it); any
requirements and bounds of the gates (`RequirementsAssumption`,
`ContractBoundAssumption`, `DependencyBoundAssumption`: a requirement is a record
with a known level and integer limits); any records of any parts
(`RecordsAssumption`); sockets that hold at least one frame, reports of at least
one unit and jobs of any size that fits the 64-bit counter
(`SocketBufferAssumption`, `WorkAssumption`; boot ids are numbers other than 0,
as `freshBootId` makes them).

| Theorem | States |
|---|---|
| `TypeCorrect` (`WorkloadProofs`) | `Spec => []TypeOK` |
| `GenerationCorrect`, `AuthorityCorrect`, `LedgerCorrect`, `BoundedCorrect`, `AddressableCorrect` (`LineageProofs`) | the invariants `GenerationCountsEpisodes`, `SoleAuthority`, `ProgressLineage`, `ProgressBounded`, `AuthorityAddressable` |
| `FrozenCorrect`, `MonotonicCorrect` (`LineageProofs`) | the action properties `SupersededFrozen`, `ProgressMonotonic` |
| `TerminalCorrect` (`LifecycleProofs`) | `TerminalIsFinal` |
| `NeverHalfwayCorrect`, `OneWinnerCorrect`, `CompletionCorrect`, `BudgetCorrect` (`EngineProofs`) | `EngineSpec` keeps `NeverHalfway`, `OneTerminalWinner`, `CompletionByAuthority`, `RestartBudget` |
| `DurableCorrect`, `NoRollbackCorrect`, `DurableWinnerCorrect` (`StoreProofs`) | `StoreSpec` keeps `DurableLifecycle`, `NoRollback` and, through crashes, `OneTerminalWinner` |
| `RefinementCorrect`, `TransferCorrect` (`AdmissionProofs`) | `AdmissionSpec => ImplementsWorkload`, and with it what is proved of the engine |
| `AdmissionTypeCorrect`, `OfferCorrect`, `BrokerCorrect`, `ReportsCorrect`, `TighteningCorrect`, `GateHonouredCorrect` (`AdmissionProofs`) | the properties of the run `admission` |
| `FileStoreTypeCorrect`, `LoadCorrect`, `AckedCorrect`, `QuietLoadCorrect` (`FileStoreProofs`) | the properties of the run `file_store` |
| `EngineInside`, `DurableJobCorrect` (`CoordinatorProofs`) | `CoordinatorSpec => E!EngineSpec`, and `CoordinatorSpec => ImplementsDurableJob` |
| `CoordinatorTypeCorrect`, `WorkConservedCorrect` (`CoordinatorProofs`) | `CoordinatorTypeOK`, `WorkConserved` |

The theorems of the first three modules are about `Spec`, that is, every public
operation in any order, and so hold for the engine, whose steps are among them;
`EngineProofs` is about what only the engine's discipline gives.

**Types and lineage.** `TypeOK` is inductive with one lemma per operation: most
steps replace one episode by a typed episode or append one, and the lemmas on
`Attempt`, `Supersede` and `Advance` say what those return.

The four lineage invariants are not inductive one by one. `ProgressLineage` needs
that a report that is accepted is booked to the *last* episode, which is
`SoleAuthority`; `ProgressBounded` needs that the sum did not wrap, which is the
guard behind the double-count test. Their conjunction with `TypeOK`,
`LineageInv`, is inductive. Rather than treat each operation against each
conjunct, the proof classifies every step as one of three shapes: *Quiet* (the
ids, authority and progress of all episodes, the generation and the books stay),
*Grow* (an incarnation: one episode appended, authority moved, generation up by
one) and *Book* (a report accepted by the authoritative episode). Each action is
shown to have one of the shapes, and each shape to preserve the invariant;
`SupersededFrozen` and `ProgressMonotonic` follow from the same shapes.
`AuthorityAddressable` rests on `IdentityInv`: every id was drawn from one of the
two counters, and no two episodes share one unless both counters have drawn it.
No relation between the ranges of the counters is assumed: the code guarantees
none. The run `reload` shows what happens when a reload forgets a counter.

`TerminalIsFinal` needs no invariant beyond the types: a terminal state has no
successor in the table, and each operation that counts, books or incarnates
tests for it first.

**Engine.** Every operation of the engine does one of seven things to the state
and the cancellation flags: *Idle*, *Admit* (before execution), *Execute*,
*Complete*, *Withdraw* (a refused commitCompletion drops a pending cancellation),
*Ask* and *Conclude* (a cancellation is recorded, is carried out). `LifecycleInv`,
the conjunction of `NeverHalfway` and `OneTerminalWinner`, is inductive over the
seven; it is not over `Next`, where a free `transition` reaches the states a
chain only passes through. `RestartBudget` is about single steps: `planRestart` is
the one operation that counts, behind `restartAllowed` under the policy then in
force, and the one that enters RESTART_PENDING, which needs `LifecycleInv` for the
chains of the others. A workload without episodes is in a state before execution
or cancelled (`NotStarted`, also inductive), so that its first episode starts from
READY. The section on what a caller relies on (an id it was
told of stays known, a generation it read stays in the past, only a report moves
the progress, an accepted cancellation is pending) serves the coordinator.

**Store.** Where the save succeeds, saving after ALLOW is enough because of
`RefusedKeeps`: a refused operation leaves state, generation, progress and policy
alone, and the episodes too but for one mark. The lemmas behind it are about
chains: since every edge behind the guard of an operation is in the table, a chain
that leaves its first state runs to its end. The exception, a `commitCompletion`
refused under REQUIRED_UNITS after it marked the current episode, is part of
`DurableLifecycle`. Where saves fail, `StoreInv` says of the record what a
successor needs: by itself it satisfies the lineage and lifecycle invariants, since
it was the workload once, and it is a past of the present one (`RecordIsPast`),
which every operation preserves because generation, ids, books and terminal states
only move forward. A reload replaces the workload by such a record, so all
invariants of the engine hold after it.

**Admission.** Each step of a gate maps to `EditDependencies` or `EditContract`,
since it is the workload's step or leaves all but `ready()` or `satisfied()`
alone. The instance `P` of `EngineProofs` with the gates substituted carries the
invariants of the engine over, `NotStarted` among them, from which with the entry to
READY `GateHonoured` follows (`EnteredBy` says which operations enter it). `GateInv` adds that a grant or an offer is never
ahead of the contract and that one of the current generation was made for the
current requirements.

**File store.** The checksum is written last, so one that is in the file vouches
for everything before it (`Vouched`). The reader may have collected cells of
several records, but a checksum it has read is that of a record that was whole in
the file while it read (`Witness`), so a mixture never decodes; and as long as no
save ran into the load it has the beginning of the file (`Undisturbed`). With the
types, the stream of the save and `AckedIsWhole` this is `FileInv`, which is
inductive.
`DecodeEncode` says that decoding undoes encoding for records of any length.

**Coordinator.** `CoordinatorInv` has three parts beside the engine's. *Callers*:
what loop and user hold was read from the engine, so each of their calls is one
`EngineNext` allows, which gives `EngineInside`. *Connection*: loop and process
agree on how far the connection is; in particular a process that still waits for
its acknowledgement finds another frame before its dispatch, although any frame
acknowledges it. *Work*: there are running totals of the frames the loop has
still to read, as a function on the positions of the queue, such that every
COMPLETE stands where the total is `Units` (`Ledger`) and what the last position
leaves is being computed, dispatched or announced as complete (`Owed`). The
ledger says this of every position because a reset may cut the queue anywhere:
`WorkConserved` alone, which speaks of the end, is not inductive. Sending extends
the totals, receiving shifts them, a reset restricts them. `DurableJob` follows:
a completion is committed only behind a COMPLETE, a cancellation is carried out
only from CANCELLATION_REQUESTED, and what a report books fits into the job.

**Only model-checked.** Every safety invariant, action property and refinement of
the passing runs is proved. Liveness under fairness (`JobEnds`,
`AcceptedCancelWins`, `CancelHeard`) and `ENABLED` are out of the prover's reach
and stay with TLC, as do the refutations below. No definition is recursive: the
running totals and the payload of a record are functions on positions, since
induction over a recursive sum or concatenation could not be proved either.

## Findings

Each is a claim of a document, a comment or a test that a run refutes; the
quotations are in `PROJECT.json`.

1. `rejected_restart`: a restart refused by the transition table still consumes
   a restart slot.
2. `dispatch_fence`: `admitDispatch` has no generation; a superseded episode's
   dispatch moves the workload to RUNNING while the authoritative episode is not
   dispatched.
3. `restart_limit`: `startEpisode` accepts RECOVERING, so a lost episode is
   replaced without being counted, also under a limit of zero.
4. `reload`: the counter that names migration episodes is not in the record, so
   after a reload an id is used twice and the authoritative episode cannot be
   addressed.
5. `stale_grant`: `add` advances the contract but leaves the old grant GRANTED
   and binding.
6. `cancel_wins`: under CANCEL_FIRST a cancellation of a READY workload is
   recorded, refused, and refused again whenever it is retried. The workload
   cannot start any more and is never CANCELLED.

**Observations** met while modelling, which no run checks:

- The engine saves only after ALLOW, but `cancel`, `completeCancellation`,
  `planRestart` and `commitCompletion` change flags or counts before they are
  refused, so these changes are not in the record although `coordinator.hpp:2-3`
  says each mutation is persisted. `DurableLifecycle` shows what is: state,
  generation, progress and episodes, but for the completed mark that a
  `commitCompletion` refused under REQUIRED_UNITS leaves on the current one.
- `persist` (`coordinator.cpp:22`) and `create` drop what `save` returns, so an
  operation returns ALLOW although `FileStateStore::save` returned REJECT_UNKNOWN,
  and a reload undoes it or finds no record. This too is against
  `coordinator.hpp:2-3`; the second conjunct of `DurableLifecycle` and the
  exception of `NoRollback` say how far it can go.
- The engine draws episode ids from 1000 on, one per `startEpisode` of any of its
  workloads, refused ones included, and a workload names its migration episodes
  from 2000 on. Nothing keeps the first range below the second. When they meet, a
  lookup by id may find a superseded episode, and then nobody can report for the
  authoritative one; `CollidingIds` is where that can happen.
- `requestResume`, and `startEpisode` on a suspended workload, enter READY without
  `settle`: a dependency invalidated or a grant released during the suspension
  does not hold the workload back.
- `decodeWorkload` does not look behind the checksum, although
  `persistence.hpp:29-31` asks a store to reject trailing garbage; `Fits` keeps
  that. `LoadIsGenuine` holds all the same.
- A COMPLETION_FIRST workload may complete after its cancellation was accepted
  (`DurableJob`'s `Complete` allows it); the header says only that a completion
  *already committed* wins.
- A PING to a computing worker is answered after its COMPLETE, so it probes
  whether the process is idle rather than whether it lives.
- `ReferenceExecutionFabric` selects attempts by boot id, and
  `observeCompletion` ignores the attempt generation that `execution.hpp:50-51`
  names as its fence.
- `Priority::mayBePreempted` does not look at the tier, although its comment
  excepts CRITICAL and SYSTEM workloads.

## Not modelled

- The byte layout of payloads and messages, magic, versions, enum ranges, and
  framing by bytes: both ends of each are this code, and the effects that matter,
  a torn record and a frame cut short, are modelled.
- The reference execution fabric and checkpoint store: test doubles that one
  test calls and no component does, each call one access to a map.
- Priority: setters and a sum that no operation reads.
- `Progress::reconcile`, which nothing calls; the `*ForTest` setters.
- The computation of a worker and its checksum, and the ids it copies into its
  reports, which no reader looks at.
- Explanations, name tables, the audit history, identities, the printing of the
  inspector, benchmarks, examples and the device code of the CUDA driver.
- Several workloads in one engine share only the episode counter. To one of them
  the draws of the others look like its own refused starts, which draw an id and
  change nothing else, so the single workload of the model sees every sequence of
  ids. Several
  workers at once: the repository's loop has one connection at a time.

## Plan

Done: all modules above, their runs, and a proof of every safety property and
refinement the passing runs check. Left:

1. An abstract specification of what a store promises a reader (the last
   acknowledged record, or one that was whole during the read, or nothing), as a
   refinement of `FileStore` by `LoadCorrect` and `AckedCorrect`.
2. The same for the engine alone: the lifecycle by the seven shapes as a
   specification, `EngineSpec` refining it, and `StoreSpec` refining it with
   crashes as stuttering.
3. The safety part of the liveness properties: that a loop that has not ended has
   a step of its own or waits for a worker that has one, stated without `ENABLED`.
