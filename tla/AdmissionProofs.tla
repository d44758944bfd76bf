-------------------------- MODULE AdmissionProofs ---------------------------
(* The two gates of a workload in full, for every set of requirements and     *)
(* every bound: that they touch the workload only through ready() and         *)
(* satisfied(), so that whatever is proved of a workload holds with them      *)
(* (the instance P), and what the generation of the contract guarantees of a  *)
(* grant that arrives late.                                                   *)
EXTENDS Admission, TLAPS

P == INSTANCE EngineProofs WITH depsReady <- ready, contractSatisfied <- satisfied

-----------------------------------------------------------------------------
(* Refinement.                                                                *)

(* The assumptions of the instance.                                           *)
LEMMA InstanceAssumptions ==
    /\ Policies \subseteq P!Policy
    /\ NoBoot \notin Boots
    /\ MaxU64 \in Nat /\ Deltas \subseteq 0..MaxU64
    /\ TotalKind \in {"KNOWN", "UNKNOWN"} /\ Total \in 0..MaxU64
    /\ FirstEpisodeId \in Nat \ {0} /\ EpisodeIdLimit \in Nat
    /\ FirstMigrationId \in Nat /\ FirstEpisodeId <= EpisodeIdLimit
    /\ MaxEpisodes \in Nat
BY WorkloadAssumption
DEF P!Policy, W!Policy, P!RestartKind, W!RestartKind, P!CompletionKind, W!CompletionKind

(* The gates are Boolean, and steps that keep their state keep them.          *)
LEMMA GatesBoolean ==
    /\ ready \in BOOLEAN /\ satisfied \in BOOLEAN
    /\ ready' \in BOOLEAN /\ satisfied' \in BOOLEAN
    /\ UNCHANGED deps => UNCHANGED ready
    /\ UNCHANGED contract => UNCHANGED satisfied
BY DEF ready, satisfied, contract, satisfies

(* An operation on the dependencies is an EditDependencies.                   *)
LEMMA DependenciesEdit ==
    ASSUME NEW verdict \in {"ALLOW", "REJECT_UNKNOWN_DEPENDENCY", "REJECT_STALE_DEPENDENCY"},
           OnDependencies(verdict), verdict # "ALLOW" => UNCHANGED deps
    PROVE  W!EditDependencies /\ P!EditDependencies
BY GatesBoolean
DEF OnDependencies, workload, W!EditDependencies, W!Reject, W!aggregate, W!lineage,
    W!cancel, W!setup, P!EditDependencies, P!Reject, P!aggregate, P!lineage,
    P!cancel, P!setup

(* An operation on the contract is an EditContract.                           *)
LEMMA ContractEdit ==
    ASSUME NEW verdict \in {"ALLOW", "REJECT_IMMUTABLE_CONTRACT",
                            "REJECT_STALE_RESOURCE_CONTRACT",
                            "REJECT_RESOURCE_DOUBLE_RELEASE"},
           OnContract(verdict), verdict # "ALLOW" => UNCHANGED contract
    PROVE  W!EditContract /\ P!EditContract
BY GatesBoolean
DEF OnContract, workload, W!EditContract, W!Reject, W!aggregate, W!lineage,
    W!cancel, W!setup, P!EditContract, P!Reject, P!aggregate, P!lineage,
    P!cancel, P!setup

(* The instance W of the model and the instance P of its theorems have the    *)
(* same transitions.                                                          *)
LEMMA SameAttempt ==
    \A s, to : W!Attempt(s, to) = P!Attempt(s, to)
<1>1. \A s, to : W!canTransition(s, to) <=> P!canTransition(s, to)
  BY DEF W!canTransition, P!canTransition, W!allowedFrom, P!allowedFrom,
         W!WorkloadState, P!WorkloadState
<1>2. W!ZeroWorkStates = P!ZeroWorkStates
  BY DEF W!ZeroWorkStates, P!ZeroWorkStates
<1>3. \A s, to : W!TransitionVerdict(s, to) = P!TransitionVerdict(s, to)
  BY <1>1, <1>2
  DEF W!TransitionVerdict, P!TransitionVerdict, W!isTerminal, P!isTerminal
<1> QED
  BY <1>3 DEF W!Attempt, P!Attempt

(* ... so the same chains of them, ...                                        *)
LEMMA SameThen ==
    \A r, to : W!Then(r, to) = P!Then(r, to)
BY SameAttempt DEF W!Then, P!Then

(* ... the same frames of the operations, ...                                 *)
LEMMA SameFrames ==
    /\ \A r : W!Move(r) <=> P!Move(r)
    /\ \A r, eps : W!MoveWith(r, eps) <=> P!MoveWith(r, eps)
    /\ \A o : W!Reject(o) <=> P!Reject(o)
    /\ \A s : W!isTerminal(s) <=> P!isTerminal(s)
    /\ \A s : W!isCancelling(s) <=> P!isCancelling(s)
    /\ \A s : W!isActivelyRunning(s) <=> P!isActivelyRunning(s)
    /\ W!Stay = P!Stay
    /\ \A id : W!Lookup(id) = P!Lookup(id)
    /\ W!CurrentEpisode = P!CurrentEpisode
    /\ \A i, e : W!WithEpisode(i, e) = P!WithEpisode(i, e)
    /\ \A id, st, boot : W!Incarnate(id, st, boot) <=> P!Incarnate(id, st, boot)
<1> USE DEF W!Finish, P!Finish, W!lineage, P!lineage, W!cancel, P!cancel, W!setup, P!setup,
            W!aggregate, P!aggregate
<1>1. /\ \A r : W!Move(r) <=> P!Move(r)
      /\ \A r, eps : W!MoveWith(r, eps) <=> P!MoveWith(r, eps)
      /\ \A o : W!Reject(o) <=> P!Reject(o)
  BY DEF W!Move, P!Move, W!MoveWith, P!MoveWith, W!Reject, P!Reject
<1>2. /\ \A s : W!isTerminal(s) <=> P!isTerminal(s)
      /\ \A s : W!isCancelling(s) <=> P!isCancelling(s)
      /\ \A s : W!isActivelyRunning(s) <=> P!isActivelyRunning(s)
      /\ W!Stay = P!Stay
  BY DEF W!isTerminal, P!isTerminal, W!isCancelling, P!isCancelling, W!isActivelyRunning,
         P!isActivelyRunning, W!Stay, P!Stay
<1>3. /\ \A id : W!Lookup(id) = P!Lookup(id)
      /\ W!CurrentEpisode = P!CurrentEpisode
      /\ \A i, e : W!WithEpisode(i, e) = P!WithEpisode(i, e)
  BY DEF W!Lookup, P!Lookup, W!CurrentEpisode, P!CurrentEpisode, W!WithEpisode, P!WithEpisode
<1>4. \A id, st, boot : W!Incarnate(id, st, boot) <=> P!Incarnate(id, st, boot)
  BY DEF W!Incarnate, P!Incarnate, W!Supersede, P!Supersede
<1> QED
  BY <1>1, <1>2, <1>3, <1>4

(* ... and so the same operations on episodes ...                             *)
LEMMA SameEpisodeOperations ==
    /\ W!StartEpisode <=> P!StartEpisode
    /\ \A id, boot : W!AdmitDispatch(id, boot) <=> P!AdmitDispatch(id, boot)
    /\ \A id, epGen, delta, durable :
          W!ReportProgress(id, epGen, delta, durable) <=> P!ReportProgress(id, epGen, delta, durable)
    /\ \A id : W!MarkEpisodeCompleted(id) <=> P!MarkEpisodeCompleted(id)
    /\ \A boot, g : W!OnWorkerLost(boot, g) <=> P!OnWorkerLost(boot, g)
    /\ \A reason, g : W!PlanRestart(reason, g) <=> P!PlanRestart(reason, g)
    /\ \A boot, g : W!CommitMigration(boot, g) <=> P!CommitMigration(boot, g)
<1> USE DEF W!Finish, P!Finish, W!lineage, P!lineage, W!cancel, P!cancel, W!setup, P!setup,
            W!aggregate, P!aggregate, W!Fenced, P!Fenced
<1>1. W!StartEpisode <=> P!StartEpisode
  <2>1. W!StartVerdict = P!StartVerdict
    BY SameFrames DEF W!StartVerdict, P!StartVerdict, W!ResumeEligible, P!ResumeEligible
  <2> QED
    BY <2>1, SameFrames, SameAttempt, SameThen
    DEF W!StartEpisode, P!StartEpisode, W!RefuseStart, P!RefuseStart
<1>2. \A id, boot : W!AdmitDispatch(id, boot) <=> P!AdmitDispatch(id, boot)
  BY SameFrames, SameAttempt DEF W!AdmitDispatch, P!AdmitDispatch
<1>3. \A id, epGen, delta, durable :
         W!ReportProgress(id, epGen, delta, durable) <=> P!ReportProgress(id, epGen, delta, durable)
  <2>1. \A i, epGen, delta : W!ProgressVerdict(i, epGen, delta) = P!ProgressVerdict(i, epGen, delta)
    BY SameFrames
    DEF W!ProgressVerdict, P!ProgressVerdict, W!EpisodeGeneration, P!EpisodeGeneration,
        W!OverCommits, P!OverCommits, W!Overflows, P!Overflows, W!Plus, P!Plus
  <2>2. \A p, delta, durable : W!Advance(p, delta, durable) = P!Advance(p, delta, durable)
    BY DEF W!Advance, P!Advance, W!Plus, P!Plus
  <2> QED
    BY <2>1, <2>2, SameFrames DEF W!ReportProgress, P!ReportProgress
<1>4. \A id : W!MarkEpisodeCompleted(id) <=> P!MarkEpisodeCompleted(id)
  BY SameFrames
  DEF W!MarkEpisodeCompleted, P!MarkEpisodeCompleted, W!MarkEpisode, P!MarkEpisode
<1>5. \A boot, g : W!OnWorkerLost(boot, g) <=> P!OnWorkerLost(boot, g)
  BY SameFrames, SameAttempt DEF W!OnWorkerLost, P!OnWorkerLost
<1>6. \A reason, g : W!PlanRestart(reason, g) <=> P!PlanRestart(reason, g)
  <2>1. \A kind : W!RestartReasonsOf(kind) = P!RestartReasonsOf(kind)
    BY DEF W!RestartReasonsOf, P!RestartReasonsOf, W!RestartReason, P!RestartReason
  <2> QED
    BY <2>1, SameFrames, SameAttempt
    DEF W!PlanRestart, P!PlanRestart, W!restartAllowed, P!restartAllowed
<1>7. \A boot, g : W!CommitMigration(boot, g) <=> P!CommitMigration(boot, g)
  BY SameFrames, SameAttempt, SameThen DEF W!CommitMigration, P!CommitMigration
<1> QED
  BY <1>1, <1>2, <1>3, <1>4, <1>5, <1>6, <1>7

(* ... and on the workload as a whole.                                        *)
LEMMA SameLifecycleOperations ==
    /\ W!Validate <=> P!Validate
    /\ \A p : W!SetPolicy(p) <=> P!SetPolicy(p)
    /\ W!Settle <=> P!Settle
    /\ \A g : W!RequestSuspend(g) <=> P!RequestSuspend(g)
    /\ \A g : W!CompleteSuspend(g) <=> P!CompleteSuspend(g)
    /\ \A g : W!RequestResume(g) <=> P!RequestResume(g)
    /\ \A g : W!RequestMigration(g) <=> P!RequestMigration(g)
    /\ \A g : W!CommitCompletion(g) <=> P!CommitCompletion(g)
    /\ \A g : W!RequestCancellation(g) <=> P!RequestCancellation(g)
    /\ \A g : W!CompleteCancellation(g) <=> P!CompleteCancellation(g)
<1> USE DEF W!Finish, P!Finish, W!lineage, P!lineage, W!cancel, P!cancel, W!setup, P!setup,
            W!aggregate, P!aggregate, W!Fenced, P!Fenced
<1>1. /\ W!Validate <=> P!Validate
      /\ \A p : W!SetPolicy(p) <=> P!SetPolicy(p)
      /\ W!Settle <=> P!Settle
  BY SameFrames, SameAttempt
  DEF W!Validate, P!Validate, W!SetPolicy, P!SetPolicy, W!Settle, P!Settle,
      W!SettleTarget, P!SettleTarget
<1>2. /\ \A g : W!RequestSuspend(g) <=> P!RequestSuspend(g)
      /\ \A g : W!RequestResume(g) <=> P!RequestResume(g)
      /\ \A g : W!RequestMigration(g) <=> P!RequestMigration(g)
  BY SameFrames, SameAttempt
  DEF W!RequestSuspend, P!RequestSuspend, W!RequestResume, P!RequestResume,
      W!RequestMigration, P!RequestMigration
<1>3. \A g : W!CompleteSuspend(g) <=> P!CompleteSuspend(g)
  BY SameFrames, SameAttempt, SameThen DEF W!CompleteSuspend, P!CompleteSuspend
<1>4. \A g : W!CommitCompletion(g) <=> P!CommitCompletion(g)
  <2>1. W!CompletionCriterion <=> P!CompletionCriterion
    BY SameFrames
    DEF W!CompletionCriterion, P!CompletionCriterion, W!ProgressComplete, P!ProgressComplete
  <2> QED
    BY <2>1, SameFrames, SameAttempt, SameThen
    DEF W!CommitCompletion, P!CommitCompletion, W!CancelFirst, P!CancelFirst
<1>5. \A g : W!RequestCancellation(g) <=> P!RequestCancellation(g)
  BY SameFrames, SameAttempt DEF W!RequestCancellation, P!RequestCancellation
<1>6. \A g : W!CompleteCancellation(g) <=> P!CompleteCancellation(g)
  BY SameFrames, SameAttempt, SameThen DEF W!CompleteCancellation, P!CompleteCancellation
<1> QED
  BY <1>1, <1>2, <1>3, <1>4, <1>5, <1>6

(* So the two instances have the same steps.                                  *)
LEMMA SameOperations ==
    W!LifecycleNext <=> P!LifecycleNext
<1>1. /\ W!KnownIds = P!KnownIds
      /\ W!PastGenerations = P!PastGenerations
      /\ W!RestartReason = P!RestartReason
  BY DEF W!KnownIds, P!KnownIds, W!NoEpisode, P!NoEpisode, W!PastGenerations,
         P!PastGenerations, W!RestartReason, P!RestartReason
<1> QED
  BY <1>1, SameEpisodeOperations, SameLifecycleOperations
  DEF W!LifecycleNext, P!LifecycleNext

(* The steps of the gates, and the operations of the workload.                *)
GateStep ==
    \/ \E required \in BOOLEAN : AddDependency(required)
    \/ \E index \in 1..(MaxDependencies + 1), status \in {"SATISFIED", "INVALIDATED"},
          observed \in 0..MaxObserved : SetDependencyStatus(index, status, observed)
    \/ ClearDependencies
    \/ \E req \in Requirements : AddResourceRequirement(req)
    \/ RequestGrant
    \/ DeliverGrant
    \/ \E req \in Requirements : ReviseRequirements({req})
    \/ \E g \in 0..contractGeneration : Release(g)
    \/ \E g \in 0..contractGeneration : Advance(g)

OperationStep == UNCHANGED gates /\ P!LifecycleNext

(* A step is one of a gate or one of the workload.                            *)
LEMMA TwoKinds ==
    ASSUME AdmissionNext
    PROVE  GateStep \/ OperationStep
BY SameOperations DEF AdmissionNext, WorkloadStep, GateStep, OperationStep

(* Every step of the gates is one of the workload's two abstract edits, or    *)
(* invisible to it.                                                           *)
LEMMA GateStepMaps ==
    ASSUME GateStep
    PROVE  \/ W!EditDependencies /\ P!EditDependencies
           \/ W!EditContract /\ P!EditContract
           \/ UNCHANGED W!vars /\ UNCHANGED P!vars
<1>1. ASSUME NEW required \in BOOLEAN, AddDependency(required)
      PROVE  W!EditDependencies /\ P!EditDependencies
  BY <1>1, DependenciesEdit DEF AddDependency
<1>2. ASSUME NEW index, NEW status, NEW observed,
             SetDependencyStatus(index, status, observed)
      PROVE  W!EditDependencies /\ P!EditDependencies
  <2>1. /\ SetStatusVerdict(index, observed)
             \in {"ALLOW", "REJECT_UNKNOWN_DEPENDENCY", "REJECT_STALE_DEPENDENCY"}
        /\ SetStatusVerdict(index, observed) # "ALLOW" => UNCHANGED deps
    BY <1>2 DEF SetDependencyStatus, SetStatus, SetStatusVerdict
  <2> QED
    BY <1>2, <2>1, DependenciesEdit DEF SetDependencyStatus
<1>3. CASE ClearDependencies
  BY <1>3, DependenciesEdit DEF ClearDependencies
<1>4. ASSUME NEW req, AddResourceRequirement(req) PROVE W!EditContract /\ P!EditContract
  <2>1. /\ AddVerdict(req) \in {"ALLOW", "REJECT_IMMUTABLE_CONTRACT"}
        /\ AddVerdict(req) # "ALLOW" => UNCHANGED contract
    BY <1>4 DEF AddResourceRequirement, Add, AddVerdict
  <2> QED
    BY <1>4, <2>1, ContractEdit DEF AddResourceRequirement
<1>5. CASE RequestGrant
  <2>1. UNCHANGED <<workload, outcome, ready, satisfied>>
    BY <1>5, GatesBoolean DEF RequestGrant
  <2> QED
    BY <2>1
    DEF workload, W!vars, W!aggregate, W!lineage, W!cancel, W!setup, P!vars,
        P!aggregate, P!lineage, P!cancel, P!setup
<1>6. CASE DeliverGrant \/ \E req \in Requirements : ReviseRequirements({req})
  BY <1>6, ContractEdit DEF DeliverGrant, ReviseRequirements
<1>7. ASSUME NEW g, Release(g) PROVE W!EditContract /\ P!EditContract
  <2>1. /\ ReleaseVerdict(g) \in {"ALLOW", "REJECT_STALE_RESOURCE_CONTRACT",
                                  "REJECT_RESOURCE_DOUBLE_RELEASE"}
        /\ ReleaseVerdict(g) # "ALLOW" => UNCHANGED contract
    BY <1>7 DEF Release, ReleaseGrant, ReleaseVerdict, contract
  <2> QED
    BY <1>7, <2>1, ContractEdit DEF Release
<1>8. ASSUME NEW g, Advance(g) PROVE W!EditContract /\ P!EditContract
  <2>1. /\ AdvanceVerdict(g) \in {"ALLOW", "REJECT_STALE_RESOURCE_CONTRACT"}
        /\ AdvanceVerdict(g) # "ALLOW" => UNCHANGED contract
    BY <1>8 DEF Advance, AdvanceGeneration, AdvanceVerdict, contract
  <2> QED
    BY <1>8, <2>1, ContractEdit DEF Advance
<1> QED
  BY <1>1, <1>2, <1>3, <1>4, <1>5, <1>6, <1>7, <1>8 DEF GateStep

(* So every step is one of the workload or a stutter, in both instances.      *)
LEMMA StepMaps ==
    ASSUME [AdmissionNext]_admissionVars
    PROVE  [W!EngineNext]_W!vars /\ [P!EngineNext]_P!vars
<1>1. CASE UNCHANGED admissionVars
  <2>1. UNCHANGED <<workload, outcome, ready, satisfied>>
    BY <1>1, GatesBoolean DEF admissionVars, gates
  <2> QED
    BY <2>1
    DEF workload, W!vars, W!aggregate, W!lineage, W!cancel, W!setup, P!vars,
        P!aggregate, P!lineage, P!cancel, P!setup
<1>2. CASE GateStep
  BY <1>2, GateStepMaps DEF W!EngineNext, P!EngineNext
<1>3. CASE OperationStep
  BY <1>3, SameOperations DEF OperationStep, W!EngineNext, P!EngineNext
<1> QED
  BY <1>1, <1>2, <1>3, TwoKinds

(* The initial gates are those of a new workload: ready, and not satisfied.   *)
LEMMA InitMaps ==
    ASSUME AdmissionInit
    PROVE  W!Init /\ P!Init
BY DEF AdmissionInit, W!Init, P!Init, W!Counters, P!Counters

(* The workload with its gates in full is a workload behind the engine.       *)
LEMMA AdmissionRefinesEngine == AdmissionSpec => P!EngineSpec
<1>1. AdmissionInit => P!Init
  BY InitMaps
<1>2. [AdmissionNext]_admissionVars => [P!EngineNext]_P!vars
  BY StepMaps
<1> QED
  BY <1>1, <1>2, PTL DEF AdmissionSpec, P!EngineSpec

(* Dependency set and contract touch the workload only through ready() and    *)
(* satisfied(): what Workload.tla allows the two gates to do is all they do.  *)
THEOREM RefinementCorrect == AdmissionSpec => ImplementsWorkload
<1>1. AdmissionInit => W!Init
  BY InitMaps
<1>2. [AdmissionNext]_admissionVars => [W!Next]_W!vars
  BY StepMaps DEF W!Next
<1> QED
  BY <1>1, <1>2, PTL DEF AdmissionSpec, ImplementsWorkload, W!Spec

-----------------------------------------------------------------------------
(* The gates.                                                                 *)

Binding == [kind: {r.kind : r \in Requirements}, amount: Int]

Grant ==
    [generation: 0..MaxContractGeneration, status: GrantStatus,
     bindings: SUBSET Binding, released: BOOLEAN]

(* What add and setRequirements may have stored.                              *)
Storable == Requirements \cup {Stored(r) : r \in Requirements}

GateTypeOK ==
    /\ deps \in Seq(Dependency)
    /\ contractGeneration \in 0..MaxContractGeneration
    /\ requirements \subseteq Storable
    /\ grant \in Grant
    /\ offer \in [generation: 0..MaxContractGeneration, bindings: SUBSET Binding]

(* No grant is ahead of the contract, and one for the current generation was  *)
(* decided on the current requirements: the generation of the contract        *)
(* identifies its requirements, so a late grant may be judged by it alone.    *)
CurrentGrants ==
    /\ grant.generation <= contractGeneration
    /\ offer.generation <= contractGeneration
    /\ contractGeneration = 0 => requirements = {}
    /\ offer.generation = contractGeneration => offer.bindings = Mirrored
    /\ grant.status = "GRANTED" /\ grant.generation = contractGeneration
          => grant.bindings = Mirrored

GateInv == GateTypeOK /\ CurrentGrants

(* A stored requirement is a requirement but for its values.                  *)
LEMMA StoredFields ==
    ASSUME NEW q \in Storable
    PROVE  /\ q.kind \in {r.kind : r \in Requirements}
           /\ q.level \in NeedLevel /\ q.min \in Int /\ q.max \in Int
<1>1. CASE q \in Requirements
  BY <1>1, RequirementsAssumption
<1>2. ASSUME NEW r \in Requirements, q = Stored(r)
      PROVE  /\ q.kind = r.kind /\ q.level \in NeedLevel /\ q.min \in Int /\ q.max \in Int
  <2> DEFINE k == r.kind  l == r.level  mn == r.min  mx == r.max  s == r.spec
  <2>1. r = [kind |-> k, level |-> l, min |-> mn, max |-> mx, spec |-> s]
    BY RequirementsAssumption
  <2>2. l \in NeedLevel /\ mn \in Int /\ mx \in Int
    BY RequirementsAssumption
  <2> HIDE DEF k, l, mn, mx, s
  <2>3. \/ q = [kind |-> k, level |-> l, min |-> mn, max |-> mx, spec |-> s]
        \/ q = [kind |-> k, level |-> l, min |-> 0, max |-> 0, spec |-> s]
    BY <1>2, <2>1 DEF Stored
  <2>4. q.kind = k /\ q.level = l /\ q.min \in Int /\ q.max \in Int
    BY <2>2, <2>3
  <2> QED
    BY <2>2, <2>4 DEF k
<1> QED
  BY <1>1, <1>2 DEF Storable

(* The reference broker answers with bindings of the kinds asked for.         *)
LEMMA MirroredType ==
    ASSUME requirements \subseteq Storable
    PROVE  Mirrored \in SUBSET Binding
BY StoredFields DEF Mirrored, Binding

(* The dependencies keep their types.                                         *)
LEMMA DependenciesType ==
    ASSUME deps \in Seq(Dependency),
           \/ \E required \in BOOLEAN : Define(required)
           \/ \E index : \E status \in DependencyStatus, observed \in 0..MaxObserved :
                 SetStatus(index, status, observed)
           \/ Clear \/ UNCHANGED deps
    PROVE  deps' \in Seq(Dependency)
<1>1. ASSUME NEW required \in BOOLEAN, Define(required) PROVE deps' \in Seq(Dependency)
  <2>1. [required |-> required, status |-> "PENDING", observed |-> 0] \in Dependency
    BY DependencyBoundAssumption DEF Dependency, DependencyStatus
  <2> QED
    BY <1>1, <2>1 DEF Define
<1>2. ASSUME NEW index, NEW status \in DependencyStatus, NEW observed \in 0..MaxObserved,
             SetStatus(index, status, observed)
      PROVE  deps' \in Seq(Dependency)
  <2>1. CASE index \in DOMAIN deps
             /\ deps' = [deps EXCEPT ![index] =
                           [@ EXCEPT !.status = status, !.observed = observed]]
    <3>1. deps[index] \in Dependency
      BY <2>1
    <3>2. [deps[index] EXCEPT !.status = status, !.observed = observed] \in Dependency
      BY <3>1 DEF Dependency
    <3> QED
      BY <2>1, <3>2
  <2> QED
    BY <1>2, <2>1 DEF SetStatus, SetStatusVerdict
<1>3. <<>> \in Seq(Dependency)
  OBVIOUS
<1>4. CASE Clear \/ UNCHANGED deps
  BY <1>3, <1>4 DEF Clear
<1> QED
  BY <1>1, <1>2, <1>4

(* A mutation of the requirements makes every grant out of date, and nothing  *)
(* else changes what the broker would answer.                                 *)
LEMMA ContractStep ==
    ASSUME GateInv, UNCHANGED offer,
           \/ \E req \in Requirements : Add(req) \/ SetRequirements({req})
           \/ \E g : ReleaseGrant(g) \/ AdvanceGeneration(g)
           \/ ApplyGrant(offer.generation, offer.bindings, FALSE)
    PROVE  /\ contractGeneration' \in 0..MaxContractGeneration
           /\ requirements' \subseteq Storable
           /\ grant' \in Grant
           /\ CurrentGrants'
<1> USE DEF GateInv, GateTypeOK
<1>1. /\ contractGeneration \in Nat /\ grant.generation \in Nat /\ offer.generation \in Nat
      /\ MaxContractGeneration \in Nat
  BY ContractBoundAssumption DEF Grant
<1>2. CASE /\ contractGeneration < MaxContractGeneration
           /\ contractGeneration' = contractGeneration + 1
           /\ requirements' \subseteq Storable /\ UNCHANGED grant
  <2>1. /\ contractGeneration + 1 \in 0..MaxContractGeneration
        /\ grant.generation <= contractGeneration + 1
        /\ offer.generation <= contractGeneration + 1
        /\ contractGeneration + 1 # 0
        /\ grant.generation # contractGeneration + 1
        /\ offer.generation # contractGeneration + 1
    BY <1>1, <1>2 DEF CurrentGrants
  <2> QED
    BY <1>2, <2>1 DEF CurrentGrants
<1>3. CASE UNCHANGED contract
  BY <1>3 DEF contract, CurrentGrants, Mirrored
<1>4. ASSUME NEW req \in Requirements, Add(req) \/ SetRequirements({req})
      PROVE  \/ UNCHANGED contract
             \/ /\ contractGeneration < MaxContractGeneration
                /\ contractGeneration' = contractGeneration + 1
                /\ requirements' \subseteq Storable /\ UNCHANGED grant
  BY <1>4 DEF Add, SetRequirements, Storable
<1>5. ASSUME NEW g, AdvanceGeneration(g)
      PROVE  \/ UNCHANGED contract
             \/ /\ contractGeneration < MaxContractGeneration
                /\ contractGeneration' = contractGeneration + 1
                /\ requirements' \subseteq Storable /\ UNCHANGED grant
  BY <1>5 DEF AdvanceGeneration, contract
<1>6. ASSUME NEW g, ReleaseGrant(g)
      PROVE  /\ UNCHANGED <<contractGeneration, requirements>>
             /\ grant' \in Grant /\ CurrentGrants'
  <2>1. CASE UNCHANGED grant
    BY <1>3, <1>6, <2>1 DEF ReleaseGrant, contract
  <2>2. CASE grant' = [grant EXCEPT !.released = TRUE, !.status = "RELEASED"]
    <3>1. grant' \in Grant /\ grant'.status = "RELEASED"
          /\ grant'.generation = grant.generation
      BY <2>2 DEF Grant, GrantStatus
    <3> QED
      BY <1>6, <3>1 DEF ReleaseGrant, CurrentGrants, Mirrored
  <2> QED
    BY <1>6, <2>1, <2>2 DEF ReleaseGrant
<1>7. CASE ApplyGrant(offer.generation, offer.bindings, FALSE)
  <2>1. grant' \in Grant /\ grant'.generation = offer.generation
        /\ grant'.bindings = offer.bindings
    BY <1>7 DEF ApplyGrant, AppliedStatus, Grant, GrantStatus
  <2> QED
    BY <1>7, <2>1 DEF ApplyGrant, CurrentGrants, Mirrored
<1> QED
  BY <1>2, <1>3, <1>4, <1>5, <1>6, <1>7

(* Every step keeps the invariant of the gates.                               *)
LEMMA GateInvStep ==
    ASSUME GateInv, [AdmissionNext]_admissionVars
    PROVE  GateInv'
<1>1. CASE UNCHANGED gates
  BY <1>1 DEF gates, contract, GateInv, GateTypeOK, CurrentGrants, Mirrored
<1>2. CASE /\ UNCHANGED <<contract, offer>>
           /\ deps' \in Seq(Dependency)
  BY <1>2 DEF contract, GateInv, GateTypeOK, CurrentGrants, Mirrored
<1>3. ASSUME \/ \E required \in BOOLEAN : AddDependency(required)
             \/ \E index \in 1..(MaxDependencies + 1), status \in {"SATISFIED", "INVALIDATED"},
                   observed \in 0..MaxObserved : SetDependencyStatus(index, status, observed)
             \/ ClearDependencies
      PROVE  GateInv'
  <2>1. {"SATISFIED", "INVALIDATED"} \subseteq DependencyStatus
    BY DEF DependencyStatus
  <2>2. \/ \E required \in BOOLEAN : Define(required)
        \/ \E index : \E status \in DependencyStatus, observed \in 0..MaxObserved :
              SetStatus(index, status, observed)
        \/ Clear
    BY <1>3, <2>1 DEF AddDependency, SetDependencyStatus, ClearDependencies
  <2>3. deps' \in Seq(Dependency)
    BY <2>2, DependenciesType DEF GateInv, GateTypeOK
  <2> QED
    BY <1>2, <1>3, <2>3
    DEF AddDependency, SetDependencyStatus, ClearDependencies, OnDependencies
<1>4. CASE RequestGrant
  <2>1. UNCHANGED <<deps, contractGeneration, requirements, grant>>
        /\ offer' = [generation |-> contractGeneration, bindings |-> Mirrored]
    BY <1>4 DEF RequestGrant, contract
  <2>2. Mirrored \in SUBSET Binding
    BY MirroredType DEF GateInv, GateTypeOK
  <2>3. offer' \in [generation: 0..MaxContractGeneration, bindings: SUBSET Binding]
        /\ offer'.generation = contractGeneration /\ offer'.bindings = Mirrored
    BY <2>1, <2>2 DEF GateInv, GateTypeOK
  <2>4. Mirrored' = Mirrored
    BY <2>1 DEF Mirrored
  <2>5. contractGeneration \in Int
    BY DEF GateInv, GateTypeOK
  <2> QED
    BY <2>1, <2>3, <2>4, <2>5 DEF GateInv, GateTypeOK, CurrentGrants
<1>5. ASSUME \/ \E req \in Requirements :
                   AddResourceRequirement(req) \/ ReviseRequirements({req})
             \/ DeliverGrant
             \/ \E g : Release(g) \/ Advance(g)
      PROVE  GateInv'
  <2>1. UNCHANGED <<deps, offer>>
    BY <1>5
    DEF AddResourceRequirement, ReviseRequirements, DeliverGrant, Release, Advance,
        OnContract
  <2>2. /\ contractGeneration' \in 0..MaxContractGeneration
        /\ requirements' \subseteq Storable /\ grant' \in Grant /\ CurrentGrants'
    BY <1>5, <2>1, ContractStep
    DEF AddResourceRequirement, ReviseRequirements, DeliverGrant, Release, Advance
  <2> QED
    BY <2>1, <2>2 DEF GateInv, GateTypeOK
<1>6. CASE UNCHANGED admissionVars \/ OperationStep
  BY <1>1, <1>6 DEF admissionVars, OperationStep
<1>7. CASE GateStep
  BY <1>3, <1>4, <1>5, <1>7 DEF GateStep
<1> QED
  BY <1>6, <1>7, TwoKinds

(* In every reachable state a grant for the current generation answers the    *)
(* current requirements, however late or often it was delivered.              *)
THEOREM GateCorrect == AdmissionSpec => []GateInv
<1>1. AdmissionInit => GateInv
  <2> SUFFICES ASSUME AdmissionInit PROVE GateInv
    OBVIOUS
  <2>1. GateTypeOK
    BY ContractBoundAssumption
    DEF AdmissionInit, NoGrant, NoOffer, GateTypeOK, Grant, GrantStatus
  <2>2. CurrentGrants
    BY DEF AdmissionInit, NoGrant, NoOffer, CurrentGrants, Mirrored
  <2> QED
    BY <2>1, <2>2 DEF GateInv
<1>2. GateInv /\ [AdmissionNext]_admissionVars => GateInv'
  BY GateInvStep
<1> QED
  BY <1>1, <1>2, PTL DEF AdmissionSpec

(* What is proved of a workload behind the engine holds with the gates in     *)
(* full; its lineage and its lifecycle, for two.                              *)
THEOREM TransferCorrect ==
    AdmissionSpec => [](P!TypeOK /\ P!LineageInv /\ P!LifecycleInv)
<1>1. P!EngineSpec => P!Spec
  BY P!EngineRefinesSpec, InstanceAssumptions
<1>2. P!Spec => []P!TypeOK
  BY P!TypeCorrect, InstanceAssumptions
<1>3. P!Spec => []P!LineageInv
  BY P!LineageCorrect, InstanceAssumptions
<1>4. P!EngineSpec => []P!LifecycleInv
  BY P!LifecycleCorrect, InstanceAssumptions
<1> QED
  BY <1>1, <1>2, <1>3, <1>4, AdmissionRefinesEngine, PTL

(* The types of the two instances are the same.                               *)
LEMMA SameTypes ==
    P!TypeOK => W!TypeOK
<1>1. P!Progress = W!Progress /\ P!EpisodeState = W!EpisodeState
  BY DEF P!Progress, W!Progress, P!EpisodeState, W!EpisodeState
<1>2. P!Episode = W!Episode
  BY <1>1 DEF P!Episode, W!Episode
<1>3. P!WorkloadState = W!WorkloadState /\ P!Outcome = W!Outcome
  BY DEF P!WorkloadState, W!WorkloadState, P!Outcome, W!Outcome
<1> QED
  BY <1>1, <1>2, <1>3 DEF P!TypeOK, W!TypeOK

(* The fields of workload, dependencies, contract, grant and offer stay       *)
(* within their types, and no grant is ahead of the contract.                 *)
THEOREM AdmissionTypeCorrect == AdmissionSpec => []AdmissionTypeOK
<1>1. GateInv /\ P!TypeOK => AdmissionTypeOK
  <2> SUFFICES ASSUME GateInv, P!TypeOK PROVE AdmissionTypeOK
    OBVIOUS
  <2>1. grant.generation \in 0..contractGeneration /\ offer.generation \in 0..contractGeneration
    BY DEF GateInv, GateTypeOK, CurrentGrants, Grant
  <2>2. grant.status \in GrantStatus
    BY DEF GateInv, GateTypeOK, Grant
  <2>3. W!TypeOK
    BY SameTypes
  <2> QED
    BY <2>1, <2>2, <2>3 DEF GateInv, GateTypeOK, Storable, AdmissionTypeOK
<1> QED
  BY <1>1, GateCorrect, TransferCorrect, PTL

(* An offer that names the current generation answers the current             *)
(* requirements: no mutation of the contract forgets to advance it.           *)
THEOREM OfferCorrect == AdmissionSpec => []OfferAnswersContract
<1>1. GateInv => OfferAnswersContract
  BY DEF GateInv, CurrentGrants, OfferAnswersContract
<1> QED
  BY <1>1, GateCorrect, PTL

(* Bindings that mirror the requirements meet them exactly when they are      *)
(* grantable.                                                                 *)
LEMMA MirroredServes ==
    ASSUME requirements \subseteq Storable, grant.bindings = Mirrored,
           grant.status = "GRANTED", ~grant.released
    PROVE  satisfied <=> Grantable
<1> DEFINE asked == {q \in requirements : q.level = "REQUIRED" /\ q.min > 0}
<1>1. \A r \in requirements : r.min \in Int
  BY StoredFields
<1>2. ASSUME NEW r \in requirements
      PROVE  (\E b \in Mirrored : b.kind = r.kind /\ satisfies(r, b.amount))
                <=> \E q \in asked : q.kind = r.kind /\ satisfies(r, q.min)
  <2>1. ASSUME NEW b \in Mirrored, b.kind = r.kind, satisfies(r, b.amount)
        PROVE  \E q \in asked : q.kind = r.kind /\ satisfies(r, q.min)
    <3>1. PICK q \in asked : b = [kind |-> q.kind, amount |-> q.min]
      BY <2>1 DEF Mirrored
    <3> QED
      BY <2>1, <3>1
  <2>2. ASSUME NEW q \in asked, q.kind = r.kind, satisfies(r, q.min)
        PROVE  \E b \in Mirrored : b.kind = r.kind /\ satisfies(r, b.amount)
    <3> DEFINE b == [kind |-> q.kind, amount |-> q.min]
    <3>1. b \in Mirrored /\ b.kind = r.kind /\ b.amount = q.min
      BY <2>2 DEF Mirrored
    <3> QED
      BY <2>2, <3>1
  <2> QED
    BY <2>1, <2>2
<1>3. ASSUME NEW r \in requirements
      PROVE  (\A b \in Mirrored : b.kind = r.kind => b.amount <= 0)
                <=> \A q \in asked : q.kind # r.kind
  <2>1. ASSUME NEW b \in Mirrored, b.kind = r.kind
        PROVE  ~(b.amount <= 0) /\ \E q \in asked : q.kind = r.kind
    <3>1. PICK q \in asked : b = [kind |-> q.kind, amount |-> q.min]
      BY <2>1 DEF Mirrored
    <3> QED
      BY <1>1, <2>1, <3>1
  <2>2. ASSUME NEW q \in asked, q.kind = r.kind
        PROVE  \E b \in Mirrored : b.kind = r.kind
    <3> DEFINE b == [kind |-> q.kind, amount |-> q.min]
    <3>1. b \in Mirrored /\ b.kind = r.kind
      BY <2>2 DEF Mirrored
    <3> QED
      BY <3>1
  <2> QED
    BY <2>1, <2>2
<1> QED
  BY <1>2, <1>3 DEF satisfied, Grantable

(* A grant in force opens the gate exactly when the requirements allow it.    *)
THEOREM BrokerCorrect == AdmissionSpec => []BrokerServes
<1>1. GateInv => BrokerServes
  BY MirroredServes DEF GateInv, GateTypeOK, CurrentGrants, BrokerServes
<1> QED
  BY <1>1, GateCorrect, PTL

(* A late report of an earlier observation never replaces a newer one.        *)
THEOREM ReportsCorrect == AdmissionSpec => DelayedReportsIgnored
<1>1. ASSUME GateInv, [AdmissionNext]_admissionVars, NEW i \in DOMAIN deps \cap DOMAIN deps'
      PROVE  deps'[i].observed >= deps[i].observed
  <2>1. deps[i] \in Dependency /\ deps[i].observed \in Nat
    <3>1. i \in DOMAIN deps /\ deps \in Seq(Dependency)
      BY <1>1 DEF GateInv, GateTypeOK
    <3>2. deps[i] \in Dependency
      BY <3>1
    <3> QED
      BY <3>2, DependencyBoundAssumption DEF Dependency
  <2>2. CASE deps'[i] = deps[i]
    BY <2>1, <2>2
  <2>3. ASSUME NEW required \in BOOLEAN, Define(required) PROVE deps'[i] = deps[i]
    BY <1>1, <2>3 DEF Define, GateInv, GateTypeOK
  <2>4. ASSUME NEW index, NEW status, NEW observed \in 0..MaxObserved,
               SetStatus(index, status, observed), deps'[i] # deps[i]
        PROVE  deps'[i].observed >= deps[i].observed
    <3>1. /\ index \in DOMAIN deps /\ ~(observed < deps[index].observed)
          /\ deps' = [deps EXCEPT ![index] =
                        [@ EXCEPT !.status = status, !.observed = observed]]
      BY <2>4 DEF SetStatus, SetStatusVerdict
    <3>2. i = index /\ deps'[i] = [deps[i] EXCEPT !.status = status, !.observed = observed]
      BY <1>1, <2>4, <3>1 DEF GateInv, GateTypeOK
    <3>3. deps'[i].observed = observed
      BY <2>1, <3>2 DEF Dependency
    <3>4. observed >= deps[i].observed
      BY <2>1, <3>1, <3>2
    <3> QED
      BY <3>3, <3>4
  <2>5. Clear => DOMAIN deps' = {}
    BY DEF Clear
  <2>6. \/ \E required \in BOOLEAN : Define(required)
        \/ \E index, status : \E observed \in 0..MaxObserved :
              SetStatus(index, status, observed)
        \/ Clear
        \/ UNCHANGED deps
    BY <1>1, TwoKinds
    DEF GateStep, OperationStep, AddDependency, SetDependencyStatus, ClearDependencies,
        AddResourceRequirement, RequestGrant, DeliverGrant, ReviseRequirements, Release,
        Advance, OnContract, gates, admissionVars
  <2> QED
    BY <2>2, <2>3, <2>4, <2>5, <2>6
<1>2. GateInv /\ [AdmissionNext]_admissionVars
        => [\A i \in DOMAIN deps \cap DOMAIN deps' :
               deps'[i].observed >= deps[i].observed]_admissionVars
  BY <1>1
<1> QED
  BY <1>2, GateCorrect, PTL DEF AdmissionSpec, DelayedReportsIgnored

(* One more requirement never unblocks a workload: add keeps the grant and    *)
(* every requirement there was.                                               *)
THEOREM TighteningCorrect == AdmissionSpec => TighteningNeverUnblocks
<1>1. ASSUME NEW req \in Requirements, Add(req), satisfied' PROVE satisfied
  <2>1. requirements \subseteq requirements' /\ UNCHANGED grant
    BY <1>1 DEF Add, contract
  <2> QED
    BY <1>1, <2>1 DEF satisfied
<1>2. [AdmissionNext]_admissionVars
        => [~satisfied /\ (\E req \in Requirements : Add(req)) => ~satisfied']_admissionVars
  BY <1>1
<1> QED
  BY <1>2, PTL DEF AdmissionSpec, TighteningNeverUnblocks

(* The gates' own steps leave state and episodes alone.                       *)
LEMMA GatesLeaveWorkload ==
    ASSUME GateStep
    PROVE  UNCHANGED workload
BY DEF GateStep, AddDependency, SetDependencyStatus, ClearDependencies,
   AddResourceRequirement, RequestGrant, DeliverGrant, ReviseRequirements, Release,
   Advance, OnContract, OnDependencies

(* A workload is first executed from READY, which it enters only while both   *)
(* gates are open, unless it is a suspended one that is resumed.              *)
THEOREM GateHonouredCorrect == AdmissionSpec => GateHonoured
<1> DEFINE Honoured ==
             /\ episodes = <<>> /\ episodes' # <<>> => state = "READY"
             /\ state # "READY" /\ state' = "READY" =>
                   GatesOpen \/ (state = "SUSPENDED" /\ episodes # <<>>)
           Lifecycle == P!TypeOK /\ P!LifecycleInv /\ P!NotStarted
<1>1. ASSUME Lifecycle, AdmissionNext PROVE Honoured
  <2>1. CASE GateStep
    BY <2>1, GatesLeaveWorkload DEF workload
  <2>2. CASE OperationStep
    <3>1. P!EngineNext
      BY <2>2 DEF OperationStep, P!EngineNext
    <3>2. episodes = <<>> /\ episodes' # <<>> => state = "READY"
      BY <1>1, <3>1, P!FirstFromReady, InstanceAssumptions
    <3>3. ASSUME state # "READY", state' = "READY"
          PROVE  GatesOpen \/ (state = "SUSPENDED" /\ episodes # <<>>)
      <4>1. \/ P!Settle /\ P!SettleTarget = "READY"
            \/ \E g \in P!PastGenerations : P!RequestResume(g)
        BY <3>1, <3>3, P!ReadyBySettleOrResume, InstanceAssumptions
      <4>2. CASE P!SettleTarget = "READY"
        <5>1. ready /\ satisfied
          BY <4>2 DEF P!SettleTarget
        <5> QED
          BY <5>1 DEF ready, satisfied, satisfies, GatesOpen
      <4>3. ASSUME NEW g, P!RequestResume(g)
            PROVE  state = "SUSPENDED" /\ episodes # <<>>
        <5>1. state \in {"SUSPENDED", "PREEMPTED"}
          BY <3>3, <4>3 DEF P!RequestResume, P!Fenced, P!Reject, P!aggregate
        <5>2. state = "SUSPENDED"
          BY <1>1, <5>1 DEF P!LifecycleInv, P!NeverHalfway
        <5> QED
          BY <1>1, <5>2 DEF P!NotStarted, P!Executing
      <4> QED
        BY <4>1, <4>2, <4>3
    <3> QED
      BY <3>2, <3>3
  <2> QED
    BY <1>1, <2>1, <2>2, TwoKinds
<1>2. Lifecycle /\ [AdmissionNext]_admissionVars => [Honoured]_admissionVars
  BY <1>1
<1>3. P!EngineSpec => []P!NotStarted
  BY P!StartedCorrect, InstanceAssumptions
<1> QED
  BY <1>2, <1>3, AdmissionRefinesEngine, TransferCorrect, PTL DEF AdmissionSpec, GateHonoured
=============================================================================
