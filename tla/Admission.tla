----------------------------- MODULE Admission ------------------------------
(* The admission of a workload: its DependencySet and its ResourceContract in *)
(* full, a broker that reads the contract and grants later, and the other      *)
(* operations of the engine.  Workload.tla knows the two gates only as the    *)
(* values of ready() and satisfied(); here they are computed, and every       *)
(* behaviour is shown to be one of Workload.tla.                              *)
EXTENDS DependencySet, ResourceContract

CONSTANTS Policies, Boots, NoBoot, Deltas, MaxU64, TotalKind, Total, FirstEpisodeId,
          EpisodeIdLimit, FirstMigrationId, MaxEpisodes

VARIABLES
    state, generation, episodes, progress, restartCount, cancellationRequested,
    cancelledFinal, policy, episodeCounter, migrationCounter, outcome,
    offer  \* the grant the broker decided on and may apply, also twice

W == INSTANCE Workload WITH depsReady <- ready, contractSatisfied <- satisfied

(* What Workload.tla assumes of its constants.                                *)
ASSUME WorkloadAssumption ==
    /\ Policies \subseteq W!Policy
    /\ NoBoot \notin Boots
    /\ MaxU64 \in Nat
    /\ Deltas \subseteq 0..MaxU64
    /\ TotalKind \in {"KNOWN", "UNKNOWN"}
    /\ Total \in 0..MaxU64
    /\ FirstEpisodeId \in Nat \ {0}
    /\ EpisodeIdLimit \in Nat
    /\ FirstMigrationId \in Nat
    /\ FirstEpisodeId <= EpisodeIdLimit
    /\ MaxEpisodes \in Nat

workload == <<state, generation, episodes, progress, restartCount, cancellationRequested,
              cancelledFinal, policy, episodeCounter, migrationCounter>>

gates == <<deps, contract, offer>>

admissionVars == <<workload, outcome, gates>>

NoOffer == [generation |-> 0, bindings |-> {}]

(* The types of the workload and its gates; no grant is ahead of the          *)
(* contract.                                                                  *)
AdmissionTypeOK ==
    /\ W!TypeOK
    /\ deps \in Seq(Dependency)
    /\ contractGeneration \in 0..MaxContractGeneration
    /\ requirements \subseteq Requirements \cup {Stored(r) : r \in Requirements}
    /\ grant.status \in GrantStatus /\ grant.generation \in 0..contractGeneration
    /\ offer.generation \in 0..contractGeneration

-----------------------------------------------------------------------------
(* A new workload: no dependencies, an empty contract of generation 0.        *)
AdmissionInit ==
    /\ deps = <<>>
    /\ contractGeneration = 0
    /\ requirements = {}
    /\ grant = NoGrant
    /\ offer = NoOffer
    /\ W!Init

(* The engine's operations on the gates change nothing else of the workload.  *)
OnDependencies(verdict) ==
    /\ outcome' = verdict
    /\ UNCHANGED <<workload, contract, offer>>

OnContract(verdict) ==
    /\ outcome' = verdict
    /\ UNCHANGED <<workload, deps, offer>>

AddDependency(required) == Define(required) /\ OnDependencies("ALLOW")

SetDependencyStatus(index, status, observed) ==
    /\ SetStatus(index, status, observed)
    /\ OnDependencies(SetStatusVerdict(index, observed))

(* Held by a caller of Workload::dependencies() only.                         *)
ClearDependencies == Clear /\ OnDependencies("ALLOW")

AddResourceRequirement(req) == Add(req) /\ OnContract(AddVerdict(req))

(* The broker reads the contract...                                           *)
RequestGrant ==
    /\ offer' = [generation |-> contractGeneration, bindings |-> Mirrored]
    /\ UNCHANGED <<workload, outcome, deps, contract>>

(* ... and its grant is applied when the contract may have moved on.          *)
DeliverGrant ==
    /\ ApplyGrant(offer.generation, offer.bindings, FALSE)
    /\ OnContract("ALLOW")

(* Held by a caller of Workload::contract() only.                             *)
ReviseRequirements(reqs) == SetRequirements(reqs) /\ OnContract("ALLOW")

Release(expecting) == ReleaseGrant(expecting) /\ OnContract(ReleaseVerdict(expecting))

Advance(expecting) == AdvanceGeneration(expecting) /\ OnContract(AdvanceVerdict(expecting))

(* The operations of the workload read the gates and leave them alone.        *)
WorkloadStep(A) == UNCHANGED gates /\ A

AdmissionNext ==
    \/ \E required \in BOOLEAN : AddDependency(required)
    \/ \E index \in 1..(MaxDependencies + 1), status \in {"SATISFIED", "INVALIDATED"},
          observed \in 0..MaxObserved : SetDependencyStatus(index, status, observed)
    \/ ClearDependencies
    \/ \E req \in Requirements : AddResourceRequirement(req)
    \/ RequestGrant
    \/ DeliverGrant
    \/ \E req \in Requirements : ReviseRequirements({req})
    \/ \E g \in 0..contractGeneration : Release(g)
    \/ \E g \in 0..contractGeneration : Advance(g)
    \/ WorkloadStep(W!LifecycleNext)

AdmissionSpec == AdmissionInit /\ [][AdmissionNext]_admissionVars

-----------------------------------------------------------------------------
(* The gates touch the workload only through ready() and satisfied(): every   *)
(* behaviour with the full dependency set and contract is a behaviour of      *)
(* Workload.tla, so what is shown there holds here.                           *)
ImplementsWorkload == W!Spec

(* Every REQUIRED dependency is SATISFIED, and an unreleased grant meets      *)
(* every REQUIRED requirement.                                                *)
GatesOpen ==
    /\ \A i \in DOMAIN deps : deps[i].required => deps[i].status = "SATISFIED"
    /\ grant.status = "GRANTED" /\ ~grant.released
    /\ \A r \in requirements : r.level = "REQUIRED" =>
          \E b \in grant.bindings : b.kind = r.kind /\ b.amount >= r.min

(* No order of operations executes a workload whose gates never opened: its   *)
(* first episode starts from READY, and a workload that has not run becomes   *)
(* READY only while both gates are open.  What passes READY without looking   *)
(* at them is a suspended workload, which has run: by requestResume, or       *)
(* within startEpisode.                                                       *)
GateHonoured ==
    [][/\ episodes = <<>> /\ episodes' # <<>> => state = "READY"
       /\ state # "READY" /\ state' = "READY" =>
             GatesOpen \/ (state = "SUSPENDED" /\ episodes # <<>>)]_admissionVars

(* A dependency's status never falls back to an older observation: a report   *)
(* of an earlier generation that arrives late is refused.                     *)
DelayedReportsIgnored ==
    [][\A i \in DOMAIN deps \cap DOMAIN deps' :
          deps'[i].observed >= deps[i].observed]_admissionVars

(* Stating one more requirement never unblocks a workload.                    *)
TighteningNeverUnblocks ==
    [][~satisfied /\ (\E req \in Requirements : Add(req)) => ~satisfied']_admissionVars

(* "Every mutation produces a new ResourceContractGeneration" (resource.hpp): *)
(* an offer that still names the current generation still answers the current *)
(* requirements, so applyGrant may judge it by its generation alone.          *)
OfferAnswersContract ==
    offer.generation = contractGeneration /\ offer # NoOffer => offer.bindings = Mirrored

(* What the requirements alone say about the broker's answer: each REQUIRED   *)
(* one finds a positive minimum of its kind within its limits, its own or     *)
(* another's, and nothing is required of a PROHIBITED kind.                   *)
Grantable ==
    LET asked == {q \in requirements : q.level = "REQUIRED" /\ q.min > 0}
    IN  \A r \in requirements :
          /\ r.level = "REQUIRED" => \E q \in asked : q.kind = r.kind /\ satisfies(r, q.min)
          /\ r.level = "PROHIBITED" => \A q \in asked : q.kind # r.kind

(* A grant in force for the current generation, however late or often it was  *)
(* delivered, opens the gate exactly when the requirements allow it; a        *)
(* REQUIRED requirement with a minimum of zero alone of its kind never does,  *)
(* and its workload waits whatever ReferenceBroker answers.                   *)
BrokerServes ==
    grant.status = "GRANTED" /\ ~grant.released /\ grant.generation = contractGeneration
        => (satisfied <=> Grantable)

(* "If the contract advances, the old grant becomes STALE and no longer binds *)
(* current execution" (resource.hpp).                                         *)
StaleGrantDoesNotBind == satisfied => grant.generation = contractGeneration
=============================================================================
