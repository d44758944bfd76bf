-------------------------- MODULE ResourceContract --------------------------
(* ResourceContract (src/resources.cpp): what a workload needs, and the grant *)
(* a broker gave for it.  A broker reads the contract's generation, decides,  *)
(* and applies its grant later, when the contract may have moved on.          *)
(*                                                                            *)
(* The list of requirements is a set here: no operation depends on its order. *)
(* Left out: the contract's identity, and the spec and qualifier texts, which *)
(* satisfied() does not compare; the spec matters only to add, as part of     *)
(* what makes two requirements the same.                                      *)
EXTENDS Integers, FiniteSets

CONSTANTS
    Requirements,          \* the requirements a caller may state
    MaxContractGeneration  \* bound: mutations of the contract

NeedLevel == {"REQUIRED", "PREFERRED", "OPTIONAL", "PROHIBITED"}

GrantStatus == {"REQUESTED", "GRANTED", "BOUND", "RELEASED", "STALE", "EXPIRED"}

(* A requirement is a record of five fields.  Values are whole numbers;       *)
(* max = 0 means there is no upper limit.                                     *)
ASSUME RequirementsAssumption ==
    \A r \in Requirements :
       /\ r = [kind |-> r.kind, level |-> r.level, min |-> r.min, max |-> r.max,
               spec |-> r.spec]
       /\ r.level \in NeedLevel /\ r.min \in Int /\ r.max \in Int

ASSUME ContractBoundAssumption == MaxContractGeneration \in Nat

VARIABLES
    contractGeneration,  \* generation_
    requirements,        \* reqs_
    grant                \* grant_

contract == <<contractGeneration, requirements, grant>>

(* A default-constructed ResourceGrant.                                       *)
NoGrant == [generation |-> 0, status |-> "REQUESTED", bindings |-> {}, released |-> FALSE]

(* The requirement as add stores it: a PROHIBITED one carries no value.       *)
Stored(req) ==
    IF req.level = "PROHIBITED" THEN [req EXCEPT !.min = 0, !.max = 0] ELSE req

SameDimension(q, r) == q.kind = r.kind /\ q.spec = r.spec

AddVerdict(req) ==
    IF \E r \in requirements : SameDimension(r, req)
    THEN "REJECT_IMMUTABLE_CONTRACT" ELSE "ALLOW"

(* Mutant: the new requirement replaces the others.                           *)
AddReplacing(req) ==
    /\ contractGeneration < MaxContractGeneration
    /\ IF AddVerdict(req) = "ALLOW"
       THEN /\ requirements' = {Stored(req)}
            /\ contractGeneration' = contractGeneration + 1
            /\ UNCHANGED grant
       ELSE UNCHANGED contract

(* add: the grant is left as it is.                                           *)
Add(req) ==
    /\ contractGeneration < MaxContractGeneration
    /\ IF AddVerdict(req) = "ALLOW"
       THEN /\ requirements' = requirements \cup {Stored(req)}
            /\ contractGeneration' = contractGeneration + 1
            /\ UNCHANGED grant
       ELSE UNCHANGED contract

(* Mutant: the generation is not advanced.                                    *)
SetRequirementsSilently(reqs) ==
    /\ contractGeneration < MaxContractGeneration
    /\ requirements' = reqs
    /\ UNCHANGED <<contractGeneration, grant>>

(* setRequirements; every level is valid.                                     *)
SetRequirements(reqs) ==
    /\ contractGeneration < MaxContractGeneration
    /\ requirements' = reqs
    /\ contractGeneration' = contractGeneration + 1
    /\ UNCHANGED grant

(* The status applyGrant gives a grant for generation g.                      *)
AppliedStatus(g) == IF g = contractGeneration THEN "GRANTED" ELSE "STALE"

(* Mutant: a minimum of one is taken for none.                                *)
MirroredAboveOne ==
    {[kind |-> r.kind, amount |-> r.min] :
        r \in {q \in requirements : q.level = "REQUIRED" /\ q.min > 1}}

(* ReferenceBroker::requestGrant: one binding for each REQUIRED requirement   *)
(* with a minimum above zero.                                                 *)
Mirrored ==
    {[kind |-> r.kind, amount |-> r.min] :
        r \in {q \in requirements : q.level = "REQUIRED" /\ q.min > 0}}

(* applyGrant: a grant for generation g replaces the previous one.            *)
ApplyGrant(g, bindings, released) ==
    /\ grant' = [generation |-> g, status |-> AppliedStatus(g), bindings |-> bindings,
                 released |-> released]
    /\ UNCHANGED <<contractGeneration, requirements>>

ReleaseVerdict(expecting) ==
    IF expecting # contractGeneration THEN "REJECT_STALE_RESOURCE_CONTRACT"
    ELSE IF grant.released THEN "REJECT_RESOURCE_DOUBLE_RELEASE"
    ELSE "ALLOW"

(* Mutant: the grant is released before the generation is checked.            *)
ReleaseGrantThenCheck(expecting) ==
    /\ grant' = [grant EXCEPT !.released = TRUE, !.status = "RELEASED"]
    /\ UNCHANGED <<contractGeneration, requirements>>

(* releaseGrant.                                                              *)
ReleaseGrant(expecting) ==
    /\ grant' = IF ReleaseVerdict(expecting) = "ALLOW"
                THEN [grant EXCEPT !.released = TRUE, !.status = "RELEASED"] ELSE grant
    /\ UNCHANGED <<contractGeneration, requirements>>

AdvanceVerdict(expecting) ==
    IF expecting # contractGeneration THEN "REJECT_STALE_RESOURCE_CONTRACT" ELSE "ALLOW"

(* advanceGeneration: the grant is left as it is here too.                    *)
AdvanceGeneration(expecting) ==
    /\ contractGeneration < MaxContractGeneration
    /\ contractGeneration' = IF AdvanceVerdict(expecting) = "ALLOW"
                             THEN contractGeneration + 1 ELSE contractGeneration
    /\ UNCHANGED <<requirements, grant>>

(* ResourceRequirement::satisfies, for the levels that want something.        *)
satisfies(req, v) == v >= req.min /\ (req.max > 0 => v <= req.max)

(* satisfied: one binding meets each REQUIRED requirement, and nothing is     *)
(* bound of a PROHIBITED kind.                                                *)
satisfied ==
    /\ grant.status = "GRANTED" /\ ~grant.released
    /\ \A r \in requirements : r.level = "REQUIRED" =>
          \E b \in grant.bindings : b.kind = r.kind /\ satisfies(r, b.amount)
    /\ \A r \in requirements, b \in grant.bindings :
          r.level = "PROHIBITED" /\ b.kind = r.kind => b.amount <= 0
=============================================================================
