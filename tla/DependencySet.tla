--------------------------- MODULE DependencySet ----------------------------
(* DependencySet (src/dependencies.cpp): what must be true of other workloads *)
(* before this one may advance.  Observers report the status of a dependency  *)
(* with the generation of the workload they observed; reports may be delayed  *)
(* and overtake each other.                                                   *)
(*                                                                            *)
(* Left out: the identity of the dependee, readyWhen, the artifact key and    *)
(* the generation of the set, which no operation reads.                       *)
EXTENDS Integers, Sequences

CONSTANTS
    MaxDependencies,  \* bound: dependencies of a workload
    MaxObserved       \* bound: generations of an observed workload

ASSUME DependencyBoundAssumption == MaxDependencies \in Nat /\ MaxObserved \in Nat

DependencyStatus == {"PENDING", "SATISFIED", "FAILED", "INVALIDATED", "STALE"}

VARIABLE deps  \* defs_ and states_, which are always as long as each other

Dependency ==
    [required: BOOLEAN, status: DependencyStatus, observed: 0..MaxObserved]

(* define: a dependency nobody has observed yet.                              *)
Define(required) ==
    /\ Len(deps) < MaxDependencies
    /\ deps' = Append(deps, [required |-> required, status |-> "PENDING", observed |-> 0])

(* clear.                                                                     *)
Clear == deps' = <<>>

(* Mutant: any report is accepted.                                            *)
SetStatusVerdictAnyReport(index, observed) ==
    IF index \notin DOMAIN deps THEN "REJECT_UNKNOWN_DEPENDENCY" ELSE "ALLOW"

(* The early returns of setStatus.                                            *)
SetStatusVerdict(index, observed) ==
    IF index \notin DOMAIN deps THEN "REJECT_UNKNOWN_DEPENDENCY"
    ELSE IF observed < deps[index].observed THEN "REJECT_STALE_DEPENDENCY"
    ELSE "ALLOW"

(* setStatus: a report as new as the last one replaces it.                    *)
SetStatus(index, status, observed) ==
    IF SetStatusVerdict(index, observed) = "ALLOW"
    THEN deps' = [deps EXCEPT ![index] = [@ EXCEPT !.status = status, !.observed = observed]]
    ELSE UNCHANGED deps

(* ready: every REQUIRED dependency is SATISFIED.                             *)
ready == \A i \in DOMAIN deps : deps[i].required => deps[i].status = "SATISFIED"
=============================================================================
