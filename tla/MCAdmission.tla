---------------------------- MODULE MCAdmission -----------------------------
(* Admission for TLC: one accelerator requirement that must be met, one of    *)
(* the same kind that prohibits it, one with a minimum of zero, and one       *)
(* preference.                                                                *)
EXTENDS Admission

CONSTANTS b1, none

Requirement(kind, level, min, spec) ==
    [kind |-> kind, level |-> level, min |-> min, max |-> 0, spec |-> spec]

MCRequirements ==
    {Requirement("ACCELERATOR_COUNT", "REQUIRED", 1, "any"),
     Requirement("ACCELERATOR_COUNT", "PROHIBITED", 1, "old"),
     Requirement("STORAGE", "REQUIRED", 0, "any"),
     Requirement("HOST_MEMORY", "PREFERRED", 2, "any")}

AdmissionPolicies ==
    {[restart |-> "NEVER", maxRestarts |-> 0, completion |-> "SINGLE_RESULT",
      allowZeroWork |-> FALSE, migratable |-> FALSE, suspendable |-> TRUE,
      cancelRace |-> "CANCEL_FIRST"]}

(* Bounds: a refused start, which only draws an id, is not followed further,  *)
(* nor is a second episode, and beside the first only a contract that moved   *)
(* at most once is.                                                           *)
Followed ==
    /\ episodeCounter = FirstEpisodeId + Len(episodes)
    /\ episodes # <<>> => Len(episodes) = 1 /\ contractGeneration <= 1

(* No operation reads the result of an earlier one.                           *)
AdmissionView == <<workload, gates>>
=============================================================================
