----------------------------- MODULE DurableJob -----------------------------
(* What the coordinator and its workers promise together: a job of Units      *)
(* units whose work is booked in increments, each unit once, however many     *)
(* workers are lost on the way; which completes only when all of it is        *)
(* booked; and which books nothing more once its cancellation is accepted.    *)
EXTENDS Integers

CONSTANT Units

VARIABLES done, status

job == <<done, status>>

Init == done = 0 /\ status = "OPEN"

Book ==
    /\ status = "OPEN"
    /\ \E n \in 1..(Units - done) : done' = done + n
    /\ UNCHANGED status

AcceptCancel ==
    /\ status = "OPEN"
    /\ status' = "CANCELLING"
    /\ UNCHANGED done

(* A completion may still overtake an accepted cancellation.                  *)
Complete ==
    /\ status \in {"OPEN", "CANCELLING"} /\ done = Units
    /\ status' = "COMPLETED"
    /\ UNCHANGED done

Cancel ==
    /\ status = "CANCELLING"
    /\ status' = "CANCELLED"
    /\ UNCHANGED done

Next == Book \/ AcceptCancel \/ Complete \/ Cancel

Spec == Init /\ [][Next]_job
=============================================================================
