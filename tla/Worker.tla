------------------------------- MODULE Worker -------------------------------
(* One worker process at a time: runWorker (src/worker.cpp) over its          *)
(* connection.  It announces itself, takes the first frame it receives as the *)
(* acknowledgement, and then serves frames one by one.  While it computes a   *)
(* dispatch it reads nothing: a CANCEL or SHUTDOWN is seen only afterwards.   *)
(*                                                                            *)
(* Left out: the computation and its checksum, and the ids a worker copies    *)
(* from the DISPATCH into its reports, which no reader looks at.              *)
EXTENDS Transport

CONSTANTS
    Units,  \* the total of the work descriptor
    Chunk   \* the units of one progress report

ASSUME WorkAssumption == Units \in Nat /\ Chunk \in Nat \ {0}

(* value is the boot id of a HELLO, the resume point of a DISPATCH and the    *)
(* increment of a PROGRESS.                                                   *)
MsgType == {"HELLO", "REGISTER", "DISPATCH", "PROGRESS", "COMPLETE", "CANCEL",
            "SHUTDOWN", "PING"}

Frame == [type : MsgType, value : Nat]

Bare(type) == [type |-> type, value |-> 0]

WorkerPhase == {"HELLO", "AWAITING_ACK", "IDLE", "COMPUTING", "EXITED"}

VARIABLES
    workerPhase,  \* where in runWorker the process is
    bootId,       \* its WorkerBootId
    remaining     \* units of the dispatch not yet reported

worker == <<workerPhase, bootId, remaining>>

NoWorker ==
    /\ workerPhase = "EXITED"
    /\ bootId = 0
    /\ remaining = 0

(* freshBootId: no two processes share a boot id.                             *)
StartWorker ==
    /\ workerPhase' = "HELLO"
    /\ bootId' = bootId + 1
    /\ remaining' = 0

Become(phase) == workerPhase' = phase /\ UNCHANGED <<bootId, remaining>>

(* runWorker returns, having just read this many frames, and the process ends.*)
Exit(read) ==
    /\ Close("worker", Len(inbox["worker"]) > read)
    /\ Become("EXITED")

SendHello ==
    /\ workerPhase = "HELLO"
    /\ \/ /\ Send("worker", [type |-> "HELLO", value |-> bootId])
          /\ Become("AWAITING_ACK")
       \/ SendFails("worker") /\ Exit(0)

(* Any frame will do; with none in time the worker gives up.                  *)
AwaitAck ==
    /\ workerPhase = "AWAITING_ACK"
    /\ \/ Receive("worker") /\ Become("IDLE")
       \/ PeerClosed("worker") /\ Exit(0)

AckTimeout ==
    /\ workerPhase = "AWAITING_ACK"
    /\ TimesOut("worker")
    /\ Exit(0)

(* WorkDescriptor::parse refuses a resume point beyond the total.             *)
Malformed(frame) == frame.value > Units

(* Mutant: a CANCEL is skipped like an unknown frame.                         *)
StopsServingIgnoringCancel(frame) ==
    \/ frame.type = "SHUTDOWN"
    \/ frame.type = "DISPATCH" /\ Malformed(frame)

(* The frames on which runWorker returns.                                     *)
StopsServing(frame) ==
    \/ frame.type \in {"SHUTDOWN", "CANCEL"}
    \/ frame.type = "DISPATCH" /\ Malformed(frame)

ExitOnFrame ==
    /\ workerPhase = "IDLE"
    /\ inbox["worker"] # <<>>
    /\ StopsServing(Head(inbox["worker"]))
    /\ Exit(1)

ExitOnLoss ==
    /\ workerPhase = "IDLE"
    /\ PeerClosed("worker")
    /\ Exit(0)

(* Mutant: the resume point is ignored.                                       *)
UnitsFromStart(resumeFrom) == Units

(* total - resumeFrom.                                                        *)
UnitsFrom(resumeFrom) == Units - resumeFrom

AcceptDispatch ==
    /\ workerPhase = "IDLE"
    /\ Receive("worker")
    /\ LET frame == Head(inbox["worker"])
       IN  /\ frame.type = "DISPATCH" /\ ~StopsServing(frame)
           /\ remaining' = UnitsFrom(frame.value)
    /\ workerPhase' = "COMPUTING"
    /\ UNCHANGED bootId

(* A PING is answered if the answer can be sent; a frame of any other type is *)
(* skipped.                                                                   *)
SkipFrame ==
    /\ workerPhase = "IDLE"
    /\ inbox["worker"] # <<>>
    /\ LET frame == Head(inbox["worker"])
       IN  /\ frame.type # "DISPATCH" /\ ~StopsServing(frame)
           /\ IF frame.type = "PING" /\ Peer("worker") \in open
              THEN /\ Len(inbox["coordinator"]) < SocketBuffer
                   /\ inbox' = [inbox EXCEPT !["worker"] = Tail(@),
                                             !["coordinator"] = Append(@, Bare("PING"))]
                   /\ UNCHANGED open
              ELSE Receive("worker")
    /\ UNCHANGED worker

(* Mutant: the last report counts a whole chunk.                              *)
StepWholeChunk(left) == Chunk

(* std::min(chunk, remaining - reported).                                     *)
Step(left) == IF left < Chunk THEN left ELSE Chunk

(* One round of the computing loop, which reads no frame.                     *)
ReportUnits ==
    /\ workerPhase = "COMPUTING" /\ remaining > 0
    /\ \/ /\ Send("worker", [type |-> "PROGRESS", value |-> Step(remaining)])
          /\ remaining' = remaining - Step(remaining)
          /\ UNCHANGED <<workerPhase, bootId>>
       \/ SendFails("worker") /\ Exit(0)

ReportComplete ==
    /\ workerPhase = "COMPUTING" /\ remaining <= 0
    /\ \/ /\ Send("worker", Bare("COMPLETE"))
          /\ Become("IDLE")
       \/ SendFails("worker") /\ Exit(0)

(* The process is killed or crashes.                                          *)
Crash ==
    /\ workerPhase # "EXITED"
    /\ Close("worker", TRUE)
    /\ Become("EXITED")

(* What runWorker does by itself.                                             *)
WorkerStep ==
    \/ SendHello \/ AwaitAck \/ ExitOnFrame \/ ExitOnLoss \/ AcceptDispatch
    \/ SkipFrame \/ ReportUnits \/ ReportComplete
=============================================================================
