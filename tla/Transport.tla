----------------------------- MODULE Transport ------------------------------
(* The framed TCP connection between the coordinator and one worker process   *)
(* (src/transport_win.cpp).  Frames stay in order and are read whole; a frame *)
(* whose bytes were cut off by a death or a timeout is one that was never     *)
(* read, because receiveFrame fails and both callers then drop the peer.      *)
(* Framing, the size limit and the codec of protocol.cpp are left out: both   *)
(* ends write well-formed frames far below 1 MiB.                             *)
EXTENDS Integers, Sequences, SequencesExt

CONSTANT SocketBuffer  \* bound: frames one direction holds before a sender blocks

ASSUME SocketBufferAssumption == SocketBuffer \in Nat \ {0}

Ends == {"coordinator", "worker"}

Peer(end) == IF end = "worker" THEN "coordinator" ELSE "worker"

VARIABLES
    inbox,  \* the frames sent to an end and not yet read by it
    open    \* the ends whose socket is open

transport == <<inbox, open>>

NoConnection ==
    /\ inbox = [end \in Ends |-> <<>>]
    /\ open = {}

(* connectTcpPeer and accept: a new pair of sockets.                          *)
Connect ==
    /\ inbox' = [end \in Ends |-> <<>>]
    /\ open' = Ends

(* sendFrame returns true: the frame is queued, or, with the peer gone and    *)
(* the reset not yet noticed, lost.  A full socket blocks the sender.         *)
Send(end, frame) ==
    /\ UNCHANGED open
    /\ \/ /\ Peer(end) \in open
          /\ Len(inbox[Peer(end)]) < SocketBuffer
          /\ inbox' = [inbox EXCEPT ![Peer(end)] = Append(@, frame)]
       \/ /\ Peer(end) \notin open
          /\ UNCHANGED inbox

(* sendFrame returns false.                                                   *)
SendFails(end) == Peer(end) \notin open

(* receiveFrame returns true with the first frame.                            *)
Receive(end) ==
    /\ inbox[end] # <<>>
    /\ inbox' = [inbox EXCEPT ![end] = Tail(@)]
    /\ UNCHANGED open

(* receiveFrame returns false because the peer is gone ...                    *)
PeerClosed(end) == inbox[end] = <<>> /\ Peer(end) \notin open

(* ... or because nothing came in time.                                       *)
TimesOut(end) == inbox[end] = <<>> /\ Peer(end) \in open

(* One end closes its socket.  If its process is killed, or leaves frames     *)
(* unread, the connection is reset: of what it sent and the peer has not yet  *)
(* read, any suffix may be lost.                                              *)
Close(end, reset) ==
    /\ open' = open \ {end}
    /\ \E kept \in Prefixes(inbox[Peer(end)]) :
          /\ reset \/ kept = inbox[Peer(end)]
          /\ inbox' = [e \in Ends |-> IF e = end THEN <<>> ELSE kept]

(* Both ends are gone.                                                        *)
Disconnect ==
    /\ inbox' = [end \in Ends |-> <<>>]
    /\ open' = {}
=============================================================================
