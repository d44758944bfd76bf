------------------------- MODULE CoordinatorProofs --------------------------
(* Engine, coordinator loop, worker and user together, for jobs of any size,  *)
(* reports of any size, sockets of any capacity and any number of workers:    *)
(* the engine keeps what is proved of it (the instance E), no unit of work is *)
(* lost or booked twice, and the composition implements DurableJob.           *)
EXTENDS Coordinator, TLAPS

E == INSTANCE EngineProofs WITH TotalKind <- "UNKNOWN", Deltas <- 0..Units

-----------------------------------------------------------------------------
(* The invariant.                                                             *)

(* The calls of the loop that present the episode and generation it holds.    *)
Holding == {"ADMIT", "DISPATCH", "READ", "LOST", "RESTART", "MARK", "COMMIT"}

(* The loop before it has a worker, after it has lost one, while it registers *)
(* one, and between the registration and the dispatch.                        *)
Away == {"GRANT", "VALIDATE", "SETTLE", "SPAWN", "LOST", "RESTART"}

Registering == {"REGISTER", "ACKNOWLEDGE"}

Registered == {"START", "ADMIT", "DISPATCH"}

(* What the loop and the user hold was read from the engine, and an accepted  *)
(* cancellation is still pending, carried out or overtaken.                   *)
CallersInv ==
    /\ phase \in LoopPhase /\ user \in UserPhase
    /\ held.episode \in E!KnownIds
    /\ held \in [episode : 0..EpisodeIdLimit, generation : 0..generation]
    /\ generation # 0 /\ (phase \in Holding => held.generation # 0)
    /\ userHeld \in 0..generation
    /\ user \in {"CANCEL", "FINISH"} => userHeld # 0
    /\ user = "FINISH" => state \in {"CANCELLATION_REQUESTED", "COMPLETED", "CANCELLED"}

ConnectionType ==
    /\ workerPhase \in WorkerPhase /\ bootId \in Boots \cup {NoBoot}
    /\ remaining \in 0..Units
    /\ inbox \in [Ends -> Seq(Frame)] /\ open \subseteq Ends

NoneOf(types, queue) == \A i \in 1..Len(queue) : queue[i].type \notin types

(* The loop and the process agree on how far the connection is: the socket of *)
(* a process is open while it lives, a process is registered before it is     *)
(* sent anything else, so that what it takes for its acknowledgement is no    *)
(* dispatch, and it has nothing to report before its dispatch.                *)
ConnectionInv ==
    /\ ConnectionType
    /\ workerPhase # "EXITED" <=> "worker" \in open
    /\ phase \in Away => workerPhase = "EXITED"
    /\ phase \in Registering \cup Registered \cup {"READ", "LOST"} => bootId \in Boots
    /\ phase \in Registering \cup Registered \cup {"READ"} => "coordinator" \in open
    /\ phase \in Registering =>
          /\ inbox["worker"] = <<>>
          /\ workerPhase \in {"HELLO", "AWAITING_ACK", "EXITED"}
    /\ workerPhase = "HELLO" /\ phase \in Registering \cup Registered \cup {"READ"} =>
          phase = "REGISTER" /\ inbox["coordinator"] = <<>>
    /\ workerPhase = "AWAITING_ACK" /\ phase \in Registered \cup {"READ"} =>
          inbox["worker"] # <<>> /\ inbox["worker"][1].type # "DISPATCH"
    /\ phase \in Registering \cup Registered =>
          NoneOf({"PROGRESS", "COMPLETE"}, inbox["coordinator"])
    /\ phase \in Registered =>
          workerPhase # "COMPUTING" /\ NoneOf({"DISPATCH"}, inbox["worker"])

(* The queue has one dispatch, and it resumes here.                           *)
OneDispatch(queue, resumeFrom) ==
    \E i \in 1..Len(queue) :
       /\ queue[i] = [type |-> "DISPATCH", value |-> resumeFrom]
       /\ \A j \in 1..Len(queue) : queue[j].type = "DISPATCH" => j = i

(* What is still to be done once this much is reported: nothing that will be  *)
(* done, the rest of a dispatch, a dispatch on its way, or nothing at all.    *)
Owed(reported) ==
    \/ workerPhase = "EXITED"
    \/ /\ workerPhase = "COMPUTING" /\ reported + remaining = Units
       /\ NoneOf({"DISPATCH"}, inbox["worker"])
    \/ /\ workerPhase \in {"AWAITING_ACK", "IDLE"}
       /\ OneDispatch(inbox["worker"], reported)
    \/ /\ workerPhase = "IDLE" /\ reported = Units
       /\ NoneOf({"DISPATCH"}, inbox["worker"])
       /\ \E i \in 1..Len(inbox["coordinator"]) : inbox["coordinator"][i] = Bare("COMPLETE")

(* The ledger of the frames the loop has still to read: a COMPLETE comes      *)
(* behind the reports of all units, also in what is left of the queue when    *)
(* the worker died.                                                           *)
Ledger(total, queue) ==
    /\ \A i \in 1..Len(queue) : queue[i].type = "COMPLETE" => total[i] = Units
    /\ Owed(total[Len(queue)])

WorkInv ==
    /\ progress.completed <= Units
    /\ phase \in {"MARK", "COMMIT"} => progress.completed = Units
    /\ phase = "READ" =>
          \E total \in RunningTotals(progress.completed, inbox["coordinator"]) :
             Ledger(total, inbox["coordinator"])

CoordinatorInv ==
    E!TypeOK /\ E!LifecycleInv /\ CallersInv /\ ConnectionInv /\ WorkInv

-----------------------------------------------------------------------------
(* Queues.                                                                    *)

(* What receiving does to the frames behind the first, ...                    *)
LEMMA TailFrames ==
    ASSUME NEW S, NEW q \in Seq(S), q # <<>>
    PROVE  /\ Tail(q) \in Seq(S) /\ Len(q) \in Nat \ {0} /\ Len(Tail(q)) = Len(q) - 1
           /\ Head(q) = q[1] /\ q[1] \in S
           /\ \A i \in 1..Len(Tail(q)) : Tail(q)[i] = q[i + 1]
OBVIOUS

(* ... what sending does to those before the last, ...                        *)
LEMMA AppendFrames ==
    ASSUME NEW S, NEW q \in Seq(S), NEW f \in S
    PROVE  /\ Append(q, f) \in Seq(S) /\ Len(q) \in Nat /\ Len(Append(q, f)) = Len(q) + 1
           /\ Append(q, f)[Len(q) + 1] = f
           /\ \A i \in 1..Len(q) : Append(q, f)[i] = q[i]
OBVIOUS

(* ... and what a reset leaves.                                               *)
LEMMA PrefixFrames ==
    ASSUME NEW S, NEW q \in Seq(S), NEW kept \in Prefixes(q)
    PROVE  /\ kept \in Seq(S) /\ Len(kept) \in Nat /\ Len(kept) <= Len(q)
           /\ \A i \in 1..Len(kept) : kept[i] = q[i]
<1>1. PICK n \in 0..Len(q) : kept = SubSeq(q, 1, n)
  BY DEF Prefixes
<1>2. n \in Nat /\ n <= Len(q) /\ Len(q) \in Nat
  OBVIOUS
<1> QED
  BY <1>1, <1>2

(* Frames that were not there appear only when they are sent.                 *)
LEMMA NoneOfQueue ==
    ASSUME NEW S, NEW q \in Seq(S), NEW types, NoneOf(types, q)
    PROVE  /\ \A f \in S : f.type \notin types => NoneOf(types, Append(q, f))
           /\ q # <<>> => NoneOf(types, Tail(q))
           /\ \A kept \in Prefixes(q) : NoneOf(types, kept)
<1>1. ASSUME NEW f \in S, f.type \notin types PROVE NoneOf(types, Append(q, f))
  <2> SUFFICES ASSUME NEW i \in 1..Len(Append(q, f))
               PROVE  Append(q, f)[i].type \notin types
    BY DEF NoneOf
  <2>1. i \in 1..Len(q) \/ i = Len(q) + 1
    BY AppendFrames
  <2> QED
    BY <1>1, <2>1, AppendFrames DEF NoneOf
<1>2. ASSUME q # <<>> PROVE NoneOf(types, Tail(q))
  <2> SUFFICES ASSUME NEW i \in 1..Len(Tail(q))
               PROVE  Tail(q)[i].type \notin types
    BY DEF NoneOf
  <2>1. i + 1 \in 1..Len(q) /\ Tail(q)[i] = q[i + 1]
    BY <1>2, TailFrames
  <2> QED
    BY <2>1 DEF NoneOf
<1>3. ASSUME NEW kept \in Prefixes(q) PROVE NoneOf(types, kept)
  <2> SUFFICES ASSUME NEW i \in 1..Len(kept)
               PROVE  kept[i].type \notin types
    BY DEF NoneOf
  <2>1. i \in 1..Len(q) /\ kept[i] = q[i]
    BY <1>3, PrefixFrames
  <2> QED
    BY <2>1 DEF NoneOf
<1> QED
  BY <1>1, <1>2, <1>3

(* A dispatch stays alone until it is read.                                   *)
LEMMA DispatchQueue ==
    ASSUME NEW q \in Seq(Frame), NEW n \in Nat
    PROVE  /\ NoneOf({"DISPATCH"}, q) =>
                 OneDispatch(Append(q, [type |-> "DISPATCH", value |-> n]), n)
           /\ OneDispatch(q, n) =>
                 \A f \in Frame : f.type # "DISPATCH" => OneDispatch(Append(q, f), n)
           /\ OneDispatch(q, n) /\ q # <<>> /\ q[1].type # "DISPATCH" =>
                 OneDispatch(Tail(q), n)
           /\ OneDispatch(q, n) /\ q # <<>> /\ q[1].type = "DISPATCH" =>
                 q[1].value = n /\ NoneOf({"DISPATCH"}, Tail(q))
<1> DEFINE d == [type |-> "DISPATCH", value |-> n]
<1>1. d \in Frame /\ d.type = "DISPATCH" /\ d.value = n
  BY DEF Frame, MsgType
<1> HIDE DEF d
<1>2. ASSUME NoneOf({"DISPATCH"}, q) PROVE OneDispatch(Append(q, d), n)
  <2> DEFINE a == Append(q, d)
  <2>1. /\ Len(q) \in Nat /\ Len(a) = Len(q) + 1 /\ a[Len(q) + 1] = d
        /\ \A j \in 1..Len(q) : a[j] = q[j]
    BY <1>1, AppendFrames
  <2> HIDE DEF a
  <2>2. /\ Len(q) + 1 \in 1..Len(a)
        /\ a[Len(q) + 1] = d
        /\ \A j \in 1..Len(a) : j = Len(q) + 1 \/ (j \in 1..Len(q) /\ a[j] = q[j])
    BY <2>1
  <2>3. \A j \in 1..Len(a) : a[j].type = "DISPATCH" => j = Len(q) + 1
    BY <1>2, <2>2 DEF NoneOf
  <2> QED
    BY <2>2, <2>3 DEF OneDispatch, d, a
<1>3. ASSUME OneDispatch(q, n)
      PROVE  /\ \A f \in Frame : f.type # "DISPATCH" => OneDispatch(Append(q, f), n)
             /\ q # <<>> /\ q[1].type # "DISPATCH" => OneDispatch(Tail(q), n)
             /\ q # <<>> /\ q[1].type = "DISPATCH" =>
                   q[1].value = n /\ NoneOf({"DISPATCH"}, Tail(q))
  <2>1. PICK i \in 1..Len(q) :
           q[i] = d /\ \A j \in 1..Len(q) : q[j].type = "DISPATCH" => j = i
    BY <1>3 DEF OneDispatch, d
  <2>2. ASSUME NEW f \in Frame, f.type # "DISPATCH" PROVE OneDispatch(Append(q, f), n)
    <3>1. /\ i \in 1..Len(Append(q, f)) /\ Append(q, f)[i] = d
          /\ \A j \in 1..Len(Append(q, f)) :
                \/ j = Len(q) + 1 /\ Append(q, f)[j] = f
                \/ j \in 1..Len(q) /\ Append(q, f)[j] = q[j]
      BY <2>1, AppendFrames
    <3> QED
      BY <2>1, <2>2, <3>1 DEF OneDispatch, d
  <2>3. ASSUME q # <<>>, q[1].type # "DISPATCH" PROVE OneDispatch(Tail(q), n)
    <3>1. i # 1
      BY <1>1, <2>1, <2>3
    <3>2. /\ i - 1 \in 1..Len(Tail(q)) /\ Tail(q)[i - 1] = d
          /\ \A j \in 1..Len(Tail(q)) : j + 1 \in 1..Len(q) /\ Tail(q)[j] = q[j + 1]
      BY <2>1, <2>3, <3>1, TailFrames
    <3>3. \A j \in 1..Len(Tail(q)) : Tail(q)[j].type = "DISPATCH" => j = i - 1
      BY <2>1, <3>2
    <3> QED
      BY <3>2, <3>3 DEF OneDispatch, d
  <2>4. ASSUME q # <<>>, q[1].type = "DISPATCH"
        PROVE  q[1].value = n /\ NoneOf({"DISPATCH"}, Tail(q))
    <3>1. 1 \in 1..Len(q) /\ i = 1
      BY <2>1, <2>4, TailFrames
    <3>2. \A j \in 1..Len(Tail(q)) :
             j + 1 \in 1..Len(q) /\ j + 1 # 1 /\ Tail(q)[j] = q[j + 1]
      BY <2>4, TailFrames
    <3> QED
      BY <1>1, <2>1, <3>1, <3>2 DEF NoneOf
  <2> QED
    BY <2>2, <2>3, <2>4
<1> QED
  BY <1>2, <1>3 DEF d

-----------------------------------------------------------------------------
(* The ledger of a queue.                                                     *)

(* The units a frame reports.                                                 *)
Reports(frame) == IF frame.type = "PROGRESS" THEN frame.value ELSE 0

(* With nothing on its way the books are the ledger.                          *)
LEMMA QuietTotals ==
    ASSUME NEW start \in 0..Units, NEW q \in Seq(Frame),
           NoneOf({"PROGRESS", "COMPLETE"}, q)
    PROVE  [i \in 0..Len(q) |-> start] \in RunningTotals(start, q)
<1> DEFINE total == [i \in 0..Len(q) |-> start]
<1>1. Len(q) \in Nat /\ start \in Nat
  BY WorkAssumption
<1>2. total \in [0..Len(q) -> 0..Units] /\ total[0] = start
  BY <1>1
<1>3. \A i \in 1..Len(q) : total[i] = start /\ total[i - 1] = start
  BY <1>1
<1> HIDE DEF total
<1>4. \A i \in 1..Len(q) : q[i].type # "PROGRESS"
  BY DEF NoneOf
<1>5. \A i \in 1..Len(q) :
         total[i] = total[i - 1] + IF q[i].type = "PROGRESS" THEN q[i].value ELSE 0
  BY <1>1, <1>3, <1>4
<1>6. total \in RunningTotals(start, q)
  BY <1>2, <1>5 DEF RunningTotals
<1> QED
  BY <1>6 DEF total

(* A frame that is sent adds what it reports, ...                             *)
LEMMA AppendTotals ==
    ASSUME NEW start, NEW q \in Seq(Frame), NEW f \in Frame,
           NEW total \in RunningTotals(start, q),
           total[Len(q)] + Reports(f) \in 0..Units
    PROVE  \E after \in RunningTotals(start, Append(q, f)) :
              /\ \A i \in 0..Len(q) : after[i] = total[i]
              /\ after[Len(q) + 1] = total[Len(q)] + Reports(f)
<1> DEFINE n == Len(q)
           sum == total[n] + Reports(f)
           after == [i \in 0..(n + 1) |-> IF i = n + 1 THEN sum ELSE total[i]]
           a == Append(q, f)
<1>1. /\ n \in Nat /\ Len(a) = n + 1 /\ a[n + 1] = f
      /\ \A i \in 1..n : a[i] = q[i]
  BY AppendFrames
<1>2. /\ total \in [0..n -> 0..Units] /\ total[0] = start
      /\ \A i \in 1..n : total[i] = total[i - 1] + Reports(q[i])
  BY DEF RunningTotals, Reports
<1>3. sum \in 0..Units
  OBVIOUS
<1> HIDE DEF n, sum, a
<1>4. /\ after \in [0..(n + 1) -> 0..Units]
      /\ after[n + 1] = sum
      /\ \A i \in 0..n : after[i] = total[i]
  BY <1>1, <1>2, <1>3
<1> HIDE DEF after
<1>5. after[0] = start
  BY <1>1, <1>2, <1>4
<1>6. \A i \in 1..(n + 1) : after[i] = after[i - 1] + Reports(a[i])
  <2> SUFFICES ASSUME NEW i \in 1..(n + 1) PROVE after[i] = after[i - 1] + Reports(a[i])
    OBVIOUS
  <2>1. CASE i = n + 1
    <3>1. after[i - 1] = total[n] /\ a[i] = f
      BY <1>1, <1>4, <2>1
    <3> QED
      BY <1>4, <2>1, <3>1 DEF sum
  <2>2. CASE i # n + 1
    <3>1. i \in 1..n /\ i \in 0..n /\ i - 1 \in 0..n
      BY <1>1, <2>2
    <3> QED
      BY <1>1, <1>2, <1>4, <3>1
  <2> QED
    BY <2>1, <2>2
<1>7. after \in RunningTotals(start, a)
  BY <1>1, <1>4, <1>5, <1>6 DEF RunningTotals, Reports
<1> QED
  BY <1>4, <1>7 DEF a, n, sum

(* ... one that is read moves what it reports into the books, ...             *)
LEMMA TailTotals ==
    ASSUME NEW start, NEW q \in Seq(Frame), q # <<>>,
           NEW total \in RunningTotals(start, q)
    PROVE  /\ start + Reports(q[1]) = total[1] /\ total[1] \in 0..Units
           /\ \E after \in RunningTotals(total[1], Tail(q)) :
                 \A i \in 0..Len(Tail(q)) : after[i] = total[i + 1]
<1> DEFINE n == Len(q)
           t == Tail(q)
           after == [i \in 0..(n - 1) |-> total[i + 1]]
<1>1. /\ n \in Nat \ {0} /\ Len(t) = n - 1
      /\ \A i \in 1..(n - 1) : t[i] = q[i + 1]
  BY TailFrames
<1>2. /\ total \in [0..n -> 0..Units] /\ total[0] = start
      /\ \A i \in 1..n : total[i] = total[i - 1] + Reports(q[i])
  BY DEF RunningTotals, Reports
<1> HIDE DEF n, t
<1>3. total[1] = total[0] + Reports(q[1]) /\ total[1] \in 0..Units
  BY <1>1, <1>2
<1>4. /\ after \in [0..(n - 1) -> 0..Units]
      /\ \A i \in 0..(n - 1) : after[i] = total[i + 1]
  BY <1>1, <1>2
<1> HIDE DEF after
<1>5. after[0] = total[1]
  BY <1>1, <1>4
<1>6. \A i \in 1..(n - 1) : after[i] = after[i - 1] + Reports(t[i])
  <2> SUFFICES ASSUME NEW i \in 1..(n - 1) PROVE after[i] = after[i - 1] + Reports(t[i])
    OBVIOUS
  <2>1. i \in 0..(n - 1) /\ i - 1 \in 0..(n - 1) /\ i + 1 \in 1..n /\ (i - 1) + 1 = i
        /\ (i + 1) - 1 = i
    BY <1>1
  <2>2. after[i] = total[i + 1] /\ after[i - 1] = total[i]
    BY <1>4, <2>1
  <2>3. total[i + 1] = total[i] + Reports(q[i + 1])
    BY <1>2, <2>1
  <2> QED
    BY <1>1, <2>2, <2>3
<1>7. after \in RunningTotals(total[1], t)
  BY <1>1, <1>4, <1>5, <1>6 DEF RunningTotals, Reports
<1> QED
  BY <1>1, <1>2, <1>3, <1>4, <1>7 DEF t

(* ... and a reset cuts the ledger off where it cuts the queue off.           *)
LEMMA PrefixTotals ==
    ASSUME NEW start, NEW q \in Seq(Frame), NEW kept \in Prefixes(q),
           NEW total \in RunningTotals(start, q)
    PROVE  \E after \in RunningTotals(start, kept) :
              \A i \in 0..Len(kept) : after[i] = total[i]
<1> DEFINE n == Len(kept)
           after == [i \in 0..n |-> total[i]]
<1>1. /\ n \in Nat /\ n <= Len(q) /\ Len(q) \in Nat
      /\ \A i \in 1..n : kept[i] = q[i]
  BY PrefixFrames
<1>2. /\ total \in [0..Len(q) -> 0..Units] /\ total[0] = start
      /\ \A i \in 1..Len(q) : total[i] = total[i - 1] + Reports(q[i])
  BY DEF RunningTotals, Reports
<1> HIDE DEF n
<1>3. /\ after \in [0..n -> 0..Units]
      /\ \A i \in 0..n : after[i] = total[i]
  BY <1>1, <1>2
<1> HIDE DEF after
<1>4. after[0] = start /\ \A i \in 1..n : after[i] = after[i - 1] + Reports(kept[i])
  BY <1>1, <1>2, <1>3
<1>5. after \in RunningTotals(start, kept)
  BY <1>3, <1>4 DEF RunningTotals, Reports, n
<1> QED
  BY <1>3, <1>5 DEF n

(* How much is reported is a number of units.                                 *)
LEMMA Reported ==
    ASSUME NEW start, NEW q \in Seq(Frame), NEW total \in RunningTotals(start, q)
    PROVE  total[Len(q)] \in 0..Units /\ total[Len(q)] \in Nat
<1>1. Len(q) \in 0..Len(q)
  OBVIOUS
<1>2. total[Len(q)] \in 0..Units
  BY <1>1 DEF RunningTotals
<1> QED
  BY <1>2, WorkAssumption

(* A report extends the ledger, and a COMPLETE may follow when all is         *)
(* reported.                                                                  *)
LEMMA LedgerGrows ==
    ASSUME NEW start, NEW q \in Seq(Frame), NEW f \in Frame,
           NEW total \in RunningTotals(start, q),
           \A i \in 1..Len(q) : q[i].type = "COMPLETE" => total[i] = Units,
           total[Len(q)] + Reports(f) \in 0..Units,
           f.type = "COMPLETE" => total[Len(q)] = Units
    PROVE  \E after \in RunningTotals(start, Append(q, f)) :
              /\ \A i \in 1..Len(Append(q, f)) :
                    Append(q, f)[i].type = "COMPLETE" => after[i] = Units
              /\ after[Len(Append(q, f))] = total[Len(q)] + Reports(f)
<1> DEFINE a == Append(q, f)
<1>1. PICK after \in RunningTotals(start, a) :
         /\ \A i \in 0..Len(q) : after[i] = total[i]
         /\ after[Len(q) + 1] = total[Len(q)] + Reports(f)
  BY AppendTotals
<1>2. /\ Len(q) \in Nat /\ Len(a) = Len(q) + 1 /\ a[Len(q) + 1] = f
      /\ \A i \in 1..Len(q) : a[i] = q[i]
  BY AppendFrames
<1> HIDE DEF a
<1>3. \A i \in 1..Len(a) : i = Len(q) + 1 \/ (i \in 1..Len(q) /\ i \in 0..Len(q))
  BY <1>2
<1>4. total[Len(q)] \in Nat
  BY Reported
<1>5. ASSUME f.type = "COMPLETE" PROVE after[Len(q) + 1] = Units
  BY <1>1, <1>4, <1>5 DEF Reports
<1>6. \A i \in 1..Len(a) : a[i].type = "COMPLETE" => after[i] = Units
  BY <1>1, <1>2, <1>3, <1>5
<1> QED
  BY <1>1, <1>2, <1>6 DEF a

-----------------------------------------------------------------------------
(* The connection.                                                            *)

(* A connection has two ends, each the peer of the other.                     *)
LEMMA TwoEnds ==
    /\ Ends = {"coordinator", "worker"} /\ "coordinator" # "worker"
    /\ Peer("worker") = "coordinator" /\ Peer("coordinator") = "worker"
BY DEF Ends, Peer

(* A frame without a value.                                                   *)
LEMMA BareFrame ==
    ASSUME NEW type \in MsgType
    PROVE  Bare(type) \in Frame /\ Bare(type).type = type
BY DEF Bare, Frame

(* A frame that is sent is queued at the peer, or lost if there is none.      *)
LEMMA Sent ==
    ASSUME inbox \in [Ends -> Seq(Frame)], NEW end \in Ends, NEW f \in Frame, Send(end, f)
    PROVE  /\ open' = open /\ inbox' \in [Ends -> Seq(Frame)]
           /\ inbox'[end] = inbox[end]
           /\ \/ Peer(end) \in open /\ inbox'[Peer(end)] = Append(inbox[Peer(end)], f)
              \/ Peer(end) \notin open /\ inbox'[Peer(end)] = inbox[Peer(end)]
<1>1. Peer(end) \in Ends /\ Peer(end) # end
  BY TwoEnds
<1>2. CASE inbox' = inbox /\ Peer(end) \notin open
  BY <1>2 DEF Send
<1>3. CASE Peer(end) \in open
           /\ inbox' = [inbox EXCEPT ![Peer(end)] = Append(@, f)]
  <2>1. Append(inbox[Peer(end)], f) \in Seq(Frame)
    BY <1>1, AppendFrames
  <2> QED
    BY <1>1, <1>3, <2>1 DEF Send
<1> QED
  BY <1>2, <1>3 DEF Send

(* One that is received leaves the queue.                                     *)
LEMMA Received ==
    ASSUME inbox \in [Ends -> Seq(Frame)], NEW end \in Ends, Receive(end)
    PROVE  /\ open' = open /\ inbox' \in [Ends -> Seq(Frame)]
           /\ inbox[end] # <<>> /\ inbox'[end] = Tail(inbox[end])
           /\ inbox'[Peer(end)] = inbox[Peer(end)]
<1>1. Peer(end) \in Ends /\ Peer(end) # end
  BY TwoEnds
<1>2. inbox[end] # <<>> /\ inbox' = [inbox EXCEPT ![end] = Tail(@)] /\ open' = open
  BY DEF Receive
<1>3. Tail(inbox[end]) \in Seq(Frame)
  BY <1>2, TailFrames
<1> QED
  BY <1>1, <1>2, <1>3

(* A socket that is closed drops what it had not read, and may lose the end   *)
(* of what it had sent.                                                       *)
LEMMA Closed ==
    ASSUME inbox \in [Ends -> Seq(Frame)], NEW end \in Ends, NEW reset, Close(end, reset)
    PROVE  /\ open' = open \ {end} /\ inbox' \in [Ends -> Seq(Frame)]
           /\ inbox'[end] = <<>>
           /\ inbox'[Peer(end)] \in Prefixes(inbox[Peer(end)])
<1>1. Peer(end) \in Ends /\ Peer(end) # end
  BY TwoEnds
<1>2. PICK kept \in Prefixes(inbox[Peer(end)]) :
         inbox' = [e \in Ends |-> IF e = end THEN <<>> ELSE kept]
  BY DEF Close
<1>3. inbox[Peer(end)] \in Seq(Frame)
  BY <1>1
<1>4. kept \in Seq(Frame) /\ <<>> \in Seq(Frame)
  BY <1>3, PrefixFrames
<1> QED
  BY <1>1, <1>2, <1>4 DEF Close

(* Both ends are gone.                                                        *)
LEMMA Disconnected ==
    ASSUME Disconnect
    PROVE  open' = {} /\ inbox' \in [Ends -> Seq(Frame)]
           /\ inbox'["worker"] = <<>> /\ inbox'["coordinator"] = <<>>
<1>1. <<>> \in Seq(Frame)
  OBVIOUS
<1> QED
  BY <1>1, TwoEnds DEF Disconnect

-----------------------------------------------------------------------------
(* The worker.                                                                *)

(* What a step of the worker leaves alone.                                    *)
OnlyWorker == UNCHANGED <<phase, progress, bootId>>

(* A worker that dies leaves the beginning of what it had to report.          *)
LEMMA DeathKeeps ==
    ASSUME ConnectionInv, WorkInv, OnlyWorker, UNCHANGED remaining,
           workerPhase' = "EXITED", NEW reset, Close("worker", reset)
    PROVE  ConnectionInv' /\ WorkInv'
<1>1. /\ inbox \in [Ends -> Seq(Frame)] /\ inbox["coordinator"] \in Seq(Frame)
      /\ open \subseteq Ends
  BY TwoEnds DEF ConnectionInv, ConnectionType
<1>2. /\ open' = open \ {"worker"} /\ inbox' \in [Ends -> Seq(Frame)]
      /\ inbox'["worker"] = <<>>
      /\ inbox'["coordinator"] \in Prefixes(inbox["coordinator"])
  BY <1>1, TwoEnds, Closed
<1>3. ConnectionType'
  BY <1>1, <1>2 DEF ConnectionInv, ConnectionType, OnlyWorker, WorkerPhase
<1>4. ConnectionInv'
  <2>1. NoneOf({"PROGRESS", "COMPLETE"}, inbox["coordinator"])
          => NoneOf({"PROGRESS", "COMPLETE"}, inbox'["coordinator"])
    BY <1>1, <1>2, NoneOfQueue
  <2>2. NoneOf({"DISPATCH"}, inbox'["worker"])
    BY <1>2 DEF NoneOf
  <2> QED
    BY <1>1, <1>2, <1>3, <2>1, <2>2, TwoEnds DEF ConnectionInv, OnlyWorker
<1>5. WorkInv'
  <2>1. ASSUME phase = "READ"
        PROVE  \E total \in RunningTotals(progress.completed, inbox["coordinator"])' :
                  Ledger(total, inbox["coordinator"])'
    <3>1. PICK total \in RunningTotals(progress.completed, inbox["coordinator"]) :
             Ledger(total, inbox["coordinator"])
      BY <2>1 DEF WorkInv
    <3>2. PICK after \in RunningTotals(progress.completed, inbox'["coordinator"]) :
             \A i \in 0..Len(inbox'["coordinator"]) : after[i] = total[i]
      BY <1>1, <1>2, <3>1, PrefixTotals
    <3>3. \A i \in 1..Len(inbox'["coordinator"]) :
             /\ i \in 0..Len(inbox'["coordinator"]) /\ i \in 1..Len(inbox["coordinator"])
             /\ inbox'["coordinator"][i] = inbox["coordinator"][i]
      BY <1>1, <1>2, PrefixFrames
    <3>4. Ledger(after, inbox["coordinator"])'
      BY <3>1, <3>2, <3>3 DEF Ledger, Owed
    <3> QED
      BY <3>2, <3>4 DEF OnlyWorker
  <2> QED
    BY <2>1 DEF WorkInv, OnlyWorker
<1> QED
  BY <1>4, <1>5

(* The frames a worker sends.                                                 *)
LEMMA WorkerFrames ==
    ASSUME ConnectionType
    PROVE  /\ [type |-> "HELLO", value |-> bootId] \in Frame
           /\ Bare("PING") \in Frame /\ Bare("COMPLETE") \in Frame
           /\ remaining > 0 =>
                 /\ [type |-> "PROGRESS", value |-> Step(remaining)] \in Frame
                 /\ Step(remaining) \in 1..remaining
<1>1. bootId \in Nat
  BY WorkloadAssumption DEF ConnectionType
<1>2. ASSUME remaining > 0 PROVE Step(remaining) \in 1..remaining
  BY <1>2, WorkAssumption DEF ConnectionType, Step
<1>3. /\ [type |-> "HELLO", value |-> bootId] \in Frame
      /\ Bare("PING") \in Frame /\ Bare("COMPLETE") \in Frame
  BY <1>1 DEF Frame, MsgType, Bare
<1>4. ASSUME remaining > 0
      PROVE  [type |-> "PROGRESS", value |-> Step(remaining)] \in Frame
  <2>1. Step(remaining) \in Nat
    BY <1>2, <1>4, WorkAssumption DEF ConnectionType
  <2> QED
    BY <2>1 DEF Frame, MsgType
<1> QED
  BY <1>2, <1>3, <1>4

(* The phases in which the loop has a connection it relies on.                *)
Linked == Registering \cup Registered \cup {"READ"}

(* A worker the loop has given up on does not matter.                         *)
LEMMA UnlinkedKeeps ==
    ASSUME ConnectionInv, WorkInv, OnlyWorker, UNCHANGED open, ConnectionType',
           workerPhase # "EXITED", workerPhase' # "EXITED", phase \notin Linked
    PROVE  ConnectionInv' /\ WorkInv'
BY DEF ConnectionInv, WorkInv, OnlyWorker, Linked, Away, Registering, Registered

(* A HELLO announces a process that has done nothing yet.                     *)
LEMMA SendHelloKeeps ==
    ASSUME ConnectionInv, WorkInv, OnlyWorker, SendHello
    PROVE  ConnectionInv' /\ WorkInv'
<1>1. ConnectionType /\ inbox \in [Ends -> Seq(Frame)]
  BY DEF ConnectionInv, ConnectionType
<1>2. CASE Exit(0)
  BY <1>2, DeathKeeps DEF Exit, Become
<1>3. CASE Send("worker", [type |-> "HELLO", value |-> bootId]) /\ Become("AWAITING_ACK")
  <2>1. /\ open' = open /\ inbox' \in [Ends -> Seq(Frame)]
        /\ inbox'["worker"] = inbox["worker"]
        /\ \/ inbox'["coordinator"] = Append(inbox["coordinator"],
                                             [type |-> "HELLO", value |-> bootId])
           \/ inbox'["coordinator"] = inbox["coordinator"]
    BY <1>1, <1>3, TwoEnds, WorkerFrames, Sent
  <2>2. ConnectionType'
    BY <1>1, <1>3, <2>1 DEF ConnectionType, Become, OnlyWorker, WorkerPhase
  <2>3. CASE phase \in Linked
    <3>1. phase = "REGISTER"
      BY <2>3 DEF ConnectionInv, SendHello, Linked
    <3>2. NoneOf({"PROGRESS", "COMPLETE"}, inbox'["coordinator"])
      <4>1. NoneOf({"PROGRESS", "COMPLETE"}, inbox["coordinator"])
        BY <3>1 DEF ConnectionInv, Registering
      <4>2. inbox["coordinator"] \in Seq(Frame)
        BY <1>1, TwoEnds
      <4> QED
        BY <1>1, <2>1, <4>1, <4>2, NoneOfQueue, WorkerFrames
    <3> QED
      BY <1>3, <2>1, <2>2, <3>1, <3>2
      DEF ConnectionInv, WorkInv, OnlyWorker, Become, SendHello, Away, Registering,
          Registered
  <2> QED
    BY <1>3, <2>1, <2>2, <2>3, UnlinkedKeeps DEF Become, SendHello
<1> QED
  BY <1>2, <1>3 DEF SendHello

(* What the worker takes for its acknowledgement is not its dispatch.         *)
LEMMA AwaitAckKeeps ==
    ASSUME ConnectionInv, WorkInv, OnlyWorker, AwaitAck
    PROVE  ConnectionInv' /\ WorkInv'
<1> DEFINE q == inbox["worker"]
<1>1. /\ ConnectionType /\ inbox \in [Ends -> Seq(Frame)] /\ q \in Seq(Frame)
      /\ workerPhase = "AWAITING_ACK"
  BY TwoEnds DEF ConnectionInv, ConnectionType, AwaitAck
<1>2. CASE Exit(0)
  BY <1>2, DeathKeeps DEF Exit, Become
<1>3. CASE Receive("worker") /\ Become("IDLE")
  <2>1. /\ open' = open /\ inbox' \in [Ends -> Seq(Frame)]
        /\ q # <<>> /\ inbox'["worker"] = Tail(q)
        /\ inbox'["coordinator"] = inbox["coordinator"]
    BY <1>1, <1>3, TwoEnds, Received
  <2>2. ConnectionType'
    BY <1>1, <1>3, <2>1 DEF ConnectionType, Become, OnlyWorker, WorkerPhase
  <2>3. CASE phase \in Linked
    <3>1. phase \in Registered \cup {"READ"} /\ q[1].type # "DISPATCH"
      BY <1>1, <2>1, <2>3 DEF ConnectionInv, Linked
    <3>2. NoneOf({"DISPATCH"}, q) => NoneOf({"DISPATCH"}, Tail(q))
      BY <1>1, <2>1, NoneOfQueue
    <3>3. ConnectionInv'
      BY <1>1, <1>3, <2>1, <2>2, <3>1, <3>2
      DEF ConnectionInv, OnlyWorker, Become, Away, Registering, Registered
    <3>4. ASSUME phase = "READ"
          PROVE  \E total \in RunningTotals(progress.completed, inbox["coordinator"])' :
                    Ledger(total, inbox["coordinator"])'
      <4>1. PICK total \in RunningTotals(progress.completed, inbox["coordinator"]) :
               Ledger(total, inbox["coordinator"])
        BY <3>4 DEF WorkInv
      <4>2. OneDispatch(q, total[Len(inbox["coordinator"])])
        BY <1>1, <4>1 DEF Ledger, Owed
      <4>3. total[Len(inbox["coordinator"])] \in Nat
        <5>1. inbox["coordinator"] \in Seq(Frame)
          BY <1>1, TwoEnds
        <5>2. Len(inbox["coordinator"]) \in 0..Len(inbox["coordinator"])
          BY <5>1
        <5>3. total[Len(inbox["coordinator"])] \in 0..Units
          BY <5>2 DEF RunningTotals
        <5> QED
          BY <5>3, WorkAssumption
      <4>4. OneDispatch(Tail(q), total[Len(inbox["coordinator"])])
        BY <1>1, <2>1, <3>1, <4>2, <4>3, DispatchQueue
      <4>5. Ledger(total, inbox["coordinator"])'
        BY <1>3, <2>1, <4>1, <4>4 DEF Ledger, Owed, Become
      <4> QED
        BY <2>1, <4>1, <4>5 DEF OnlyWorker
    <3>5. WorkInv'
      BY <3>4 DEF WorkInv, OnlyWorker
    <3> QED
      BY <3>3, <3>5
  <2> QED
    BY <1>1, <1>3, <2>1, <2>2, <2>3, UnlinkedKeeps DEF Become
<1> QED
  BY <1>2, <1>3 DEF AwaitAck

(* The dispatch the worker accepts is the one the loop sent.                  *)
LEMMA AcceptDispatchKeeps ==
    ASSUME ConnectionInv, WorkInv, OnlyWorker, AcceptDispatch
    PROVE  ConnectionInv' /\ WorkInv'
<1> DEFINE q == inbox["worker"]
           c == inbox["coordinator"]
<1>1. /\ ConnectionType /\ inbox \in [Ends -> Seq(Frame)]
      /\ q \in Seq(Frame) /\ c \in Seq(Frame)
      /\ workerPhase = "IDLE" /\ workerPhase' = "COMPUTING" /\ Receive("worker")
  BY TwoEnds DEF ConnectionInv, ConnectionType, AcceptDispatch
<1>2. /\ open' = open /\ inbox' \in [Ends -> Seq(Frame)]
      /\ q # <<>> /\ inbox'["worker"] = Tail(q)
      /\ inbox'["coordinator"] = c
  BY <1>1, TwoEnds, Received
<1>3. /\ q[1] \in Frame /\ q[1].type = "DISPATCH" /\ 1 \in 1..Len(q)
      /\ q[1].value \in 0..Units
      /\ remaining' = Units - q[1].value /\ remaining' \in 0..Units
  <2>1. Head(q) = q[1] /\ q[1] \in Frame /\ 1 \in 1..Len(q)
    BY <1>1, <1>2, TailFrames
  <2>2. /\ q[1].type = "DISPATCH" /\ ~(q[1].value > Units)
        /\ remaining' = Units - q[1].value
    BY <2>1 DEF AcceptDispatch, StopsServing, Malformed, UnitsFrom
  <2>3. q[1].value \in Nat
    BY <2>1 DEF Frame
  <2> QED
    BY <2>1, <2>2, <2>3, WorkAssumption
<1>4. ConnectionType'
  BY <1>1, <1>2, <1>3 DEF ConnectionType, OnlyWorker, WorkerPhase
<1>5. CASE phase \in Linked
  <2>1. phase = "READ"
    BY <1>1, <1>3, <1>5 DEF ConnectionInv, Linked, Registering, Registered, NoneOf
  <2>2. ConnectionInv'
    BY <1>1, <1>2, <1>4, <2>1
    DEF ConnectionInv, OnlyWorker, Away, Registering, Registered
  <2>3. PICK total \in RunningTotals(progress.completed, c) : Ledger(total, c)
    BY <2>1 DEF WorkInv
  <2>4. total[Len(c)] \in Nat
    BY <1>1, Reported
  <2>5. OneDispatch(q, total[Len(c)])
    BY <1>1, <1>3, <2>3 DEF Ledger, Owed, NoneOf
  <2>6. q[1].value = total[Len(c)] /\ NoneOf({"DISPATCH"}, Tail(q))
    BY <1>1, <1>2, <1>3, <2>4, <2>5, DispatchQueue
  <2>7. total[Len(c)] + remaining' = Units
    BY <1>3, <2>4, <2>6, WorkAssumption
  <2>8. Ledger(total, c)'
    BY <1>1, <1>2, <2>3, <2>6, <2>7 DEF Ledger, Owed
  <2>9. WorkInv'
    BY <1>2, <2>1, <2>3, <2>8 DEF WorkInv, OnlyWorker
  <2> QED
    BY <2>2, <2>9
<1> QED
  BY <1>1, <1>2, <1>4, <1>5, UnlinkedKeeps

(* Any other frame it serves leaves the ledger alone, answered or not.        *)
LEMMA SkipFrameKeeps ==
    ASSUME ConnectionInv, WorkInv, OnlyWorker, SkipFrame
    PROVE  ConnectionInv' /\ WorkInv'
<1> DEFINE q == inbox["worker"]
           c == inbox["coordinator"]
           ping == Bare("PING")
<1>1. /\ ConnectionType /\ inbox \in [Ends -> Seq(Frame)]
      /\ q \in Seq(Frame) /\ c \in Seq(Frame)
      /\ workerPhase = "IDLE" /\ UNCHANGED worker
      /\ q # <<>> /\ q[1].type # "DISPATCH"
  BY TwoEnds, TailFrames DEF ConnectionInv, ConnectionType, SkipFrame
<1>2. ping \in Frame /\ ping.type = "PING"
  BY BareFrame DEF MsgType
<1> HIDE DEF ping
<1>3. /\ open' = open /\ inbox' \in [Ends -> Seq(Frame)]
      /\ inbox'["worker"] = Tail(q)
      /\ \/ inbox'["coordinator"] = c
         \/ inbox'["coordinator"] = Append(c, ping)
  <2>1. CASE Receive("worker")
    BY <1>1, <2>1, TwoEnds, Received
  <2>2. CASE /\ inbox' = [inbox EXCEPT !["worker"] = Tail(@),
                                       !["coordinator"] = Append(@, ping)]
             /\ UNCHANGED open
    <3>1. Tail(q) \in Seq(Frame) /\ Append(c, ping) \in Seq(Frame)
      BY <1>1, <1>2, TailFrames, AppendFrames
    <3> QED
      BY <1>1, <2>2, <3>1, TwoEnds
  <2> QED
    BY <2>1, <2>2 DEF SkipFrame, ping
<1>4. ConnectionType' /\ workerPhase' = "IDLE"
  BY <1>1, <1>3 DEF ConnectionType, OnlyWorker, worker
<1>5. CASE phase \in Linked
  <2>1. phase \in Registered \cup {"READ"}
    BY <1>1, <1>5 DEF ConnectionInv, Linked
  <2>2. NoneOf({"DISPATCH"}, q) => NoneOf({"DISPATCH"}, Tail(q))
    BY <1>1, NoneOfQueue
  <2>3. NoneOf({"PROGRESS", "COMPLETE"}, c)
          => NoneOf({"PROGRESS", "COMPLETE"}, inbox'["coordinator"])
    <3>1. ping.type \notin {"PROGRESS", "COMPLETE"}
      BY <1>2
    <3>2. NoneOf({"PROGRESS", "COMPLETE"}, c) => NoneOf({"PROGRESS", "COMPLETE"}, Append(c, ping))
      BY <1>1, <1>2, <3>1, NoneOfQueue
    <3> QED
      BY <1>3, <3>2
  <2>4. ConnectionInv'
    BY <1>1, <1>3, <1>4, <2>1, <2>2, <2>3
    DEF ConnectionInv, OnlyWorker, Away, Registering, Registered
  <2>5. ASSUME phase = "READ"
        PROVE  \E total \in RunningTotals(progress.completed, inbox["coordinator"])' :
                  Ledger(total, inbox["coordinator"])'
    <3>1. PICK total \in RunningTotals(progress.completed, c) : Ledger(total, c)
      BY <2>5 DEF WorkInv
    <3>2. total[Len(c)] \in 0..Units /\ total[Len(c)] \in Nat
      BY <1>1, Reported
    <3>3. \/ OneDispatch(Tail(q), total[Len(c)])
          \/ /\ total[Len(c)] = Units /\ NoneOf({"DISPATCH"}, Tail(q))
             /\ \E i \in 1..Len(c) : c[i] = Bare("COMPLETE")
      BY <1>1, <2>2, <3>1, <3>2, DispatchQueue DEF Ledger, Owed
    <3>4. CASE inbox'["coordinator"] = c
      <4>1. Ledger(total, c)'
        BY <1>3, <1>4, <3>1, <3>3, <3>4 DEF Ledger, Owed
      <4> QED
        BY <3>1, <3>4, <4>1 DEF OnlyWorker
    <3>5. CASE inbox'["coordinator"] = Append(c, ping)
      <4>1. Reports(ping) = 0
        BY <1>2 DEF Reports
      <4>2. /\ total[Len(c)] + Reports(ping) = total[Len(c)]
            /\ total[Len(c)] + Reports(ping) \in 0..Units
            /\ ping.type # "COMPLETE"
            /\ \A i \in 1..Len(c) : c[i].type = "COMPLETE" => total[i] = Units
        BY <1>2, <3>1, <3>2, <4>1 DEF Ledger
      <4>3. PICK after \in RunningTotals(progress.completed, Append(c, ping)) :
               /\ \A i \in 1..Len(Append(c, ping)) :
                     Append(c, ping)[i].type = "COMPLETE" => after[i] = Units
               /\ after[Len(Append(c, ping))] = total[Len(c)] + Reports(ping)
        <5> HIDE DEF c
        <5>1. c \in Seq(Frame) /\ total \in RunningTotals(progress.completed, c)
          BY <1>1, <3>1
        <5> QED
          BY ONLY <1>2, <4>2, <5>1, LedgerGrows
      <4>4. \A i \in 1..Len(c) : /\ i \in 1..Len(Append(c, ping))
                                 /\ Append(c, ping)[i] = c[i]
        BY <1>1, <1>2, AppendFrames
      <4>5. Ledger(after, inbox["coordinator"])'
        BY <1>3, <1>4, <3>3, <3>5, <4>2, <4>3, <4>4 DEF Ledger, Owed
      <4> QED
        BY <3>5, <4>3, <4>5 DEF OnlyWorker
    <3> QED
      BY <1>3, <3>4, <3>5
  <2>6. WorkInv'
    BY <2>5 DEF WorkInv, OnlyWorker
  <2> QED
    BY <2>4, <2>6
<1> QED
  BY <1>1, <1>3, <1>4, <1>5, UnlinkedKeeps

(* A frame of the computing worker reaches the queue of the loop that reads,  *)
(* and makes the ledger longer by what it reports.                            *)
LEMMA ReportSent ==
    ASSUME ConnectionInv, WorkInv, workerPhase = "COMPUTING",
           NEW f \in Frame, Send("worker", f), f.type \in {"PROGRESS", "COMPLETE"},
           Reports(f) \in 0..remaining, f.type = "COMPLETE" => remaining = 0
    PROVE  /\ open' = open /\ inbox' \in [Ends -> Seq(Frame)]
           /\ inbox'["worker"] = inbox["worker"]
           /\ phase \in Linked => phase = "READ"
           /\ phase = "READ" =>
                 /\ inbox["coordinator"] \in Seq(Frame)
                 /\ inbox'["coordinator"] = Append(inbox["coordinator"], f)
                 /\ NoneOf({"DISPATCH"}, inbox["worker"])
                 /\ \E after \in RunningTotals(progress.completed, inbox'["coordinator"]) :
                       /\ \A i \in 1..Len(inbox'["coordinator"]) :
                             inbox'["coordinator"][i].type = "COMPLETE" => after[i] = Units
                       /\ after[Len(inbox'["coordinator"])] + (remaining - Reports(f)) = Units
<1> DEFINE c == inbox["coordinator"]
<1>1. /\ inbox \in [Ends -> Seq(Frame)] /\ c \in Seq(Frame) /\ remaining \in 0..Units
  BY TwoEnds DEF ConnectionInv, ConnectionType
<1>2. /\ open' = open /\ inbox' \in [Ends -> Seq(Frame)]
      /\ inbox'["worker"] = inbox["worker"]
      /\ "coordinator" \in open => inbox'["coordinator"] = Append(c, f)
  BY <1>1, TwoEnds, Sent
<1>3. phase \in Linked => phase = "READ"
  BY DEF ConnectionInv, Linked, Registering, Registered
<1>4. ASSUME phase = "READ"
      PROVE  /\ inbox'["coordinator"] = Append(c, f)
             /\ NoneOf({"DISPATCH"}, inbox["worker"])
             /\ \E after \in RunningTotals(progress.completed, Append(c, f)) :
                   /\ \A i \in 1..Len(Append(c, f)) :
                         Append(c, f)[i].type = "COMPLETE" => after[i] = Units
                   /\ after[Len(Append(c, f))] + (remaining - Reports(f)) = Units
  <2>1. inbox'["coordinator"] = Append(c, f)
    BY <1>2, <1>4 DEF ConnectionInv
  <2>2. PICK total \in RunningTotals(progress.completed, c) : Ledger(total, c)
    BY <1>4 DEF WorkInv
  <2>3. /\ total[Len(c)] + remaining = Units
        /\ NoneOf({"DISPATCH"}, inbox["worker"])
    BY <2>2 DEF Ledger, Owed
  <2> HIDE DEF c
  <2>4. total[Len(c)] \in Nat
    BY <1>1, Reported
  <2>5. /\ total[Len(c)] + Reports(f) \in 0..Units
        /\ (total[Len(c)] + Reports(f)) + (remaining - Reports(f)) = Units
        /\ f.type = "COMPLETE" => total[Len(c)] = Units
    BY <1>1, <2>3, <2>4, WorkAssumption
  <2>6. \A i \in 1..Len(c) : c[i].type = "COMPLETE" => total[i] = Units
    BY <2>2 DEF Ledger
  <2>7. PICK after \in RunningTotals(progress.completed, Append(c, f)) :
           /\ \A i \in 1..Len(Append(c, f)) :
                 Append(c, f)[i].type = "COMPLETE" => after[i] = Units
           /\ after[Len(Append(c, f))] = total[Len(c)] + Reports(f)
    BY <1>1, <2>2, <2>5, <2>6, LedgerGrows
  <2> QED
    BY <2>1, <2>3, <2>5, <2>7
<1> QED
  BY <1>1, <1>2, <1>3, <1>4

(* What is reported is no longer to be computed.                              *)
LEMMA ReportUnitsKeeps ==
    ASSUME ConnectionInv, WorkInv, OnlyWorker, ReportUnits
    PROVE  ConnectionInv' /\ WorkInv'
<1> DEFINE f == [type |-> "PROGRESS", value |-> Step(remaining)]
<1>1. ConnectionType /\ workerPhase = "COMPUTING" /\ remaining > 0
  BY DEF ConnectionInv, ReportUnits
<1>2. CASE SendFails("worker") /\ Exit(0)
  BY <1>2, DeathKeeps DEF Exit, Become
<1>3. CASE /\ Send("worker", f)
           /\ remaining' = remaining - Step(remaining)
           /\ UNCHANGED <<workerPhase, bootId>>
  <2>1. /\ f \in Frame /\ f.type = "PROGRESS" /\ Reports(f) = Step(remaining)
        /\ Step(remaining) \in 1..remaining
    BY <1>1, WorkerFrames DEF Reports
  <2>2. remaining \in Nat /\ Reports(f) \in 0..remaining /\ remaining' \in 0..Units
    BY <1>1, <1>3, <2>1, WorkAssumption DEF ConnectionType
  <2>3. Send("worker", f)
    BY <1>3
  <2> HIDE DEF f
  <2>4. /\ open' = open /\ inbox' \in [Ends -> Seq(Frame)]
        /\ inbox'["worker"] = inbox["worker"]
        /\ phase \in Linked => phase = "READ"
        /\ phase = "READ" =>
              /\ NoneOf({"DISPATCH"}, inbox["worker"])
              /\ \E after \in RunningTotals(progress.completed, inbox'["coordinator"]) :
                    /\ \A i \in 1..Len(inbox'["coordinator"]) :
                          inbox'["coordinator"][i].type = "COMPLETE" => after[i] = Units
                    /\ after[Len(inbox'["coordinator"])] + remaining' = Units
    BY <1>1, <1>3, <2>1, <2>2, <2>3, ReportSent
  <2>5. ConnectionType'
    BY <1>1, <1>3, <2>2, <2>4 DEF ConnectionType
  <2>6. CASE phase \in Linked
    <3>1. phase = "READ"
      BY <2>4, <2>6
    <3>2. ConnectionInv'
      BY <1>1, <1>3, <2>4, <2>5, <3>1
      DEF ConnectionInv, OnlyWorker, Away, Registering, Registered
    <3>3. WorkInv'
      BY <1>1, <1>3, <2>4, <3>1 DEF WorkInv, OnlyWorker, Ledger, Owed
    <3> QED
      BY <3>2, <3>3
  <2> QED
    BY <1>1, <1>3, <2>4, <2>5, <2>6, UnlinkedKeeps
<1> QED
  BY <1>2, <1>3 DEF ReportUnits

(* A COMPLETE is sent when nothing is left.                                   *)
LEMMA ReportCompleteKeeps ==
    ASSUME ConnectionInv, WorkInv, OnlyWorker, ReportComplete
    PROVE  ConnectionInv' /\ WorkInv'
<1> DEFINE f == Bare("COMPLETE")
<1>1. ConnectionType /\ workerPhase = "COMPUTING" /\ remaining = 0
  BY DEF ConnectionInv, ConnectionType, ReportComplete
<1>2. CASE SendFails("worker") /\ Exit(0)
  BY <1>2, DeathKeeps DEF Exit, Become
<1>3. CASE Send("worker", f) /\ Become("IDLE")
  <2>1. /\ f \in Frame /\ f.type = "COMPLETE" /\ Reports(f) = 0
    BY BareFrame DEF Reports, MsgType
  <2>2. Send("worker", f) /\ Reports(f) \in 0..remaining
    BY <1>1, <1>3, <2>1
  <2> HIDE DEF f
  <2>3. /\ open' = open /\ inbox' \in [Ends -> Seq(Frame)]
        /\ inbox'["worker"] = inbox["worker"]
        /\ phase \in Linked => phase = "READ"
        /\ phase = "READ" =>
              /\ inbox["coordinator"] \in Seq(Frame)
              /\ inbox'["coordinator"] = Append(inbox["coordinator"], f)
              /\ NoneOf({"DISPATCH"}, inbox["worker"])
              /\ \E after \in RunningTotals(progress.completed, inbox'["coordinator"]) :
                    /\ \A i \in 1..Len(inbox'["coordinator"]) :
                          inbox'["coordinator"][i].type = "COMPLETE" => after[i] = Units
                    /\ after[Len(inbox'["coordinator"])] + (remaining - Reports(f)) = Units
    BY <1>1, <2>1, <2>2, ReportSent
  <2>4. ConnectionType' /\ workerPhase' = "IDLE"
    BY <1>1, <1>3, <2>3 DEF ConnectionType, Become, OnlyWorker, WorkerPhase
  <2>5. CASE phase \in Linked
    <3>1. phase = "READ"
      BY <2>3, <2>5
    <3>2. ConnectionInv'
      BY <1>1, <2>3, <2>4, <3>1
      DEF ConnectionInv, OnlyWorker, Away, Registering, Registered
    <3>3. /\ inbox'["coordinator"] \in Seq(Frame)
          /\ Len(inbox'["coordinator"]) \in 1..Len(inbox'["coordinator"])
          /\ inbox'["coordinator"][Len(inbox'["coordinator"])] = f
      <4> DEFINE c == inbox["coordinator"]
      <4>1. c \in Seq(Frame) /\ inbox'["coordinator"] = Append(c, f)
        BY <2>3, <3>1
      <4> HIDE DEF c
      <4>2. /\ Append(c, f) \in Seq(Frame) /\ Len(c) \in Nat
            /\ Len(Append(c, f)) = Len(c) + 1 /\ Append(c, f)[Len(c) + 1] = f
        BY <2>1, <4>1, AppendFrames
      <4>3. Len(Append(c, f)) \in 1..Len(Append(c, f)) /\ Append(c, f)[Len(Append(c, f))] = f
        BY <4>2
      <4> QED
        BY <4>1, <4>2, <4>3
    <3>4. PICK after \in RunningTotals(progress.completed, inbox'["coordinator"]) :
             /\ \A i \in 1..Len(inbox'["coordinator"]) :
                   inbox'["coordinator"][i].type = "COMPLETE" => after[i] = Units
             /\ after[Len(inbox'["coordinator"])] = Units
      <4>1. PICK after \in RunningTotals(progress.completed, inbox'["coordinator"]) :
               /\ \A i \in 1..Len(inbox'["coordinator"]) :
                     inbox'["coordinator"][i].type = "COMPLETE" => after[i] = Units
               /\ after[Len(inbox'["coordinator"])] + (remaining - Reports(f)) = Units
        BY <2>3, <3>1
      <4>2. after[Len(inbox'["coordinator"])] \in Nat
        BY <3>3, Reported
      <4> QED
        BY <1>1, <2>1, <4>1, <4>2
    <3>5. Ledger(after, inbox["coordinator"])'
      BY <2>3, <2>4, <3>1, <3>3, <3>4 DEF Ledger, Owed, f
    <3>6. WorkInv'
      BY <3>1, <3>4, <3>5 DEF WorkInv, OnlyWorker
    <3> QED
      BY <3>2, <3>6
  <2> QED
    BY <1>1, <2>3, <2>4, <2>5, UnlinkedKeeps
<1> QED
  BY <1>2, <1>3 DEF ReportComplete

(* No step of the worker loses or repeats work.                               *)
LEMMA WorkerKeeps ==
    ASSUME ConnectionInv, WorkInv, UNCHANGED <<workload, loop, caller>>,
           WorkerStep \/ AckTimeout \/ Crash
    PROVE  ConnectionInv' /\ WorkInv'
<1>1. OnlyWorker
  BY DEF WorkerStep, AckTimeout, Crash, SendHello, AwaitAck, ExitOnFrame, ExitOnLoss,
         AcceptDispatch, SkipFrame, ReportUnits, ReportComplete, Exit, Become, worker,
         workload, loop, OnlyWorker
<1>2. CASE AckTimeout \/ Crash \/ ExitOnFrame \/ ExitOnLoss
  BY <1>1, <1>2, DeathKeeps DEF AckTimeout, Crash, ExitOnFrame, ExitOnLoss, Exit, Become
<1> QED
  BY <1>1, <1>2, SendHelloKeeps, AwaitAckKeeps, AcceptDispatchKeeps, SkipFrameKeeps,
     ReportUnitsKeeps, ReportCompleteKeeps
  DEF WorkerStep

-----------------------------------------------------------------------------
(* The loop and its connection.                                               *)

(* The phases in which the loop no longer counts on the worker.               *)
Over == {"MARK", "COMMIT", "CANCEL", "DRAIN", "SHUTDOWN", "CLOSE", "KILL", "DONE", "ABANDONED"}

(* A loop that does not count on the worker has only its books to keep.       *)
LEMMA OverKeeps ==
    ASSUME ConnectionInv, ConnectionType', UNCHANGED workerPhase,
           "worker" \in open' <=> "worker" \in open,
           phase' \in Over, progress'.completed <= Units,
           phase' \in {"MARK", "COMMIT"} => progress'.completed = Units
    PROVE  ConnectionInv' /\ WorkInv'
BY DEF ConnectionInv, WorkInv, Over, Away, Registering, Registered

(* The moves of the loop by a call to the engine that books nothing.          *)
CallMove ==
    \/ phase \in {"GRANT", "VALIDATE", "SETTLE"}
       /\ phase' \in {"VALIDATE", "SETTLE", "SPAWN", "ABANDONED"}
    \/ phase = "START" /\ phase' \in {"ADMIT", "CANCEL"}
    \/ phase = "ADMIT" /\ phase' \in {"DISPATCH", "CANCEL"}
    \/ phase = "LOST" /\ phase' \in {"RESTART", "DONE"}
    \/ phase = "RESTART" /\ phase' \in {"SPAWN", "DONE"}
    \/ phase = "MARK" /\ phase' \in {"COMMIT", "SHUTDOWN"}
    \/ phase = "COMMIT" /\ phase' = "SHUTDOWN"
    \/ phase' = phase

(* A call to the engine leaves the connection alone.                          *)
LEMMA CallKeeps ==
    ASSUME ConnectionInv, WorkInv, CallMove, UNCHANGED <<progress, worker, transport>>
    PROVE  ConnectionInv' /\ WorkInv'
<1>1. /\ UNCHANGED <<workerPhase, bootId, remaining, inbox, open, progress>>
      /\ ConnectionType'
  BY DEF worker, transport, ConnectionInv, ConnectionType
<1>2. ConnectionInv'
  BY <1>1 DEF ConnectionInv, CallMove, Away, Registering, Registered
<1>3. CASE phase' = phase
  BY <1>1, <1>2, <1>3 DEF WorkInv, Ledger, Owed
<1>4. CASE phase' # phase
  BY <1>1, <1>2, <1>4 DEF WorkInv, CallMove
<1> QED
  BY <1>2, <1>3, <1>4

(* The worker is killed and the connection closed.                            *)
LEMMA KillKeeps ==
    ASSUME ConnectionInv, WorkInv, KillAndClose, UNCHANGED progress,
           phase' \in {"ABANDONED", "LOST", "DONE"},
           phase' = "LOST" => phase \in {"DISPATCH", "READ"}
    PROVE  ConnectionInv' /\ WorkInv'
<1>1. /\ open' = {} /\ inbox' \in [Ends -> Seq(Frame)]
      /\ workerPhase' = "EXITED" /\ UNCHANGED <<bootId, remaining>>
  BY Disconnected DEF KillAndClose, Become
<1>2. ConnectionType'
  BY <1>1 DEF ConnectionInv, ConnectionType, WorkerPhase
<1>3. phase' = "LOST" => bootId \in Boots
  BY DEF ConnectionInv, Registered
<1> QED
  BY <1>1, <1>2, <1>3 DEF ConnectionInv, WorkInv, Away, Registering, Registered

(* A new process has a new connection, with nothing on its way.               *)
LEMMA SpawnKeeps ==
    ASSUME ConnectionInv, WorkInv, Spawn
    PROVE  ConnectionInv' /\ WorkInv'
<1>1. <<>> \in Seq(Frame)
  OBVIOUS
<1>2. /\ phase' = "REGISTER" /\ progress' = progress
      /\ workerPhase' = "HELLO" /\ bootId' \in Boots /\ remaining' = 0
      /\ open' = Ends /\ inbox' \in [Ends -> Seq(Frame)]
      /\ inbox'["worker"] = <<>> /\ inbox'["coordinator"] = <<>>
  BY <1>1, TwoEnds DEF Spawn, OnConnection, Goto, StartWorker, Connect, workload
<1>3. ConnectionType'
  BY <1>2, WorkAssumption DEF ConnectionType, WorkerPhase
<1>4. NoneOf({"PROGRESS", "COMPLETE"}, inbox'["coordinator"])
  BY <1>2 DEF NoneOf
<1> QED
  BY <1>2, <1>3, <1>4, TwoEnds
  DEF ConnectionInv, WorkInv, Away, Registering, Registered

(* A HELLO that is read was sent, ...                                         *)
LEMMA HelloKeeps ==
    ASSUME ConnectionInv, WorkInv, AwaitHello
    PROVE  ConnectionInv' /\ WorkInv'
<1>1. CASE OnConnection("REGISTER", "ABANDONED") /\ KillAndClose
  BY <1>1, KillKeeps DEF OnConnection, Goto, workload
<1>2. CASE /\ OnConnection("REGISTER", "ACKNOWLEDGE")
           /\ Receive("coordinator")
           /\ UNCHANGED worker
  <2> DEFINE c == inbox["coordinator"]
  <2>1. ConnectionType /\ inbox \in [Ends -> Seq(Frame)] /\ c \in Seq(Frame)
    BY TwoEnds DEF ConnectionInv, ConnectionType
  <2>2. /\ open' = open /\ inbox' \in [Ends -> Seq(Frame)]
        /\ c # <<>> /\ inbox'["coordinator"] = Tail(c)
        /\ inbox'["worker"] = inbox["worker"]
    BY <1>2, <2>1, TwoEnds, Received
  <2>3. /\ phase = "REGISTER" /\ phase' = "ACKNOWLEDGE" /\ UNCHANGED progress
        /\ UNCHANGED <<workerPhase, bootId, remaining>>
    BY <1>2 DEF OnConnection, Goto, workload, worker
  <2>4. ConnectionType'
    BY <2>1, <2>2, <2>3 DEF ConnectionType
  <2>5. NoneOf({"PROGRESS", "COMPLETE"}, Tail(c))
    <3>1. NoneOf({"PROGRESS", "COMPLETE"}, c)
      BY <2>3 DEF ConnectionInv, Registering
    <3> HIDE DEF c
    <3> QED
      BY <2>1, <2>2, <3>1, NoneOfQueue
  <2> QED
    BY <2>1, <2>2, <2>3, <2>4, <2>5
    DEF ConnectionInv, WorkInv, Away, Registering, Registered
<1> QED
  BY <1>1, <1>2 DEF AwaitHello

(* ... so the process that gets the REGISTER is waiting for it.               *)
LEMMA AcknowledgeKeeps ==
    ASSUME ConnectionInv, WorkInv, Acknowledge
    PROVE  ConnectionInv' /\ WorkInv'
<1>1. CASE OnConnection("ACKNOWLEDGE", "ABANDONED") /\ KillAndClose
  BY <1>1, KillKeeps DEF OnConnection, Goto, workload
<1>2. CASE /\ OnConnection("ACKNOWLEDGE", "START")
           /\ Send("coordinator", Bare("REGISTER"))
           /\ UNCHANGED worker
  <2> DEFINE f == Bare("REGISTER")
  <2>1. ConnectionType /\ inbox \in [Ends -> Seq(Frame)]
    BY DEF ConnectionInv, ConnectionType
  <2>2. f \in Frame /\ f.type = "REGISTER"
    BY BareFrame DEF MsgType
  <2>3. Send("coordinator", f)
    BY <1>2
  <2> HIDE DEF f
  <2>4. /\ open' = open /\ inbox' \in [Ends -> Seq(Frame)]
        /\ inbox'["coordinator"] = inbox["coordinator"]
        /\ "worker" \in open => inbox'["worker"] = Append(inbox["worker"], f)
        /\ "worker" \notin open => inbox'["worker"] = inbox["worker"]
    BY <2>1, <2>2, <2>3, TwoEnds, Sent
  <2>5. /\ phase = "ACKNOWLEDGE" /\ phase' = "START" /\ UNCHANGED progress
        /\ UNCHANGED <<workerPhase, bootId, remaining>>
    BY <1>2 DEF OnConnection, Goto, workload, worker
  <2>6. ConnectionType'
    BY <2>1, <2>4, <2>5 DEF ConnectionType
  <2>7. /\ inbox["worker"] = <<>> /\ workerPhase \in {"AWAITING_ACK", "EXITED"}
        /\ workerPhase # "EXITED" <=> "worker" \in open
    BY <2>5 DEF ConnectionInv, Registering
  <2>8. /\ Append(<<>>, f) # <<>> /\ Append(<<>>, f)[1] = f
        /\ NoneOf({"DISPATCH"}, Append(<<>>, f)) /\ NoneOf({"DISPATCH"}, <<>>)
    <3>1. <<>> \in Seq(Frame) /\ NoneOf({"DISPATCH"}, <<>>)
      BY DEF NoneOf
    <3>2. f.type \notin {"DISPATCH"}
      BY <2>2
    <3>3. NoneOf({"DISPATCH"}, Append(<<>>, f))
      BY <2>2, <3>1, <3>2, NoneOfQueue
    <3>4. Append(<<>>, f) # <<>> /\ Append(<<>>, f)[1] = f
      OBVIOUS
    <3> QED
      BY <3>1, <3>3, <3>4
  <2> QED
    BY <2>2, <2>4, <2>5, <2>6, <2>7, <2>8
    DEF ConnectionInv, WorkInv, Away, Registering, Registered
<1> QED
  BY <1>1, <1>2 DEF Acknowledge

(* Reading a frame leaves the ledger of the others; a COMPLETE among them is  *)
(* still there.                                                               *)
LEMMA LedgerShrinks ==
    ASSUME NEW start, NEW q \in Seq(Frame), q # <<>>,
           NEW total \in RunningTotals(start, q),
           \A i \in 1..Len(q) : q[i].type = "COMPLETE" => total[i] = Units
    PROVE  /\ start \in 0..Units /\ start + Reports(q[1]) = total[1] /\ total[1] \in 0..Units
           /\ q[1].type = "COMPLETE" => start = Units
           /\ \E after \in RunningTotals(total[1], Tail(q)) :
                 /\ \A i \in 1..Len(Tail(q)) : Tail(q)[i].type = "COMPLETE" => after[i] = Units
                 /\ after[Len(Tail(q))] = total[Len(q)]
           /\ \A f \in Frame : (f # q[1] /\ \E i \in 1..Len(q) : q[i] = f)
                  => \E i \in 1..Len(Tail(q)) : Tail(q)[i] = f
<1> DEFINE t == Tail(q)
<1>1. /\ t \in Seq(Frame) /\ Len(q) \in Nat \ {0} /\ Len(t) = Len(q) - 1
      /\ q[1] \in Frame
      /\ \A i \in 1..Len(t) : t[i] = q[i + 1]
  BY TailFrames
<1>2. /\ start + Reports(q[1]) = total[1] /\ total[1] \in 0..Units
      /\ \E after \in RunningTotals(total[1], t) : \A i \in 0..Len(t) : after[i] = total[i + 1]
  BY TailTotals
<1>3. start \in 0..Units
  BY <1>1 DEF RunningTotals
<1>4. q[1].type = "COMPLETE" => start = Units
  BY <1>1, <1>2, <1>3, WorkAssumption DEF Reports
<1> HIDE DEF t
<1>5. PICK after \in RunningTotals(total[1], t) : \A i \in 0..Len(t) : after[i] = total[i + 1]
  BY <1>2
<1>6. \A i \in 1..Len(t) : i \in 0..Len(t) /\ i + 1 \in 1..Len(q)
  BY <1>1
<1>7. \A i \in 1..Len(t) : t[i].type = "COMPLETE" => after[i] = Units
  BY <1>1, <1>5, <1>6
<1>8. after[Len(t)] = total[Len(q)]
  BY <1>1, <1>5
<1>9. ASSUME NEW f \in Frame, f # q[1], NEW i \in 1..Len(q), q[i] = f
      PROVE  \E j \in 1..Len(t) : t[j] = f
  <2>1. i - 1 \in 1..Len(t) /\ (i - 1) + 1 = i
    BY <1>1, <1>9
  <2>2. t[i - 1] = f
    BY <1>1, <1>9, <2>1
  <2> QED
    BY <2>1, <2>2
<1> QED
  BY <1>2, <1>3, <1>4, <1>5, <1>7, <1>8, <1>9 DEF t

(* The loop reads on: it has booked what the frame reports.                   *)
LEMMA ReadKeeps ==
    ASSUME ConnectionInv, WorkInv, phase = "READ", phase' = "READ", UNCHANGED worker,
           Receive("coordinator"), inbox["coordinator"][1].type # "COMPLETE",
           progress'.completed = progress.completed + Reports(inbox["coordinator"][1])
    PROVE  ConnectionInv' /\ WorkInv'
<1> DEFINE c == inbox["coordinator"]
<1>1. ConnectionType /\ inbox \in [Ends -> Seq(Frame)] /\ c \in Seq(Frame)
  BY TwoEnds DEF ConnectionInv, ConnectionType
<1>2. /\ open' = open /\ inbox' \in [Ends -> Seq(Frame)]
      /\ c # <<>> /\ inbox'["coordinator"] = Tail(c)
      /\ inbox'["worker"] = inbox["worker"]
  BY <1>1, TwoEnds, Received
<1>3. UNCHANGED <<workerPhase, bootId, remaining>>
  BY DEF worker
<1>4. ConnectionType'
  BY <1>1, <1>2, <1>3 DEF ConnectionType
<1>5. ConnectionInv'
  <2>1. workerPhase # "HELLO"
    BY <1>2 DEF ConnectionInv
  <2> QED
    BY <1>2, <1>3, <1>4, <2>1 DEF ConnectionInv, Away, Registering, Registered
<1>6. PICK total \in RunningTotals(progress.completed, c) : Ledger(total, c)
  BY DEF WorkInv
<1>7. \A i \in 1..Len(c) : c[i].type = "COMPLETE" => total[i] = Units
  BY <1>6 DEF Ledger
<1>8. /\ c[1].type # "COMPLETE"
      /\ progress'.completed = progress.completed + Reports(c[1])
  OBVIOUS
<1> HIDE DEF c
<1>9. /\ progress.completed + Reports(c[1]) = total[1] /\ total[1] \in 0..Units
      /\ \E after \in RunningTotals(total[1], Tail(c)) :
            /\ \A i \in 1..Len(Tail(c)) : Tail(c)[i].type = "COMPLETE" => after[i] = Units
            /\ after[Len(Tail(c))] = total[Len(c)]
      /\ \A f \in Frame : (f # c[1] /\ \E i \in 1..Len(c) : c[i] = f)
             => \E i \in 1..Len(Tail(c)) : Tail(c)[i] = f
  <2>1. c \in Seq(Frame) /\ c # <<>> /\ total \in RunningTotals(progress.completed, c)
    BY <1>1, <1>2, <1>6
  <2>2. progress.completed + Reports(c[1]) = total[1] /\ total[1] \in 0..Units
    BY ONLY <1>7, <2>1, LedgerShrinks
  <2>3. \E after \in RunningTotals(total[1], Tail(c)) :
           /\ \A i \in 1..Len(Tail(c)) : Tail(c)[i].type = "COMPLETE" => after[i] = Units
           /\ after[Len(Tail(c))] = total[Len(c)]
    BY ONLY <1>7, <2>1, LedgerShrinks
  <2>4. \A f \in Frame : (f # c[1] /\ \E i \in 1..Len(c) : c[i] = f)
           => \E i \in 1..Len(Tail(c)) : Tail(c)[i] = f
    BY ONLY <1>7, <2>1, LedgerShrinks
  <2> QED
    BY <2>2, <2>3, <2>4
<1> PICK reported : reported = total[Len(c)]
  OBVIOUS
<1>10. PICK after \in RunningTotals(progress'.completed, Tail(c)) :
          /\ \A i \in 1..Len(Tail(c)) : Tail(c)[i].type = "COMPLETE" => after[i] = Units
          /\ after[Len(Tail(c))] = reported
  BY <1>8, <1>9
<1>11. Bare("COMPLETE") \in Frame /\ Bare("COMPLETE") # c[1]
  BY <1>8, BareFrame DEF MsgType
<1>12. Owed(reported)'
  <2>1. Owed(reported)
    BY <1>6 DEF Ledger
  <2>2. (\E i \in 1..Len(c) : c[i] = Bare("COMPLETE"))
            => \E i \in 1..Len(Tail(c)) : Tail(c)[i] = Bare("COMPLETE")
    BY <1>9, <1>11
  <2> QED
    BY <1>2, <1>3, <2>1, <2>2 DEF Owed, c
<1>13. Ledger(after, inbox["coordinator"])'
  BY <1>2, <1>10, <1>12 DEF Ledger
<1>14. progress'.completed <= Units
  BY <1>8, <1>9, WorkAssumption
<1> QED
  BY <1>2, <1>5, <1>10, <1>13, <1>14 DEF WorkInv

(* The COMPLETE comes when all is booked.                                     *)
LEMMA SeeCompleteKeeps ==
    ASSUME ConnectionInv, WorkInv, SeeComplete
    PROVE  ConnectionInv' /\ WorkInv'
<1> DEFINE c == inbox["coordinator"]
<1>1. ConnectionType /\ inbox \in [Ends -> Seq(Frame)] /\ c \in Seq(Frame)
  BY TwoEnds DEF ConnectionInv, ConnectionType
<1>2. /\ open' = open /\ inbox' \in [Ends -> Seq(Frame)] /\ c # <<>>
  BY <1>1, TwoEnds, Received DEF SeeComplete
<1>3. /\ phase = "READ" /\ phase' = "MARK" /\ UNCHANGED progress
      /\ UNCHANGED <<workerPhase, bootId, remaining>>
  BY DEF SeeComplete, OnConnection, Goto, workload, worker
<1>4. Head(c) = c[1] /\ Head(c).type = "COMPLETE"
  BY <1>1, <1>2, TailFrames DEF SeeComplete
<1>5. progress.completed = Units
  <2>1. PICK total \in RunningTotals(progress.completed, c) : Ledger(total, c)
    BY <1>3 DEF WorkInv
  <2>2. \A i \in 1..Len(c) : c[i].type = "COMPLETE" => total[i] = Units
    BY <2>1 DEF Ledger
  <2> HIDE DEF c
  <2> QED
    BY <1>1, <1>2, <1>4, <2>1, <2>2, LedgerShrinks
<1>6. ConnectionType'
  BY <1>1, <1>2, <1>3 DEF ConnectionType
<1>7. progress'.completed <= Units
  BY <1>3 DEF WorkInv
<1> QED
  BY <1>2, <1>3, <1>5, <1>6, <1>7, OverKeeps DEF Over

(* The dispatch resumes where the books are.                                  *)
LEMMA DispatchKeeps ==
    ASSUME ConnectionInv, WorkInv, progress.completed \in Nat, Dispatch
    PROVE  ConnectionInv' /\ WorkInv'
<1>1. CASE OnConnection("DISPATCH", "LOST") /\ KillAndClose
  BY <1>1, KillKeeps DEF OnConnection, Goto, workload
<1>2. CASE /\ OnConnection("DISPATCH", "READ")
           /\ Send("coordinator", [type |-> "DISPATCH", value |-> ResumeFrom])
           /\ UNCHANGED worker
  <2> DEFINE n == progress.completed
             f == [type |-> "DISPATCH", value |-> n]
             q == inbox["worker"]
             c == inbox["coordinator"]
  <2>1. /\ ConnectionType /\ inbox \in [Ends -> Seq(Frame)]
        /\ q \in Seq(Frame) /\ c \in Seq(Frame)
    BY TwoEnds DEF ConnectionInv, ConnectionType
  <2>2. f \in Frame /\ f.type = "DISPATCH" /\ Send("coordinator", f)
    BY <1>2 DEF Frame, MsgType, ResumeFrom
  <2>3. /\ phase = "DISPATCH" /\ phase' = "READ" /\ progress' = progress
        /\ UNCHANGED <<workerPhase, bootId, remaining>>
    BY <1>2 DEF OnConnection, Goto, workload, worker
  <2>4. n \in 0..Units
    BY WorkAssumption DEF WorkInv
  <2>5. /\ open' = open /\ inbox' \in [Ends -> Seq(Frame)]
        /\ inbox'["coordinator"] = c
        /\ "worker" \in open => inbox'["worker"] = Append(q, f)
        /\ "worker" \notin open => inbox'["worker"] = q
    <3> HIDE DEF f
    <3> QED
      BY <2>1, <2>2, TwoEnds, Sent
  <2>6. ConnectionType'
    BY <2>1, <2>3, <2>5 DEF ConnectionType
  <2>7. /\ workerPhase # "EXITED" <=> "worker" \in open
        /\ workerPhase \in {"AWAITING_ACK", "IDLE", "EXITED"}
        /\ workerPhase = "AWAITING_ACK" => q # <<>> /\ q[1].type # "DISPATCH"
        /\ NoneOf({"DISPATCH"}, q) /\ NoneOf({"PROGRESS", "COMPLETE"}, c)
    BY <2>1, <2>3 DEF ConnectionInv, ConnectionType, WorkerPhase, Registered
  <2>8. /\ OneDispatch(Append(q, f), n)
        /\ q # <<>> => Append(q, f) # <<>> /\ Append(q, f)[1] = q[1]
    <3>1. OneDispatch(Append(q, f), n)
      BY <2>1, <2>7, DispatchQueue
    <3> HIDE DEF q, f
    <3>2. q # <<>> => 1 \in 1..Len(q) /\ Append(q, f) # <<>>
      BY <2>1, <2>2, TailFrames
    <3> QED
      BY <2>1, <2>2, <3>1, <3>2, AppendFrames
  <2>9. ConnectionInv'
    BY <2>3, <2>5, <2>6, <2>7, <2>8 DEF ConnectionInv, Away, Registering, Registered
  <2>10. PICK total \in RunningTotals(n, c) : total[Len(c)] = n
    <3>1. Len(c) \in 0..Len(c)
      BY <2>1
    <3> HIDE DEF c
    <3>2. [i \in 0..Len(c) |-> n] \in RunningTotals(n, c)
      BY <2>1, <2>4, <2>7, QuietTotals
    <3> QED
      BY <3>1, <3>2
  <2>11. Owed(n)'
    BY <2>3, <2>5, <2>7, <2>8 DEF Owed
  <2>12. Ledger(total, c)'
    <3>1. \A i \in 1..Len(c) : c[i].type # "COMPLETE"
      BY <2>7 DEF NoneOf
    <3> QED
      BY <2>3, <2>5, <2>10, <2>11, <3>1 DEF Ledger
  <2>13. WorkInv'
    BY <2>3, <2>4, <2>5, <2>10, <2>12 DEF WorkInv
  <2> QED
    BY <2>9, <2>13
<1> QED
  BY <1>1, <1>2 DEF Dispatch

(* A probe is no dispatch.                                                    *)
LEMMA PingKeeps ==
    ASSUME ConnectionInv, WorkInv, Ping
    PROVE  ConnectionInv' /\ WorkInv'
<1> DEFINE f == Bare("PING")
           q == inbox["worker"]
<1>1. ConnectionType /\ inbox \in [Ends -> Seq(Frame)] /\ q \in Seq(Frame)
  BY TwoEnds DEF ConnectionInv, ConnectionType
<1>2. f \in Frame /\ f.type = "PING"
  BY BareFrame DEF MsgType
<1>3. Send("coordinator", f)
  BY DEF Ping
<1> HIDE DEF f
<1>4. /\ open' = open /\ inbox' \in [Ends -> Seq(Frame)]
      /\ inbox'["coordinator"] = inbox["coordinator"]
      /\ inbox'["worker"] \in {q, Append(q, f)}
  BY <1>1, <1>2, <1>3, TwoEnds, Sent
<1>5. /\ phase \in {"START", "DISPATCH", "READ"} /\ UNCHANGED <<phase, progress>>
      /\ UNCHANGED <<workerPhase, bootId, remaining>>
  BY DEF Ping, workload, loop, worker
<1>6. ConnectionType'
  BY <1>1, <1>4, <1>5 DEF ConnectionType
<1>7. /\ q # <<>> => inbox'["worker"] # <<>> /\ inbox'["worker"][1] = q[1]
      /\ NoneOf({"DISPATCH"}, q) => NoneOf({"DISPATCH"}, inbox'["worker"])
      /\ \A n \in Nat : OneDispatch(q, n) => OneDispatch(inbox'["worker"], n)
  <2> HIDE DEF q
  <2>1. q # <<>> => 1 \in 1..Len(q) /\ Append(q, f) # <<>>
    BY <1>1, <1>2, TailFrames
  <2>2. q # <<>> => Append(q, f)[1] = q[1]
    BY <1>1, <1>2, <2>1, AppendFrames
  <2>3. f.type \notin {"DISPATCH"} /\ f.type # "DISPATCH"
    BY <1>2
  <2>4. NoneOf({"DISPATCH"}, q) => NoneOf({"DISPATCH"}, Append(q, f))
    BY <1>1, <1>2, <2>3, NoneOfQueue
  <2>5. \A n \in Nat : OneDispatch(q, n) => OneDispatch(Append(q, f), n)
    BY <1>1, <1>2, <2>3, DispatchQueue
  <2> QED
    BY <1>4, <2>1, <2>2, <2>4, <2>5
<1>8. ConnectionInv'
  BY <1>4, <1>5, <1>6, <1>7 DEF ConnectionInv, Away, Registering, Registered
<1>9. ASSUME phase = "READ"
      PROVE  \E total \in RunningTotals(progress.completed, inbox["coordinator"])' :
                Ledger(total, inbox["coordinator"])'
  <2>1. PICK total \in RunningTotals(progress.completed, inbox["coordinator"]) :
           Ledger(total, inbox["coordinator"])
    BY <1>9 DEF WorkInv
  <2>2. total[Len(inbox["coordinator"])] \in Nat
    <3>1. inbox["coordinator"] \in Seq(Frame)
      BY <1>1, TwoEnds
    <3> QED
      BY <2>1, <3>1, Reported
  <2>3. Ledger(total, inbox["coordinator"])'
    BY <1>4, <1>5, <1>7, <2>1, <2>2 DEF Ledger, Owed
  <2> QED
    BY <1>4, <1>5, <2>1, <2>3
<1>10. WorkInv'
  BY <1>5, <1>9 DEF WorkInv
<1> QED
  BY <1>8, <1>10

(* The steps that only read, skip, give up or close.                          *)
LEMMA ConnectionKeeps ==
    ASSUME ConnectionInv, WorkInv,
           \/ SpawnFails \/ HelloTimeout \/ SkipReply \/ SeeLoss \/ ReadTimeout
           \/ CancelWorker \/ Drain \/ Shutdown \/ CloseConnection \/ Kill
    PROVE  ConnectionInv' /\ WorkInv'
<1>1. ConnectionType /\ inbox \in [Ends -> Seq(Frame)]
  BY DEF ConnectionInv, ConnectionType
<1>2. UNCHANGED progress
  BY DEF SpawnFails, HelloTimeout, SkipReply, SeeLoss, ReadTimeout, CancelWorker, Drain,
         Shutdown, CloseConnection, Kill, OnConnection, workload
<1>3. CASE HelloTimeout \/ SeeLoss \/ ReadTimeout \/ Kill
  BY <1>2, <1>3, KillKeeps DEF HelloTimeout, SeeLoss, ReadTimeout, Kill, OnConnection, Goto
<1>4. CASE SkipReply
  <2>1. /\ phase = "READ" /\ phase' = "READ" /\ UNCHANGED worker /\ Receive("coordinator")
        /\ Head(inbox["coordinator"]).type \notin {"PROGRESS", "COMPLETE"}
    BY <1>4 DEF SkipReply, OnConnection, Goto
  <2>2. Head(inbox["coordinator"]) = inbox["coordinator"][1]
    OBVIOUS
  <2>3. Reports(inbox["coordinator"][1]) = 0
    BY <2>1, <2>2 DEF Reports
  <2>4. progress.completed \in Nat
    <3>1. PICK total \in RunningTotals(progress.completed, inbox["coordinator"]) : TRUE
      BY <2>1 DEF WorkInv
    <3>2. inbox["coordinator"] \in Seq(Frame)
      BY <1>1, TwoEnds
    <3>3. 0 \in 0..Len(inbox["coordinator"])
      BY <3>2
    <3> QED
      BY <3>1, <3>3, WorkAssumption DEF RunningTotals
  <2> QED
    BY <1>2, <2>1, <2>2, <2>3, <2>4, ReadKeeps
<1>5. CASE SpawnFails \/ CancelWorker \/ Drain \/ Shutdown \/ CloseConnection
  <2>1. /\ phase' \in Over \ {"MARK", "COMMIT"}
        /\ UNCHANGED <<workerPhase, bootId, remaining>>
    BY <1>5 DEF SpawnFails, CancelWorker, Drain, Shutdown, CloseConnection, OnConnection,
                Goto, Over, worker
  <2>2. /\ inbox' \in [Ends -> Seq(Frame)] /\ open' \subseteq open
        /\ "worker" \in open' <=> "worker" \in open
    <3>1. CASE UNCHANGED transport
      BY <1>1, <3>1 DEF transport
    <3>2. CASE Receive("coordinator")
      BY <1>1, <3>2, TwoEnds, Received
    <3>3. CASE \E type \in {"CANCEL", "SHUTDOWN"} : Send("coordinator", Bare(type))
      <4>1. PICK type \in {"CANCEL", "SHUTDOWN"} : Send("coordinator", Bare(type))
        BY <3>3
      <4>2. Bare(type) \in Frame
        BY BareFrame DEF MsgType
      <4> QED
        BY <1>1, <4>1, <4>2, TwoEnds, Sent
    <3>4. CASE \E reset : Close("coordinator", reset)
      BY <1>1, <3>4, TwoEnds, Closed
    <3> QED
      BY <1>5, <3>1, <3>2, <3>3, <3>4
      DEF SpawnFails, CancelWorker, Drain, Shutdown, CloseConnection
  <2>3. ConnectionType'
    BY <1>1, <2>1, <2>2 DEF ConnectionType
  <2>4. progress'.completed <= Units
    BY <1>2 DEF WorkInv
  <2> QED
    BY <2>1, <2>2, <2>3, <2>4, OverKeeps
<1> QED
  BY <1>3, <1>4, <1>5

-----------------------------------------------------------------------------
(* The engine.                                                                *)

(* The constants of the instances W and E keep what the workload assumes.     *)
LEMMA InstanceAssumptions ==
    /\ Policies \subseteq E!Policy
    /\ NoBoot \notin Boots
    /\ MaxU64 \in Nat /\ 0..Units \subseteq 0..MaxU64
    /\ "UNKNOWN" \in {"KNOWN", "UNKNOWN"} /\ Total \in 0..MaxU64
    /\ FirstEpisodeId \in Nat \ {0} /\ EpisodeIdLimit \in Nat /\ FirstMigrationId \in Nat
    /\ FirstEpisodeId <= EpisodeIdLimit
    /\ MaxEpisodes \in Nat
BY WorkloadAssumption, WorkAssumption
DEF W!Policy, E!Policy, W!RestartKind, E!RestartKind, W!CompletionKind, E!CompletionKind

(* The instance W of the model and the instance E of its theorems have the    *)
(* same transitions, ...                                                      *)
LEMMA SameAttempt ==
    \A s, to : W!Attempt(s, to) = E!Attempt(s, to)
<1>1. \A s, to : W!canTransition(s, to) <=> E!canTransition(s, to)
  BY DEF W!canTransition, E!canTransition, W!allowedFrom, E!allowedFrom,
         W!WorkloadState, E!WorkloadState
<1>2. W!ZeroWorkStates = E!ZeroWorkStates
  BY DEF W!ZeroWorkStates, E!ZeroWorkStates
<1>3. \A s, to : W!TransitionVerdict(s, to) = E!TransitionVerdict(s, to)
  BY <1>1, <1>2
  DEF W!TransitionVerdict, E!TransitionVerdict, W!isTerminal, E!isTerminal
<1> QED
  BY <1>3 DEF W!Attempt, E!Attempt

(* ... so the same chains of them, ...                                        *)
LEMMA SameThen ==
    \A r, to : W!Then(r, to) = E!Then(r, to)
BY SameAttempt DEF W!Then, E!Then

(* ... the same frames of the operations, ...                                 *)
LEMMA SameFrames ==
    /\ \A r : W!Move(r) <=> E!Move(r)
    /\ \A r, eps : W!MoveWith(r, eps) <=> E!MoveWith(r, eps)
    /\ \A o : W!Reject(o) <=> E!Reject(o)
    /\ \A s : W!isTerminal(s) <=> E!isTerminal(s)
    /\ \A s : W!isCancelling(s) <=> E!isCancelling(s)
    /\ W!Stay = E!Stay
    /\ \A id : W!Lookup(id) = E!Lookup(id)
    /\ W!CurrentEpisode = E!CurrentEpisode
    /\ \A i, e : W!WithEpisode(i, e) = E!WithEpisode(i, e)
<1> USE DEF W!Finish, E!Finish, W!lineage, E!lineage, W!cancel, E!cancel, W!setup, E!setup,
            W!aggregate, E!aggregate
<1>1. /\ \A r : W!Move(r) <=> E!Move(r)
      /\ \A r, eps : W!MoveWith(r, eps) <=> E!MoveWith(r, eps)
      /\ \A o : W!Reject(o) <=> E!Reject(o)
  BY DEF W!Move, E!Move, W!MoveWith, E!MoveWith, W!Reject, E!Reject
<1>2. /\ \A s : W!isTerminal(s) <=> E!isTerminal(s)
      /\ \A s : W!isCancelling(s) <=> E!isCancelling(s)
      /\ W!Stay = E!Stay
  BY DEF W!isTerminal, E!isTerminal, W!isCancelling, E!isCancelling, W!Stay, E!Stay
<1>3. /\ \A id : W!Lookup(id) = E!Lookup(id)
      /\ W!CurrentEpisode = E!CurrentEpisode
      /\ \A i, e : W!WithEpisode(i, e) = E!WithEpisode(i, e)
  BY DEF W!Lookup, E!Lookup, W!CurrentEpisode, E!CurrentEpisode, W!WithEpisode, E!WithEpisode
<1> QED
  BY <1>1, <1>2, <1>3

(* ... and so the same operations.                                            *)
LEMMA SameOperations ==
    /\ W!EditContract <=> E!EditContract
    /\ W!Validate <=> E!Validate
    /\ W!Settle <=> E!Settle
    /\ W!StartEpisode <=> E!StartEpisode
    /\ \A id, boot : W!AdmitDispatch(id, boot) <=> E!AdmitDispatch(id, boot)
    /\ \A id, delta : W!ReportProgress(id, 1, delta, TRUE) <=> E!ReportProgress(id, 1, delta, TRUE)
    /\ \A boot, g : W!OnWorkerLost(boot, g) <=> E!OnWorkerLost(boot, g)
    /\ \A reason, g : W!PlanRestart(reason, g) <=> E!PlanRestart(reason, g)
    /\ \A id : W!MarkEpisodeCompleted(id) <=> E!MarkEpisodeCompleted(id)
    /\ \A g : W!CommitCompletion(g) <=> E!CommitCompletion(g)
    /\ \A g : W!RequestCancellation(g) <=> E!RequestCancellation(g)
    /\ \A g : W!CompleteCancellation(g) <=> E!CompleteCancellation(g)
<1> USE DEF W!Finish, E!Finish, W!lineage, E!lineage, W!cancel, E!cancel, W!setup, E!setup,
            W!aggregate, E!aggregate, W!Fenced, E!Fenced
<1>1. /\ W!EditContract <=> E!EditContract
      /\ W!Validate <=> E!Validate
      /\ W!Settle <=> E!Settle
  BY SameFrames, SameAttempt
  DEF W!EditContract, E!EditContract, W!Validate, E!Validate, W!Settle, E!Settle,
      W!SettleTarget, E!SettleTarget
<1>2. W!StartEpisode <=> E!StartEpisode
  <2>1. W!StartVerdict = E!StartVerdict
    BY SameFrames DEF W!StartVerdict, E!StartVerdict, W!ResumeEligible, E!ResumeEligible
  <2>2. \A id, st, boot : W!Incarnate(id, st, boot) <=> E!Incarnate(id, st, boot)
    BY DEF W!Incarnate, E!Incarnate, W!Supersede, E!Supersede
  <2> QED
    BY <2>1, <2>2, SameAttempt, SameThen
    DEF W!StartEpisode, E!StartEpisode, W!RefuseStart, E!RefuseStart
<1>3. \A id, boot : W!AdmitDispatch(id, boot) <=> E!AdmitDispatch(id, boot)
  BY SameFrames, SameAttempt DEF W!AdmitDispatch, E!AdmitDispatch
<1>4. \A id, delta : W!ReportProgress(id, 1, delta, TRUE) <=> E!ReportProgress(id, 1, delta, TRUE)
  <2>1. \A i, delta : W!ProgressVerdict(i, 1, delta) = E!ProgressVerdict(i, 1, delta)
    BY SameFrames
    DEF W!ProgressVerdict, E!ProgressVerdict, W!EpisodeGeneration, E!EpisodeGeneration,
        W!OverCommits, E!OverCommits, W!Overflows, E!Overflows, W!Plus, E!Plus
  <2>2. \A p, delta, durable : W!Advance(p, delta, durable) = E!Advance(p, delta, durable)
    BY DEF W!Advance, E!Advance, W!Plus, E!Plus
  <2> QED
    BY <2>1, <2>2, SameFrames DEF W!ReportProgress, E!ReportProgress
<1>5. \A boot, g : W!OnWorkerLost(boot, g) <=> E!OnWorkerLost(boot, g)
  BY SameFrames, SameAttempt DEF W!OnWorkerLost, E!OnWorkerLost
<1>6. \A reason, g : W!PlanRestart(reason, g) <=> E!PlanRestart(reason, g)
  <2>1. \A kind : W!RestartReasonsOf(kind) = E!RestartReasonsOf(kind)
    BY DEF W!RestartReasonsOf, E!RestartReasonsOf, W!RestartReason, E!RestartReason
  <2> QED
    BY <2>1, SameFrames, SameAttempt
    DEF W!PlanRestart, E!PlanRestart, W!restartAllowed, E!restartAllowed
<1>7. \A id : W!MarkEpisodeCompleted(id) <=> E!MarkEpisodeCompleted(id)
  BY SameFrames
  DEF W!MarkEpisodeCompleted, E!MarkEpisodeCompleted, W!MarkEpisode, E!MarkEpisode
<1>8. \A g : W!CommitCompletion(g) <=> E!CommitCompletion(g)
  <2>1. W!CompletionCriterion <=> E!CompletionCriterion
    BY SameFrames
    DEF W!CompletionCriterion, E!CompletionCriterion, W!ProgressComplete, E!ProgressComplete
  <2> QED
    BY <2>1, SameFrames, SameAttempt, SameThen
    DEF W!CommitCompletion, E!CommitCompletion, W!CancelFirst, E!CancelFirst
<1>9. \A g : W!RequestCancellation(g) <=> E!RequestCancellation(g)
  BY SameFrames, SameAttempt DEF W!RequestCancellation, E!RequestCancellation
<1>10. \A g : W!CompleteCancellation(g) <=> E!CompleteCancellation(g)
  BY SameFrames, SameAttempt, SameThen DEF W!CompleteCancellation, E!CompleteCancellation
<1> QED
  BY <1>1, <1>2, <1>3, <1>4, <1>5, <1>6, <1>7, <1>8, <1>9, <1>10

(* The calls of the loop and of the user, but for the reports.                *)
LoopCall ==
    \/ E!EditContract \/ E!Validate \/ E!Settle
    \/ phase = "START" /\ E!StartEpisode
    \/ phase = "ADMIT" /\ E!AdmitDispatch(held.episode, bootId)
    \/ phase = "LOST" /\ E!OnWorkerLost(bootId, held.generation)
    \/ phase = "RESTART" /\ E!PlanRestart("WORKER_LOSS", held.generation)
    \/ phase = "MARK" /\ E!MarkEpisodeCompleted(held.episode)
    \/ phase = "COMMIT" /\ E!CommitCompletion(held.generation)

UserCall ==
    \/ user = "CANCEL" /\ E!RequestCancellation(userHeld)
    \/ user = "FINISH" /\ E!CompleteCancellation(userHeld)

(* Each presents a generation and an episode the engine has had.              *)
LEMMA CallsEngine ==
    ASSUME E!TypeOK, CallersInv, ConnectionInv, LoopCall \/ UserCall
    PROVE  E!EngineNext /\ progress' = progress
<1>1. /\ held.episode \in E!KnownIds
      /\ phase \in Holding => held.generation \in E!PastGenerations
      /\ user \in {"CANCEL", "FINISH"} => userHeld \in E!PastGenerations
  BY DEF CallersInv, E!PastGenerations, E!TypeOK
<1>2. /\ phase \in {"ADMIT", "LOST"} => bootId \in Boots
      /\ "WORKER_LOSS" \in E!RestartReason
  BY DEF ConnectionInv, Registered, E!RestartReason
<1>3. E!EngineNext
  BY <1>1, <1>2 DEF LoopCall, UserCall, E!EngineNext, E!LifecycleNext, Holding
<1>4. progress' = progress
  BY <1>2, E!OnlyReportsBook, InstanceAssumptions DEF LoopCall, UserCall
<1> QED
  BY <1>3, <1>4

(* The steps of the loop that are one call and its move.                      *)
LEMMA LoopCalls ==
    ASSUME Prepare \/ Start \/ Admit \/ ReportLoss \/ PlanRestart \/ Complete
    PROVE  /\ LoopCall /\ CallMove /\ UNCHANGED <<caller, worker, transport>>
           /\ phase # "START" => UNCHANGED held
<1>1. CASE Prepare
  BY <1>1, SameOperations DEF Prepare, Grant, Call, Goto, LoopCall, CallMove
<1>2. CASE Start
  BY <1>2, SameOperations DEF Start, LoopCall, CallMove
<1>3. CASE Admit \/ ReportLoss \/ PlanRestart \/ Complete
  BY <1>3, SameOperations
  DEF Admit, ReportLoss, PlanRestart, Complete, Call, Goto, LoopCall, CallMove
<1> QED
  BY <1>1, <1>2, <1>3

(* What the two threads hold stays true while the engine moves.               *)
LEMMA CallersKeep ==
    ASSUME E!TypeOK, E!LifecycleInv, CallersInv, [E!EngineNext]_E!vars,
           held' = held, phase' \in LoopPhase, phase' \in Holding => phase \in Holding,
           user' \in UserPhase, userHeld' \in {userHeld, generation},
           user' \in {"CANCEL", "FINISH"} => userHeld' # 0,
           user' = "FINISH" => user = "FINISH" \/ state' = "CANCELLATION_REQUESTED"
    PROVE  CallersInv'
<1>1. [E!Next]_E!vars
  BY DEF E!Next
<1>2. /\ \A id \in E!KnownIds : id \in E!KnownIds'
      /\ generation \in Nat /\ generation' \in Nat /\ generation' >= generation
  BY <1>1, E!KnowledgeStays, InstanceAssumptions
<1>3. /\ held.episode \in E!KnownIds' /\ generation' # 0
      /\ held' \in [episode : 0..EpisodeIdLimit, generation : 0..generation']
      /\ phase' \in Holding => held'.generation # 0
      /\ userHeld' \in 0..generation'
  BY <1>2 DEF CallersInv
<1>4. ASSUME user = "FINISH"
      PROVE  state' \in {"CANCELLATION_REQUESTED", "COMPLETED", "CANCELLED"}
  <2>1. state \in {"CANCELLATION_REQUESTED", "COMPLETED", "CANCELLED"}
    BY <1>4 DEF CallersInv
  <2>2. E!EngineStep
    BY E!EngineSteps, InstanceAssumptions
  <2> QED
    BY <2>1, <2>2
    DEF E!EngineStep, E!Idle, E!Admit, E!Execute, E!Complete, E!Withdraw, E!Ask, E!Conclude,
        E!BeforeExecution, E!Executing
<1> QED
  BY <1>3, <1>4 DEF CallersInv

-----------------------------------------------------------------------------
(* Every step.                                                                *)

(* A step is one of the engine's or hidden from it, and keeps what is said of *)
(* the callers, the connection and the work.                                  *)
StepKept == [E!EngineNext]_E!vars /\ CallersInv' /\ ConnectionInv' /\ WorkInv'

(* A step that leaves the workload alone is hidden from the engine.           *)
LEMMA HiddenStep ==
    ASSUME UNCHANGED workload
    PROVE  [E!EngineNext]_E!vars /\ UNCHANGED <<state, progress, generation>>
BY DEF workload, E!vars, E!aggregate, E!lineage, E!cancel, E!setup

(* A call of the loop.                                                        *)
LEMMA LoopCallKept ==
    ASSUME CoordinatorInv,
           Prepare \/ Start \/ Admit \/ ReportLoss \/ PlanRestart \/ Complete
    PROVE  StepKept
<1>1. /\ LoopCall /\ CallMove /\ UNCHANGED <<caller, worker, transport>>
      /\ phase # "START" => UNCHANGED held
  BY LoopCalls
<1>2. E!EngineNext /\ progress' = progress
  BY <1>1, CallsEngine DEF CoordinatorInv
<1>3. ConnectionInv' /\ WorkInv'
  BY <1>1, <1>2, CallKeeps DEF CoordinatorInv
<1>4. UNCHANGED <<user, userHeld>>
  BY <1>1 DEF caller
<1>5. phase' \in LoopPhase /\ (phase = "START" \/ (phase' \in Holding => phase \in Holding))
  BY <1>1 DEF CallMove, CoordinatorInv, CallersInv, LoopPhase, Holding
<1>6. CASE phase # "START" \/ (phase' = "CANCEL" /\ UNCHANGED held)
  <2>1. UNCHANGED held /\ (phase' \in Holding => phase \in Holding)
    BY <1>1, <1>5, <1>6 DEF Holding
  <2> QED
    BY <1>2, <1>3, <1>4, <1>5, <2>1, CallersKeep DEF CoordinatorInv, CallersInv, StepKept
<1>7. CASE /\ phase = "START" /\ E!StartEpisode /\ outcome' = "ALLOW" /\ phase' = "ADMIT"
           /\ held' = [episode |-> episodeCounter, generation |-> generation']
  <2>1. /\ episodeCounter \in E!KnownIds' /\ episodeCounter \in 0..EpisodeIdLimit
        /\ generation' \in Nat \ {0} /\ generation' = generation + 1
    BY <1>7, E!StartedIsKnown, InstanceAssumptions DEF CoordinatorInv
  <2>2. /\ held'.episode \in E!KnownIds' /\ held'.generation # 0 /\ generation' # 0
        /\ held' \in [episode : 0..EpisodeIdLimit, generation : 0..generation']
    BY <1>7, <2>1
  <2>3. userHeld' \in 0..generation'
    <3>1. userHeld \in 0..generation /\ userHeld' = userHeld
      BY <1>4 DEF CoordinatorInv, CallersInv
    <3>2. generation \in Nat
      BY DEF CoordinatorInv, E!TypeOK
    <3> QED
      BY <2>1, <3>1, <3>2
  <2>4. ASSUME user = "FINISH" PROVE FALSE
    <3>1. state \in {"CANCELLATION_REQUESTED", "COMPLETED", "CANCELLED"}
      BY <2>4 DEF CoordinatorInv, CallersInv
    <3>2. E!StartVerdict = "ALLOW"
      BY <1>7 DEF E!StartEpisode, E!RefuseStart
    <3> QED
      BY <3>1, <3>2 DEF E!StartVerdict, E!isCancelling, E!isTerminal
  <2>5. CallersInv'
    BY <1>4, <1>5, <2>2, <2>3, <2>4 DEF CoordinatorInv, CallersInv
  <2> QED
    BY <1>2, <1>3, <2>5 DEF StepKept
<1>8. CASE Start
  BY <1>6, <1>7, <1>8, SameOperations DEF Start
<1>9. CASE ~Start
  <2>1. phase # "START"
    BY <1>9 DEF Prepare, Admit, ReportLoss, PlanRestart, Complete, Call
  <2> QED
    BY <1>6, <2>1
<1> QED
  BY <1>8, <1>9

(* What the worker reports is part of the job.                                *)
LEMMA BookReports ==
    ASSUME CoordinatorInv, BookProgress
    PROVE  \E value \in 0..Units :
              /\ value = Reports(inbox["coordinator"][1])
              /\ E!ReportProgress(held.episode, 1, value, TRUE)
<1> DEFINE c == inbox["coordinator"]
           value == c[1].value
<1>1. c \in Seq(Frame) /\ c # <<>> /\ phase = "READ"
  BY TwoEnds DEF CoordinatorInv, ConnectionInv, ConnectionType, BookProgress, Receive
<1>2. Head(c) = c[1] /\ c[1] \in Frame /\ c[1].type = "PROGRESS"
  BY <1>1, TailFrames DEF BookProgress
<1>3. E!ReportProgress(held.episode, 1, value, TRUE)
  BY <1>2, SameOperations DEF BookProgress
<1>4. Reports(c[1]) = value /\ value \in Nat
  BY <1>2 DEF Reports, Frame
<1>5. value \in 0..Units
  <2>1. PICK total \in RunningTotals(progress.completed, c) : Ledger(total, c)
    BY <1>1 DEF CoordinatorInv, WorkInv
  <2>2. \A i \in 1..Len(c) : c[i].type = "COMPLETE" => total[i] = Units
    BY <2>1 DEF Ledger
  <2>3. /\ progress.completed \in 0..Units /\ total[1] \in 0..Units
        /\ progress.completed + Reports(c[1]) = total[1]
    <3> HIDE DEF c, value
    <3> QED
      BY <1>1, <2>1, <2>2, LedgerShrinks
  <2> QED
    BY <1>4, <2>3, WorkAssumption
<1> QED
  BY <1>3, <1>4, <1>5

(* A report the loop books, or reads and is refused.                          *)
LEMMA BookKept ==
    ASSUME CoordinatorInv, BookProgress
    PROVE  StepKept
<1> DEFINE c == inbox["coordinator"]
<1>1. /\ ConnectionType /\ inbox \in [Ends -> Seq(Frame)] /\ c \in Seq(Frame) /\ c # <<>>
      /\ phase = "READ" /\ UNCHANGED <<caller, worker>> /\ Receive("coordinator")
      /\ phase' = (IF outcome' = "ALLOW" THEN "READ" ELSE "CANCEL") /\ UNCHANGED held
  BY TwoEnds DEF CoordinatorInv, ConnectionInv, ConnectionType, BookProgress, Receive, Goto
<1>2. Head(c) = c[1] /\ c[1].type = "PROGRESS"
  BY <1>1, TailFrames DEF BookProgress
<1>3. PICK value \in 0..Units :
         value = Reports(c[1]) /\ E!ReportProgress(held.episode, 1, value, TRUE)
  BY BookReports
<1>4. held.episode \in E!KnownIds /\ TRUE \in BOOLEAN /\ 1 \in {1, 2}
  BY DEF CoordinatorInv, CallersInv
<1>5. E!EngineNext
  BY <1>3, <1>4 DEF E!EngineNext, E!LifecycleNext
<1>6. /\ state' = state
      /\ \/ progress' = progress /\ outcome' # "ALLOW"
         \/ progress'.completed = progress.completed + value /\ outcome' = "ALLOW"
  BY <1>3, E!ReportBooks, InstanceAssumptions DEF CoordinatorInv
<1>7. CallersInv'
  <2>1. UNCHANGED <<user, userHeld>>
    BY <1>1 DEF caller
  <2>2. phase' \in LoopPhase /\ phase \in Holding
    BY <1>1 DEF LoopPhase, Holding
  <2> QED
    BY <1>1, <1>5, <2>1, <2>2, CallersKeep DEF CoordinatorInv, CallersInv
<1>8. ConnectionInv' /\ WorkInv'
  <2>1. CASE outcome' = "ALLOW"
    <3>1. phase' = "READ" /\ progress'.completed = progress.completed + Reports(c[1])
      BY <1>1, <1>3, <1>6, <2>1
    <3> QED
      BY <1>1, <1>2, <3>1, ReadKeeps DEF CoordinatorInv
  <2>2. CASE outcome' # "ALLOW"
    <3>1. phase' \in Over \ {"MARK", "COMMIT"} /\ progress' = progress
      BY <1>1, <1>6, <2>2 DEF Over
    <3>2. open' = open /\ inbox' \in [Ends -> Seq(Frame)]
      BY <1>1, TwoEnds, Received
    <3>3. ConnectionType' /\ UNCHANGED workerPhase
      BY <1>1, <3>2 DEF ConnectionType, worker
    <3>4. progress'.completed <= Units
      BY <3>1 DEF CoordinatorInv, WorkInv
    <3> QED
      BY <3>1, <3>2, <3>3, <3>4, OverKeeps DEF CoordinatorInv
  <2> QED
    BY <2>1, <2>2
<1> QED
  BY <1>5, <1>7, <1>8 DEF StepKept

(* A step of the user.                                                        *)
LEMMA UserKept ==
    ASSUME CoordinatorInv, UserStep \/ WantCancel
    PROVE  StepKept
<1>1. /\ UNCHANGED <<phase, held, worker, transport>> /\ CallMove
      /\ user' \in UserPhase /\ userHeld' \in {userHeld, generation}
  BY DEF CoordinatorInv, CallersInv, UserStep, WantCancel, Look, RequestCancel, FinishCancel,
         UserGoto, loop, CallMove, UserPhase
<1>2. user' \in {"CANCEL", "FINISH"} => userHeld' # 0
  <2>1. generation # 0 /\ (user \in {"CANCEL", "FINISH"} => userHeld # 0)
    BY DEF CoordinatorInv, CallersInv
  <2> QED
    BY <2>1 DEF UserStep, WantCancel, Look, RequestCancel, FinishCancel, UserGoto
<1>3. user' = "FINISH" => state' = "CANCELLATION_REQUESTED"
  <2>1. CASE RequestCancel
    <3> SUFFICES ASSUME user' = "FINISH" PROVE state' = "CANCELLATION_REQUESTED"
      OBVIOUS
    <3>1. E!RequestCancellation(userHeld) /\ outcome' = "ALLOW"
      BY <2>1, SameOperations DEF RequestCancel, UserGoto
    <3> QED
      BY <3>1, E!AcceptedIsPending, InstanceAssumptions DEF CoordinatorInv
  <2>2. CASE ~RequestCancel
    BY <2>2 DEF UserStep, WantCancel, Look, FinishCancel, UserGoto
  <2> QED
    BY <2>1, <2>2
<1>4. [E!EngineNext]_E!vars /\ progress' = progress
  <2>1. CASE UserCall
    BY <2>1, CallsEngine DEF CoordinatorInv
  <2>2. CASE UNCHANGED workload
    BY <2>2, HiddenStep
  <2> QED
    BY <2>1, <2>2, SameOperations
    DEF UserStep, WantCancel, Look, RequestCancel, FinishCancel, UserCall
<1>5. ConnectionInv' /\ WorkInv'
  BY <1>1, <1>4, CallKeeps DEF CoordinatorInv
<1>6. CallersInv'
  BY <1>1, <1>2, <1>3, <1>4, CallersKeep DEF CoordinatorInv, CallersInv
<1> QED
  BY <1>4, <1>5, <1>6 DEF StepKept

(* A step the engine does not see keeps what the callers hold.                *)
LEMMA HiddenKept ==
    ASSUME CoordinatorInv, UNCHANGED <<workload, caller, held>>,
           phase' \in LoopPhase, phase' \in Holding => phase \in Holding,
           ConnectionInv', WorkInv'
    PROVE  StepKept
<1>1. [E!EngineNext]_E!vars
  BY HiddenStep
<1>2. UNCHANGED <<user, userHeld>>
  BY DEF caller
<1>3. CallersInv'
  BY <1>1, <1>2, CallersKeep DEF CoordinatorInv, CallersInv
<1> QED
  BY <1>1, <1>3 DEF StepKept

(* A step of the loop on its connection.                                      *)
LEMMA ConnectionKept ==
    ASSUME CoordinatorInv,
           \/ Spawn \/ SpawnFails \/ AwaitHello \/ HelloTimeout \/ Acknowledge \/ Dispatch
           \/ SeeComplete \/ SkipReply \/ Ping \/ SeeLoss \/ ReadTimeout
           \/ CancelWorker \/ Drain \/ Shutdown \/ CloseConnection \/ Kill
    PROVE  StepKept
<1>1. /\ UNCHANGED <<workload, caller, held>>
      /\ phase' \in LoopPhase /\ (phase' \in Holding => phase \in Holding)
  <2>1. CASE Spawn \/ SpawnFails \/ AwaitHello \/ HelloTimeout \/ Acknowledge
    BY <2>1 DEF Spawn, SpawnFails, AwaitHello, HelloTimeout, Acknowledge, OnConnection, Goto,
                LoopPhase, Holding
  <2>2. CASE Dispatch \/ SeeComplete \/ SkipReply \/ SeeLoss \/ ReadTimeout
    BY <2>2 DEF Dispatch, SeeComplete, SkipReply, SeeLoss, ReadTimeout, OnConnection, Goto,
                LoopPhase, Holding
  <2>3. CASE CancelWorker \/ Drain \/ Shutdown \/ CloseConnection \/ Kill
    BY <2>3 DEF CancelWorker, Drain, Shutdown, CloseConnection, Kill, OnConnection, Goto,
                LoopPhase, Holding
  <2>4. CASE Ping
    BY <2>4 DEF Ping, loop, LoopPhase
  <2> QED
    BY <2>1, <2>2, <2>3, <2>4
<1>2. progress.completed \in Nat
  BY DEF CoordinatorInv, E!TypeOK, E!Progress
<1>3. ConnectionInv' /\ WorkInv'
  BY <1>2, SpawnKeeps, HelloKeeps, AcknowledgeKeeps, DispatchKeeps, SeeCompleteKeeps,
     PingKeeps, ConnectionKeeps
  DEF CoordinatorInv
<1> QED
  BY <1>1, <1>3, HiddenKept

(* A step of the worker.                                                      *)
LEMMA WorkerKept ==
    ASSUME CoordinatorInv, OfWorker(WorkerStep) \/ OfWorker(AckTimeout) \/ OfWorker(Crash)
    PROVE  StepKept
<1>1. UNCHANGED <<workload, loop, caller>> /\ (WorkerStep \/ AckTimeout \/ Crash)
  BY DEF OfWorker
<1>2. ConnectionInv' /\ WorkInv'
  BY <1>1, WorkerKeeps DEF CoordinatorInv
<1>3. phase' = phase /\ held' = held /\ phase' \in LoopPhase
  BY <1>1 DEF loop, CoordinatorInv, CallersInv
<1> QED
  BY <1>1, <1>2, <1>3, HiddenKept

(* Every step is a step of the engine or hidden from it, and keeps the        *)
(* invariant.                                                                 *)
LEMMA CoordinatorStep ==
    ASSUME CoordinatorInv, [CoordinatorNext]_coordinatorVars
    PROVE  [E!EngineNext]_E!vars /\ CoordinatorInv'
<1>1. StepKept
  <2>1. CASE UNCHANGED coordinatorVars
    <3>1. UNCHANGED <<workload, caller, held, phase, progress, worker, transport>>
      BY <2>1 DEF coordinatorVars, loop, workload
    <3>2. CallMove /\ phase' \in LoopPhase
      BY <3>1 DEF CallMove, CoordinatorInv, CallersInv
    <3>3. ConnectionInv' /\ WorkInv'
      BY <3>1, <3>2, CallKeeps DEF CoordinatorInv
    <3> QED
      BY <3>1, <3>2, <3>3, HiddenKept
  <2>2. CASE CoordinatorNext
    BY <2>2, LoopCallKept, BookKept, UserKept, ConnectionKept, WorkerKept
    DEF CoordinatorNext, LoopStep
  <2> QED
    BY <2>1, <2>2
<1>2. E!TypeOK'
  <2>1. [E!Next]_E!vars
    BY <1>1 DEF StepKept, E!Next
  <2> QED
    BY <2>1, E!TypeStep, InstanceAssumptions DEF CoordinatorInv
<1>3. E!LifecycleInv'
  <2>1. E!EngineStep
    BY <1>1, E!EngineSteps, InstanceAssumptions DEF CoordinatorInv, StepKept
  <2> QED
    BY <2>1, E!StepKeepsLifecycle, InstanceAssumptions DEF CoordinatorInv
<1> QED
  BY <1>1, <1>2, <1>3 DEF CoordinatorInv, StepKept

-----------------------------------------------------------------------------
(* The theorems.                                                              *)

(* Nothing is held, connected or booked at the start.                         *)
LEMMA CoordinatorStart ==
    ASSUME CoordinatorInit
    PROVE  E!Init /\ CoordinatorInv
<1>1. E!Init
  BY DEF CoordinatorInit, W!Init, E!Init, W!Counters, E!Counters
<1>2. E!TypeOK
  BY <1>1, E!InitType, InstanceAssumptions
<1>3. E!LifecycleInv
  BY <1>1 DEF E!Init, E!LifecycleInv, E!NeverHalfway, E!OneTerminalWinner
<1>4. CallersInv
  <2>1. held = [episode |-> 0, generation |-> 0] /\ generation = 1 /\ userHeld = 0
    BY DEF CoordinatorInit, W!Init
  <2>2. 0 \in E!KnownIds /\ 0 \in 0..EpisodeIdLimit
    BY WorkloadAssumption DEF E!KnownIds, E!NoEpisode
  <2>3. phase = "GRANT" /\ user = "IDLE"
    BY DEF CoordinatorInit
  <2> QED
    BY <2>1, <2>2, <2>3 DEF CallersInv, LoopPhase, UserPhase, Holding
<1>5. /\ workerPhase = "EXITED" /\ bootId = NoBoot /\ remaining = 0
      /\ inbox \in [Ends -> Seq(Frame)] /\ open = {} /\ phase = "GRANT"
  <2>1. <<>> \in Seq(Frame)
    OBVIOUS
  <2> QED
    BY <2>1, WorkloadAssumption DEF CoordinatorInit, NoConnection, NoWorker
<1>6. ConnectionInv
  <2>1. ConnectionType
    BY <1>5, WorkAssumption DEF ConnectionType, WorkerPhase
  <2> QED
    BY <1>5, <2>1 DEF ConnectionInv, Away, Registering, Registered
<1>7. WorkInv
  BY <1>1, <1>5, WorkAssumption DEF WorkInv, E!Init
<1> QED
  BY <1>1, <1>2, <1>3, <1>4, <1>6, <1>7 DEF CoordinatorInv

(* The engine's types and lifecycle, the knowledge of loop and user, the      *)
(* state of the connection and the ledger of the work hold together, however  *)
(* the steps of loop, user, worker and faults interleave.                     *)
THEOREM CoordinatorCorrect == CoordinatorSpec => []CoordinatorInv
<1>1. CoordinatorInit => CoordinatorInv
  BY CoordinatorStart
<1>2. CoordinatorInv /\ [CoordinatorNext]_coordinatorVars => CoordinatorInv'
  BY CoordinatorStep
<1> QED
  BY <1>1, <1>2, PTL DEF CoordinatorSpec

(* The engine in the composition is the engine of EngineProofs: whatever is   *)
(* proved there for every caller holds of the loop and the user of            *)
(* tests/mp_proof.cpp and tests/concurrency.cpp.                              *)
THEOREM EngineInside == CoordinatorSpec => E!EngineSpec
<1>1. CoordinatorInit => E!Init
  BY CoordinatorStart
<1>2. CoordinatorInv /\ [CoordinatorNext]_coordinatorVars => [E!EngineNext]_E!vars
  BY CoordinatorStep
<1> QED
  BY <1>1, <1>2, CoordinatorCorrect, PTL DEF CoordinatorSpec, E!EngineSpec

(* The types of the two instances are the same.                               *)
LEMMA SameTypes ==
    E!TypeOK => W!TypeOK
<1>1. E!Progress = W!Progress /\ E!EpisodeState = W!EpisodeState
  BY DEF E!Progress, W!Progress, E!EpisodeState, W!EpisodeState
<1>2. E!Episode = W!Episode
  BY <1>1 DEF E!Episode, W!Episode
<1>3. E!WorkloadState = W!WorkloadState /\ E!Outcome = W!Outcome
  BY DEF E!WorkloadState, W!WorkloadState, E!Outcome, W!Outcome
<1> QED
  BY <1>1, <1>2, <1>3 DEF E!TypeOK, W!TypeOK

(* Workload, loop, user, worker and connection keep their types: the worker   *)
(* never computes more than the job, and no generation is read before the     *)
(* engine has given it.                                                       *)
THEOREM CoordinatorTypeCorrect == CoordinatorSpec => []CoordinatorTypeOK
<1>1. CoordinatorInv => CoordinatorTypeOK
  BY SameTypes
  DEF CoordinatorInv, CallersInv, ConnectionInv, ConnectionType, CoordinatorTypeOK
<1> QED
  BY <1>1, CoordinatorCorrect, PTL

(* No unit of work is lost or booked twice, whenever a worker dies and        *)
(* however many frames it has on its way then.                                *)
THEOREM WorkConservedCorrect == CoordinatorSpec => []WorkConserved
<1>1. ASSUME WorkInv PROVE WorkConserved
  <2> DEFINE c == inbox["coordinator"]
  <2> SUFFICES ASSUME phase = "READ"
               PROVE  \E total \in RunningTotals(progress.completed, c) :
                         LET reported == total[Len(c)]
                         IN  \/ workerPhase = "EXITED"
                             \/ workerPhase = "COMPUTING" /\ reported + remaining = Units
                             \/ Contains(inbox["worker"],
                                         [type |-> "DISPATCH", value |-> reported])
                             \/ Contains(c, Bare("COMPLETE")) /\ reported = Units
    BY DEF WorkConserved
  <2>1. PICK total \in RunningTotals(progress.completed, c) : Ledger(total, c)
    BY <1>1 DEF WorkInv
  <2>2. Owed(total[Len(c)])
    BY <2>1 DEF Ledger
  <2> QED
    BY <2>1, <2>2 DEF Owed, OneDispatch, Contains
<1>2. CoordinatorInv => WorkConserved
  BY <1>1 DEF CoordinatorInv
<1> QED
  BY <1>2, CoordinatorCorrect, PTL

(* A step that books nothing ends the job only when all of it is booked or    *)
(* its cancellation was accepted.                                             *)
LEMMA QuietJobStep ==
    ASSUME E!LifecycleInv, [E!EngineNext]_E!vars, progress' = progress,
           state' = "COMPLETED" /\ state # state' => progress.completed = Units,
           state' = "CANCELLED" /\ state # state' => state = "CANCELLATION_REQUESTED"
    PROVE  [Job!Next]_Job!job
<1> DEFINE Open == E!BeforeExecution \cup E!Executing
<1>1. E!EngineStep
  BY E!EngineSteps, InstanceAssumptions
<1>2. \/ state' = state \/ (state \in Open /\ state' \in Open)
      \/ /\ state \in Open \cup {"CANCELLATION_REQUESTED"}
         /\ state' \in {"COMPLETED", "CANCELLED", "CANCELLATION_REQUESTED"}
  BY <1>1
  DEF E!EngineStep, E!Idle, E!Admit, E!Execute, E!Complete, E!Withdraw, E!Ask, E!Conclude,
      E!BeforeExecution, E!Executing
<1>3. /\ state \in Open => JobStatus = "OPEN"
      /\ state = "CANCELLATION_REQUESTED" => JobStatus = "CANCELLING"
      /\ state' \in Open => JobStatus' = "OPEN"
      /\ state' = "COMPLETED" => JobStatus' = "COMPLETED"
      /\ state' = "CANCELLED" => JobStatus' = "CANCELLED"
      /\ state' = "CANCELLATION_REQUESTED" => JobStatus' = "CANCELLING"
  BY DEF JobStatus, W!isCancelling, E!BeforeExecution, E!Executing
<1>4. CASE state' = state
  BY <1>4 DEF Job!job, JobStatus, W!isCancelling
<1>5. CASE state \in Open /\ state' \in Open
  BY <1>3, <1>5 DEF Job!job
<1>6. CASE /\ state' # state /\ state \in Open \cup {"CANCELLATION_REQUESTED"}
           /\ state' \in {"COMPLETED", "CANCELLED", "CANCELLATION_REQUESTED"}
  BY <1>3, <1>6 DEF Job!Next, Job!Complete, Job!Cancel, Job!AcceptCancel
<1> QED
  BY <1>2, <1>4, <1>5, <1>6

(* A call that ends the job finds all of it booked, or its cancellation       *)
(* accepted.                                                                  *)
LEMMA CallJobStep ==
    ASSUME CoordinatorInv, LoopCall \/ UserCall
    PROVE  [Job!Next]_Job!job
<1>1. E!EngineNext /\ progress' = progress
  BY CallsEngine DEF CoordinatorInv
<1>2. ASSUME state' = "COMPLETED", state # state' PROVE progress.completed = Units
  <2>1. phase = "COMMIT"
    BY <1>2, E!EnteredBy, InstanceAssumptions DEF LoopCall, UserCall
  <2> QED
    BY <2>1 DEF CoordinatorInv, WorkInv
<1>3. ASSUME state' = "CANCELLED", state # state' PROVE state = "CANCELLATION_REQUESTED"
  <2>1. user = "FINISH"
    BY <1>3, E!EnteredBy, InstanceAssumptions DEF LoopCall, UserCall
  <2>2. state \in {"CANCELLATION_REQUESTED", "COMPLETED", "CANCELLED"}
    BY <2>1 DEF CoordinatorInv, CallersInv
  <2>3. E!EngineStep
    BY <1>1, E!EngineSteps, InstanceAssumptions DEF CoordinatorInv
  <2> QED
    BY <1>3, <2>2, <2>3
    DEF E!EngineStep, E!Idle, E!Admit, E!Execute, E!Complete, E!Withdraw, E!Ask, E!Conclude,
        E!BeforeExecution, E!Executing
<1> QED
  BY <1>1, <1>2, <1>3, QuietJobStep DEF CoordinatorInv

(* A report that is booked finds the job open and something left of it.       *)
LEMMA BookJobStep ==
    ASSUME CoordinatorInv, BookProgress
    PROVE  [Job!Next]_Job!job
<1>1. PICK value \in 0..Units : E!ReportProgress(held.episode, 1, value, TRUE)
  BY BookReports
<1>2. /\ state' = state
      /\ \/ progress' = progress
         \/ /\ progress'.completed = progress.completed + value
            /\ ~E!isTerminal(state) /\ ~E!isCancelling(state)
  BY <1>1, E!ReportBooks, InstanceAssumptions DEF CoordinatorInv
<1>3. CASE progress'.completed = progress.completed
  BY <1>2, <1>3 DEF Job!job, JobStatus, W!isCancelling
<1>4. CASE /\ progress'.completed # progress.completed
           /\ progress'.completed = progress.completed + value
           /\ ~E!isTerminal(state) /\ ~E!isCancelling(state)
  <2>1. WorkInv' /\ progress.completed \in Nat
    BY BookKept DEF StepKept, CoordinatorInv, E!TypeOK, E!Progress
  <2>2. progress.completed + value <= Units
    BY <1>4, <2>1 DEF WorkInv
  <2>3. value \in 1..(Units - progress.completed)
    BY <1>1, <1>4, <2>1, <2>2, WorkAssumption
  <2>4. JobStatus = "OPEN" /\ JobStatus' = "OPEN"
    BY <1>2, <1>4 DEF JobStatus, W!isCancelling, E!isCancelling, E!isTerminal
  <2> QED
    BY <1>4, <2>3, <2>4 DEF Job!Next, Job!Book
<1> QED
  BY <1>2, <1>3, <1>4

(* Every step is one of the job or hidden from it.                            *)
LEMMA JobStep ==
    ASSUME CoordinatorInv, [CoordinatorNext]_coordinatorVars
    PROVE  [Job!Next]_Job!job
<1>1. CASE LoopCall \/ UserCall
  BY <1>1, CallJobStep
<1>2. CASE BookProgress
  BY <1>2, BookJobStep
<1>3. CASE UNCHANGED workload
  BY <1>3 DEF workload, Job!job, JobStatus, W!isCancelling
<1> QED
  BY <1>1, <1>2, <1>3, LoopCalls, SameOperations
  DEF CoordinatorNext, coordinatorVars, LoopStep, UserStep, WantCancel, Look, RequestCancel,
      FinishCancel, UserCall, Spawn, SpawnFails, AwaitHello, HelloTimeout, Acknowledge,
      Dispatch, SeeComplete, SkipReply, Ping, SeeLoss, ReadTimeout, CancelWorker, Drain,
      Shutdown, CloseConnection, Kill, OnConnection, UserGoto, OfWorker

(* Engine, loop and workers keep the promise of DurableJob for jobs of any    *)
(* size and any number of losses: each unit is booked once, the job completes *)
(* only with all of them booked, and a cancelled job books nothing more.      *)
THEOREM DurableJobCorrect == CoordinatorSpec => ImplementsDurableJob
<1>1. CoordinatorInit => Job!Init
  BY DEF CoordinatorInit, W!Init, Job!Init, JobStatus, W!isCancelling
<1>2. CoordinatorInv /\ [CoordinatorNext]_coordinatorVars => [Job!Next]_Job!job
  BY JobStep
<1> QED
  BY <1>1, <1>2, CoordinatorCorrect, PTL
  DEF CoordinatorSpec, ImplementsDurableJob, Job!Spec
=============================================================================
