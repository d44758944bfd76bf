--------------------------- MODULE LineageProofs ----------------------------
(* The incarnations of a workload and its books, proved for every policy,     *)
(* worker, increment, width and bound.  A step does one of three things to    *)
(* them: nothing (Quiet), append an incarnation (Grow), or book one report of *)
(* the authoritative episode (Book).  StepShape shows it once for all         *)
(* operations, and the theorems argue on the three shapes alone.              *)
EXTENDS WorkloadProofs

(* What the books of an episode consist of.                                   *)
SameLedger(e, f) ==
    /\ f.id = e.id
    /\ f.authoritative = e.authoritative
    /\ f.progress = e.progress

Kept(eps) ==
    /\ Len(eps) = Len(episodes)
    /\ \A i \in 1..Len(episodes) : SameLedger(episodes[i], eps[i])

Quiet == UNCHANGED <<generation, progress>> /\ Kept(episodes')

Grow ==
    /\ \E id \in Nat, st \in EpisodeState, boot \in Boots \cup {NoBoot} :
          Incarnate(id, st, boot)
    /\ UNCHANGED progress

Book ==
    \E i \in DOMAIN episodes, delta \in Deltas, durable \in BOOLEAN :
       /\ episodes[i].authoritative
       /\ ~isTerminal(state)
       /\ ~OverCommits(delta)
       /\ ~Overflows(delta)
       /\ progress' = Advance(progress, delta, durable)
       /\ episodes' = WithEpisode(i, [episodes[i] EXCEPT !.progress =
                                         Advance(@, delta, durable)])
       /\ UNCHANGED generation

-----------------------------------------------------------------------------
(* The shapes of the operations.                                              *)

(* An operation that leaves the lineage and the counters alone is quiet.      *)
LEMMA IdleQuiet ==
    ASSUME TypeOK, UNCHANGED <<generation, progress, episodes>>
    PROVE  Quiet
BY DEF Quiet, Kept, SameLedger

(* Replacing one episode by one with the same books keeps the books.          *)
LEMMA ReplaceKept ==
    ASSUME TypeOK, NEW i \in DOMAIN episodes, NEW e, SameLedger(episodes[i], e)
    PROVE  Kept(WithEpisode(i, e))
<1>1. DOMAIN episodes = 1..Len(episodes)
  BY DEF TypeOK
<1>2. Len(WithEpisode(i, e)) = Len(episodes)
  BY DEF TypeOK, WithEpisode
<1>3. ASSUME NEW j \in 1..Len(episodes)
      PROVE  SameLedger(episodes[j], WithEpisode(i, e)[j])
  BY <1>1 DEF WithEpisode, SameLedger
<1> QED
  BY <1>2, <1>3 DEF Kept

(* Dispatching, marking and losing an episode leave its books alone.          *)
LEMMA UpdateLedger ==
    ASSUME NEW e \in Episode
    PROVE  /\ \A b, st : SameLedger(e, [e EXCEPT !.boot = b, !.state = st])
           /\ \A st, done : SameLedger(e, [e EXCEPT !.state = st, !.completed = @ \/ done])
           /\ \A w, st : SameLedger(e, [e EXCEPT !.workerLost = w, !.state = st])
           /\ \A w, st : SameLedger(e, [e EXCEPT !.state = st, !.workerLost = w])
           /\ \A done : SameLedger(e, [e EXCEPT !.completed = @ \/ done])
BY DEF Episode, SameLedger

(* The operations on policy, preconditions and waiting states are quiet.      *)
LEMMA SetupShape ==
    ASSUME TypeOK, \/ Validate \/ \E p \in Policies : SetPolicy(p)
                   \/ EditDependencies \/ EditContract \/ Settle
    PROVE  Quiet
BY IdleQuiet DEF Validate, SetPolicy, EditDependencies, EditContract, Settle, Move,
   Reject, aggregate, lineage

(* startEpisode appends an incarnation or is quiet.                           *)
LEMMA StartShape ==
    ASSUME TypeOK, StartEpisode
    PROVE  Quiet \/ Grow
<1>1. CASE UNCHANGED <<generation, progress, episodes>>
  BY <1>1, IdleQuiet
<1>2. CASE Incarnate(episodeCounter, "ADMITTED", NoBoot) /\ UNCHANGED progress
  <2>1. episodeCounter \in Nat
    BY EpisodeIdAssumption DEF TypeOK
  <2> QED
    BY <1>2, <2>1 DEF Grow, EpisodeState
<1> QED
  BY <1>1, <1>2 DEF StartEpisode, RefuseStart, aggregate, lineage

(* admitDispatch changes one episode, not its books.                          *)
LEMMA DispatchShape ==
    ASSUME TypeOK, NEW id, NEW boot, AdmitDispatch(id, boot)
    PROVE  Quiet
<1>1. CASE Reject("REJECT_EPISODE_INELIGIBLE")
  BY <1>1, IdleQuiet DEF Reject, aggregate, lineage
<1>2. ASSUME NEW i \in Lookup(id),
             episodes' = WithEpisode(i, [episodes[i] EXCEPT !.boot = boot, !.state = "RUNNING"]),
             UNCHANGED <<generation, progress>>
      PROVE  Quiet
  <2>1. SameLedger(episodes[i], [episodes[i] EXCEPT !.boot = boot, !.state = "RUNNING"])
    BY LookupInDomain, UpdateLedger
  <2> QED
    BY <1>2, <2>1, LookupInDomain, ReplaceKept DEF Quiet
<1> QED
  BY <1>1, <1>2 DEF AdmitDispatch, MoveWith

(* The two marks change one episode, not its books.                           *)
LEMMA MarkShape ==
    ASSUME TypeOK, NEW id, NEW st, MarkEpisode(id, st)
    PROVE  Quiet
<1>1. CASE Reject("REJECT_EPISODE_INELIGIBLE")
  BY <1>1, IdleQuiet DEF Reject, aggregate, lineage
<1>2. ASSUME NEW i \in Lookup(id),
             episodes' = WithEpisode(i, [episodes[i] EXCEPT
                                            !.state = st,
                                            !.completed = @ \/ st = "COMPLETED"]),
             UNCHANGED <<generation, progress>>
      PROVE  Quiet
  <2>1. SameLedger(episodes[i], [episodes[i] EXCEPT !.state = st,
                                                    !.completed = @ \/ st = "COMPLETED"])
    BY LookupInDomain, UpdateLedger
  <2> QED
    BY <1>2, <2>1, LookupInDomain, ReplaceKept DEF Quiet
<1> QED
  BY <1>1, <1>2 DEF MarkEpisode, MoveWith

(* onWorkerLost changes the current episode, not its books.                   *)
LEMMA LossShape ==
    ASSUME TypeOK, NEW boot, NEW g, OnWorkerLost(boot, g)
    PROVE  Quiet
<1>1. CASE UNCHANGED <<generation, progress, episodes>>
  BY <1>1, IdleQuiet
<1>2. ASSUME NEW i \in CurrentEpisode,
             episodes' = WithEpisode(i, [episodes[i] EXCEPT !.workerLost = TRUE,
                                                            !.state = "LOST"]),
             UNCHANGED <<generation, progress>>
      PROVE  Quiet
  <2>1. SameLedger(episodes[i], [episodes[i] EXCEPT !.workerLost = TRUE, !.state = "LOST"])
    BY CurrentInDomain, UpdateLedger
  <2> QED
    BY <1>2, <2>1, CurrentInDomain, ReplaceKept DEF Quiet
<1> QED
  BY <1>1, <1>2 DEF OnWorkerLost, Fenced, MoveWith, Reject, aggregate, lineage

(* planRestart, the requests, finalize and cancellation leave the lineage     *)
(* alone.                                                                     *)
LEMMA RequestShape ==
    ASSUME TypeOK, NEW g,
           \/ \E reason \in RestartReason : PlanRestart(reason, g)
           \/ RequestSuspend(g) \/ RequestResume(g) \/ RequestMigration(g)
           \/ Finalize(g) \/ RequestCancellation(g) \/ CompleteCancellation(g)
           \/ \E to \in WorkloadState : Transition(to, g)
    PROVE  Quiet
BY IdleQuiet DEF PlanRestart, RequestSuspend, RequestResume, RequestMigration, Finalize,
   RequestCancellation, CompleteCancellation, Transition, Fenced, Move, Reject,
   aggregate, lineage

(* completeSuspend changes flags of the current episode, not its books.       *)
LEMMA CompleteSuspendShape ==
    ASSUME TypeOK, NEW g, CompleteSuspend(g)
    PROVE  Quiet
<1> DEFINE e(i) == IF i \in CurrentEpisode
                   THEN [episodes[i] EXCEPT !.state = "SUSPENDED", !.workerLost = FALSE]
                   ELSE episodes[i]
           eps == [i \in 1..Len(episodes) |-> e(i)]
<1>1. CASE UNCHANGED <<generation, progress, episodes>>
  BY <1>1, IdleQuiet
<1>2. CASE episodes' = eps /\ UNCHANGED <<generation, progress>>
  <2>1. \A i \in 1..Len(episodes) : SameLedger(episodes[i], e(i))
    <3>1. \A i \in 1..Len(episodes) : SameLedger(episodes[i], episodes[i])
      BY DEF SameLedger
    <3>2. \A i \in 1..Len(episodes) :
             SameLedger(episodes[i], [episodes[i] EXCEPT !.state = "SUSPENDED",
                                                         !.workerLost = FALSE])
      BY EpisodeAt, UpdateLedger
    <3> QED
      BY <3>1, <3>2
  <2>2. Len(episodes) \in Nat
    BY DEF TypeOK
  <2> HIDE DEF e
  <2>3. Len(eps) = Len(episodes) /\ \A i \in 1..Len(episodes) : eps[i] = e(i)
    BY <2>2
  <2> QED
    BY <1>2, <2>1, <2>3 DEF Quiet, Kept
<1> QED
  BY <1>1, <1>2 DEF CompleteSuspend, Fenced, MoveWith, Reject, aggregate, lineage

(* commitCompletion marks the current episode, and leaves its books.          *)
LEMMA CompletionShape ==
    ASSUME TypeOK, NEW g, CommitCompletion(g)
    PROVE  Quiet
<1> DEFINE e(i) == [episodes[i] EXCEPT !.completed = @ \/ i \in CurrentEpisode]
           eps == [i \in 1..Len(episodes) |-> e(i)]
<1>1. CASE UNCHANGED <<generation, progress, episodes>>
  BY <1>1, IdleQuiet
<1>2. CASE episodes' = eps /\ UNCHANGED <<generation, progress>>
  <2>1. \A i \in 1..Len(episodes) : SameLedger(episodes[i], e(i))
    BY EpisodeAt, UpdateLedger
  <2>2. Len(episodes) \in Nat
    BY DEF TypeOK
  <2> HIDE DEF e
  <2>3. Len(eps) = Len(episodes) /\ \A i \in 1..Len(episodes) : eps[i] = e(i)
    BY <2>2
  <2> QED
    BY <1>2, <2>1, <2>3 DEF Quiet, Kept
<1> QED
  BY <1>1, <1>2 DEF CommitCompletion, Fenced, Reject, aggregate, lineage

(* commitMigration appends an incarnation or is quiet.                        *)
LEMMA MigrationShape ==
    ASSUME TypeOK, NEW boot \in Boots, NEW g, CommitMigration(boot, g)
    PROVE  Quiet \/ Grow
<1>1. CASE UNCHANGED <<generation, progress, episodes>>
  BY <1>1, IdleQuiet
<1>2. CASE Incarnate(migrationCounter, "RUNNING", boot) /\ UNCHANGED progress
  BY <1>2 DEF Grow, EpisodeState, TypeOK
<1> QED
  BY <1>1, <1>2 DEF CommitMigration, Fenced, Reject, aggregate, lineage

(* reportProgress books the report or is quiet.                               *)
LEMMA ReportShape ==
    ASSUME TypeOK, NEW id, NEW epGen, NEW delta \in Deltas, NEW durable \in BOOLEAN,
           ReportProgress(id, epGen, delta, durable)
    PROVE  Quiet \/ Book
<1>1. CASE UNCHANGED <<generation, progress, episodes>>
  BY <1>1, IdleQuiet
<1>2. ASSUME NEW i \in Lookup(id), ProgressVerdict(i, epGen, delta) = "ALLOW",
             progress' = Advance(progress, delta, durable),
             episodes' = WithEpisode(i, [episodes[i] EXCEPT !.progress =
                                            Advance(@, delta, durable)]),
             UNCHANGED generation
      PROVE  Book
  <2>1. i \in DOMAIN episodes
    BY LookupInDomain
  <2>2. /\ episodes[i].authoritative /\ ~isTerminal(state)
        /\ ~OverCommits(delta) /\ ~Overflows(delta)
    BY <1>2 DEF ProgressVerdict
  <2> QED
    BY <1>2, <2>1, <2>2 DEF Book
<1> QED
  BY <1>1, <1>2 DEF ReportProgress, Reject, aggregate, lineage

(* Whatever the operation, a step is quiet, grows the lineage by one, or      *)
(* books one report.                                                          *)
LEMMA StepShape ==
    ASSUME TypeOK, [Next]_vars
    PROVE  Quiet \/ Grow \/ Book
<1>1. CASE UNCHANGED vars
  BY <1>1, IdleQuiet DEF vars, aggregate, lineage
<1>2. CASE EngineNext
  BY <1>2, SetupShape, StartShape, DispatchShape, ReportShape, MarkShape, LossShape,
     RequestShape, CompleteSuspendShape, CompletionShape, MigrationShape
  DEF EngineNext, LifecycleNext, MarkEpisodeCompleted
<1>3. CASE Next /\ ~EngineNext
  BY <1>3, RequestShape, MarkShape DEF Next, MarkEpisodeFailed
<1> QED
  BY <1>1, <1>2, <1>3

-----------------------------------------------------------------------------
(* The lineage invariant.                                                     *)

(* The invariant the lineage theorems share; with TypeOK it is inductive.     *)
LineageInv == GenerationCountsEpisodes /\ SoleAuthority /\ ProgressLineage

(* What Append leaves in a superseded position and at the end.                *)
LEMMA GrownEpisodes ==
    ASSUME TypeOK, NEW id, NEW st, NEW boot, Incarnate(id, st, boot)
    PROVE  /\ Len(episodes') = Len(episodes) + 1
           /\ \A i \in 1..Len(episodes) :
                 /\ episodes'[i].authoritative = FALSE
                 /\ episodes'[i].progress = episodes[i].progress
                 /\ episodes'[i].id = episodes[i].id
           /\ episodes'[Len(episodes) + 1].authoritative = TRUE
           /\ episodes'[Len(episodes) + 1].progress = progress
           /\ episodes'[Len(episodes) + 1].id = id
<1> DEFINE e(i) == [episodes[i] EXCEPT !.authoritative = FALSE]
           old == [i \in 1..Len(episodes) |-> e(i)]
           new == [id |-> id, state |-> st, boot |-> boot, progress |-> progress,
                   authoritative |-> TRUE, completed |-> FALSE, workerLost |-> FALSE]
<1>1. new.authoritative = TRUE /\ new.progress = progress /\ new.id = id
  OBVIOUS
<1>2. Len(episodes) \in Nat
  BY DEF TypeOK
<1>3. episodes' = Append(old, new)
  BY DEF Incarnate, Supersede
<1>4. \A i \in 1..Len(episodes) :
         /\ e(i) \in Episode
         /\ e(i).authoritative = FALSE
         /\ e(i).progress = episodes[i].progress
         /\ e(i).id = episodes[i].id
  <2>1. \A f \in Episode : LET d == [f EXCEPT !.authoritative = FALSE]
                           IN  /\ d \in Episode
                               /\ d.authoritative = FALSE
                               /\ d.progress = f.progress
                               /\ d.id = f.id
    BY DEF Episode
  <2> QED
    BY <2>1, EpisodeAt
<1> HIDE DEF new, e
<1>5. old \in Seq(Episode) /\ Len(old) = Len(episodes)
  BY <1>2, <1>4
<1>6. \A i \in 1..Len(episodes) : old[i] = e(i)
  OBVIOUS
<1> HIDE DEF old
<1>7. /\ Len(Append(old, new)) = Len(episodes) + 1
      /\ \A i \in 1..Len(episodes) : Append(old, new)[i] = old[i]
      /\ Append(old, new)[Len(episodes) + 1] = new
  BY <1>2, <1>5
<1> QED
  BY <1>1, <1>3, <1>4, <1>6, <1>7

(* Below the width the sum of Progress::advance does not wrap.                *)
LEMMA AdvanceAdds ==
    ASSUME TypeOK, NEW delta \in Deltas, NEW durable \in BOOLEAN, ~Overflows(delta)
    PROVE  /\ Plus(progress.completed, delta) = progress.completed + delta
           /\ Advance(progress, delta, durable).completed = progress.completed + delta
<1>1. /\ progress.completed \in Nat /\ delta \in Nat /\ MaxU64 \in Nat
      /\ progress.completed + delta <= MaxU64
  BY ProgressAssumption DEF TypeOK, Progress, Overflows
<1>2. \A a, m \in Nat : a <= m => a % (m + 1) = a
  OBVIOUS
<1>3. Plus(progress.completed, delta) = progress.completed + delta
  BY <1>1, <1>2 DEF Plus
<1> QED
  BY <1>3 DEF Advance

(* A step that touches no books keeps the lineage invariant.                  *)
LEMMA QuietLineage ==
    ASSUME TypeOK, TypeOK', LineageInv, Quiet
    PROVE  LineageInv'
<1>1. /\ Len(episodes') = Len(episodes) /\ Len(episodes) \in Nat
      /\ DOMAIN episodes' = 1..Len(episodes) /\ DOMAIN episodes = 1..Len(episodes)
  BY DEF Quiet, Kept, TypeOK
<1>2. \A i \in 1..Len(episodes) : /\ episodes'[i].authoritative = episodes[i].authoritative
                                  /\ episodes'[i].progress = episodes[i].progress
  BY DEF Quiet, Kept, SameLedger
<1>3. GenerationCountsEpisodes'
  BY <1>1 DEF LineageInv, GenerationCountsEpisodes, Quiet
<1>4. SoleAuthority'
  BY <1>1, <1>2 DEF LineageInv, SoleAuthority
<1>5. ProgressLineage'
  <2>1. ASSUME episodes' # <<>> PROVE episodes'[Len(episodes')].progress = progress'
    BY <1>1, <1>2, <2>1 DEF LineageInv, ProgressLineage, Quiet, TypeOK
  <2>2. \A i \in 1..(Len(episodes') - 1) :
           episodes'[i].progress.completed <= episodes'[i + 1].progress.completed
    BY <1>1, <1>2 DEF LineageInv, ProgressLineage
  <2> QED
    BY <2>1, <2>2 DEF ProgressLineage
<1> QED
  BY <1>3, <1>4, <1>5 DEF LineageInv

(* A new incarnation takes the authority and starts from the known progress.  *)
LEMMA GrowLineage ==
    ASSUME TypeOK, TypeOK', LineageInv, Grow
    PROVE  LineageInv'
<1> DEFINE n == Len(episodes)
<1>1. PICK id \in Nat, st \in EpisodeState, boot \in Boots \cup {NoBoot} :
         Incarnate(id, st, boot)
  BY DEF Grow
<1>2. /\ n \in Nat /\ Len(episodes') = n + 1
      /\ DOMAIN episodes = 1..n /\ DOMAIN episodes' = 1..(n + 1)
  <2>1. Len(episodes') = n + 1
    BY <1>1, GrownEpisodes
  <2>2. episodes \in Seq(Episode) /\ episodes' \in Seq(Episode)
    BY DEF TypeOK
  <2> QED
    BY <2>1, <2>2
<1>3. \A i \in 1..n : /\ episodes'[i].authoritative = FALSE
                      /\ episodes'[i].progress = episodes[i].progress
  BY <1>1, GrownEpisodes
<1>4. /\ episodes'[n + 1].authoritative = TRUE
      /\ episodes'[n + 1].progress = progress
      /\ progress' = progress
  BY <1>1, GrownEpisodes DEF Grow
<1>5. GenerationCountsEpisodes'
  BY <1>1, <1>2 DEF LineageInv, GenerationCountsEpisodes, Incarnate, TypeOK
<1>6. SoleAuthority'
  BY <1>2, <1>3, <1>4 DEF SoleAuthority
<1>7. ProgressLineage'
  <2>1. episodes'[Len(episodes')].progress = progress'
    BY <1>2, <1>4
  <2>2. ASSUME NEW i \in 1..n
        PROVE  episodes'[i].progress.completed <= episodes'[i + 1].progress.completed
    <3>1. CASE i = n
      <4>1. episodes # <<>>
        BY <1>2, <3>1
      <4>2. episodes[n].progress = progress
        BY <4>1 DEF LineageInv, ProgressLineage
      <4>3. progress.completed <= progress.completed
        BY ProgressAssumption DEF TypeOK, Progress
      <4> QED
        BY <1>2, <1>3, <1>4, <3>1, <4>2, <4>3
    <3>2. CASE i # n
      <4>1. i \in 1..(n - 1) /\ i + 1 \in 1..n
        <5>1. n \in Nat /\ i \in 1..n
          BY <1>2, <2>2
        <5> HIDE DEF n
        <5> QED
          BY <3>2, <5>1
      <4>2. episodes[i].progress.completed <= episodes[i + 1].progress.completed
        BY <4>1 DEF LineageInv, ProgressLineage
      <4> QED
        BY <1>3, <4>1, <4>2
    <3> QED
      BY <3>1, <3>2
  <2> QED
    BY <1>2, <2>1, <2>2 DEF ProgressLineage
<1> QED
  BY <1>5, <1>6, <1>7 DEF LineageInv

(* A booked report changes the last episode and the workload alike.           *)
LEMMA BookLineage ==
    ASSUME TypeOK, TypeOK', LineageInv, Book
    PROVE  LineageInv'
<1> DEFINE n == Len(episodes)
<1>1. PICK i \in DOMAIN episodes, delta \in Deltas, durable \in BOOLEAN :
         /\ episodes[i].authoritative
         /\ ~Overflows(delta)
         /\ progress' = Advance(progress, delta, durable)
         /\ episodes' = WithEpisode(i, [episodes[i] EXCEPT !.progress =
                                           Advance(@, delta, durable)])
         /\ UNCHANGED generation
  BY DEF Book
<1>2. i = n /\ n \in Nat /\ n \in 1..n /\ DOMAIN episodes = 1..n /\ episodes # <<>>
  BY <1>1 DEF LineageInv, SoleAuthority, TypeOK
<1>3. episodes[n] \in Episode /\ episodes[n].progress = progress
  BY <1>2, EpisodeAt DEF LineageInv, ProgressLineage
<1>4. Len(episodes') = n /\ DOMAIN episodes' = 1..n
  BY <1>1, <1>2 DEF WithEpisode, TypeOK
<1>5. \A j \in 1..n : j # n => episodes'[j] = episodes[j]
  BY <1>1, <1>2 DEF WithEpisode
<1>6. episodes'[n].progress = progress' /\ episodes'[n].authoritative = TRUE
  <2>1. \A e \in Episode : \A p :
           LET f == [e EXCEPT !.progress = p]
           IN  f.progress = p /\ f.authoritative = e.authoritative
    BY DEF Episode
  <2>2. episodes'[n] = [episodes[n] EXCEPT !.progress = progress']
    BY <1>1, <1>2, <1>3 DEF WithEpisode
  <2>3. episodes[n].authoritative = TRUE
    BY <1>1, <1>2, <1>3 DEF Episode
  <2> QED
    BY <1>3, <2>1, <2>2, <2>3
<1>7. progress'.completed >= progress.completed /\ progress.completed \in Nat
  BY <1>1, AdvanceAdds, ProgressAssumption DEF TypeOK, Progress
<1>8. GenerationCountsEpisodes'
  BY <1>1, <1>4 DEF LineageInv, GenerationCountsEpisodes
<1>9. SoleAuthority'
  BY <1>2, <1>4, <1>5, <1>6 DEF LineageInv, SoleAuthority
<1>10. ProgressLineage'
  <2>1. ASSUME NEW j \in 1..(n - 1)
        PROVE  episodes'[j].progress.completed <= episodes'[j + 1].progress.completed
    <3>1. episodes[j].progress.completed <= episodes[j + 1].progress.completed
      BY DEF LineageInv, ProgressLineage
    <3>2. episodes'[j] = episodes[j] /\ episodes[j].progress.completed \in Nat
      <4>1. j \in 1..n /\ j # n
        BY <1>2
      <4>2. episodes[j] \in Episode
        BY <4>1, EpisodeAt
      <4> QED
        BY <1>5, <4>1, <4>2, ProgressAssumption DEF Episode, Progress
    <3>3. CASE j + 1 = n
      <4>1. progress'.completed \in Nat
        BY ProgressAssumption DEF TypeOK, Progress
      <4> QED
        BY <1>3, <1>6, <1>7, <3>1, <3>2, <3>3, <4>1
    <3>4. CASE j + 1 # n
      BY <1>2, <1>5, <3>1, <3>2, <3>4
    <3> QED
      BY <3>3, <3>4
  <2> QED
    BY <1>4, <1>6, <2>1 DEF ProgressLineage
<1> QED
  BY <1>8, <1>9, <1>10 DEF LineageInv

(* Each of the three shapes keeps it.                                         *)
LEMMA LineageStep ==
    ASSUME TypeOK, LineageInv, [Next]_vars
    PROVE  LineageInv'
BY TypeStep, StepShape, QuietLineage, GrowLineage, BookLineage

(* In every reachable state the newest episode, and no other, may advance     *)
(* progress, its books equal the workload's, and the generation counts the    *)
(* incarnations: the fence startEpisode and commitMigration build.            *)
THEOREM LineageCorrect == Spec => []LineageInv
<1>1. Init => LineageInv
  BY DEF Init, LineageInv, GenerationCountsEpisodes, SoleAuthority, ProgressLineage
<1>2. TypeOK /\ LineageInv /\ [Next]_vars => LineageInv'
  BY LineageStep
<1> QED
  BY <1>1, <1>2, TypeCorrect, PTL DEF Spec

(* The generation a caller presents is current exactly while the episode it   *)
(* knew is the newest.                                                        *)
THEOREM GenerationCorrect == Spec => []GenerationCountsEpisodes
<1>1. LineageInv => GenerationCountsEpisodes
  BY DEF LineageInv
<1> QED
  BY <1>1, LineageCorrect, PTL

(* Exactly one episode, the newest, holds the authority over progress.        *)
THEOREM AuthorityCorrect == Spec => []SoleAuthority
<1>1. LineageInv => SoleAuthority
  BY DEF LineageInv
<1> QED
  BY <1>1, LineageCorrect, PTL

(* No work is lost or counted twice across restarts and migrations.           *)
THEOREM LedgerCorrect == Spec => []ProgressLineage
<1>1. LineageInv => ProgressLineage
  BY DEF LineageInv
<1> QED
  BY <1>1, LineageCorrect, PTL

(* A superseded episode never regains authority, and no late report of its    *)
(* worker is booked to it.                                                    *)
THEOREM FrozenCorrect == Spec => SupersededFrozen
<1> DEFINE Frozen == \A i \in 1..(Len(episodes) - 1) :
                        /\ ~episodes'[i].authoritative
                        /\ episodes'[i].progress = episodes[i].progress
<1>1. ASSUME TypeOK, LineageInv, [Next]_vars PROVE Frozen
  <2> SUFFICES ASSUME NEW i \in 1..(Len(episodes) - 1)
               PROVE  /\ ~episodes'[i].authoritative
                      /\ episodes'[i].progress = episodes[i].progress
    OBVIOUS
  <2>1. /\ Len(episodes) \in Nat /\ DOMAIN episodes = 1..Len(episodes)
        /\ i \in 1..Len(episodes) /\ i # Len(episodes)
    BY DEF TypeOK
  <2>2. ~episodes[i].authoritative
    BY <1>1, <2>1 DEF LineageInv, SoleAuthority
  <2>3. CASE Quiet
    BY <2>1, <2>2, <2>3 DEF Quiet, Kept, SameLedger
  <2>4. CASE Grow
    BY <1>1, <2>1, <2>4, GrownEpisodes DEF Grow
  <2>5. CASE Book
    <3>1. PICK k \in DOMAIN episodes, delta \in Deltas, durable \in BOOLEAN :
             /\ episodes[k].authoritative
             /\ episodes' = WithEpisode(k, [episodes[k] EXCEPT !.progress =
                                               Advance(@, delta, durable)])
      BY <2>5 DEF Book
    <3>2. k # i
      BY <2>2, <3>1
    <3>3. episodes'[i] = episodes[i]
      BY <2>1, <3>1, <3>2 DEF WithEpisode
    <3> QED
      BY <2>2, <3>3
  <2> QED
    BY <1>1, <2>3, <2>4, <2>5, StepShape
<1>2. TypeOK /\ LineageInv /\ [Next]_vars => [Frozen]_vars
  BY <1>1
<1> QED
  BY <1>2, TypeCorrect, LineageCorrect, PTL DEF Spec, SupersededFrozen

-----------------------------------------------------------------------------
(* The progress counters.                                                     *)

(* A booked report adds exactly its increment and stays within a known total. *)
LEMMA BookProgress ==
    ASSUME TypeOK, ProgressBounded, Book
    PROVE  ProgressBounded' /\ progress'.completed >= progress.completed
<1>1. PICK delta \in Deltas, durable \in BOOLEAN :
         /\ ~OverCommits(delta)
         /\ ~Overflows(delta)
         /\ progress' = Advance(progress, delta, durable)
  BY DEF Book
<1>2. /\ progress.completed \in Nat /\ progress.checkpointed \in Nat
      /\ delta \in Nat /\ Total \in Nat
  BY ProgressAssumption DEF TypeOK, Progress
<1>3. /\ progress'.completed = progress.completed + delta
      /\ Plus(progress.completed, delta) = progress.completed + delta
  BY <1>1, AdvanceAdds
<1>4. \/ progress'.checkpointed = progress'.completed
      \/ progress'.checkpointed = progress.checkpointed
  BY <1>1 DEF Advance
<1>5. progress'.checkpointed <= progress'.completed
  BY <1>2, <1>3, <1>4 DEF ProgressBounded
<1>6. ASSUME TotalKind = "KNOWN" PROVE progress'.completed <= Total
  BY <1>1, <1>2, <1>3, <1>6 DEF OverCommits
<1> QED
  BY <1>2, <1>3, <1>5, <1>6 DEF ProgressBounded

(* A step that books nothing leaves the counters of the workload alone.       *)
LEMMA NoBookProgress ==
    ASSUME TypeOK, Quiet \/ Grow
    PROVE  progress' = progress /\ progress'.completed >= progress.completed
<1>1. progress' = progress
  BY DEF Quiet, Grow
<1>2. progress.completed \in Nat
  BY ProgressAssumption DEF TypeOK, Progress
<1> QED
  BY <1>1, <1>2

(* Whatever the step, the counters stay bounded and no completed work is lost.*)
LEMMA ProgressStep ==
    ASSUME TypeOK, ProgressBounded, [Next]_vars
    PROVE  ProgressBounded' /\ progress'.completed >= progress.completed
BY StepShape, BookProgress, NoBookProgress DEF ProgressBounded

(* Checkpointed work is completed work, and a KNOWN total is never exceeded,  *)
(* although the sum of the double-count test may wrap: a sum that wraps is    *)
(* refused by the overflow guard of Progress::advance.                        *)
THEOREM BoundedCorrect == Spec => []ProgressBounded
<1>1. Init => ProgressBounded
  BY ProgressAssumption DEF Init, ProgressBounded
<1>2. TypeOK /\ ProgressBounded /\ [Next]_vars => ProgressBounded'
  BY ProgressStep
<1> QED
  BY <1>1, <1>2, TypeCorrect, PTL DEF Spec

(* Completed work never decreases, at any width of the counters.              *)
THEOREM MonotonicCorrect == Spec => ProgressMonotonic
<1>1. TypeOK /\ ProgressBounded /\ [Next]_vars
        => [progress'.completed >= progress.completed]_vars
  BY ProgressStep
<1> QED
  BY <1>1, TypeCorrect, BoundedCorrect, PTL DEF Spec, ProgressMonotonic

-----------------------------------------------------------------------------
(* The ids of the episodes.                                                   *)

(* The ids the engine has drawn, and those the workload has drawn itself.     *)
Drawn == FirstEpisodeId..(episodeCounter - 1) \cup FirstMigrationId..(migrationCounter - 1)

(* Every episode has an id one of the two counters has passed, and two        *)
(* episodes have the same only if both counters have.                         *)
IdentityInv ==
    /\ migrationCounter >= FirstMigrationId
    /\ \A i \in 1..Len(episodes) : episodes[i].id \in Drawn
    /\ \A i, j \in 1..Len(episodes) :
          i # j /\ episodes[i].id = episodes[j].id => episodes[i].id \in CollidingIds

(* What a step does to ids and counters: the ids stay and the engine may draw *)
(* one in vain, or one of the counters names the new incarnation.             *)
KeepIds ==
    /\ Len(episodes') = Len(episodes)
    /\ \A i \in 1..Len(episodes) : episodes'[i].id = episodes[i].id
    /\ episodeCounter' >= episodeCounter
    /\ UNCHANGED migrationCounter

NewEngineId ==
    /\ \E st, boot : Incarnate(episodeCounter, st, boot)
    /\ episodeCounter' = episodeCounter + 1
    /\ UNCHANGED migrationCounter

NewMigrationId ==
    /\ \E st, boot : Incarnate(migrationCounter, st, boot)
    /\ migrationCounter' = migrationCounter + 1
    /\ UNCHANGED episodeCounter

(* A quiet or booking operation that leaves the counters alone keeps the ids. *)
LEMMA QuietIds ==
    ASSUME TypeOK, Quiet \/ Book, UNCHANGED <<episodeCounter, migrationCounter>>
    PROVE  KeepIds
<1>1. episodeCounter' >= episodeCounter
  BY EpisodeIdAssumption DEF TypeOK
<1>2. CASE Quiet
  BY <1>1, <1>2 DEF Quiet, Kept, SameLedger, KeepIds
<1>3. CASE Book
  <2>1. PICK i \in DOMAIN episodes, delta \in Deltas, durable \in BOOLEAN :
           episodes' = WithEpisode(i, [episodes[i] EXCEPT !.progress =
                                          Advance(@, delta, durable)])
    BY <1>3 DEF Book
  <2>2. Len(episodes') = Len(episodes) /\ DOMAIN episodes = 1..Len(episodes)
    BY <2>1 DEF TypeOK, WithEpisode
  <2>3. \A e \in Episode : \A p : [e EXCEPT !.progress = p].id = e.id
    BY DEF Episode
  <2>4. \A k \in 1..Len(episodes) : episodes'[k].id = episodes[k].id
    BY <2>1, <2>2, <2>3, EpisodeAt DEF WithEpisode
  <2> QED
    BY <1>1, <2>2, <2>4 DEF KeepIds
<1> QED
  BY <1>2, <1>3

(* Only startEpisode and commitMigration draw ids.                            *)
LEMMA CountersKept ==
    ASSUME TypeOK, Next, ~StartEpisode,
           ~\E boot \in Boots, g \in PastGenerations : CommitMigration(boot, g)
    PROVE  UNCHANGED <<episodeCounter, migrationCounter>>
<1> DEFINE Same == UNCHANGED <<episodeCounter, migrationCounter>>
<1>1. ASSUME NEW o, Reject(o) PROVE Same
  BY <1>1 DEF Reject, aggregate, lineage
<1>2. ASSUME NEW r, Move(r) PROVE Same
  BY <1>2 DEF Move, lineage
<1>3. ASSUME NEW r, NEW eps, MoveWith(r, eps) PROVE Same
  BY <1>3 DEF MoveWith
<1>4. ASSUME \/ Validate \/ \E p \in Policies : SetPolicy(p)
             \/ EditDependencies \/ EditContract \/ Settle
      PROVE  Same
  BY <1>1, <1>2, <1>4
  DEF Validate, SetPolicy, EditDependencies, EditContract, Settle, lineage
<1>5. ASSUME NEW id, NEW boot, AdmitDispatch(id, boot) PROVE Same
  BY <1>1, <1>3, <1>5 DEF AdmitDispatch
<1>6. ASSUME NEW id, NEW epGen, NEW delta, NEW durable,
             ReportProgress(id, epGen, delta, durable)
      PROVE  Same
  BY <1>1, <1>6 DEF ReportProgress
<1>7. ASSUME NEW id, NEW st, MarkEpisode(id, st) PROVE Same
  BY <1>1, <1>3, <1>7 DEF MarkEpisode
<1>8. ASSUME NEW reason, NEW g, PlanRestart(reason, g) PROVE Same
  BY <1>1, <1>8 DEF PlanRestart, Fenced, lineage
<1>9. ASSUME NEW boot, NEW g, OnWorkerLost(boot, g) PROVE Same
  BY <1>1, <1>3, <1>9 DEF OnWorkerLost, Fenced
<1>10. ASSUME NEW g, \/ RequestSuspend(g) \/ CompleteSuspend(g) \/ RequestResume(g)
                     \/ RequestMigration(g) \/ CommitCompletion(g) \/ Finalize(g)
                     \/ RequestCancellation(g) \/ CompleteCancellation(g)
                     \/ \E to \in WorkloadState : Transition(to, g)
       PROVE  Same
  BY <1>1, <1>2, <1>3, <1>10
  DEF RequestSuspend, CompleteSuspend, RequestResume, RequestMigration, CommitCompletion,
      Finalize, RequestCancellation, CompleteCancellation, Transition, Fenced, lineage
<1> HIDE DEF Same
<1>11. ASSUME EngineNext PROVE Same
  BY <1>4, <1>5, <1>6, <1>7, <1>8, <1>9, <1>10, <1>11
  DEF EngineNext, LifecycleNext, MarkEpisodeCompleted
<1>12. ASSUME ~EngineNext PROVE Same
  BY <1>7, <1>10, <1>12 DEF Next, MarkEpisodeFailed
<1>13. Same
  BY <1>11, <1>12
<1> QED
  BY <1>13 DEF Same

(* startEpisode draws an id, for an incarnation or in vain.                   *)
LEMMA StartIds ==
    ASSUME TypeOK, StartEpisode
    PROVE  KeepIds \/ NewEngineId
<1>1. /\ episodeCounter' = episodeCounter + 1 /\ episodeCounter' >= episodeCounter
      /\ UNCHANGED migrationCounter
  BY EpisodeIdAssumption DEF TypeOK, StartEpisode, RefuseStart, aggregate, lineage
<1>2. CASE UNCHANGED episodes
  BY <1>1, <1>2 DEF KeepIds
<1>3. CASE Incarnate(episodeCounter, "ADMITTED", NoBoot)
  BY <1>1, <1>3 DEF NewEngineId
<1> QED
  BY <1>2, <1>3 DEF StartEpisode, RefuseStart, aggregate, lineage

(* commitMigration draws an id from the workload's own counter.               *)
LEMMA MigrationIds ==
    ASSUME TypeOK, NEW boot, NEW g, CommitMigration(boot, g)
    PROVE  KeepIds \/ NewMigrationId
<1>1. UNCHANGED episodeCounter /\ episodeCounter' >= episodeCounter
  BY EpisodeIdAssumption DEF TypeOK, CommitMigration, Fenced, Reject
<1>2. CASE UNCHANGED <<episodes, migrationCounter>>
  BY <1>1, <1>2 DEF KeepIds
<1>3. CASE Incarnate(migrationCounter, "RUNNING", boot)
           /\ migrationCounter' = migrationCounter + 1
  BY <1>1, <1>3 DEF NewMigrationId
<1> QED
  BY <1>2, <1>3 DEF CommitMigration, Fenced, Reject, aggregate, lineage

(* Every step keeps the ids or names one new incarnation.                     *)
LEMMA StepIds ==
    ASSUME TypeOK, [Next]_vars
    PROVE  KeepIds \/ NewEngineId \/ NewMigrationId
<1>1. CASE StartEpisode
  BY <1>1, StartIds
<1>2. CASE \E boot \in Boots, g \in PastGenerations : CommitMigration(boot, g)
  BY <1>2, MigrationIds
<1>3. CASE UNCHANGED vars
  BY <1>3, IdleQuiet, QuietIds DEF vars, aggregate, lineage
<1>4. CASE /\ Next /\ ~StartEpisode
           /\ ~\E boot \in Boots, g \in PastGenerations : CommitMigration(boot, g)
  <2>1. CASE EngineNext
    <3>1. Quiet \/ Book
      BY <1>4, <2>1, SetupShape, DispatchShape, ReportShape, MarkShape, LossShape,
         RequestShape, CompleteSuspendShape, CompletionShape
      DEF EngineNext, LifecycleNext, MarkEpisodeCompleted
    <3> QED
      BY <1>4, <3>1, CountersKept, QuietIds
  <2>2. CASE ~EngineNext
    <3>1. Quiet
      BY <1>4, <2>2, RequestShape, MarkShape DEF Next, MarkEpisodeFailed
    <3> QED
      BY <1>4, <3>1, CountersKept, QuietIds
  <2> QED
    BY <2>1, <2>2
<1> QED
  BY <1>1, <1>2, <1>3, <1>4

(* The ranges below a counter.                                                *)
LEMMA Intervals ==
    ASSUME NEW a \in Int, NEW b \in Int, NEW c \in Int
    PROVE  /\ b <= c => a..(b - 1) \subseteq a..(c - 1)
           /\ a <= b /\ b < c => b \in a..(c - 1)
           /\ b \notin a..(b - 1)
OBVIOUS

(* The counters as integers, and where they start.                            *)
LEMMA CounterTypes ==
    ASSUME TypeOK
    PROVE  /\ FirstEpisodeId \in Int /\ FirstMigrationId \in Int
           /\ episodeCounter \in Int /\ migrationCounter \in Int
           /\ FirstEpisodeId <= episodeCounter
BY EpisodeIdAssumption DEF TypeOK

(* While the counters advance, ids drawn stay drawn and ids both have handed  *)
(* out stay so.                                                               *)
LEMMA DrawnGrows ==
    ASSUME TypeOK, TypeOK',
           episodeCounter' >= episodeCounter, migrationCounter' >= migrationCounter
    PROVE  Drawn \subseteq Drawn' /\ CollidingIds \subseteq CollidingIds'
<1>1. /\ FirstEpisodeId \in Int /\ FirstMigrationId \in Int
      /\ episodeCounter \in Int /\ migrationCounter \in Int
      /\ episodeCounter' \in Int /\ migrationCounter' \in Int
  <2>1. episodeCounter' \in FirstEpisodeId..EpisodeIdLimit /\ migrationCounter' \in Nat
    BY DEF TypeOK
  <2> QED
    BY <2>1, CounterTypes, EpisodeIdAssumption
<1>2. /\ FirstEpisodeId..(episodeCounter - 1) \subseteq FirstEpisodeId..(episodeCounter' - 1)
      /\ FirstMigrationId..(migrationCounter - 1)
            \subseteq FirstMigrationId..(migrationCounter' - 1)
  BY <1>1, Intervals
<1> QED
  BY <1>2 DEF Drawn, CollidingIds

(* The value a counter is advanced from has been drawn then; if it had been   *)
(* before, the other counter drew it.                                         *)
LEMMA FreshId ==
    ASSUME TypeOK, TypeOK', migrationCounter >= FirstMigrationId, NEW id,
           \/ /\ id = episodeCounter /\ episodeCounter' = episodeCounter + 1
              /\ UNCHANGED migrationCounter
           \/ /\ id = migrationCounter /\ migrationCounter' = migrationCounter + 1
              /\ UNCHANGED episodeCounter
    PROVE  /\ id \in Drawn' /\ (id \in Drawn => id \in CollidingIds')
<1>1. /\ FirstEpisodeId \in Int /\ FirstMigrationId \in Int
      /\ episodeCounter \in Int /\ migrationCounter \in Int
      /\ FirstEpisodeId <= episodeCounter
  BY CounterTypes
<1>2. CASE /\ id = episodeCounter /\ episodeCounter' = episodeCounter + 1
           /\ UNCHANGED migrationCounter
  <2>1. episodeCounter' \in Int /\ episodeCounter < episodeCounter'
    BY <1>1, <1>2
  <2>2. id \in FirstEpisodeId..(episodeCounter' - 1) /\ id \notin FirstEpisodeId..(episodeCounter - 1)
    BY <1>1, <1>2, <2>1, Intervals
  <2> QED
    BY <1>2, <2>2 DEF Drawn, CollidingIds
<1>3. CASE /\ id = migrationCounter /\ migrationCounter' = migrationCounter + 1
           /\ UNCHANGED episodeCounter
  <2>1. migrationCounter' \in Int /\ migrationCounter < migrationCounter'
    BY <1>1, <1>3
  <2>2. /\ id \in FirstMigrationId..(migrationCounter' - 1)
        /\ id \notin FirstMigrationId..(migrationCounter - 1)
    BY <1>1, <1>3, <2>1, Intervals
  <2> QED
    BY <1>3, <2>2 DEF Drawn, CollidingIds
<1> QED
  BY <1>2, <1>3

(* A new incarnation under such an id keeps the invariant.                    *)
LEMMA GrowIdentity ==
    ASSUME TypeOK, IdentityInv, NEW id, NEW st, NEW boot, Incarnate(id, st, boot),
           Drawn \subseteq Drawn', CollidingIds \subseteq CollidingIds',
           id \in Drawn', id \in Drawn => id \in CollidingIds',
           migrationCounter' >= FirstMigrationId
    PROVE  IdentityInv'
<1> DEFINE n == Len(episodes)
<1>1. /\ n \in Nat /\ Len(episodes') = n + 1 /\ episodes'[n + 1].id = id
      /\ \A i \in 1..n : episodes'[i].id = episodes[i].id
  <2>1. n \in Nat
    BY DEF TypeOK
  <2> QED
    BY <2>1, GrownEpisodes
<1>2. \A i \in 1..n : episodes[i].id \in Drawn
  BY DEF IdentityInv
<1>3. \A i \in 1..(n + 1) : i \in 1..n \/ i = n + 1
  BY <1>1
<1>4. \A i \in 1..(n + 1) : episodes'[i].id \in Drawn'
  BY <1>1, <1>2, <1>3
<1>5. ASSUME NEW i \in 1..(n + 1), NEW j \in 1..(n + 1), i # j,
             episodes'[i].id = episodes'[j].id
      PROVE  episodes'[i].id \in CollidingIds'
  <2>1. CASE i \in 1..n /\ j \in 1..n
    BY <1>1, <1>5, <2>1 DEF IdentityInv
  <2>2. CASE i = n + 1 \/ j = n + 1
    BY <1>1, <1>2, <1>3, <1>5, <2>2
  <2> QED
    BY <1>3, <2>1, <2>2
<1> QED
  BY <1>1, <1>4, <1>5 DEF IdentityInv

(* Every step keeps it.                                                       *)
LEMMA StepIdentity ==
    ASSUME TypeOK, TypeOK', IdentityInv, [Next]_vars
    PROVE  IdentityInv'
<1>1. /\ migrationCounter \in Int /\ episodeCounter \in Int /\ FirstMigrationId \in Int
      /\ migrationCounter >= FirstMigrationId
  BY CounterTypes DEF IdentityInv
<1>2. CASE KeepIds
  <2>1. Drawn \subseteq Drawn' /\ CollidingIds \subseteq CollidingIds'
    BY <1>1, <1>2, DrawnGrows DEF KeepIds
  <2> QED
    BY <1>2, <2>1 DEF KeepIds, IdentityInv
<1>3. CASE NewEngineId
  <2>1. PICK st, boot : Incarnate(episodeCounter, st, boot)
    BY <1>3 DEF NewEngineId
  <2>2. /\ episodeCounter' >= episodeCounter
        /\ migrationCounter' >= migrationCounter /\ migrationCounter' >= FirstMigrationId
    BY <1>1, <1>3 DEF NewEngineId
  <2>3. Drawn \subseteq Drawn' /\ CollidingIds \subseteq CollidingIds'
    BY <2>2, DrawnGrows
  <2>4. episodeCounter \in Drawn' /\ (episodeCounter \in Drawn => episodeCounter \in CollidingIds')
    BY <1>1, <1>3, FreshId DEF NewEngineId
  <2> QED
    BY <2>1, <2>2, <2>3, <2>4, GrowIdentity
<1>4. CASE NewMigrationId
  <2>1. PICK st, boot : Incarnate(migrationCounter, st, boot)
    BY <1>4 DEF NewMigrationId
  <2>2. /\ episodeCounter' >= episodeCounter
        /\ migrationCounter' >= migrationCounter /\ migrationCounter' >= FirstMigrationId
    BY <1>1, <1>4 DEF NewMigrationId
  <2>3. Drawn \subseteq Drawn' /\ CollidingIds \subseteq CollidingIds'
    BY <2>2, DrawnGrows
  <2>4. /\ migrationCounter \in Drawn'
        /\ migrationCounter \in Drawn => migrationCounter \in CollidingIds'
    BY <1>1, <1>4, FreshId DEF NewMigrationId
  <2> QED
    BY <2>1, <2>2, <2>3, <2>4, GrowIdentity
<1> QED
  BY <1>2, <1>3, <1>4, StepIds

(* No two episodes of a workload have the same id, unless it is one that both *)
(* the engine and the workload itself have drawn.                             *)
THEOREM IdentityCorrect == Spec => []IdentityInv
<1>1. Init => IdentityInv
  BY EpisodeIdAssumption DEF Init, Counters, IdentityInv
<1>2. TypeOK /\ TypeOK' /\ IdentityInv /\ [Next]_vars => IdentityInv'
  BY StepIdentity
<1> QED
  BY <1>1, <1>2, TypeCorrect, PTL DEF Spec

(* So the id of the authoritative episode finds that episode, in any order of *)
(* starts and migrations, except where the two counters have collided.        *)
THEOREM AddressableCorrect == Spec => []AuthorityAddressable
<1>1. TypeOK /\ IdentityInv => AuthorityAddressable
  BY DEF TypeOK, IdentityInv, AuthorityAddressable, Lookup
<1> QED
  BY <1>1, TypeCorrect, IdentityCorrect, PTL

(* In particular it finds it always before the engine has drawn an id from    *)
(* the range the migrations use.                                              *)
LEMMA EarlyIdsApart ==
    ASSUME TypeOK, episodeCounter <= FirstMigrationId
    PROVE  CollidingIds = {}
BY CounterTypes DEF CollidingIds
=============================================================================
