-------------------------- MODULE EvacuationProofs --------------------------
(***************************************************************************)
(* Proofs about Evacuation, for every number of nodes, chunks, jobs and    *)
(* faults, in two independent parts.                                       *)
(*                                                                         *)
(* WorldInv is about chunks and scans: until something fails, what a scan  *)
(* has counted stays there, however late it is written down, unless a node *)
(* cleans the copy up meanwhile.  JobsInv is about jobs: ids are given out *)
(* in order, each job goes through its stages, and a node is marked from   *)
(* the moment its job is accepted until that job has its result.           *)
(***************************************************************************)
EXTENDS Evacuation, FiniteSetTheorems, TLAPS

-----------------------------------------------------------------------------
(* The invariants *)

Scans == [reached: SUBSET Nodes, asked: SUBSET Nodes, cleaned: SUBSET Chunks,
          seen: SUBSET (Nodes \X Chunks)]

\* What a scan has seen is there, or was cleaned up.
SeenThere(v) == \A n \in Nodes, c \in Chunks :
    <<n, c>> \in v.seen => c \in disk[n] \/ c \in v.cleaned

\* Until something fails, everybody is online, and scans and the snapshot count copies that are there,
\* or that were cleaned up.
Honest ==
    faults = 0 =>
        /\ online = Nodes
        /\ \A p \in Scanners : scans[p] # None => SeenThere(scans[p])
        /\ \A c \in Chunks : \A n \in snapshot[c] : c \in disk[n] \/ c \in cleaned

WorldInv ==
    /\ disk \in [Nodes -> SUBSET Chunks] /\ replicas \in [Nodes -> SUBSET Chunks]
    /\ online \subseteq Nodes /\ snapshot \in [Chunks -> SUBSET Nodes]
    /\ notices \subseteq Nodes \X Chunks /\ cleaned \subseteq Chunks
    /\ faults \in 0 .. MaxUpsets /\ cleanUps \in 0 .. MaxUpsets
    /\ scans \in [Scanners -> Scans \union {None}]
    /\ Honest

\* What a job shows goes with where its goroutine is; it ends with a result.
StageOK(r) ==
    r.status # "forgotten" =>
        /\ r.at = "start" <=> r.status = "pending"
        /\ r.at = "ended" <=> r.status \in Results
        /\ r.at = "finish" => r.result \in Results
        /\ r.chunk # None => r.at = "copy" /\ Cardinality(r.existing) < Target

JobsOK ==
    \A j \in JobIds : jobs[j] # None => jobs[j] \in Records /\ StageOK(jobs[j])

\* Ids are given out in order.
IdsInOrder == \E k \in 0 .. MaxJobs : \A j \in JobIds : jobs[j] # None <=> j <= k

\* A scan of a job is one that it waits for.
ScansOfJobs == \A j \in JobIds : scans[j] # None => At(j, "scan") \/ At(j, "rescan")

JobsInv ==
    /\ jobs \in [JobIds -> Records \union {None}]
    /\ JobsOK /\ IdsInOrder /\ OneEvacuation

EvacuationInv == WorldInv /\ JobsInv /\ ScansOfJobs

-----------------------------------------------------------------------------
(* Chunks and scans *)

\* A fault ends what is claimed of a world without any.
LEMMA FaultCounts ==
    ASSUME WorldInv, Fault
    PROVE  faults' \in 0 .. MaxUpsets /\ faults' # 0
  BY EvacuationAssumption DEF WorldInv, Fault

\* A chunk and its row are stored together.
LEMMA StoreKeeps ==
    ASSUME WorldInv, NEW n \in Nodes, NEW c \in Chunks, Store(n, c),
           UNCHANGED <<online, removals, scans, snapshot, cleaned, faults>>
    PROVE  WorldInv'
  BY DEF WorldInv, Honest, SeenThere, Store, removals

\* Nothing happens to chunks, rows, nodes, scans and the snapshot.
LEMMA IdleKeeps ==
    ASSUME WorldInv, UNCHANGED <<disk, replicas, online, removals, scans, snapshot, cleaned>>,
           Fault \/ UNCHANGED faults
    PROVE  WorldInv'
<1>1. CASE Fault
  BY <1>1, FaultCounts DEF WorldInv, Honest, removals
<1>2. CASE UNCHANGED faults
  BY <1>2 DEF WorldInv, Honest, SeenThere, removals
<1> QED
  BY <1>1, <1>2

\* A scan asks the nodes.
LEMMA BeginScanKeeps ==
    ASSUME WorldInv, NEW p \in Scanners, NEW mute \in SUBSET Nodes, BeginScan(p, mute),
           UNCHANGED <<disk, replicas, online, removals, snapshot, cleaned>>,
           Fault \/ UNCHANGED faults
    PROVE  WorldInv'
<1> DEFINE reached == (online \union {Self}) \ mute
           asked == {n \in reached \ {Self} : replicas[n] # {}}
           v == [reached |-> reached, asked |-> asked, cleaned |-> {},
                 seen |-> {m \in asked \X Chunks : m[2] \in replicas[m[1]] \cap disk[m[1]]}]
<1>1. v \in Scans /\ SeenThere(v)
  BY EvacuationAssumption DEF WorldInv, Scans, SeenThere
<1>2. scans' = [scans EXCEPT ![p] = v]
  BY DEF BeginScan
<1>3. PICK w \in Scans : SeenThere(w) /\ scans' = [scans EXCEPT ![p] = w]
  BY <1>1, <1>2
<1> HIDE DEF v
<1>4. scans' \in [Scanners -> Scans \union {None}] /\ UNCHANGED <<notices, cleanUps>>
  BY <1>3 DEF WorldInv, removals
<1>5. CASE Fault
  BY <1>4, <1>5, FaultCounts DEF WorldInv, Honest
<1>6. CASE UNCHANGED faults
  <2>1. SeenThere(w)'
    BY <1>3 DEF SeenThere
  <2>2. ASSUME faults = 0, NEW q \in Scanners, scans'[q] # None PROVE SeenThere(scans[q])'
    <3>1. CASE q = p
      BY <1>3, <2>1, <3>1 DEF WorldInv
    <3>2. CASE q # p
      BY <1>3, <2>2, <3>2 DEF WorldInv, Honest, SeenThere
    <3> QED
      BY <3>1, <3>2
  <2>3. Honest'
    BY <1>6, <2>2 DEF WorldInv, Honest
  <2> QED
    BY <1>4, <1>6, <2>3 DEF WorldInv
<1> QED
  BY <1>5, <1>6

\* A scan writes its snapshot: what it has seen, and what is there at that moment.
LEMMA EndScanKeeps ==
    ASSUME WorldInv, NEW p \in Scanners, EndScan(p),
           UNCHANGED <<disk, replicas, online, removals, faults>>
    PROVE  WorldInv'
<1>1. scans[p] \in Scans /\ cleaned' = scans[p].cleaned /\ UNCHANGED <<notices, cleanUps>>
  BY DEF EndScan, WorldInv, removals
<1>2. /\ scans' \in [Scanners -> Scans \union {None}] /\ snapshot' \in [Chunks -> SUBSET Nodes]
      /\ cleaned' \subseteq Chunks
  BY <1>1 DEF EndScan, WorldInv, Scans
<1>3. ASSUME faults = 0, NEW c \in Chunks, NEW n \in snapshot'[c]
      PROVE  c \in disk[n] \/ c \in cleaned'
  <2>1. n \in Nodes /\ Found(scans[p], c, n) /\ SeenThere(scans[p])
    BY <1>3 DEF EndScan, WorldInv, Honest
  <2> QED
    BY <1>1, <1>3, <2>1 DEF Found, SeenThere
<1>4. ASSUME faults = 0, NEW q \in Scanners, scans'[q] # None PROVE SeenThere(scans[q])'
  BY <1>4 DEF EndScan, WorldInv, Honest, SeenThere
<1>5. Honest'
  BY <1>3, <1>4 DEF Honest, WorldInv
<1> QED
  BY <1>1, <1>2, <1>5 DEF WorldInv

\* A clean-up leaves its mark on the snapshot and on the running scans that count the copy.
LEMMA CleanUpKeeps ==
    ASSUME WorldInv, NEW n \in Nodes, NEW c \in Chunks, CleanUp(n, c)
    PROVE  WorldInv'
<1>1. /\ disk' \in [Nodes -> SUBSET Chunks] /\ replicas' \in [Nodes -> SUBSET Chunks]
      /\ UNCHANGED <<online, snapshot, faults>> /\ notices' \subseteq Nodes \X Chunks
      /\ cleaned' \subseteq Chunks /\ cleaned \subseteq cleaned'
  BY DEF CleanUp, WorldInv
<1>2. cleanUps' \in 0 .. MaxUpsets
  BY EvacuationAssumption DEF CleanUp, WorldInv
<1>3. \A p \in Scanners : scans'[p] = IF scans[p] # None /\ <<n, c>> \in scans[p].seen
                                     THEN [scans[p] EXCEPT !.cleaned = @ \union {c}] ELSE scans[p]
  BY DEF CleanUp
<1>4. ASSUME NEW p \in Scanners, scans[p] # None
      PROVE  /\ scans'[p] \in Scans /\ scans'[p].seen = scans[p].seen
             /\ scans[p].cleaned \subseteq scans'[p].cleaned
             /\ <<n, c>> \in scans[p].seen => c \in scans'[p].cleaned
  <2>1. PICK v \in Scans : v = scans[p]
    BY <1>4 DEF WorldInv
  <2>2. PICK w : w = [v EXCEPT !.cleaned = v.cleaned \union {c}]
    OBVIOUS
  <2>3. w \in Scans /\ w.seen = v.seen /\ w.cleaned = v.cleaned \union {c}
    BY <2>2 DEF Scans
  <2>4. scans'[p] = IF <<n, c>> \in v.seen THEN w ELSE v
    BY <1>3, <1>4, <2>1, <2>2
  <2> QED
    BY <2>1, <2>3, <2>4
<1>5. scans' \in [Scanners -> Scans \union {None}]
  <2>1. \A p \in Scanners : scans'[p] \in Scans \union {None}
    BY <1>3, <1>4
  <2>2. scans' = [p \in Scanners |-> scans'[p]]
    BY DEF CleanUp
  <2> QED
    BY <2>1, <2>2
<1>6. \A m \in Nodes, d \in Chunks : d \in disk[m] => d \in disk'[m] \/ (m = n /\ d = c)
  BY DEF CleanUp, WorldInv
<1>7. ASSUME faults = 0, NEW p \in Scanners, scans'[p] # None PROVE SeenThere(scans[p])'
  <2>1. scans[p] # None
    BY <1>3, <1>7
  <2>2. SeenThere(scans[p])
    BY <1>7, <2>1 DEF WorldInv, Honest
  <2> QED
    BY <1>4, <1>6, <1>7, <2>1, <2>2 DEF SeenThere
<1>8. ASSUME faults = 0, NEW d \in Chunks, NEW m \in snapshot[d]
      PROVE  d \in disk'[m] \/ d \in cleaned'
  <2>1. m \in Nodes /\ (d \in disk[m] \/ d \in cleaned)
    BY <1>8 DEF WorldInv, Honest
  <2>2. m = n /\ d = c => d \in cleaned'
    BY <1>8 DEF CleanUp
  <2> QED
    BY <1>1, <1>6, <1>8, <2>1, <2>2
<1>9. Honest'
  BY <1>1, <1>7, <1>8 DEF Honest, WorldInv
<1> QED
  BY <1>1, <1>2, <1>5, <1>9 DEF WorldInv

\* What happens around the jobs.
LEMMA WorldKeeps ==
    ASSUME WorldInv, World
    PROVE  WorldInv'
<1>1. ASSUME NEW n \in Nodes, GoOffline(n) PROVE WorldInv'
  <2>1. /\ online' \subseteq Nodes /\ Fault
        /\ UNCHANGED <<disk, replicas, notices, cleanUps, scans, snapshot, cleaned>>
    BY <1>1 DEF GoOffline, WorldInv, removals
  <2> QED
    BY <2>1, FaultCounts DEF WorldInv, Honest
<1>2. ASSUME NEW n \in Nodes, ComeBack(n) PROVE WorldInv'
  BY <1>2 DEF ComeBack, WorldInv, Honest, SeenThere, removals
<1>3. ASSUME NEW n \in Nodes, NEW c \in Chunks, Arrive(n, c) PROVE WorldInv'
  BY <1>3, StoreKeeps DEF Arrive
<1>4. ASSUME NEW n \in Nodes, NEW c \in Chunks, HearRemoved(n, c) PROVE WorldInv'
  <2>1. /\ replicas' \in [Nodes -> SUBSET Chunks] /\ notices' \subseteq Nodes \X Chunks
        /\ UNCHANGED <<disk, online, cleanUps, scans, snapshot, cleaned, faults>>
    BY <1>4 DEF HearRemoved, WorldInv
  <2> QED
    BY <2>1 DEF WorldInv, Honest, SeenThere
<1>5. ASSUME NEW n \in Nodes, NEW c \in Chunks, LoseChunk(n, c) PROVE WorldInv'
  <2>1. /\ disk' \in [Nodes -> SUBSET Chunks] /\ Fault
        /\ UNCHANGED <<replicas, online, notices, cleanUps, scans, snapshot, cleaned>>
    BY <1>5 DEF LoseChunk, WorldInv, removals
  <2> QED
    BY <2>1, FaultCounts DEF WorldInv, Honest
<1>6. ASSUME Restart PROVE WorldInv'
  <2>1. /\ scans' \in [Scanners -> Scans \union {None}] /\ snapshot' \in [Chunks -> SUBSET Nodes]
        /\ cleaned' \subseteq Chunks /\ Fault
        /\ UNCHANGED <<disk, replicas, online, notices, cleanUps>>
    BY <1>6 DEF Restart, removals
  <2> QED
    BY <2>1, FaultCounts DEF WorldInv, Honest
<1> QED
  BY <1>1, <1>2, <1>3, <1>4, <1>5, <1>6, CleanUpKeeps DEF World

\* A job disturbs nothing of this.
LEMMA JobKeepsWorld ==
    ASSUME WorldInv, NEW j \in JobIds, JobStep(j), JobsInv
    PROVE  WorldInv'
<1>0. j \in Scanners
  BY DEF Scanners
<1>1. CASE JobBeginScan(j)
  BY <1>0, <1>1, BeginScanKeeps DEF JobBeginScan
<1>2. CASE JobEndScan(j)
  BY <1>0, <1>2, EndScanKeeps DEF JobEndScan
<1>3. ASSUME NEW c \in Chunks, TakeChunk(j, c) PROVE WorldInv'
  <2>1. \/ UNCHANGED <<disk, replicas>> /\ (Fault \/ UNCHANGED faults)
        \/ Store(Self, c) /\ UNCHANGED faults
    BY <1>3 DEF TakeChunk
  <2>2. UNCHANGED <<online, removals, scans, snapshot, cleaned>>
    BY <1>3 DEF TakeChunk
  <2> QED
    BY <2>1, <2>2, IdleKeeps, StoreKeeps, EvacuationAssumption
<1>4. ASSUME NEW n \in Nodes, PushCopy(j, n) PROVE WorldInv'
  <2>1. jobs[j].chunk \in Chunks
    BY <1>4 DEF PushCopy, At, Alive, JobsInv, Records
  <2> QED
    BY <1>4, <2>1, StoreKeeps DEF PushCopy
<1>5. CASE Start(j) \/ ReadLists(j) \/ CopiesDone(j) \/ GiveUp(j) \/ Report(j) \/ StoreFails(j) \/ Finish(j)
  <2>1. /\ UNCHANGED <<disk, replicas, online, removals, scans, snapshot, cleaned>>
        /\ Fault \/ UNCHANGED faults
    BY <1>5 DEF Start, ReadLists, CopiesDone, GiveUp, Report, StoreFails, Finish, Return
  <2> QED
    BY <2>1, IdleKeeps
<1> QED
  BY <1>1, <1>2, <1>3, <1>4, <1>5 DEF JobStep

-----------------------------------------------------------------------------
(* Jobs *)

\* A job goes on: it stays inside, or it leaves with the mark of its node, or it had left before.
LEMMA JobMoves ==
    ASSUME JobsInv, NEW j \in JobIds, Alive(j),
           NEW r \in Records, StageOK(r), r.status # "forgotten", r.node = jobs[j].node,
           jobs' = [jobs EXCEPT ![j] = r],
           \/ Inside(j) /\ r.at \notin {"finish", "ended"} /\ evacuating' = evacuating
           \/ Inside(j) /\ r.at \in {"finish", "ended"} /\ evacuating' = evacuating \ {jobs[j].node}
           \/ ~Inside(j) /\ r.at \in {"finish", "ended"} /\ evacuating' = evacuating
    PROVE  JobsInv'
<1>1. jobs[j] # None /\ r # None
  BY EvacuationAssumption DEF Alive
<1>2. jobs' \in [JobIds -> Records \union {None}] /\ JobsOK'
  BY DEF JobsInv, JobsOK
<1>3. IdsInOrder'
  <2>1. PICK k \in 0 .. MaxJobs : \A i \in JobIds : jobs[i] # None <=> i <= k
    BY DEF JobsInv, IdsInOrder
  <2>2. \A i \in JobIds : jobs'[i] # None <=> i <= k
    BY <1>1, <2>1 DEF JobsInv
  <2> QED
    BY <2>2 DEF IdsInOrder
<1>4. \A i \in JobIds \ {j} : (Inside(i)' <=> Inside(i)) /\ jobs'[i] = jobs[i]
  BY DEF Inside, Alive, JobsInv
<1>5. jobs'[j] = r /\ (Inside(j)' <=> r.at \notin {"finish", "ended"})
  BY <1>1 DEF Inside, Alive, JobsInv
<1> DEFINE inside == {i \in JobIds : Inside(i)}
           insideNext == {i \in JobIds : Inside(i)'}
<1>6. \A i, l \in JobIds : Inside(i) /\ Inside(l) /\ jobs[i].node = jobs[l].node => i = l
  BY DEF JobsInv, OneEvacuation
<1>7. \A i, l \in JobIds : Inside(i)' /\ Inside(l)' /\ jobs'[i].node = jobs'[l].node => i = l
  BY <1>4, <1>5, <1>6
<1>8. evacuating = {jobs[i].node : i \in inside}
  BY DEF JobsInv, OneEvacuation
<1>9. evacuating' = {jobs'[i].node : i \in insideNext}
  <2>1. CASE Inside(j) /\ r.at \notin {"finish", "ended"} /\ evacuating' = evacuating
    BY <1>4, <1>5, <1>8, <2>1
  <2>2. CASE Inside(j) /\ r.at \in {"finish", "ended"} /\ evacuating' = evacuating \ {jobs[j].node}
    BY <1>4, <1>5, <1>6, <1>8, <2>2
  <2>3. CASE ~Inside(j) /\ r.at \in {"finish", "ended"} /\ evacuating' = evacuating
    BY <1>4, <1>5, <1>8, <2>3
  <2> QED
    BY <2>1, <2>2, <2>3
<1>10. OneEvacuation'
  BY <1>7, <1>9 DEF OneEvacuation
<1> QED
  BY <1>2, <1>3, <1>10 DEF JobsInv

\* The next id is free: ids are given out in order.
LEMMA NextJobIsFree ==
    ASSUME JobsInv, NextJob \in JobIds
    PROVE  /\ jobs[NextJob] = None
           /\ \A i \in JobIds : (i = NextJob \/ jobs[i] # None) <=> i <= NextJob
<1>1. PICK k \in 0 .. MaxJobs : \A i \in JobIds : jobs[i] # None <=> i <= k
  BY DEF JobsInv, IdsInOrder
<1>2. MaxJobs \in Nat /\ k \in Nat
  BY EvacuationAssumption
<1>3. {i \in JobIds : jobs[i] # None} = 1 .. k
  BY <1>1, <1>2 DEF JobIds
<1>4. Cardinality(1 .. k) = k
  BY <1>2, FS_Interval
<1>5. NextJob = k + 1
  BY <1>3, <1>4 DEF NextJob
<1> QED
  BY <1>1, <1>2, <1>5 DEF JobIds

\* A node is marked with the acceptance of its job.
LEMMA AcceptKeepsJobs ==
    ASSUME JobsInv, NEW n \in Nodes, AcceptEvacuation(n)
    PROVE  JobsInv'
<1> DEFINE r == Fresh(n)
<1>0. PICK k \in JobIds : k = NextJob
  BY DEF AcceptEvacuation
<1>1. jobs[k] = None /\ (\A i \in JobIds : (i = k \/ jobs[i] # None) <=> i <= k)
  BY <1>0, NextJobIsFree
<1>2. /\ r \in Records /\ r # None /\ StageOK(r) /\ r.node = n /\ r.at = "start" /\ r.status = "pending"
  BY EvacuationAssumption DEF Fresh, Records, StageOK, Results
<1>3. jobs' = [jobs EXCEPT ![k] = r] /\ evacuating' = evacuating \union {n} /\ n \notin evacuating
  BY <1>0 DEF AcceptEvacuation, Refused
<1> HIDE DEF r
<1>4. jobs' \in [JobIds -> Records \union {None}] /\ JobsOK'
  BY <1>1, <1>2, <1>3 DEF JobsInv, JobsOK
<1>5. IdsInOrder'
  <2>1. \A i \in JobIds : jobs'[i] # None <=> i <= k
    BY <1>1, <1>2, <1>3 DEF JobsInv
  <2>2. k \in 0 .. MaxJobs
    BY <1>1, EvacuationAssumption DEF JobIds
  <2> QED
    BY <2>1, <2>2 DEF IdsInOrder
<1>6. \A i \in JobIds \ {k} : (Inside(i)' <=> Inside(i)) /\ jobs'[i] = jobs[i]
  BY <1>3 DEF Inside, Alive, JobsInv
<1>7. jobs'[k] = r /\ Inside(k)' /\ ~Inside(k)
  BY <1>1, <1>2, <1>3 DEF Inside, Alive, JobsInv
<1>8. /\ \A i, l \in JobIds : Inside(i) /\ Inside(l) /\ jobs[i].node = jobs[l].node => i = l
      /\ evacuating = {jobs[i].node : i \in {l \in JobIds : Inside(l)}}
  BY DEF JobsInv, OneEvacuation
<1>9. \A i \in JobIds : Inside(i) => jobs[i].node # n
  BY <1>3, <1>8
<1>10. \A i, l \in JobIds : Inside(i)' /\ Inside(l)' /\ jobs'[i].node = jobs'[l].node => i = l
  BY <1>2, <1>6, <1>7, <1>8, <1>9
<1>11. evacuating' = {jobs'[i].node : i \in {l \in JobIds : Inside(l)'}}
  BY <1>1, <1>2, <1>3, <1>6, <1>7, <1>8
<1>12. OneEvacuation'
  BY <1>10, <1>11 DEF OneEvacuation
<1> QED
  BY <1>4, <1>5, <1>12 DEF JobsInv

\* After a restart no job is inside, and no node is marked.
LEMMA RestartKeepsJobs ==
    ASSUME JobsInv, Restart
    PROVE  JobsInv' /\ ScansOfJobs'
<1>1. \A j \in JobIds : jobs[j] # None =>
         /\ [Fresh(jobs[j].node) EXCEPT !.status = "forgotten"] \in Records
         /\ [Fresh(jobs[j].node) EXCEPT !.status = "forgotten"] # None
         /\ [Fresh(jobs[j].node) EXCEPT !.status = "forgotten"].status = "forgotten"
  BY EvacuationAssumption DEF JobsInv, JobsOK, Fresh, Records
<1>2. \A j \in JobIds : jobs'[j] = IF jobs[j] = None THEN None
                                   ELSE [Fresh(jobs[j].node) EXCEPT !.status = "forgotten"]
  BY DEF Restart
<1>3. jobs' \in [JobIds -> Records \union {None}] /\ JobsOK'
  <2>1. jobs' \in [JobIds -> Records \union {None}]
    BY <1>1 DEF Restart
  <2> QED
    BY <1>1, <1>2, <2>1 DEF JobsOK, StageOK
<1>4. IdsInOrder'
  BY <1>1, <1>2 DEF JobsInv, IdsInOrder
<1>5. \A j \in JobIds : ~Inside(j)'
  BY <1>1, <1>2 DEF Inside, Alive
<1>6. OneEvacuation'
  <2>1. evacuating' = {}
    BY DEF Restart
  <2> QED
    BY <1>5, <2>1 DEF OneEvacuation
<1>7. ScansOfJobs'
  BY DEF Restart, ScansOfJobs, Scanners
<1> QED
  BY <1>3, <1>4, <1>6, <1>7 DEF JobsInv

\* The step of job j that makes its record r, with the mark of its node and with what the list shows.
Moves(j, r) ==
    /\ Alive(j) /\ r \in Records /\ StageOK(r) /\ r.status # "forgotten" /\ r.node = jobs[j].node
    /\ jobs' = [jobs EXCEPT ![j] = r]
    /\ \/ Inside(j) /\ r.at \notin {"finish", "ended"} /\ evacuating' = evacuating
       \/ Inside(j) /\ r.at \in {"finish", "ended"} /\ evacuating' = evacuating \ {jobs[j].node}
       \/ ~Inside(j) /\ r.at \in {"finish", "ended"} /\ evacuating' = evacuating
    /\ \/ r.status = jobs[j].status
       \/ jobs[j].status = "pending" /\ r.status = "running"
       \/ jobs[j].status = "running" /\ r.status \in Results

\* A step between stages that changes nothing but the stage.
LEMMA GotoMoves ==
    ASSUME JobsInv, NEW j \in JobIds, NEW at \in {"read", "rescan", "report"}, Goto(j, at),
           At(j, "scan") \/ At(j, "rescan") \/ Copied(j), UNCHANGED evacuating
    PROVE  \E r \in Records : Moves(j, r)
<1> DEFINE r == [jobs[j] EXCEPT !.at = at]
<1>1. jobs[j] \in Records /\ StageOK(jobs[j]) /\ Alive(j)
      /\ jobs[j].at \in {"scan", "copy", "rescan"} /\ jobs[j].chunk = None
  BY DEF Copied, At, Alive, JobsInv, JobsOK, StageOK
<1>2. /\ r \in Records /\ r.at = at /\ r.status = jobs[j].status /\ r.node = jobs[j].node
      /\ r.chunk = jobs[j].chunk
  BY <1>1 DEF Records
<1>3. jobs' = [jobs EXCEPT ![j] = r]
  BY DEF Goto
<1> HIDE DEF r
<1>4. StageOK(r) /\ r.status # "forgotten"
  BY <1>1, <1>2 DEF StageOK, Alive
<1> QED
  BY <1>1, <1>2, <1>3, <1>4 DEF Moves, Inside

\* The job goes on with the chunks it has to copy.
LEMMA CopyMoves ==
    ASSUME JobsInv, NEW j \in JobIds, At(j, "copy"), NEW c \in Chunks, NEW ex \in SUBSET Nodes,
           With(j, c, ex) \/ Leave(j, c), UNCHANGED evacuating
    PROVE  \E r \in Records : Moves(j, r)
<1>1. jobs[j] \in Records /\ StageOK(jobs[j]) /\ Alive(j) /\ jobs[j].at = "copy"
  BY DEF At, Alive, JobsInv, JobsOK
<1>2. PICK h \in Chunks \union {None}, e \in SUBSET Nodes :
         /\ jobs' = [jobs EXCEPT ![j] = [jobs[j] EXCEPT !.todo = jobs[j].todo \ {c}, !.chunk = h,
                                                        !.existing = e]]
         /\ h # None => Cardinality(e) < Target
  <2>1. CASE With(j, c, ex)
    <3>1. CASE Cardinality(ex) < Target
      BY <2>1, <3>1 DEF With, JobsInv
    <3>2. CASE ~(Cardinality(ex) < Target)
      <4>1. jobs' = [jobs EXCEPT ![j] = [jobs[j] EXCEPT !.todo = jobs[j].todo \ {c}, !.chunk = None,
                                                        !.existing = {}]]
        BY <2>1, <3>2 DEF With, JobsInv
      <4>2. WITNESS None \in Chunks \union {None}, {} \in SUBSET Nodes
      <4> QED
        BY <4>1
    <3> QED
      BY <3>1, <3>2
  <2>2. CASE Leave(j, c)
    <3>1. jobs' = [jobs EXCEPT ![j] = [jobs[j] EXCEPT !.todo = jobs[j].todo \ {c}, !.chunk = None,
                                                      !.existing = {}]]
      BY <2>2 DEF Leave, JobsInv
    <3>2. WITNESS None \in Chunks \union {None}, {} \in SUBSET Nodes
    <3> QED
      BY <3>1
  <2> QED
    BY <2>1, <2>2
<1> DEFINE r == [jobs[j] EXCEPT !.todo = jobs[j].todo \ {c}, !.chunk = h, !.existing = e]
<1>3. /\ r \in Records /\ r.at = "copy" /\ r.status = jobs[j].status /\ r.node = jobs[j].node
      /\ r.chunk = h /\ r.existing = e
  BY <1>1 DEF Records
<1>4. jobs' = [jobs EXCEPT ![j] = r]
  BY <1>2
<1> HIDE DEF r
<1>5. StageOK(r) /\ r.status # "forgotten"
  BY <1>1, <1>2, <1>3 DEF StageOK, Alive
<1> QED
  BY <1>1, <1>3, <1>4, <1>5 DEF Moves, Inside

\* The job has its result, and its node is free.
LEMMA ReturnMoves ==
    ASSUME JobsInv, NEW j \in JobIds, At(j, "read") \/ At(j, "report"), NEW result \in Results,
           Return(j, result)
    PROVE  \E r \in Records : Moves(j, r)
<1>1. jobs[j] \in Records /\ StageOK(jobs[j]) /\ Alive(j) /\ jobs[j].at \in {"read", "report"}
  BY DEF At, Alive, JobsInv, JobsOK
<1> DEFINE r == [jobs[j] EXCEPT !.at = "finish", !.result = result, !.known = {}]
<1>2. /\ r \in Records /\ r.at = "finish" /\ r.status = jobs[j].status /\ r.node = jobs[j].node
      /\ r.chunk = jobs[j].chunk /\ r.result = result
  BY <1>1 DEF Records
<1>3. jobs' = [jobs EXCEPT ![j] = r] /\ evacuating' = evacuating \ {jobs[j].node}
  BY DEF Return
<1> HIDE DEF r
<1>4. StageOK(r) /\ r.status # "forgotten"
  BY <1>1, <1>2 DEF StageOK, Alive
<1> QED
  BY <1>1, <1>2, <1>3, <1>4 DEF Moves, Inside

\* Every step of a job but the beginning of a scan moves it.
LEMMA JobStepMoves ==
    ASSUME WorldInv, JobsInv, ScansOfJobs, NEW j \in JobIds, JobStep(j), ~JobBeginScan(j)
    PROVE  \E r \in Records : Moves(j, r)
<1>1. CASE Start(j)
  <2>1. jobs[j] \in Records /\ StageOK(jobs[j]) /\ Alive(j) /\ jobs[j].at = "start"
    BY <1>1 DEF Start, At, Alive, JobsInv, JobsOK
  <2> DEFINE r == [jobs[j] EXCEPT !.status = "running", !.at = "scan"]
  <2>2. /\ r \in Records /\ r.at = "scan" /\ r.status = "running" /\ r.node = jobs[j].node
        /\ r.chunk = jobs[j].chunk
    BY <2>1 DEF Records
  <2>3. jobs' = [jobs EXCEPT ![j] = r] /\ evacuating' = evacuating
    BY <1>1 DEF Start
  <2> HIDE DEF r
  <2>4. StageOK(r) /\ jobs[j].status = "pending"
    BY <2>1, <2>2 DEF StageOK, Alive, Results
  <2> QED
    BY <2>1, <2>2, <2>3, <2>4 DEF Moves, Inside
<1>2. CASE JobEndScan(j)
  <2>1. At(j, "scan") \/ At(j, "rescan")
    BY <1>2 DEF JobEndScan, EndScan, ScansOfJobs
  <2>2. Goto(j, "read") \/ Goto(j, "report")
    BY <1>2 DEF JobEndScan
  <2> QED
    BY <1>2, <2>1, <2>2, GotoMoves DEF JobEndScan
<1>3. CASE ReadLists(j)
  <2>1. jobs[j] \in Records /\ StageOK(jobs[j]) /\ Alive(j) /\ jobs[j].at = "read"
    BY <1>3 DEF ReadLists, At, Alive, JobsInv, JobsOK
  <2> DEFINE rows == replicas[jobs[j].node]
             r == [jobs[j] EXCEPT !.at = "copy", !.todo = rows, !.known = online]
  <2>2. rows \in SUBSET Chunks /\ online \in SUBSET Nodes
    BY <2>1 DEF Records, WorldInv
  <2>3. jobs' = [jobs EXCEPT ![j] = r] /\ evacuating' = evacuating
    BY <1>3 DEF ReadLists
  <2> HIDE DEF rows
  <2>4. /\ r \in Records /\ r.at = "copy" /\ r.status = jobs[j].status /\ r.node = jobs[j].node
        /\ r.chunk = jobs[j].chunk
    BY <2>1, <2>2 DEF Records
  <2> HIDE DEF r
  <2>5. StageOK(r) /\ r.status # "forgotten"
    BY <2>1, <2>4 DEF StageOK, Alive
  <2> QED
    BY <2>1, <2>3, <2>4, <2>5 DEF Moves, Inside
<1>4. CASE CopiesDone(j)
  BY <1>4, GotoMoves DEF CopiesDone
<1>5. ASSUME NEW c \in Chunks, TakeChunk(j, c) PROVE \E r \in Records : Moves(j, r)
  <2>1. jobs[j].node \in Nodes
    BY <1>5 DEF TakeChunk, At, Alive, JobsInv, Records
  <2>2. Counted(j, c) \in SUBSET Nodes
    BY <2>1, EvacuationAssumption DEF Counted, Verified, WorldInv
  <2>3. At(j, "copy") /\ (With(j, c, Counted(j, c)) \/ Leave(j, c)) /\ UNCHANGED evacuating
    BY <1>5 DEF TakeChunk
  <2> QED
    BY <2>2, <2>3, CopyMoves
<1>6. ASSUME NEW n \in Nodes, PushCopy(j, n) PROVE \E r \in Records : Moves(j, r)
  <2>1. jobs[j].chunk \in Chunks /\ jobs[j].existing \union {n} \in SUBSET Nodes
    BY <1>6 DEF PushCopy, At, Alive, JobsInv, Records
  <2> QED
    BY <1>6, <2>1, CopyMoves DEF PushCopy
<1>7. CASE GiveUp(j)
  <2>1. jobs[j].chunk \in Chunks
    BY <1>7 DEF GiveUp, At, Alive, JobsInv, Records
  <2> QED
    BY <1>7, <2>1, CopyMoves DEF GiveUp
<1>8. CASE Report(j) \/ StoreFails(j)
  BY <1>8, ReturnMoves DEF Report, StoreFails, Results
<1>9. CASE Finish(j)
  <2>1. jobs[j] \in Records /\ StageOK(jobs[j]) /\ Alive(j) /\ jobs[j].at = "finish"
    BY <1>9 DEF Finish, At, Alive, JobsInv, JobsOK
  <2> DEFINE r == [jobs[j] EXCEPT !.status = jobs[j].result, !.at = "ended"]
  <2>2. jobs[j].result \in Results /\ jobs[j].status = "running" /\ jobs[j].chunk = None
    BY <2>1 DEF StageOK, Alive, Records
  <2>3. /\ r \in Records /\ r.at = "ended" /\ r.status = jobs[j].result /\ r.node = jobs[j].node
        /\ r.chunk = None
    BY <2>1, <2>2 DEF Records
  <2>4. jobs' = [jobs EXCEPT ![j] = r] /\ evacuating' = evacuating
    BY <1>9 DEF Finish
  <2> HIDE DEF r
  <2>5. StageOK(r) /\ r.status # "forgotten"
    BY <2>2, <2>3 DEF StageOK, Results
  <2> QED
    BY <2>1, <2>2, <2>3, <2>4, <2>5 DEF Moves, Inside
<1> QED
  BY <1>1, <1>2, <1>3, <1>4, <1>5, <1>6, <1>7, <1>8, <1>9 DEF JobStep

\* A step of a job keeps what is said of jobs, and of the scans they wait for.
LEMMA JobStepKeepsJobs ==
    ASSUME WorldInv, JobsInv, ScansOfJobs, NEW j \in JobIds, JobStep(j)
    PROVE  JobsInv' /\ ScansOfJobs'
<1>1. CASE JobBeginScan(j)
  <2>1. UNCHANGED <<jobs, evacuating>> /\ (At(j, "scan") \/ At(j, "rescan"))
        /\ \A i \in JobIds \ {j} : scans'[i] = scans[i]
    BY <1>1 DEF JobBeginScan, BeginScan, WorldInv, Scanners
  <2> QED
    BY <2>1 DEF JobsInv, JobsOK, IdsInOrder, OneEvacuation, ScansOfJobs, Inside, Alive, At
<1>2. CASE ~JobBeginScan(j)
  <2>1. PICK r \in Records : Moves(j, r)
    BY <1>2, JobStepMoves
  <2>2. JobsInv'
    BY <2>1, JobMoves DEF Moves
  <2>3. /\ \A i \in JobIds : scans'[i] # None => scans[i] # None
        /\ scans'[j] = None
    <3>1. CASE JobEndScan(j)
      BY <3>1 DEF JobEndScan, EndScan, WorldInv, Scanners
    <3>2. CASE ~JobEndScan(j)
      <4>1. scans' = scans /\ ~At(j, "scan") /\ ~At(j, "rescan")
        BY <1>2, <3>2 DEF JobStep, Start, ReadLists, CopiesDone, Copied, TakeChunk, PushCopy, GiveUp,
           Report, StoreFails, Finish, Return, At
      <4> QED
        BY <4>1 DEF ScansOfJobs
    <3> QED
      BY <3>1, <3>2
  <2>4. \A i \in JobIds \ {j} : jobs'[i] = jobs[i]
    BY <2>1 DEF Moves
  <2> QED
    BY <2>2, <2>3, <2>4 DEF ScansOfJobs, At, Alive
<1> QED
  BY <1>1, <1>2

-----------------------------------------------------------------------------
(* The theorems *)

\* Initially there are no chunks, scans or jobs.
LEMMA EvacuationInit == Init => EvacuationInv
<1> SUFFICES ASSUME Init PROVE EvacuationInv
  OBVIOUS
<1>1. WorldInv
  BY EvacuationAssumption DEF Init, WorldInv, Honest
<1>2. \A j \in JobIds : jobs[j] = None /\ scans[j] = None
  BY DEF Init, Scanners
<1>3. JobsInv
  <2>1. \A j \in JobIds : jobs[j] # None <=> j <= 0
    BY <1>2, EvacuationAssumption DEF JobIds
  <2>2. IdsInOrder
    BY <2>1, EvacuationAssumption DEF IdsInOrder
  <2> QED
    BY <1>2, <2>2 DEF Init, JobsInv, JobsOK, OneEvacuation, Inside, Alive
<1> QED
  BY <1>1, <1>2, <1>3 DEF EvacuationInv, ScansOfJobs

\* Every step of the agent, its jobs and the world keeps both invariants.
LEMMA EvacuationStep == EvacuationInv /\ [Next]_vars => EvacuationInv'
<1> SUFFICES ASSUME EvacuationInv, [Next]_vars PROVE EvacuationInv'
  OBVIOUS
<1> USE DEF EvacuationInv
<1>0. ASSUME UNCHANGED <<jobs, evacuating>> PROVE JobsInv'
  BY <1>0 DEF JobsInv, JobsOK, IdsInOrder, OneEvacuation, Inside, Alive
<1>1. CASE LoopScan
  <2>1. WorldInv'
    <3>1. Loop \in Scanners
      BY DEF Scanners
    <3> QED
      BY <1>1, <3>1, BeginScanKeeps, EndScanKeeps DEF LoopScan
  <2>2. \A j \in JobIds : scans'[j] = scans[j] /\ jobs'[j] = jobs[j]
    BY <1>1, EvacuationAssumption DEF LoopScan, BeginScan, EndScan, WorldInv, Scanners, JobIds, Loop
  <2> QED
    BY <1>0, <1>1, <2>1, <2>2 DEF LoopScan, ScansOfJobs, At, Alive
<1>2. CASE World
  <2>1. CASE Restart
    BY <1>2, <2>1, WorldKeeps, RestartKeepsJobs
  <2>2. CASE ~Restart
    <3>1. UNCHANGED <<jobs, evacuating>> /\ \A j \in JobIds : scans'[j] # None => scans[j] # None
      BY <1>2, <2>2 DEF World, GoOffline, ComeBack, Arrive, CleanUp, HearRemoved, LoseChunk, Scanners
    <3> QED
      BY <1>0, <1>2, <3>1, WorldKeeps DEF ScansOfJobs, At, Alive
  <2> QED
    BY <2>1, <2>2
<1>3. ASSUME NEW j \in JobIds, JobStep(j) PROVE EvacuationInv'
  BY <1>3, JobKeepsWorld, JobStepKeepsJobs
<1>4. ASSUME NEW n \in Nodes, AcceptEvacuation(n) PROVE EvacuationInv'
  <2>1. WorldInv'
    BY <1>4, IdleKeeps DEF AcceptEvacuation
  <2>2. ScansOfJobs'
    <3>1. PICK k \in JobIds : k = NextJob
      BY <1>4 DEF AcceptEvacuation
    <3>2. jobs[k] = None /\ \A i \in JobIds \ {k} : jobs'[i] = jobs[i]
      BY <1>4, <3>1, NextJobIsFree DEF AcceptEvacuation
    <3> QED
      BY <1>4, <3>2 DEF AcceptEvacuation, ScansOfJobs, At, Alive
  <2> QED
    BY <1>4, <2>1, <2>2, AcceptKeepsJobs
<1>5. CASE UNCHANGED vars
  <2>1. WorldInv'
    BY <1>5, IdleKeeps DEF vars, removals
  <2> QED
    BY <1>0, <1>5, <2>1 DEF vars, ScansOfJobs, At, Alive
<1> QED
  BY <1>1, <1>2, <1>3, <1>4, <1>5 DEF Next

\* Both invariants hold, and scans of jobs are ones they wait for.
THEOREM EvacuationInvariant == Spec => []EvacuationInv
  BY EvacuationInit, EvacuationStep, PTL DEF Spec

\* Every variable keeps its type in every reachable state.
THEOREM EvacuationTypes == Spec => []TypeOK
<1>1. EvacuationInv => TypeOK
  <2> SUFFICES ASSUME EvacuationInv PROVE TypeOK
    OBVIOUS
  <2>1. evacuating \subseteq Nodes
    BY DEF EvacuationInv, JobsInv, OneEvacuation, Inside, Alive, Records
  <2>2. \A j \in JobIds : Alive(j) /\ jobs[j].chunk # None =>
           jobs[j].at = "copy" /\ Cardinality(jobs[j].existing) < Target
    BY DEF EvacuationInv, JobsInv, JobsOK, StageOK, Alive
  <2> QED
    BY <2>1, <2>2 DEF EvacuationInv, WorldInv, JobsInv, TypeOK, Scans
<1> QED
  BY <1>1, EvacuationInvariant, PTL

\* A node is evacuated by one job at a time, and marked exactly while that job works on it.
THEOREM OneEvacuationHolds == Spec => []OneEvacuation
<1>1. EvacuationInv => OneEvacuation
  BY DEF EvacuationInv, JobsInv
<1> QED
  BY <1>1, EvacuationInvariant, PTL

\* Until something fails, what is said to be safe to exit has its copies elsewhere, but for those that
\* were cleaned up since they were counted.
THEOREM SafeIsTrueHolds == Spec => []SafeIsTrue
<1>1. EvacuationInv => SafeIsTrue
  <2> SUFFICES ASSUME EvacuationInv, faults = 0, NEW n \in Nodes, SafeToExit(n),
                      NEW c \in replicas[n] \ cleaned
               PROVE  Cardinality({m \in online \ {n} : c \in disk[m]}) >= Target
    BY DEF SafeIsTrue
  <2> DEFINE there == {m \in online \ {n} : c \in disk[m]}
  <2>1. c \in Chunks /\ online = Nodes /\ snapshot[c] \subseteq Nodes
        /\ \A m \in snapshot[c] : c \in disk[m]
    BY DEF EvacuationInv, WorldInv, Honest
  <2>2. Verified(c, n) \subseteq there
    BY <2>1 DEF Verified
  <2>3. IsFiniteSet(there)
    BY <2>1, EvacuationAssumption, FS_Subset
  <2>4. /\ IsFiniteSet(Verified(c, n))
        /\ Cardinality(Verified(c, n)) <= Cardinality(there)
    BY <2>2, <2>3, FS_Subset
  <2>5. Cardinality(Verified(c, n)) \in Nat /\ Cardinality(there) \in Nat
    BY <2>3, <2>4, FS_CardinalityType
  <2>6. ~(Cardinality(Verified(c, n)) < Target)
    BY DEF SafeToExit, Pending
  <2> HIDE DEF there
  <2>7. Cardinality(there) >= Target
    BY <2>4, <2>5, <2>6, EvacuationAssumption
  <2> QED
    BY <2>7 DEF there
<1> QED
  BY <1>1, EvacuationInvariant, PTL

\* The job list, with everything the goroutines run into, implements JobLife: an accepted id was never
\* used, a running job gets one result, and only a restart forgets.
THEOREM ImplementsJobLife == Spec => List!Spec
<1> DEFINE shown == [j \in JobIds |-> Status(j)]
<1>1. Init => List!Init
  BY DEF Init, List!Init, Status
<1>2. EvacuationInv /\ [Next]_vars => [List!Next]_shown
  <2> SUFFICES ASSUME EvacuationInv, [Next]_vars PROVE List!Next \/ UNCHANGED shown
    OBVIOUS
  <2>0. ASSUME UNCHANGED jobs PROVE UNCHANGED shown
    BY <2>0 DEF Status
  <2>1. CASE LoopScan \/ UNCHANGED vars
    BY <2>0, <2>1 DEF LoopScan, vars
  <2>2. CASE World
    <3>1. CASE Restart
      <4>1. JobsInv' /\ \A j \in JobIds : jobs[j] # None => jobs'[j].status = "forgotten"
        BY <3>1, RestartKeepsJobs DEF EvacuationInv, Restart, Fresh
      <4>2. \A j \in JobIds : jobs'[j] = None <=> jobs[j] = None
        <5> SUFFICES ASSUME NEW j \in JobIds, jobs[j] # None PROVE jobs'[j] # None
          BY <3>1 DEF Restart
        <5>1. [Fresh(jobs[j].node) EXCEPT !.status = "forgotten"] \in Records
          BY DEF EvacuationInv, JobsInv, JobsOK, Fresh, Records
        <5> QED
          BY <3>1, <5>1, EvacuationAssumption DEF Restart
      <4>3. \A j \in JobIds : shown'[j] = IF List!Known(j) THEN "forgotten" ELSE shown[j]
        BY <4>1, <4>2 DEF Status, List!Known, List!Results, Results, EvacuationInv, JobsInv, Records
      <4>4. shown' = [j \in JobIds |-> IF List!Known(j) THEN "forgotten" ELSE shown[j]]
        BY <4>3
      <4> QED
        BY <4>4 DEF List!Next, List!Forget
    <3>2. CASE ~Restart
      BY <2>0, <2>2, <3>2 DEF World, GoOffline, ComeBack, Arrive, CleanUp, HearRemoved, LoseChunk
    <3> QED
      BY <3>1, <3>2
  <2>3. ASSUME NEW n \in Nodes, AcceptEvacuation(n) PROVE List!Next
    <3>1. PICK k \in JobIds : k = NextJob
      BY <2>3 DEF AcceptEvacuation
    <3>2. jobs[k] = None /\ jobs' = [jobs EXCEPT ![k] = Fresh(n)]
      BY <2>3, <3>1, NextJobIsFree DEF AcceptEvacuation, EvacuationInv
    <3>3. Fresh(n) # None /\ Fresh(n).status = "pending"
      BY EvacuationAssumption DEF Fresh, Records
    <3>4. shown[k] = "unborn" /\ shown' = [shown EXCEPT ![k] = "pending"]
      BY <3>2, <3>3 DEF Status, EvacuationInv, JobsInv
    <3> QED
      BY <3>4 DEF List!Next, List!Accept, List!Become
  <2>4. ASSUME NEW j \in JobIds, JobStep(j) PROVE List!Next \/ UNCHANGED shown
    <3>1. CASE JobBeginScan(j)
      BY <2>0, <3>1 DEF JobBeginScan
    <3>2. CASE ~JobBeginScan(j)
      <4>1. PICK r \in Records : Moves(j, r)
        BY <2>4, <3>2, JobStepMoves DEF EvacuationInv
      <4>2. jobs[j] # None /\ r # None /\ jobs' = [jobs EXCEPT ![j] = r]
        BY <4>1, EvacuationAssumption DEF Moves, Alive
      <4>3. shown[j] = jobs[j].status /\ shown' = [shown EXCEPT ![j] = r.status]
        BY <4>2 DEF Status, EvacuationInv, JobsInv
      <4>4. CASE r.status = jobs[j].status
        BY <4>3, <4>4
      <4>5. CASE jobs[j].status = "pending" /\ r.status = "running"
        BY <4>3, <4>5 DEF List!Next, List!Run, List!Become
      <4>6. CASE jobs[j].status = "running" /\ r.status \in Results
        BY <4>3, <4>6 DEF List!Next, List!End, List!Become, List!Results, Results
      <4> QED
        BY <4>1, <4>4, <4>5, <4>6 DEF Moves
    <3> QED
      BY <3>1, <3>2
  <2> QED
    BY <2>1, <2>2, <2>3, <2>4 DEF Next
<1> QED
  BY <1>1, <1>2, EvacuationInvariant, PTL DEF Spec, List!Spec
=============================================================================
