----------------------------- MODULE Evacuation -----------------------------
(***************************************************************************)
(* Safe exit of a node (node_evacuation.go), as run by one agent: copy the *)
(* chunks of the leaving node to others, and say when it may leave.  What  *)
(* it says rests on the snapshot of the last health scan, and the loop and *)
(* every job scan on their own.  A scan has two steps: it asks the nodes   *)
(* what they hold, and later writes the snapshot from the replica rows of  *)
(* that moment.  A copy is one step per request.                           *)
(***************************************************************************)
EXTENDS Naturals, FiniteSets

CONSTANTS Nodes,      \* trusted nodes
          Self,       \* the agent
          Chunks,
          Target,     \* targetReplicaCount
          Uploaders,  \* nodes that get chunks other than from evacuations
          Cleaners,   \* nodes that clean up chunks nothing refers to
          MaxJobs,    \* evacuation jobs there will be
          MaxUpsets,  \* faults and clean-ups, taken together
          None        \* no job, no scan, no chunk

Results == {"done", "blocked", "failed"}

\* A job record; at: the next step of its goroutine; todo, chunk, existing and known: the chunks
\* still to copy, the one at work, the copies it has and the online nodes, when they were read.
Records ==
    [node: Nodes, status: {"pending", "running", "forgotten"} \union Results,
     at: {"start", "scan", "read", "copy", "rescan", "report", "finish", "ended"},
     todo: SUBSET Chunks, chunk: Chunks \union {None}, existing: SUBSET Nodes,
     known: SUBSET Nodes, result: Results \union {None}]

ASSUME EvacuationAssumption ==
    /\ IsFiniteSet(Nodes) /\ Self \in Nodes /\ Uploaders \subseteq Nodes /\ Cleaners \subseteq Nodes
    /\ None \notin Nodes \union Chunks \union Records
    /\ Target \in Nat \ {0} /\ MaxJobs \in Nat /\ MaxUpsets \in Nat

VARIABLES disk,        \* disk[n]: chunks that node n really holds
          replicas,    \* replicas[n]: chunks with an available replica row for n
          notices,     \* <<n, c>>: that n removed c is an event under way to the agent
          online,      \* nodes whose row says online
          scans,       \* scans[p]: what the running scan of p has found out
          snapshot,    \* snapshot[c]: verified copies of c at the last scan
          cleaned,     \* history: chunks of which the snapshot counts a copy that was cleaned up
          evacuating,  \* evacuatingNodes
          jobs,        \* the job list, and where each job's goroutine is
          faults,      \* failed requests, nodes or chunks lost, restarts
          cleanUps     \* copies removed because nothing refers to them

vars == <<disk, replicas, notices, online, scans, snapshot, cleaned, evacuating, jobs, cleanUps, faults>>
removals == <<notices, cleanUps>>

JobIds == 1 .. MaxJobs
Loop == 0
Scanners == {Loop} \union JobIds

Fresh(n) == [node |-> n, status |-> "pending", at |-> "start", todo |-> {}, chunk |-> None,
             existing |-> {}, known |-> {}, result |-> None]

Alive(j) == jobs[j] # None /\ jobs[j].status # "forgotten"
Inside(j) == Alive(j) /\ jobs[j].at \notin {"finish", "ended"}

Init ==
    /\ disk = [n \in Nodes |-> {}] /\ replicas = disk
    /\ online = Nodes /\ notices = {} /\ cleaned = {}
    /\ scans = [p \in Scanners |-> None]
    /\ snapshot = [c \in Chunks |-> {}]
    /\ evacuating = {} /\ jobs = [j \in JobIds |-> None] /\ cleanUps = 0 /\ faults = 0

Fault == faults + cleanUps < MaxUpsets /\ faults' = faults + 1

-----------------------------------------------------------------------------
\* What the agent says of a node.

VerifiedAnywhere(c, n) == snapshot[c]    \* mutant: counts the node's own copy
Verified(c, n) == snapshot[c] \ {n}
Pending(n) == {c \in replicas[n] : Cardinality(Verified(c, n)) < Target}
SafeToExit(n) == Pending(n) = {}

-----------------------------------------------------------------------------
\* Scans.

\* The online set is read, and the other nodes are asked for the chunks they have rows for; one that
\* does not answer at all (mute) counts like one that is offline.
BeginScan(p, mute) ==
    /\ scans[p] = None
    /\ LET reached == (online \union {Self}) \ mute
           asked == {n \in reached \ {Self} : replicas[n] # {}} IN
       scans' = [scans EXCEPT ![p] =
                    [reached |-> reached, asked |-> asked, cleaned |-> {},
                     seen |-> {m \in asked \X Chunks : m[2] \in replicas[m[1]] \cap disk[m[1]]}]]

\* A node that had nothing to be asked for then is asked for each chunk now.
Found(v, c, n) ==
    /\ n \in v.reached /\ c \in replicas[n]
    /\ IF n \in v.asked THEN <<n, c>> \in v.seen ELSE c \in disk[n]

\* Mutant: what was found once stays.
EndScanAdding(p) ==
    /\ scans[p] # None
    /\ snapshot' = [c \in Chunks |-> snapshot[c] \union {n \in Nodes : Found(scans[p], c, n)}]
    /\ scans' = [scans EXCEPT ![p] = None] /\ cleaned' = scans[p].cleaned

EndScan(p) ==
    /\ scans[p] # None
    /\ snapshot' = [c \in Chunks |-> {n \in Nodes : Found(scans[p], c, n)}]
    /\ scans' = [scans EXCEPT ![p] = None] /\ cleaned' = scans[p].cleaned

\* The scan loop of the agent.
LoopScan ==
    /\ \/ BeginScan(Loop, {}) /\ UNCHANGED <<snapshot, cleaned, faults>>
       \/ \E n \in Nodes \ {Self} : BeginScan(Loop, {n}) /\ Fault /\ UNCHANGED <<snapshot, cleaned>>
       \/ EndScan(Loop) /\ UNCHANGED faults
    /\ UNCHANGED <<disk, replicas, online, removals, evacuating, jobs>>

-----------------------------------------------------------------------------
\* Jobs.

\* Ids are random in the code; here the next number.
NextJob == Cardinality({j \in JobIds : jobs[j] # None}) + 1

\* The handler of the evacuate button, with the answer it gives.
Refused(n) == n \notin online \/ n \in evacuating

AcceptEvacuation(n) ==
    /\ ~Refused(n) /\ NextJob \in JobIds
    /\ jobs' = [jobs EXCEPT ![NextJob] = Fresh(n)]
    /\ evacuating' = evacuating \union {n}
    /\ UNCHANGED <<disk, replicas, online, removals, scans, snapshot, cleaned, faults>>

Goto(j, at) == jobs' = [jobs EXCEPT ![j].at = at]
At(j, at) == Alive(j) /\ jobs[j].at = at

Start(j) ==
    /\ At(j, "start")
    /\ jobs' = [jobs EXCEPT ![j].status = "running", ![j].at = "scan"]
    /\ UNCHANGED <<disk, replicas, online, removals, scans, snapshot, cleaned, evacuating, faults>>

\* The two scans of a job, before and after it copies.
Copied(j) == At(j, "copy") /\ jobs[j].todo = {} /\ jobs[j].chunk = None
JobBeginScan(j) ==
    /\ At(j, "scan") \/ At(j, "rescan")
    /\ \/ BeginScan(j, {}) /\ UNCHANGED faults
       \/ \E n \in Nodes \ {Self} : BeginScan(j, {n}) /\ Fault
    /\ UNCHANGED <<disk, replicas, online, removals, snapshot, cleaned, evacuating, jobs>>

JobEndScan(j) ==
    /\ EndScan(j)
    /\ Goto(j, IF jobs[j].at = "scan" THEN "read" ELSE "report")
    /\ UNCHANGED <<disk, replicas, online, removals, evacuating, faults>>

ReadLists(j) ==
    /\ At(j, "read")
    /\ jobs' = [jobs EXCEPT ![j].at = "copy", ![j].todo = replicas[jobs[j].node],
                            ![j].known = online]
    /\ UNCHANGED <<disk, replicas, online, removals, scans, snapshot, cleaned, evacuating, faults>>

\* Mutant: the chunk stays at hand when it has its copies.
WithForever(j, c, ex) ==
    jobs' = [jobs EXCEPT ![j].todo = @ \ {c}, ![j].chunk = c, ![j].existing = ex]

\* The job goes on with copies ex of chunk c: it leaves c, or takes it up.
With(j, c, ex) ==
    jobs' = [jobs EXCEPT ![j].todo = @ \ {c},
                         ![j].chunk = IF Cardinality(ex) < Target THEN c ELSE None,
                         ![j].existing = IF Cardinality(ex) < Target THEN ex ELSE {}]
Leave(j, c) ==
    jobs' = [jobs EXCEPT ![j].todo = @ \ {c}, ![j].chunk = None, ![j].existing = {}]

\* Copies of c the job counts once the agent holds it.
Counted(j, c) == Verified(c, jobs[j].node) \union ({Self} \ {jobs[j].node})
Sources(c) == {n \in online \ {Self} : c \in replicas[n] /\ c \in disk[n]}
Store(n, c) ==
    /\ disk' = [disk EXCEPT ![n] = @ \union {c}]
    /\ replicas' = [replicas EXCEPT ![n] = @ \union {c}]

\* One chunk is taken up.  The agent fetches it first, if it does not hold it.
TakeChunk(j, c) ==
    /\ At(j, "copy") /\ jobs[j].chunk = None /\ c \in jobs[j].todo
    /\ \/ /\ Cardinality(Verified(c, jobs[j].node)) >= Target
          /\ Leave(j, c) /\ UNCHANGED <<disk, replicas, faults>>
       \/ /\ Cardinality(Verified(c, jobs[j].node)) < Target
          /\ \/ /\ c \in disk[Self]
                /\ With(j, c, Counted(j, c)) /\ UNCHANGED <<disk, replicas, faults>>
             \/ /\ c \notin disk[Self] /\ Sources(c) # {}
                /\ Store(Self, c) /\ With(j, c, Counted(j, c)) /\ UNCHANGED faults
             \/ /\ c \notin disk[Self]
                /\ IF Sources(c) = {} THEN UNCHANGED faults ELSE Fault
                /\ Leave(j, c) /\ UNCHANGED <<disk, replicas>>
    /\ UNCHANGED <<online, removals, scans, snapshot, cleaned, evacuating>>

\* Who may take a copy, by the node list the job read; who is there to take it.
Candidates(j) == jobs[j].known \ (jobs[j].existing \union {Self, jobs[j].node})
Takers(j) == {n \in Candidates(j) \cap online : jobs[j].chunk \in disk[Self]}

PushCopy(j, n) ==
    /\ At(j, "copy") /\ jobs[j].chunk # None /\ n \in Takers(j)
    /\ Store(n, jobs[j].chunk)
    /\ With(j, jobs[j].chunk, jobs[j].existing \union {n})
    /\ UNCHANGED <<online, removals, scans, snapshot, cleaned, evacuating, faults>>

\* Nobody takes the copy: there is nobody, or all requests fail.
GiveUp(j) ==
    /\ At(j, "copy") /\ jobs[j].chunk # None
    /\ IF Takers(j) = {} THEN UNCHANGED faults ELSE Fault
    /\ Leave(j, jobs[j].chunk)
    /\ UNCHANGED <<disk, replicas, online, removals, scans, snapshot, cleaned, evacuating>>

CopiesDone(j) ==
    /\ Copied(j) /\ Goto(j, "rescan")
    /\ UNCHANGED <<disk, replicas, online, removals, scans, snapshot, cleaned, evacuating, faults>>

\* The goroutine has its result and lets go of the node; the job list learns of it later.
Return(j, result) ==
    /\ jobs' = [jobs EXCEPT ![j].at = "finish", ![j].result = result, ![j].known = {}]
    /\ evacuating' = evacuating \ {jobs[j].node}
    /\ UNCHANGED <<disk, replicas, online, removals, scans, snapshot, cleaned>>

Report(j) ==
    /\ At(j, "report")
    /\ Return(j, IF SafeToExit(jobs[j].node) THEN "done" ELSE "blocked")
    /\ UNCHANGED faults

\* Mutant: the node stays marked.
StoreFailsLocked(j) ==
    /\ At(j, "read") \/ At(j, "report")
    /\ Fault /\ Goto(j, "ended")
    /\ UNCHANGED <<disk, replicas, online, removals, scans, snapshot, cleaned, evacuating>>

\* The store fails where the job reads its lists.
StoreFails(j) == (At(j, "read") \/ At(j, "report")) /\ Fault /\ Return(j, "failed")

Finish(j) ==
    /\ At(j, "finish")
    /\ jobs' = [jobs EXCEPT ![j].status = jobs[j].result, ![j].at = "ended"]
    /\ UNCHANGED <<disk, replicas, online, removals, scans, snapshot, cleaned, evacuating, faults>>

JobStep(j) ==
    \/ Start(j) \/ JobBeginScan(j) \/ JobEndScan(j) \/ ReadLists(j) \/ CopiesDone(j)
    \/ \E c \in Chunks : TakeChunk(j, c)
    \/ \E n \in Nodes : PushCopy(j, n)
    \/ GiveUp(j) \/ Report(j) \/ StoreFails(j) \/ Finish(j)

-----------------------------------------------------------------------------
\* What happens around the jobs.

\* An upload or the repair loop puts a chunk on a node.
Arrive(n, c) ==
    /\ n \in Uploaders /\ c \notin disk[n] \intersect replicas[n] /\ Store(n, c)
    /\ UNCHANGED <<online, removals, scans, snapshot, cleaned, evacuating, jobs, faults>>

GoOffline(n) ==
    /\ n \in online \ {Self} /\ Fault /\ online' = online \ {n}
    /\ UNCHANGED <<disk, replicas, removals, scans, snapshot, cleaned, evacuating, jobs>>

ComeBack(n) ==
    /\ n \in Nodes \ online /\ online' = online \union {n}
    /\ UNCHANGED <<disk, replicas, removals, scans, snapshot, cleaned, evacuating, jobs, faults>>

\* A node finds that no file and no version it keeps refers to a chunk: it removes its copy, and
\* tells the others.  The agent's own row goes with the copy.
CleanUp(n, c) ==
    /\ n \in Cleaners /\ c \in disk[n] \union replicas[n]
    /\ faults + cleanUps < MaxUpsets /\ cleanUps' = cleanUps + 1
    /\ disk' = [disk EXCEPT ![n] = @ \ {c}]
    /\ IF n = Self THEN replicas' = [replicas EXCEPT ![n] = @ \ {c}] /\ UNCHANGED notices
       ELSE notices' = notices \union {<<n, c>>} /\ UNCHANGED replicas
    /\ cleaned' = IF n \in snapshot[c] THEN cleaned \union {c} ELSE cleaned
    /\ scans' = [p \in Scanners |-> IF scans[p] # None /\ <<n, c>> \in scans[p].seen
                                    THEN [scans[p] EXCEPT !.cleaned = @ \union {c}] ELSE scans[p]]
    /\ UNCHANGED <<online, snapshot, evacuating, jobs, faults>>

\* The event of a removal arrives: the row goes, although the node may have the chunk again.
HearRemoved(n, c) ==
    /\ <<n, c>> \in notices /\ notices' = notices \ {<<n, c>>}
    /\ replicas' = [replicas EXCEPT ![n] = @ \ {c}]
    /\ UNCHANGED <<disk, online, cleanUps, scans, snapshot, cleaned, evacuating, jobs, faults>>

\* A disk loses a chunk, or a clean-up fails once the file is gone: the row stays.
LoseChunk(n, c) ==
    /\ c \in disk[n] /\ Fault /\ disk' = [disk EXCEPT ![n] = @ \ {c}]
    /\ UNCHANGED <<replicas, online, removals, scans, snapshot, cleaned, evacuating, jobs>>

\* Mutant: the list of jobs survives, their goroutines do not.
RestartKeeping ==
    /\ Fault
    /\ scans' = [p \in Scanners |-> None]
    /\ snapshot' = [c \in Chunks |-> {}] /\ cleaned' = {}
    /\ evacuating' = {}
    /\ jobs' = [j \in JobIds |-> IF jobs[j] = None THEN None
                                 ELSE [Fresh(jobs[j].node) EXCEPT !.status = jobs[j].status,
                                                                  !.at = "ended"]]
    /\ UNCHANGED <<disk, replicas, online, removals>>

\* Jobs, scans and the snapshot are in memory only.
Restart ==
    /\ Fault
    /\ scans' = [p \in Scanners |-> None]
    /\ snapshot' = [c \in Chunks |-> {}] /\ cleaned' = {}
    /\ evacuating' = {}
    /\ jobs' = [j \in JobIds |-> IF jobs[j] = None THEN None
                                 ELSE [Fresh(jobs[j].node) EXCEPT !.status = "forgotten"]]
    /\ UNCHANGED <<disk, replicas, online, removals>>

World ==
    \/ \E n \in Nodes : GoOffline(n) \/ ComeBack(n)
    \/ \E n \in Nodes, c \in Chunks :
          Arrive(n, c) \/ CleanUp(n, c) \/ HearRemoved(n, c) \/ LoseChunk(n, c)
    \/ Restart

Next ==
    \/ LoopScan \/ World
    \/ \E j \in JobIds : JobStep(j)
    \/ \E n \in Nodes : AcceptEvacuation(n)

Spec == Init /\ [][Next]_vars

\* The scan loop and the goroutines of jobs go on.
FairSpec == Spec /\ WF_vars(LoopScan) /\ \A j \in JobIds : WF_vars(JobStep(j))

-----------------------------------------------------------------------------
\* Every variable has its type, and a job has a chunk at hand only while it copies and the chunk
\* lacks copies.
TypeOK ==
    /\ disk \in [Nodes -> SUBSET Chunks] /\ replicas \in [Nodes -> SUBSET Chunks]
    /\ online \subseteq Nodes /\ evacuating \subseteq Nodes
    /\ snapshot \in [Chunks -> SUBSET Nodes]
    /\ faults \in 0 .. MaxUpsets /\ cleanUps \in 0 .. MaxUpsets
    /\ notices \subseteq Nodes \X Chunks /\ cleaned \subseteq Chunks
    /\ scans \in [Scanners -> [reached: SUBSET Nodes, asked: SUBSET Nodes, cleaned: SUBSET Chunks,
                               seen: SUBSET (Nodes \X Chunks)] \union {None}]
    /\ jobs \in [JobIds -> Records \union {None}]
    /\ \A j \in JobIds : Alive(j) /\ jobs[j].chunk # None =>
          jobs[j].at = "copy" /\ Cardinality(jobs[j].existing) < Target

\* A node is evacuated by at most one job at a time, and it is marked as being evacuated exactly while
\* one works on it: whichever way a job ends, the node can be evacuated again.
OneEvacuation ==
    /\ \A i, j \in JobIds : Inside(i) /\ Inside(j) /\ jobs[i].node = jobs[j].node => i = j
    /\ evacuating = {jobs[j].node : j \in {i \in JobIds : Inside(i)}}

\* Until something fails, a node that is said to be safe has its chunks on Target other nodes, but for
\* those of which it counts a copy that a node has since cleaned up; although scans overlap, write their
\* snapshots in any order, chunks come and go, and word of a removal arrives late.
SafeIsTrue ==
    faults = 0 => \A n \in Nodes : SafeToExit(n) =>
        \A c \in replicas[n] \ cleaned : Cardinality({m \in online \ {n} : c \in disk[m]}) >= Target

\* What is said to be safe is counted again for good: a node does not stay safe on copies that are
\* lost or cleaned up, or whose nodes are offline, however scans, jobs and restarts overlap.
CopiesRecounted ==
    \A n \in Nodes : []<>(SafeToExit(n) =>
        \A c \in replicas[n] : Cardinality({m \in online \ {n} : c \in disk[m]}) >= Target)

\* The job list keeps what JobLife promises: one result per job, and every job gets it, or is
\* forgotten, whatever its copies run into.
Status(j) == IF jobs[j] = None THEN "unborn" ELSE jobs[j].status
List == INSTANCE JobLife WITH Jobs <- JobIds, status <- [j \in JobIds |-> Status(j)]
JobLifeSpec == List!FairSpec
=============================================================================
