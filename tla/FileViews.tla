------------------------------ MODULE FileViews ------------------------------
(***************************************************************************)
(* Versions of files and the views of them that users see.                 *)
(*                                                                         *)
(* A node keeps a ledger of immutable content versions (`file_versions`,   *)
(* version_id -> parent_version_id) and a table of rows (`files`, unique   *)
(* by file id and by path) that is what users list, read and overwrite.    *)
(* A write commits a version, its row and a FILE_PUT event in one          *)
(* transaction.  A node that receives the event records the version and    *)
(* rebuilds the rows of its file from the ledger: the winning head of the  *)
(* version graph on the normal path, a conflict copy for each other head.  *)
(*                                                                         *)
(* A step is one transaction, or one read, of the SQLite store; reads that *)
(* follow each other without a write between them are one step.  Module    *)
(* EventSync says how events travel: here a version that some node holds   *)
(* reaches each other node at most once; after those of the same writer,   *)
(* or, if inserting an event may fail, in any order.                       *)
(*                                                                         *)
(* Handlers of a node overlap, a store call may fail and a node may stop   *)
(* between two steps of a handler.  `raced` and `skipped` are history      *)
(* variables: no action reads them, and a property that holds only without *)
(* such an accident says so with them.                                     *)
(*                                                                         *)
(* Abstractions.  One user path, `MainPath`, and the paths derived from it *)
(* for conflicts; contents, times and sizes are left out (a path or a file *)
(* id derived from a version carries its whole id, not eight letters).     *)
(* Version ids are random UUIDs: numbers, taken in any order.  Renaming,   *)
(* deleting and the clean-up of chunks are not in this module.             *)
(***************************************************************************)
EXTENDS Naturals, FiniteSets, Sequences

CONSTANTS
    Nodes,
    VersionIds,   \* bound: the versions that are ever written
    Starts,       \* the sets of versions, one per file, that all nodes may start with
    Creators,     \* the nodes where MainPath may be given its first file
    MaxJobs,      \* bound: handlers of a node between their reads and writes
    MaxRequests,  \* bound: PUTs whose body is being received
    MaxFaults,    \* bound: store calls that fail, and restarts
    CopyEdits,    \* whether users write to conflict copies
    InOrder       \* whether the events of a writer arrive in their order

ASSUME IdsAssumption == VersionIds \subseteq Nat \ {0}
ASSUME CreatorsAssumption == Creators \subseteq Nodes
ASSUME BoundsAssumption == MaxJobs \in Nat /\ MaxRequests \in Nat /\ MaxFaults \in Nat
ASSUME UsageAssumption == CopyEdits \in BOOLEAN /\ InOrder \in BOOLEAN

VARIABLES
    ledger,     \* ledger[n]: the table file_versions of node n
    rows,       \* rows[n]: the table files of node n
    requests,   \* WebDAV PUTs that passed the precondition, before Close
    commits,    \* writes that have read the rows and not committed yet
    applies,    \* FILE_PUT events that are being applied
    faults,     \* how many faults there were
    raced,      \* history: <<n, f>> where handlers of file f overlapped at n
    skipped     \* history: <<n, f>> where an event of file f was cut short at n

accidents == <<faults, raced, skipped>>
vars == <<ledger, rows, requests, commits, applies, faults, raced, skipped>>

-----------------------------------------------------------------------------
(* File ids and paths.  The file created by version v is <<v>>; a path is    *)
(* the sequence of what was appended to MainPath.                            *)

FileId   == Seq(VersionIds)
Path     == Seq(VersionIds \cup {0})
MainPath == <<>>
None     == <<>>      \* no file, in conflictOf

Version == [id : VersionIds, file : FileId, parent : VersionIds \cup {0},
            path : Path, conflictOf : FileId, by : Nodes, seq : Nat]
Row     == [file : FileId, path : Path, version : VersionIds, conflictOf : FileId]
Request == [at : Nodes, path : Path, saw : VersionIds \cup {0}]
Commit  == [at : Nodes, dav : BOOLEAN, new : Version, saw : VersionIds \cup {0}]

\* `step` is the next thing applyRemoteFilePut does; `file` and `path` are the
\* arguments of the rebuild, `views` the rows about to be written.
Applying == [at : Nodes, new : Version, step : {"look", "list", "upsert", "replace"},
             file : FileId, path : Path, views : SUBSET Row]

ASSUME StartsAssumption ==
    \A S \in Starts :
        /\ S \subseteq Version /\ IsFiniteSet(S)
        /\ \A v \in S : v.file = <<v.id>> /\ v.parent = 0
        /\ \A v, w \in S : v.id = w.id \/ v.path = w.path => v = w

ConcurrentConflictFileID(file, id) == Append(file, id)
ConcurrentConflictPath(path, id)   == Append(path, id)
NextConflictPath(path, id)         == path \o <<0, id>>

\* A version as its writer builds it; seq is the event's, set by the commit.
NewVersion(n, id, file, parent, path) ==
    [id |-> id, file |-> file, parent |-> parent, path |-> path,
     conflictOf |-> None, by |-> n, seq |-> 0]

\* Mutant: the columns version_id and parent_version_id are swapped.
RowOfSwapped(v) == [file |-> v.file, path |-> v.path, version |-> v.parent,
                    conflictOf |-> v.conflictOf]

RowOf(v) == [file |-> v.file, path |-> v.path, version |-> v.id,
             conflictOf |-> v.conflictOf]

-----------------------------------------------------------------------------
(* The version graph of one file *)

ParentIn(V, id) ==
    IF \E v \in V : v.id = id THEN (CHOOSE v \in V : v.id = id).parent ELSE 0

\* The version and its ancestors, oldest first; an ancestor that has not
\* arrived yet ends the walk, its id included.
VersionPath(V, id) ==
    LET walk[k \in Nat] ==
            [i \in Nat |-> IF i = 0 \/ k = 0
                            THEN <<>> ELSE Append(walk[k - 1][ParentIn(V, i)], i)]
    IN  walk[Cardinality(V) + 1][id]

\* Mutant: heads are compared by their own ids.
CompareVersionIds(a, b) == a[Len(a)] < b[Len(b)]

\* Lexicographic, a prefix first.
CompareVersionPaths(a, b) ==
    \/ \E i \in 1..Len(a) :
          /\ i <= Len(b) /\ a[i] < b[i]
          /\ \A j \in 1..(i - 1) : a[j] = b[j]
    \/ /\ Len(a) < Len(b)
       /\ \A j \in 1..Len(a) : a[j] = b[j]

Heads(V) == {v \in V : \A w \in V : w.parent # v.id}

Winner(V) ==
    CHOOSE h \in Heads(V) : \A g \in Heads(V) \ {h} :
        CompareVersionPaths(VersionPath(V, h.id), VersionPath(V, g.id))

\* The normal file and the conflict copies that rebuildConcurrentFileViews
\* computes from the versions V of `file`.
Views(V, file, path) ==
    LET winner == Winner(V)
    IN  {[file |-> file, path |-> path, version |-> winner.id, conflictOf |-> None]}
        \cup {[file |-> ConcurrentConflictFileID(file, h.id),
               path |-> ConcurrentConflictPath(path, h.id),
               version |-> h.id, conflictOf |-> file] : h \in Heads(V) \ {winner}}

ListFileVersions(n, file) == {v \in ledger[n] : v.file = file}

-----------------------------------------------------------------------------
(* The table files *)

GetFile(n, path)     == {r \in rows[n] : r.path = path}
GetFileByID(n, file) == {r \in rows[n] : r.file = file}

\* INSERT OR REPLACE: file_id is the primary key and path is UNIQUE.
UpsertFiles(R, views) ==
    {r \in R : \A w \in views : r.file # w.file /\ r.path # w.path} \cup views

\* Mutant: the conflict copies of the last rebuild are not deleted.
KeepConflictCopies(R, file, views) == UpsertFiles(R, views)

\* The old conflict copies of the file go, whatever head they showed.
ReplaceConcurrentFileViews(R, file, views) ==
    LET copy(r) == /\ r.conflictOf = file
                   /\ Len(r.file) > Len(file) /\ SubSeq(r.file, 1, Len(file)) = file
    IN  UpsertFiles({r \in R : ~copy(r)}, views)

\* A file that comes to a path another file has is given a conflict path.
PrepareFilePut(n, v) ==
    IF \E r \in GetFile(n, v.path) : r.file # v.file /\ r.version # v.id
    THEN LET r == CHOOSE r \in GetFile(n, v.path) : TRUE
         IN  [v EXCEPT !.path = NextConflictPath(@, v.id),
                       !.conflictOf = IF @ = None THEN r.file ELSE @,
                       !.parent = IF @ = 0 THEN r.version ELSE @]
    ELSE v

-----------------------------------------------------------------------------
Init ==
    /\ \E S \in Starts : /\ ledger = [n \in Nodes |-> S]
                         /\ rows = [n \in Nodes |-> {RowOf(v) : v \in S}]
    /\ requests = {} /\ commits = {} /\ applies = {}
    /\ faults = 0 /\ raced = {} /\ skipped = {}

Written == UNION {ledger[n] : n \in Nodes}

\* uuid.NewString: never used before.
Fresh == VersionIds \ ({v.id : v \in Written \cup UNION Starts} \cup {c.new.id : c \in commits})

\* How many handlers of n hold what they have read of the tables.
Jobs(n) == Cardinality({c \in commits : c.at = n})
           + Cardinality({a \in applies : a.at = n})

Idle(n) == Jobs(n) = 0

\* What users do: they create the file where they may, when nothing else is
\* being written there, and write to a conflict copy if they do so at all.
MayCreate(n) ==
    \/ GetFile(n, MainPath) # {}
    \/ n \in Creators /\ \A j \in requests \cup commits : j.at # n

Writable(r) == CopyEdits \/ Len(r.file) = 1

\* The handlers of node n that work on a file.
JobsOn(n, file) == {j \in commits \cup applies : j.at = n /\ j.new.file = file}

\* A handler starts to work on a file.
Overlap(n, file) ==
    /\ raced' = raced \cup (IF JobsOn(n, file) = {} THEN {} ELSE {<<n, file>>})
    /\ UNCHANGED <<faults, skipped>>

BeginCommit(n, dav, v, saw) ==
    /\ Jobs(n) < MaxJobs
    /\ commits' = commits \cup {[at |-> n, dav |-> dav, new |-> v, saw |-> saw]}
    /\ Overlap(n, v.file)
    /\ UNCHANGED <<ledger, rows, applies>>

-----------------------------------------------------------------------------
(* Writes *)

BeginPut(n, path, saw) ==
    /\ Cardinality(requests) < MaxRequests
    /\ requests' = requests \cup {[at |-> n, path |-> path, saw |-> saw]}
    /\ UNCHANGED <<ledger, rows, commits, applies, accidents>>

\* handleWebDAV, PUT of an existing file: If-Match names the current version.
PutExisting(n) ==
    \E r \in rows[n] :
        /\ Writable(r)
        /\ BeginPut(n, r.path, r.version)

\* PUT of a path that has no file, without If-Match.
PutNew(n) ==
    /\ GetFile(n, MainPath) = {} /\ MayCreate(n)
    /\ BeginPut(n, MainPath, 0)

\* The client goes away before the end of the body: nothing is committed.
Abort(q) ==
    /\ requests' = requests \ {q}
    /\ UNCHANGED <<ledger, rows, commits, applies, accidents>>

\* davWriteFile.Close: the row of the path is read again and becomes the
\* parent.  The WebDAV handler has locked the path against other PUTs.
Close(q) ==
    /\ \A c \in commits : ~(c.dav /\ c.at = q.at /\ c.new.path = q.path)
    /\ requests' = requests \ {q}
    /\ \E id \in Fresh :
          \/ /\ GetFile(q.at, q.path) = {}
             /\ BeginCommit(q.at, TRUE, NewVersion(q.at, id, <<id>>, 0, q.path), q.saw)
          \/ \E r \in GetFile(q.at, q.path) :
                BeginCommit(q.at, TRUE,
                            NewVersion(q.at, id, r.file, r.version, q.path), q.saw)

\* handleRestoreFileVersion: an older version of a listed file that is in its
\* recovery window is written again, on top of the current one.
RestoreVersion(n) ==
    \E r \in rows[n], id \in Fresh :
        /\ Writable(r)
        /\ ListFileVersions(n, r.file) # Heads(ListFileVersions(n, r.file))
        /\ BeginCommit(n, FALSE, NewVersion(n, id, r.file, r.version, r.path), r.version)
        /\ UNCHANGED requests

\* handleUpload: always a file of its own.
Upload(n) ==
    /\ MayCreate(n)
    /\ \E id \in Fresh :
        LET v == PrepareFilePut(n, NewVersion(n, id, <<id>>, 0, MainPath))
        IN  BeginCommit(n, FALSE, v, v.parent) /\ UNCHANGED requests

NextSeq(n) == Cardinality({v \in ledger[n] : v.by = n}) + 1

\* UpsertFileWithEvent: version, row and event in one transaction.
CommitFilePut(c) ==
    /\ ledger' = [ledger EXCEPT ![c.at] = @ \cup {[c.new EXCEPT !.seq = NextSeq(c.at)]}]
    /\ rows' = [rows EXCEPT ![c.at] = UpsertFiles(@, {RowOf(c.new)})]
    /\ commits' = commits \ {c}
    /\ UNCHANGED <<requests, applies, accidents>>

-----------------------------------------------------------------------------
(* applyRemoteFilePut *)

Advance(a, b) == applies' = (applies \ {a}) \cup {b}

\* InsertEvent says the event is new; RecordFileVersion.  (EnsureFileVersion,
\* later, finds the version of every row in the ledger already.)
Receive(n, v) ==
    /\ Jobs(n) < MaxJobs
    /\ v \notin ledger[n]
    /\ InOrder => \A w \in Written : w.by = v.by /\ w.seq < v.seq => w \in ledger[n]
    /\ ledger' = [ledger EXCEPT ![n] = @ \cup {v}]
    /\ applies' = applies \cup
          {[at |-> n, new |-> v, step |-> "look",
            file |-> None, path |-> MainPath, views |-> {}]}
    /\ Overlap(n, v.file)
    /\ UNCHANGED <<rows, requests, commits>>

\* The row of the path, or else the row of the file, decides what to do.
Existing(a) ==
    IF GetFile(a.at, a.new.path) # {} THEN GetFile(a.at, a.new.path)
                                      ELSE GetFileByID(a.at, a.new.file)

Look(a) ==
    /\ a.step = "look"
    /\ \/ /\ \A r \in Existing(a) : r.file # a.new.file
          /\ Advance(a, [a EXCEPT !.step = "upsert",
                                  !.views = {RowOf(PrepareFilePut(a.at, a.new))}])
       \/ \E r \in Existing(a) :
          /\ r.file = a.new.file
          /\ Advance(a, [a EXCEPT !.step = "list", !.file = r.file, !.path = r.path])
    /\ UNCHANGED <<ledger, rows, requests, commits, accidents>>

UpsertFile(a) ==
    /\ a.step = "upsert"
    /\ rows' = [rows EXCEPT ![a.at] = UpsertFiles(@, a.views)]
    /\ applies' = applies \ {a}
    /\ UNCHANGED <<ledger, requests, commits, accidents>>

\* rebuildConcurrentFileViews: the ledger is read ...  A rebuild that has the
\* file to itself makes good what happened to it before.
Mended(a) ==
    IF JobsOn(a.at, a.file) = {a} THEN {<<a.at, a.file>>} ELSE {}

ListVersions(a) ==
    /\ a.step = "list"
    /\ Advance(a, [a EXCEPT !.step = "replace",
                            !.views = Views(ListFileVersions(a.at, a.file), a.file, a.path)])
    /\ raced' = raced \ Mended(a) /\ skipped' = skipped \ Mended(a)
    /\ UNCHANGED <<ledger, rows, requests, commits, faults>>

\* ... and the rows are replaced, in a transaction of their own.
ReplaceViews(a) ==
    /\ a.step = "replace"
    /\ rows' = [rows EXCEPT ![a.at] = ReplaceConcurrentFileViews(@, a.file, a.views)]
    /\ applies' = applies \ {a}
    /\ UNCHANGED <<ledger, requests, commits, accidents>>

-----------------------------------------------------------------------------
(* Faults *)

Fault == faults < MaxFaults /\ faults' = faults + 1

\* The transaction of a write fails and is rolled back; the user is told.
FailCommit(c) ==
    /\ Fault
    /\ commits' = commits \ {c}
    /\ UNCHANGED <<ledger, rows, requests, applies, raced, skipped>>

\* A store call of applyRemoteFilePut fails after the version was recorded: the
\* handler goes on to the next event, and as this one is in the table of events
\* it is never applied again.
SkipEvent(a) ==
    /\ Fault
    /\ applies' = applies \ {a}
    /\ skipped' = skipped \cup {<<a.at, a.new.file>>}
    /\ UNCHANGED <<ledger, rows, requests, commits, raced>>

\* The process stops and starts again: the tables stay, what handlers hold goes.
Restart(n) ==
    /\ Fault
    /\ requests' = {q \in requests : q.at # n}
    /\ commits' = {c \in commits : c.at # n}
    /\ applies' = {a \in applies : a.at # n}
    /\ skipped' = skipped \cup {<<n, a.new.file>> : a \in {b \in applies : b.at = n}}
    /\ UNCHANGED <<ledger, rows, raced>>

-----------------------------------------------------------------------------
Write ==
    \/ \E n \in Nodes : PutExisting(n) \/ PutNew(n) \/ RestoreVersion(n) \/ Upload(n)
    \/ \E q \in requests : Abort(q) \/ Close(q)
    \/ \E c \in commits : CommitFilePut(c)

ApplyStep ==
    \/ \E n \in Nodes, v \in Written : Receive(n, v)
    \/ \E a \in applies : Look(a) \/ UpsertFile(a) \/ ListVersions(a) \/ ReplaceViews(a)

Faulty ==
    \/ \E c \in commits : FailCommit(c)
    \/ \E a \in applies : SkipEvent(a)
    \/ \E n \in Nodes : Restart(n)

Next == Write \/ ApplyStep \/ Faulty

Spec == Init /\ [][Next]_vars

-----------------------------------------------------------------------------
(* Properties *)

TypeOK ==
    /\ ledger \in [Nodes -> SUBSET Version]
    /\ rows \in [Nodes -> SUBSET Row]
    /\ requests \subseteq Request
    /\ commits \subseteq Commit
    /\ applies \subseteq Applying
    /\ faults \in 0..MaxFaults
    /\ raced \subseteq Nodes \X FileId /\ skipped \subseteq Nodes \X FileId

\* While no handler of a node works on a file, what users see of the file there
\* is determined by the ledger of the node alone, not by the order in which
\* versions arrived, by where they were written or by what the rows were before:
\* the winning head is on its path and every other head in a conflict copy.  (A
\* file that was uploaded to an occupied path keeps the mark of the file it
\* conflicts with until it is first overwritten.)  Handlers that overlapped on
\* the file, or an event that was cut short, may leave other rows; the next
\* rebuild that has the file to itself puts them right.
RowsOf(n, file) ==
    {r \in rows[n] : Len(r.file) >= Len(file) /\ SubSeq(r.file, 1, Len(file)) = file}

Projection(V, file, path) ==
    IF \E v \in V : V = {v} THEN {RowOf(v) : v \in V} ELSE Views(V, file, path)

Projected ==
    \A n \in Nodes :
        /\ \A r \in rows[n] : \E v \in ledger[n] : r \in RowsOf(n, v.file)
        /\ \A v \in ledger[n] :
              JobsOn(n, v.file) = {} /\ <<n, v.file>> \notin raced \cup skipped =>
                  RowsOf(n, v.file) = Projection(ListFileVersions(n, v.file), v.file, v.path)

\* The file on the normal path stays there, and changes only to a later version
\* of itself or to a concurrent branch that precedes it in the version graph,
\* never back to an earlier version: "later writes on that branch remain on the
\* normal path" (docs/architecture-decisions.md:255).  This needs no luck with
\* faults, only handlers that do not overlap on the file.
Succeeds(V, new, old) ==
    LET p == VersionPath(V, new)
        q == VersionPath(V, old)
    IN  \/ \E i \in 1..Len(p) : p[i] = old
        \/ /\ CompareVersionPaths(p, q)
           /\ \E i \in 1..Len(p) : i <= Len(q) /\ p[i] # q[i]

MainBranch ==
    [][\A n \in Nodes : \A r \in GetFile(n, MainPath) :
          <<n, r.file>> \notin raced =>
              \E s \in GetFile(n, MainPath)' :
                  /\ s.file = r.file
                  /\ s.version = r.version \/ Succeeds(ledger'[n], s.version, r.version)]_vars

-----------------------------------------------------------------------------
(* What the documents promise and the code does not keep *)

\* "Cross-node arrival order must not change the final file projection"
\* (docs/architecture-decisions.md:257): nodes that hold the same versions
\* show the same files.
Converged ==
    \A m, n \in Nodes :
        Idle(m) /\ Idle(n) /\ ledger[m] = ledger[n] => rows[m] = rows[n]

\* "Conflicting writes must not be silently overwritten"
\* (docs/architecture-decisions.md:53), in the list of files: a version that
\* no other version supersedes is listed.
HeadsShown ==
    \A n \in Nodes : Idle(n) =>
        \A v \in Heads(ledger[n]) : \E r \in rows[n] : r.version = v.id

\* The same, for a client that sends If-Match: the version its write
\* supersedes is the version it has matched.
MatchedIsParent == \A c \in commits : c.dav => c.new.parent = c.saw
=============================================================================
