-------------------------- MODULE FileViewsProofs --------------------------
(***************************************************************************)
(* Proofs about FileViews.                                                 *)
(*                                                                         *)
(* First, for any users and any number of handlers: a version id names one *)
(* version, and the versions that were ever written form a graph without   *)
(* cycles, so that every rebuild finds a head; hence the types.  Then, for *)
(* users that do not do what the violated runs need (`Undisturbed`), and   *)
(* again for any number of handlers, whatever overlaps and whatever fails: *)
(* what users see is the projection of the ledger, and the normal path     *)
(* follows one branch, but for what accidents leave until it is mended.    *)
(***************************************************************************)
EXTENDS VersionGraphProofs

-----------------------------------------------------------------------------
(* Versions: the inductive invariant *)

Ids(V) == {v.id : v \in V}

LedgersOK ==
    /\ ledger \in [Nodes -> SUBSET Version]
    /\ \A n \in Nodes : IsFiniteSet(ledger[n])

\* An id names one version, wherever it is held; a parent was written before.
WrittenOK ==
    /\ Distinct(Written) /\ Acyclic(Written)
    /\ \A v \in Written : v.parent \in Ids(Written) \union {0}

RowsOK ==
    /\ rows \in [Nodes -> SUBSET Row]
    /\ \A n \in Nodes : \A r \in rows[n] : r.version \in Ids(Written)

\* The ids of writes that have not committed are new, each of them its own.
CommitsOK ==
    /\ commits \subseteq Commit
    /\ \A c \in commits : /\ c.new.id \notin Ids(Written)
                          /\ c.new.parent \in Ids(Written) \union {0}
    /\ \A c, d \in commits : c.new.id = d.new.id => c = d

AppliesOK ==
    /\ applies \subseteq Applying
    /\ \A a \in applies :
          /\ a.new \in ledger[a.at]
          /\ \A r \in a.views : r.version \in Ids(Written)
          /\ a.step \in {"list", "replace"} => a.file = a.new.file

\* The history variables.
AccidentsOK ==
    /\ faults \in 0..MaxFaults
    /\ raced \subseteq Nodes \X FileId /\ skipped \subseteq Nodes \X FileId

VersionsInv ==
    /\ LedgersOK /\ WrittenOK /\ RowsOK /\ requests \subseteq Request
    /\ CommitsOK /\ AppliesOK /\ AccidentsOK

-----------------------------------------------------------------------------
(* What helpers return *)

\* The fields of the records.
LEMMA Fields ==
    /\ \A v \in Version : /\ v.id \in VersionIds /\ v.id \in Nat \ {0}
                          /\ v.file \in Seq(VersionIds) /\ v.conflictOf \in Seq(VersionIds)
                          /\ v.parent \in VersionIds \union {0} /\ v.parent \in Nat
                          /\ v.path \in Seq(VersionIds \union {0})
                          /\ v.by \in Nodes /\ v.seq \in Nat
    /\ \A r \in Row : /\ r.file \in Seq(VersionIds) /\ r.conflictOf \in Seq(VersionIds)
                      /\ r.path \in Seq(VersionIds \union {0}) /\ r.version \in VersionIds
    /\ \A q \in Request : /\ q.at \in Nodes /\ q.path \in Seq(VersionIds \union {0})
                          /\ q.saw \in VersionIds \union {0}
    /\ \A c \in Commit : /\ c.at \in Nodes /\ c.dav \in BOOLEAN /\ c.new \in Version
                         /\ c.saw \in VersionIds \union {0}
    /\ \A a \in Applying : /\ a.at \in Nodes /\ a.new \in Version
                           /\ a.step \in {"look", "list", "upsert", "replace"}
                           /\ a.file \in Seq(VersionIds) /\ a.views \in SUBSET Row
                           /\ a.path \in Seq(VersionIds \union {0})
<1>1. \A v \in Version : v.id \in VersionIds /\ v.parent \in VersionIds \union {0}
  BY DEF Version
<1>2. ASSUME NEW v \in Version PROVE v.id \in Nat \ {0} /\ v.parent \in Nat
  <2>1. v.id \in VersionIds /\ (v.parent \in VersionIds \/ v.parent = 0)
    BY <1>1
  <2>2. 0 \in Nat
    OBVIOUS
  <2>3. v.id \in Nat \ {0}
    BY <2>1, IdsAssumption
  <2> QED
    BY <2>1, <2>2, <2>3, IdsAssumption, Zenon
<1> QED
  BY <1>1, <1>2 DEF Version, Row, Request, Commit, Applying, FileId, Path

\* The versions a node holds are part of those written.
LEMMA LedgerWritten ==
    ASSUME NEW n \in Nodes
    PROVE  ledger[n] \subseteq Written
  BY DEF Written

\* What a node holds of a file is a graph.
LEMMA PartGraph ==
    ASSUME VersionsInv, NEW n \in Nodes, NEW V, V \subseteq ledger[n]
    PROVE  Graph(V) /\ V \subseteq Version /\ V \subseteq Written
<1>1. V \subseteq Version /\ V \subseteq Written /\ IsFiniteSet(V)
  BY LedgerWritten, FS_Subset DEF VersionsInv, LedgersOK
<1>2. Distinct(V) /\ Acyclic(V)
  BY <1>1 DEF VersionsInv, WrittenOK, Distinct, Acyclic
<1>3. Links(V)
  BY <1>1, Fields DEF Links
<1> QED
  BY <1>1, <1>2, <1>3 DEF Graph

\* The row of a version.
LEMMA RowOfTyped ==
    ASSUME NEW v \in Version
    PROVE  RowOf(v) \in Row /\ RowOf(v).version = v.id
<1>1. RowOf(v) = [file |-> v.file, path |-> v.path, version |-> v.id, conflictOf |-> v.conflictOf]
  BY DEF RowOf
<1> QED
  BY <1>1, Fields DEF Row, FileId, Path

\* A new version is a version.
LEMMA NewVersionTyped ==
    ASSUME NEW n \in Nodes, NEW id \in VersionIds, NEW file \in FileId,
           NEW parent \in VersionIds \union {0}, NEW path \in Path
    PROVE  /\ NewVersion(n, id, file, parent, path) \in Version
           /\ NewVersion(n, id, file, parent, path).id = id
           /\ NewVersion(n, id, file, parent, path).parent = parent
<1>1. None \in FileId
  BY DEF None, FileId
<1> QED
  BY <1>1 DEF NewVersion, Version

\* So is the first version of a file.
LEMMA NewFileTyped ==
    ASSUME NEW n \in Nodes, NEW id \in VersionIds, NEW path \in Path
    PROVE  LET v == NewVersion(n, id, <<id>>, 0, path)
           IN  v \in Version /\ v.id = id /\ v.parent = 0
<1>1. PICK file : file = <<id>>
  OBVIOUS
<1>2. PICK parent : parent = 0
  OBVIOUS
<1>3. file \in FileId /\ parent \in VersionIds \union {0}
  BY <1>1, <1>2 DEF FileId
<1>4. LET v == NewVersion(n, id, file, parent, path)
      IN  v \in Version /\ v.id = id /\ v.parent = parent
  BY <1>3, NewVersionTyped
<1> QED
  BY <1>1, <1>2, <1>4

\* An upload or a received version that is moved aside is still a version.
LEMMA PrepareTyped ==
    ASSUME NEW n \in Nodes, rows[n] \subseteq Row, NEW v \in Version
    PROVE  LET w == PrepareFilePut(n, v)
           IN  /\ w \in Version /\ w.id = v.id /\ w.file = v.file /\ w.by = v.by
               /\ w.parent = v.parent \/ \E r \in rows[n] : w.parent = r.version
<1>1. CASE \E r \in GetFile(n, v.path) : r.file # v.file /\ r.version # v.id
  <2> DEFINE r == CHOOSE s \in GetFile(n, v.path) : TRUE
             w == [v EXCEPT !.path = NextConflictPath(@, v.id),
                            !.conflictOf = IF @ = None THEN r.file ELSE @,
                            !.parent = IF @ = 0 THEN r.version ELSE @]
  <2>1. r \in rows[n] /\ r \in Row
    BY <1>1 DEF GetFile
  <2>2. PrepareFilePut(n, v) = w
    BY <1>1 DEF PrepareFilePut
  <2>3. r.version \in VersionIds /\ r.file \in Seq(VersionIds)
    BY <2>1, Fields
  <2> HIDE DEF r
  <2>4. NextConflictPath(v.path, v.id) \in Path
    <3>1. v.path \in Seq(VersionIds \union {0}) /\ <<0, v.id>> \in Seq(VersionIds \union {0})
      BY Fields
    <3> QED
      BY <3>1, ConcatProperties DEF NextConflictPath, Path
  <2>5. w \in Version /\ w.id = v.id /\ w.file = v.file /\ w.by = v.by
        /\ w.parent = IF v.parent = 0 THEN r.version ELSE v.parent
    BY <2>3, <2>4 DEF Version, FileId
  <2> HIDE DEF w
  <2> QED
    BY <2>1, <2>2, <2>5
<1>2. CASE ~(\E r \in GetFile(n, v.path) : r.file # v.file /\ r.version # v.id)
  BY <1>2 DEF PrepareFilePut
<1> QED
  BY <1>1, <1>2

\* The views of a file are rows of its versions.
LEMMA ViewsTyped ==
    ASSUME NEW V, Graph(V), V \subseteq Version, V # {}, NEW file \in FileId, NEW path \in Path
    PROVE  Views(V, file, path) \subseteq Row /\ \A r \in Views(V, file, path) : r.version \in Ids(V)
<1>1. Winner(V) \in V /\ Winner(V).id \in VersionIds
  BY WinnerWins, Fields
<1>2. [file |-> file, path |-> path, version |-> Winner(V).id, conflictOf |-> None] \in Row
  BY <1>1 DEF Row, None, FileId
<1>3. ASSUME NEW h \in Heads(V)
      PROVE  [file |-> ConcurrentConflictFileID(file, h.id),
              path |-> ConcurrentConflictPath(path, h.id),
              version |-> h.id, conflictOf |-> file] \in Row /\ h \in V
  <2>1. h \in V /\ h.id \in VersionIds
    BY Fields DEF Heads
  <2>2. Append(file, h.id) \in Seq(VersionIds) /\ Append(path, h.id) \in Seq(VersionIds \union {0})
    BY <2>1, AppendProperties DEF FileId, Path
  <2> QED
    BY <2>1, <2>2 DEF Row, ConcurrentConflictFileID, ConcurrentConflictPath, FileId, Path
<1> QED
  BY <1>1, <1>2, <1>3 DEF Views, Ids

-----------------------------------------------------------------------------
(* Every step keeps the invariant *)

\* At the start.
LEMMA VersionsInit == Init => VersionsInv
<1> SUFFICES ASSUME Init PROVE VersionsInv
  OBVIOUS
<1>1. PICK S \in Starts : /\ ledger = [n \in Nodes |-> S]
                          /\ rows = [n \in Nodes |-> {RowOf(v) : v \in S}]
  BY DEF Init
<1>2. /\ S \subseteq Version /\ IsFiniteSet(S)
      /\ \A v \in S : v.parent = 0
      /\ \A v, w \in S : v.id = w.id => v = w
  BY StartsAssumption
<1>3. Written \subseteq S /\ (Nodes # {} => Written = S)
  BY <1>1 DEF Written
<1>4. LedgersOK
  BY <1>1, <1>2 DEF LedgersOK
<1>5. WrittenOK
  BY <1>2, <1>3, Fields DEF WrittenOK, Distinct, Acyclic, Heads
<1>6. RowsOK
  <2> SUFFICES ASSUME NEW n \in Nodes, NEW r \in rows[n] PROVE r \in Row /\ r.version \in Ids(Written)
    BY <1>1, <1>2, RowOfTyped DEF RowsOK
  <2>1. PICK v \in S : r = RowOf(v)
    BY <1>1
  <2> QED
    BY <1>2, <1>3, <2>1, RowOfTyped DEF Ids
<1>7. AccidentsOK
  BY BoundsAssumption DEF Init, AccidentsOK
<1> QED
  BY <1>4, <1>5, <1>6, <1>7 DEF Init, VersionsInv, CommitsOK, AppliesOK

\* A step that leaves the ledgers alone only has to keep rows and handlers.
LEMMA LedgerStays ==
    ASSUME VersionsInv, ledger' = ledger, RowsOK', requests' \subseteq Request,
           CommitsOK', AppliesOK', AccidentsOK'
    PROVE  VersionsInv'
  BY DEF VersionsInv, LedgersOK, WrittenOK, Written

\* A request comes or goes.
LEMMA VersionsRequest ==
    ASSUME VersionsInv, requests' \subseteq Request,
           UNCHANGED <<ledger, rows, commits, applies, accidents>>
    PROVE  VersionsInv'
<1>1. AccidentsOK'
  BY DEF accidents, VersionsInv, AccidentsOK
<1> QED
  BY <1>1, LedgerStays DEF VersionsInv, RowsOK, CommitsOK, AppliesOK, Written

\* A handler starts to work on a file.
LEMMA OverlapTyped ==
    ASSUME VersionsInv, NEW n \in Nodes, NEW file \in FileId, Overlap(n, file)
    PROVE  AccidentsOK'
<1>1. <<n, file>> \in Nodes \X FileId
  OBVIOUS
<1>2. raced' \subseteq raced \union {<<n, file>>}
  BY DEF Overlap
<1> QED
  BY <1>1, <1>2 DEF Overlap, VersionsInv, AccidentsOK

\* A write begins with a fresh id and a parent that was written.
LEMMA VersionsBegin ==
    ASSUME VersionsInv, NEW n \in Nodes, NEW dav \in BOOLEAN, NEW v \in Version,
           NEW saw \in VersionIds \union {0}, BeginCommit(n, dav, v, saw), v.id \in Fresh,
           v.parent \in Ids(Written) \union {0}, requests' \subseteq Request
    PROVE  VersionsInv'
<1> DEFINE c == [at |-> n, dav |-> dav, new |-> v, saw |-> saw]
<1>1. commits' = commits \union {c} /\ UNCHANGED <<ledger, rows, applies>>
  BY DEF BeginCommit
<1>2. c \in Commit /\ c.new = v
  BY DEF Commit
<1> HIDE DEF c
<1>3. Written' = Written
  BY <1>1 DEF Written
<1>4. v.id \notin Ids(Written) /\ \A d \in commits : d.new.id # v.id
  BY DEF Fresh, Ids
<1>5. CommitsOK'
  BY <1>1, <1>2, <1>3, <1>4 DEF VersionsInv, CommitsOK
<1>6. AccidentsOK'
  <2>1. v.file \in FileId /\ Overlap(n, v.file)
    BY Fields DEF FileId, BeginCommit
  <2> QED
    BY <2>1, OverlapTyped
<1> QED
  BY <1>1, <1>3, <1>5, <1>6, LedgerStays DEF VersionsInv, RowsOK, AppliesOK

\* PutExisting.
LEMMA VersionsPutExisting ==
    ASSUME VersionsInv, NEW n \in Nodes, PutExisting(n)
    PROVE  VersionsInv'
<1>1. PICK r \in rows[n] : BeginPut(n, r.path, r.version)
  BY DEF PutExisting
<1>2. r \in Row
  BY DEF VersionsInv, RowsOK
<1>3. [at |-> n, path |-> r.path, saw |-> r.version] \in Request
  BY <1>2, Fields DEF Request, Path
<1> QED
  BY <1>1, <1>3, VersionsRequest DEF BeginPut, VersionsInv

\* PutNew.
LEMMA VersionsPutNew ==
    ASSUME VersionsInv, NEW n \in Nodes, PutNew(n)
    PROVE  VersionsInv'
<1>1. [at |-> n, path |-> MainPath, saw |-> 0] \in Request
  BY DEF Request, Path, MainPath
<1> QED
  BY <1>1, VersionsRequest DEF PutNew, BeginPut, VersionsInv

\* Abort.
LEMMA VersionsAbort ==
    ASSUME VersionsInv, NEW q \in requests, Abort(q)
    PROVE  VersionsInv'
  BY VersionsRequest DEF Abort, VersionsInv

\* Close.
LEMMA VersionsClose ==
    ASSUME VersionsInv, NEW q \in requests, Close(q)
    PROVE  VersionsInv'
<1>1. q \in Request /\ q.at \in Nodes /\ q.path \in Path /\ q.saw \in VersionIds \union {0}
  BY Fields DEF VersionsInv, Path
<1>2. requests' \subseteq Request
  BY DEF Close, VersionsInv
<1>3. PICK id \in Fresh :
         \/ /\ GetFile(q.at, q.path) = {}
            /\ BeginCommit(q.at, TRUE, NewVersion(q.at, id, <<id>>, 0, q.path), q.saw)
         \/ \E r \in GetFile(q.at, q.path) :
               BeginCommit(q.at, TRUE, NewVersion(q.at, id, r.file, r.version, q.path), q.saw)
  BY DEF Close
<1>4. id \in VersionIds
  BY DEF Fresh
<1>5. CASE BeginCommit(q.at, TRUE, NewVersion(q.at, id, <<id>>, 0, q.path), q.saw)
  <2> DEFINE v == NewVersion(q.at, id, <<id>>, 0, q.path)
  <2>1. v \in Version /\ v.id = id /\ v.parent = 0
    BY <1>1, <1>4, NewFileTyped
  <2>2. BeginCommit(q.at, TRUE, v, q.saw)
    BY <1>5
  <2> HIDE DEF v
  <2> QED
    BY <1>1, <1>2, <2>1, <2>2, VersionsBegin
<1>6. CASE \E r \in GetFile(q.at, q.path) :
               BeginCommit(q.at, TRUE, NewVersion(q.at, id, r.file, r.version, q.path), q.saw)
  <2>1. PICK r \in GetFile(q.at, q.path) :
               BeginCommit(q.at, TRUE, NewVersion(q.at, id, r.file, r.version, q.path), q.saw)
    BY <1>6
  <2>2. r \in Row /\ r.version \in Ids(Written)
    BY <1>1 DEF GetFile, VersionsInv, RowsOK
  <2>3. r.file \in FileId /\ r.version \in VersionIds \union {0}
    BY <2>2, Fields DEF FileId
  <2> DEFINE v == NewVersion(q.at, id, r.file, r.version, q.path)
  <2>4. v \in Version /\ v.id = id /\ v.parent = r.version
    <3> DEFINE n == q.at
               path == q.path
               file == r.file
               parent == r.version
    <3>1. n \in Nodes /\ path \in Path /\ id \in VersionIds
      BY <1>1, <1>4
    <3>2. file \in FileId /\ parent \in VersionIds \union {0}
      BY <2>3
    <3> HIDE DEF n, path, file, parent
    <3>3. /\ NewVersion(n, id, file, parent, path) \in Version
          /\ NewVersion(n, id, file, parent, path).id = id
          /\ NewVersion(n, id, file, parent, path).parent = parent
      BY <3>1, <3>2, NewVersionTyped
    <3> QED
      BY <3>3 DEF n, path, file, parent
  <2>5. BeginCommit(q.at, TRUE, v, q.saw)
    BY <2>1
  <2> HIDE DEF v
  <2> QED
    BY <1>1, <1>2, <2>2, <2>4, <2>5, VersionsBegin
<1> QED
  BY <1>3, <1>5, <1>6

\* RestoreVersion.
LEMMA VersionsRestore ==
    ASSUME VersionsInv, NEW n \in Nodes, RestoreVersion(n)
    PROVE  VersionsInv'
<1>1. PICK r \in rows[n], id \in Fresh :
         /\ BeginCommit(n, FALSE, NewVersion(n, id, r.file, r.version, r.path), r.version)
         /\ UNCHANGED requests
  BY DEF RestoreVersion
<1>2. r \in Row /\ r.version \in Ids(Written)
  BY DEF VersionsInv, RowsOK
<1>3. r.file \in FileId /\ r.path \in Path /\ r.version \in VersionIds \union {0} /\ id \in VersionIds
  BY <1>2, Fields DEF FileId, Path, Fresh
<1>4. requests' \subseteq Request
  BY <1>1 DEF VersionsInv
<1> DEFINE v == NewVersion(n, id, r.file, r.version, r.path)
<1>5. v \in Version /\ v.id = id /\ v.parent = r.version
  <2>1. \A file \in FileId, path \in Path, parent \in VersionIds \union {0} :
           LET w == NewVersion(n, id, file, parent, path)
           IN  w \in Version /\ w.id = id /\ w.parent = parent
    BY <1>3, NewVersionTyped
  <2> QED
    BY <1>3, <2>1
<1>6. BeginCommit(n, FALSE, v, r.version)
  BY <1>1
<1> HIDE DEF v
<1> QED
  BY <1>2, <1>3, <1>4, <1>5, <1>6, VersionsBegin

\* Upload.
LEMMA VersionsUpload ==
    ASSUME VersionsInv, NEW n \in Nodes, Upload(n)
    PROVE  VersionsInv'
<1>1. PICK id \in Fresh :
         LET v == PrepareFilePut(n, NewVersion(n, id, <<id>>, 0, MainPath))
         IN  BeginCommit(n, FALSE, v, v.parent) /\ UNCHANGED requests
  BY DEF Upload
<1> DEFINE u == NewVersion(n, id, <<id>>, 0, MainPath)
           v == PrepareFilePut(n, u)
<1>2. id \in VersionIds /\ MainPath \in Path
  BY DEF Fresh, MainPath, Path
<1>3. u \in Version /\ u.id = id /\ u.parent = 0
  BY <1>2, NewFileTyped
<1>4. rows[n] \subseteq Row /\ \A r \in rows[n] : r.version \in Ids(Written)
  BY DEF VersionsInv, RowsOK
<1>5. BeginCommit(n, FALSE, v, v.parent) /\ UNCHANGED requests
  BY <1>1
<1> HIDE DEF u
<1>6. v \in Version /\ v.id = id /\ (v.parent = 0 \/ \E r \in rows[n] : v.parent = r.version)
  BY <1>3, <1>4, PrepareTyped
<1> HIDE DEF v
<1>7. v.parent \in Ids(Written) \union {0} /\ v.parent \in VersionIds \union {0}
  BY <1>4, <1>6, Fields
<1>8. requests' \subseteq Request
  BY <1>5 DEF VersionsInv
<1> QED
  BY <1>5, <1>6, <1>7, <1>8, VersionsBegin

\* The number of a new event is a number.
LEMMA NextSeqTyped ==
    ASSUME VersionsInv, NEW n \in Nodes
    PROVE  NextSeq(n) \in Nat
<1>1. IsFiniteSet({v \in ledger[n] : v.by = n})
  BY FS_Subset DEF VersionsInv, LedgersOK
<1> QED
  BY <1>1, FS_CardinalityType DEF NextSeq

\* CommitFilePut.
LEMMA VersionsCommit ==
    ASSUME VersionsInv, NEW c \in commits, CommitFilePut(c)
    PROVE  VersionsInv'
<1> DEFINE x == [c.new EXCEPT !.seq = NextSeq(c.at)]
           n == c.at
<1>1. c \in Commit /\ n \in Nodes /\ c.new \in Version
  BY Fields DEF VersionsInv, CommitsOK
<1>2. x \in Version /\ x.id = c.new.id /\ x.parent = c.new.parent
  <2>1. NextSeq(n) \in Nat
    BY <1>1, NextSeqTyped
  <2> HIDE DEF n
  <2> QED
    BY <1>1, <2>1 DEF Version, n
<1>3. ledger' = [ledger EXCEPT ![n] = @ \union {x}] /\ commits' = commits \ {c}
      /\ rows' = [rows EXCEPT ![n] = UpsertFiles(@, {RowOf(c.new)})]
      /\ UNCHANGED <<requests, applies, accidents>>
  BY DEF CommitFilePut
<1> HIDE DEF x, n
<1>12. AccidentsOK'
  BY <1>3 DEF accidents, VersionsInv, AccidentsOK
<1>4. LedgersOK'
  <2>1. IsFiniteSet(ledger[n] \union {x}) /\ ledger[n] \union {x} \subseteq Version
    BY <1>1, <1>2, FS_AddElement DEF VersionsInv, LedgersOK
  <2> QED
    BY <1>3, <2>1 DEF VersionsInv, LedgersOK
<1>5. Written' = Written \union {x}
  <2>1. ledger \in [Nodes -> SUBSET Version]
    BY DEF VersionsInv, LedgersOK
  <2> QED
    BY <1>1, <1>3, <2>1 DEF Written
<1>6. Ids(Written') = Ids(Written) \union {c.new.id}
  BY <1>2, <1>5 DEF Ids
<1>7. x.id \notin Ids(Written) /\ x.parent \in Ids(Written) \union {0} /\ x.id # 0
  BY <1>1, <1>2, Fields DEF VersionsInv, CommitsOK
<1>8. WrittenOK'
  <2>1. Distinct(Written')
    BY <1>5, <1>7 DEF VersionsInv, WrittenOK, Distinct, Ids
  <2>2. Acyclic(Written')
    <3> SUFFICES ASSUME NEW U \in SUBSET (Written \union {x}), U # {} PROVE Heads(U) # {}
      BY <1>5 DEF Acyclic
    <3>1. CASE x \in U
      <4>1. \A w \in Written : w.parent # x.id
        BY <1>7 DEF VersionsInv, WrittenOK
      <4> QED
        BY <3>1, <4>1, <1>7 DEF Heads
    <3>2. CASE x \notin U
      BY <3>2 DEF VersionsInv, WrittenOK, Acyclic
    <3> QED
      BY <3>1, <3>2
  <2>3. \A v \in Written' : v.parent \in Ids(Written') \union {0}
    BY <1>5, <1>6, <1>7 DEF VersionsInv, WrittenOK
  <2> QED
    BY <2>1, <2>2, <2>3 DEF WrittenOK
<1>9. RowsOK'
  <2>1. RowOf(c.new) \in Row /\ RowOf(c.new).version = c.new.id
    BY <1>1, RowOfTyped
  <2>2. rows[n] \subseteq Row
    BY <1>1 DEF VersionsInv, RowsOK
  <2>3. UpsertFiles(rows[n], {RowOf(c.new)}) \subseteq rows[n] \union {RowOf(c.new)}
    BY DEF UpsertFiles
  <2>4. rows' \in [Nodes -> SUBSET Row]
    BY <1>3, <2>1, <2>2, <2>3 DEF VersionsInv, RowsOK
  <2>5. ASSUME NEW m \in Nodes, NEW r \in rows'[m] PROVE r.version \in Ids(Written')
    <3>1. r \in rows[m] \union {RowOf(c.new)}
      BY <1>3, <2>3 DEF VersionsInv, RowsOK
    <3> QED
      BY <3>1, <2>1, <1>6 DEF VersionsInv, RowsOK
  <2> QED
    BY <2>4, <2>5 DEF RowsOK
<1>10. CommitsOK'
  BY <1>3, <1>6 DEF VersionsInv, CommitsOK
<1>11. AppliesOK'
  <2>1. \A m \in Nodes : ledger[m] \subseteq ledger'[m]
    BY <1>3 DEF VersionsInv, LedgersOK
  <2>2. \A a \in applies : a.at \in Nodes
    BY Fields DEF VersionsInv, AppliesOK
  <2> QED
    BY <1>3, <1>6, <2>1, <2>2 DEF VersionsInv, AppliesOK
<1> QED
  BY <1>3, <1>4, <1>8, <1>9, <1>10, <1>11, <1>12 DEF VersionsInv

\* Receive.
LEMMA VersionsReceive ==
    ASSUME VersionsInv, NEW n \in Nodes, NEW v \in Written, Receive(n, v)
    PROVE  VersionsInv'
<1> DEFINE a == [at |-> n, new |-> v, step |-> "look",
                 file |-> None, path |-> MainPath, views |-> {}]
<1>1. ledger' = [ledger EXCEPT ![n] = @ \union {v}] /\ applies' = applies \union {a}
      /\ UNCHANGED <<rows, requests, commits>>
  BY DEF Receive
<1>2. v \in Version
  BY DEF Written, VersionsInv, LedgersOK
<1>3. a \in Applying /\ a.new = v /\ a.at = n /\ a.views = {} /\ a.step = "look"
  BY <1>2 DEF Applying, None, MainPath, FileId, Path
<1> HIDE DEF a
<1>4. LedgersOK'
  <2>1. IsFiniteSet(ledger[n] \union {v}) /\ ledger[n] \union {v} \subseteq Version
    BY <1>2, FS_AddElement DEF VersionsInv, LedgersOK
  <2> QED
    BY <1>1, <2>1 DEF VersionsInv, LedgersOK
<1>5. Written' = Written
  <2>1. ledger \in [Nodes -> SUBSET Version]
    BY DEF VersionsInv, LedgersOK
  <2>2. Written' = Written \union {v}
    BY <1>1, <2>1 DEF Written
  <2> QED
    BY <2>2
<1>6. AppliesOK'
  <2>1. v \in ledger'[n] /\ \A m \in Nodes : ledger[m] \subseteq ledger'[m]
    BY <1>1 DEF VersionsInv, LedgersOK
  <2>2. \A b \in applies : b.at \in Nodes
    BY Fields DEF VersionsInv, AppliesOK
  <2> QED
    BY <1>1, <1>3, <1>5, <2>1, <2>2 DEF VersionsInv, AppliesOK
<1>7. AccidentsOK'
  <2>1. v.file \in FileId /\ Overlap(n, v.file)
    BY <1>2, Fields DEF FileId, Receive
  <2> QED
    BY <2>1, OverlapTyped
<1> QED
  BY <1>1, <1>4, <1>5, <1>6, <1>7 DEF VersionsInv, WrittenOK, RowsOK, CommitsOK

\* An event goes to its next step.
LEMMA VersionsAdvance ==
    ASSUME VersionsInv, NEW a \in applies, NEW b \in Applying, Advance(a, b),
           b.at = a.at, b.new = a.new, \A r \in b.views : r.version \in Ids(Written),
           b.step \in {"list", "replace"} => b.file = b.new.file,
           UNCHANGED <<ledger, rows, requests, commits, faults>>,
           raced' \subseteq raced, skipped' \subseteq skipped
    PROVE  VersionsInv'
<1>1. applies' = (applies \ {a}) \union {b} /\ Written' = Written
  BY DEF Advance, Written
<1>2. AppliesOK'
  BY <1>1 DEF VersionsInv, AppliesOK
<1>3. AccidentsOK'
  BY DEF VersionsInv, AccidentsOK
<1> QED
  BY <1>1, <1>2, <1>3, LedgerStays DEF VersionsInv, RowsOK, CommitsOK

\* Look.
LEMMA VersionsLook ==
    ASSUME VersionsInv, NEW a \in applies, Look(a)
    PROVE  VersionsInv'
<1>1. a \in Applying /\ a.at \in Nodes /\ a.new \in Version /\ a.new \in ledger[a.at]
  BY Fields DEF VersionsInv, AppliesOK
<1>2. /\ rows[a.at] \subseteq Row /\ UNCHANGED <<ledger, rows, requests, commits, faults>>
      /\ raced' \subseteq raced /\ skipped' \subseteq skipped
  BY <1>1 DEF VersionsInv, RowsOK, Look, accidents
<1>3. CASE Advance(a, [a EXCEPT !.step = "upsert", !.views = {RowOf(PrepareFilePut(a.at, a.new))}])
  <2> DEFINE w == PrepareFilePut(a.at, a.new)
             b == [a EXCEPT !.step = "upsert", !.views = {RowOf(w)}]
  <2>1. w \in Version /\ w.id = a.new.id
    BY <1>1, <1>2, PrepareTyped
  <2> HIDE DEF w
  <2>2. RowOf(w) \in Row /\ RowOf(w).version = a.new.id
    BY <2>1, RowOfTyped
  <2>3. a.new.id \in Ids(Written)
    BY <1>1, LedgerWritten DEF Ids
  <2>4. b \in Applying /\ b.at = a.at /\ b.new = a.new /\ b.views = {RowOf(w)} /\ b.step = "upsert"
    BY <1>1, <2>2 DEF Applying
  <2>5. Advance(a, b)
    BY <1>3 DEF w
  <2> HIDE DEF b
  <2> QED
    BY <1>2, <2>2, <2>3, <2>4, <2>5, VersionsAdvance
<1>4. CASE \E r \in Existing(a) :
          /\ r.file = a.new.file
          /\ Advance(a, [a EXCEPT !.step = "list", !.file = r.file, !.path = r.path])
  <2>1. PICK r \in Existing(a) :
          /\ r.file = a.new.file
          /\ Advance(a, [a EXCEPT !.step = "list", !.file = r.file, !.path = r.path])
    BY <1>4
  <2>2. r \in Row
    BY <1>2, <2>1 DEF Existing, GetFile, GetFileByID
  <2> DEFINE b == [a EXCEPT !.step = "list", !.file = r.file, !.path = r.path]
  <2>3. b \in Applying /\ b.at = a.at /\ b.new = a.new /\ b.views = a.views /\ b.file = a.new.file
    BY <1>1, <2>1, <2>2, Fields DEF Applying, FileId, Path
  <2>4. Advance(a, b)
    BY <2>1
  <2>5. \A s \in a.views : s.version \in Ids(Written)
    BY DEF VersionsInv, AppliesOK
  <2> HIDE DEF b
  <2> QED
    BY <1>2, <2>3, <2>4, <2>5, VersionsAdvance
<1> QED
  BY <1>3, <1>4 DEF Look

\* The rows are replaced by rows they had before and the views of an event.
LEMMA VersionsReplace ==
    ASSUME VersionsInv, NEW a \in applies, NEW R, R \subseteq rows[a.at],
           rows' = [rows EXCEPT ![a.at] = UpsertFiles(R, a.views)],
           applies' = applies \ {a}, UNCHANGED <<ledger, requests, commits, accidents>>
    PROVE  VersionsInv'
<1>1. a \in Applying /\ a.at \in Nodes /\ a.views \subseteq Row
      /\ \A r \in a.views : r.version \in Ids(Written)
  BY Fields DEF VersionsInv, AppliesOK
<1>2. UpsertFiles(R, a.views) \subseteq rows[a.at] \union a.views
  BY DEF UpsertFiles
<1>3. Written' = Written
  BY DEF Written
<1>4. rows' \in [Nodes -> SUBSET Row]
  <2>1. rows[a.at] \subseteq Row
    BY <1>1 DEF VersionsInv, RowsOK
  <2>2. UpsertFiles(R, a.views) \subseteq Row
    BY <1>1, <1>2, <2>1
  <2> QED
    BY <1>1, <2>2 DEF VersionsInv, RowsOK
<1>5. ASSUME NEW m \in Nodes, NEW r \in rows'[m] PROVE r.version \in Ids(Written)
  <2>1. r \in rows[m] \/ r \in a.views
    BY <1>1, <1>2 DEF VersionsInv, RowsOK
  <2> QED
    BY <1>1, <2>1 DEF VersionsInv, RowsOK
<1>6. RowsOK'
  BY <1>3, <1>4, <1>5 DEF RowsOK
<1>7. AccidentsOK'
  BY DEF accidents, VersionsInv, AccidentsOK
<1> QED
  BY <1>3, <1>6, <1>7, LedgerStays DEF VersionsInv, CommitsOK, AppliesOK

\* ListVersions.
LEMMA VersionsList ==
    ASSUME VersionsInv, NEW a \in applies, ListVersions(a)
    PROVE  VersionsInv'
<1> DEFINE V == ListFileVersions(a.at, a.file)
           R == Views(V, a.file, a.path)
           b == [a EXCEPT !.step = "replace", !.views = R]
<1>1. a \in Applying /\ a.at \in Nodes /\ a.file \in FileId /\ a.path \in Path /\ a.new \in V
  BY Fields DEF VersionsInv, AppliesOK, ListVersions, ListFileVersions, FileId, Path
<1>2. V \subseteq ledger[a.at]
  BY DEF ListFileVersions
<1> HIDE DEF V
<1>3. Graph(V) /\ V \subseteq Version /\ V \subseteq Written /\ V # {}
  BY <1>1, <1>2, PartGraph
<1>4. R \subseteq Row /\ \A r \in R : r.version \in Ids(Written)
  BY <1>1, <1>3, ViewsTyped DEF Ids
<1>5. /\ Advance(a, b) /\ a.step = "list" /\ UNCHANGED <<ledger, rows, requests, commits, faults>>
      /\ raced' \subseteq raced /\ skipped' \subseteq skipped
  BY DEF ListVersions, V
<1> HIDE DEF R
<1>6. b \in Applying /\ b.at = a.at /\ b.new = a.new /\ b.views = R /\ b.file = a.file
  BY <1>1, <1>4 DEF Applying
<1>7. a.file = a.new.file
  BY <1>5 DEF VersionsInv, AppliesOK
<1> HIDE DEF b
<1> QED
  BY <1>4, <1>5, <1>6, <1>7, VersionsAdvance

\* Handlers end without having done their work; a fault is one more.
LEMMA VersionsFault ==
    ASSUME VersionsInv, Fault, requests' \subseteq requests, commits' \subseteq commits,
           applies' \subseteq applies, UNCHANGED <<ledger, rows, raced>>,
           skipped' \subseteq skipped \union {<<a.at, a.new.file>> : a \in applies}
    PROVE  VersionsInv'
<1>1. \A a \in applies : <<a.at, a.new.file>> \in Nodes \X FileId
  BY Fields DEF VersionsInv, AppliesOK, FileId
<1>2. faults' \in 0..MaxFaults
  BY BoundsAssumption DEF Fault, VersionsInv, AccidentsOK
<1>3. AccidentsOK'
  BY <1>1, <1>2 DEF VersionsInv, AccidentsOK
<1>4. Written' = Written
  BY DEF Written
<1> QED
  BY <1>3, <1>4, LedgerStays DEF VersionsInv, RowsOK, CommitsOK, AppliesOK

\* Every step.
LEMMA VersionsNext ==
    ASSUME VersionsInv, [Next]_vars
    PROVE  VersionsInv'
<1>1. ASSUME NEW a \in applies, UpsertFile(a) PROVE VersionsInv'
  BY <1>1, VersionsReplace DEF UpsertFile
<1>2. ASSUME NEW a \in applies, ReplaceViews(a) PROVE VersionsInv'
  <2> DEFINE copy(r) == /\ r.conflictOf = a.file
                        /\ Len(r.file) > Len(a.file) /\ SubSeq(r.file, 1, Len(a.file)) = a.file
             R == {r \in rows[a.at] : ~copy(r)}
  <2>1. a.at \in Nodes
    BY Fields DEF VersionsInv, AppliesOK
  <2>2. rows' = [rows EXCEPT ![a.at] = UpsertFiles(R, a.views)]
    BY <1>2, <2>1 DEF ReplaceViews, ReplaceConcurrentFileViews
  <2>3. R \subseteq rows[a.at]
    OBVIOUS
  <2> HIDE DEF R
  <2> QED
    BY <1>2, <2>2, <2>3, VersionsReplace DEF ReplaceViews
<1>3. CASE UNCHANGED vars
  BY <1>3 DEF vars, VersionsInv, LedgersOK, WrittenOK, RowsOK, CommitsOK, AppliesOK,
              AccidentsOK, Written
<1>4. CASE Write
  BY <1>4, VersionsPutExisting, VersionsPutNew, VersionsRestore, VersionsUpload,
     VersionsAbort, VersionsClose, VersionsCommit DEF Write
<1>5. CASE ApplyStep
  BY <1>1, <1>2, <1>5, VersionsReceive, VersionsLook, VersionsList DEF ApplyStep
<1>6. CASE Faulty
  <2>1. ASSUME NEW c \in commits, FailCommit(c) PROVE VersionsInv'
    BY <2>1, VersionsFault DEF FailCommit
  <2>2. ASSUME NEW a \in applies, SkipEvent(a) PROVE VersionsInv'
    BY <2>2, VersionsFault DEF SkipEvent
  <2>3. ASSUME NEW n \in Nodes, Restart(n) PROVE VersionsInv'
    <3>1. \A a \in {b \in applies : b.at = n} : a \in applies /\ a.at = n
      OBVIOUS
    <3>2. skipped' \subseteq skipped \union {<<a.at, a.new.file>> : a \in applies}
      BY <2>3, <3>1 DEF Restart
    <3> QED
      BY <2>3, <3>2, VersionsFault DEF Restart
  <2> QED
    BY <1>6, <2>1, <2>2, <2>3 DEF Faulty
<1> QED
  BY <1>3, <1>4, <1>5, <1>6 DEF Next

\* An id names one version at all nodes, what a version is based on was
\* written before it, and the version graph of every node is free of cycles
\* (commitFilePut, RecordFileVersion).
THEOREM VersionsInvariant == Spec => []VersionsInv
  BY VersionsInit, VersionsNext, PTL DEF Spec

\* The types; among them, that the rebuild of a file finds a winning head.
THEOREM FileViewsTyped == Spec => []TypeOK
<1>1. VersionsInv => TypeOK
  BY DEF VersionsInv, LedgersOK, RowsOK, CommitsOK, AppliesOK, AccidentsOK, TypeOK
<1> QED
  BY <1>1, VersionsInvariant, PTL

-----------------------------------------------------------------------------
(* What the versions of a file show *)

\* The versions of a file, its rows, and what the rows of a file are if they
\* are the projection of its versions, for any sets of versions and rows.
Of(L, file) == {v \in L : v.file = file}

Slice(R, file) ==
    {r \in R : Len(r.file) >= Len(file) /\ SubSeq(r.file, 1, Len(file)) = file}

Face(V, file, path) == IF V = {} THEN {} ELSE Projection(V, file, path)

\* A file has one path: MainPath, or the one an upload got because of its file id.
Placed(v) == \E x \in VersionIds : v.file = <<x>> /\ (v.path = MainPath \/ v.path = <<0, x>>)

Coherent(S) ==
    /\ \A v \in S : Placed(v)
    /\ \A v, w \in S : v.file = w.file <=> v.path = w.path

\* The rows of a file: the one on its path, and the conflict copies.
MainOf(r, v) == r.file = v.file /\ r.path = v.path

CopyOf(r, v) ==
    /\ \E h \in VersionIds : r.file = Append(v.file, h) /\ r.path = Append(v.path, h)
    /\ r.conflictOf = v.file

BelongsTo(r, v) == MainOf(r, v) \/ CopyOf(r, v)

\* Rows show versions of the files they belong to.
Placements(R, L) == \A r \in R : \E v \in L : BelongsTo(r, v) /\ r.version \in Ids(Of(L, v.file))

\* A file has one main row.
MainsOnce(R) == \A r, s \in R : r.file = s.file /\ Len(r.file) = 1 => r.version = s.version

\* Conflict copies have longer ids than files, and paths of another length.
LEMMA CopyIsLonger ==
    ASSUME NEW v, Placed(v), NEW r
    PROVE  /\ MainOf(r, v) => Len(r.file) = 1
           /\ CopyOf(r, v) => /\ Len(r.file) = 2 /\ r.file # v.file /\ r.path # v.path
                              /\ SubSeq(r.file, 1, Len(v.file)) = v.file
                              /\ r.path # MainPath /\ \A y : r.path # <<0, y>>
           /\ Len(v.file) = 1
<1>1. PICK x \in VersionIds : v.file = <<x>> /\ (v.path = MainPath \/ v.path = <<0, x>>)
  BY DEF Placed
<1>2. Len(v.file) = 1 /\ x \in Nat /\ v.file \in Seq(Nat)
  BY <1>1, IdsAssumption
<1>3. ASSUME CopyOf(r, v)
      PROVE  /\ Len(r.file) = 2 /\ r.file # v.file /\ r.path # v.path
             /\ SubSeq(r.file, 1, Len(v.file)) = v.file
             /\ r.path # MainPath /\ \A y : r.path # <<0, y>>
  <2>1. PICK h \in Nat : r.file = Append(v.file, h) /\ r.path = Append(v.path, h)
    BY <1>3, IdsAssumption DEF CopyOf
  <2>2. Len(r.file) = 2 /\ r.file[1] = x /\ r.file \in Seq(Nat)
    BY <1>1, <1>2, <2>1
  <2>3. SubSeq(r.file, 1, 1) = v.file
    <3>1. SubSeq(r.file, 1, 1) \in Seq(Nat) /\ Len(SubSeq(r.file, 1, 1)) = 1
          /\ SubSeq(r.file, 1, 1)[1] = x
      BY <1>2, <2>2
    <3>2. v.file[1] = x
      BY <1>1
    <3>3. \A i \in 1 .. Len(v.file) : SubSeq(r.file, 1, 1)[i] = v.file[i]
      BY <1>2, <3>1, <3>2
    <3> QED
      BY <1>2, <3>1, <3>3, SeqEqual
  <2>4. v.path \in Seq(Nat) /\ (Len(v.path) = 0 \/ Len(v.path) = 2)
    <3>1. CASE v.path = MainPath
      <4>1. v.path = <<>>
        BY <3>1 DEF MainPath
      <4> QED
        BY <4>1
    <3>2. CASE v.path = <<0, x>>
      <4>1. Len(v.path) = 2
        BY <3>2
      <4>2. v.path \in Seq(Nat)
        BY <3>2, <1>2
      <4> QED
        BY <4>1, <4>2
    <3> QED
      BY <1>1, <3>1, <3>2
  <2>5. Len(r.path) = 1 \/ Len(r.path) = 3
    <3>1. Len(r.path) = Len(v.path) + 1
      BY <2>1, <2>4
    <3>2. CASE Len(v.path) = 0
      BY <3>1, <3>2
    <3>3. CASE Len(v.path) = 2
      BY <3>1, <3>3
    <3> QED
      BY <2>4, <3>2, <3>3
  <2>6. Len(MainPath) = 0
    BY DEF MainPath
  <2>7. r.path # MainPath /\ r.path # v.path
    <3>1. ASSUME r.path = MainPath PROVE FALSE
      BY <2>5, <2>6, <3>1
    <3>2. ASSUME r.path = v.path PROVE FALSE
      <4>1. Len(r.path) = Len(v.path) + 1 /\ Len(v.path) \in Nat
        BY <2>1, <2>4
      <4> QED
        BY <3>2, <4>1
    <3> QED
      BY <3>1, <3>2
  <2>8. ASSUME NEW y, r.path = <<0, y>> PROVE FALSE
    <3>1. Len(r.path) = 2
      BY <2>8
    <3> QED
      BY <2>5, <3>1
  <2> QED
    BY <1>2, <2>2, <2>3, <2>7, <2>8
<1> QED
  BY <1>2, <1>3 DEF MainOf

\* Rows of different files have different ids and paths.
LEMMA RowsApart ==
    ASSUME NEW v, NEW w, Placed(v), Placed(w), v.file # w.file, v.path # w.path,
           NEW r, NEW s, BelongsTo(r, v), BelongsTo(s, w)
    PROVE  r.file # s.file /\ r.path # s.path
<1>1. PICK x \in VersionIds : v.file = <<x>> /\ (v.path = MainPath \/ v.path = <<0, x>>)
  BY DEF Placed
<1>2. PICK y \in VersionIds : w.file = <<y>> /\ (w.path = MainPath \/ w.path = <<0, y>>)
  BY DEF Placed
<1>3. x # y /\ x \in Nat \ {0} /\ y \in Nat \ {0}
  BY <1>1, <1>2, IdsAssumption
<1>4. r.file[1] = x /\ s.file[1] = y
  <2>1. r.file = <<x>> \/ \E h \in Nat : r.file = Append(<<x>>, h)
    BY <1>1, IdsAssumption DEF BelongsTo, MainOf, CopyOf
  <2>2. s.file = <<y>> \/ \E h \in Nat : s.file = Append(<<y>>, h)
    BY <1>2, IdsAssumption DEF BelongsTo, MainOf, CopyOf
  <2>3. r.file[1] = x
    BY <1>3, <2>1
  <2>4. s.file[1] = y
    BY <1>3, <2>2
  <2> QED
    BY <2>3, <2>4
<1>5. /\ v.path = MainPath => Len(r.path) < 2
      /\ v.path # MainPath => Len(r.path) >= 2 /\ r.path[2] = x
  <2>1. r.path = v.path \/ \E h \in Nat : r.path = Append(v.path, h)
    BY IdsAssumption DEF BelongsTo, MainOf, CopyOf
  <2>2. CASE v.path = MainPath
    <3>1. r.path = <<>> \/ \E h \in Nat : r.path = Append(<<>>, h)
      BY <2>1, <2>2 DEF MainPath
    <3>2. Len(<<>>) < 2 /\ \A h \in Nat : Len(Append(<<>>, h)) < 2
      OBVIOUS
    <3>3. Len(r.path) < 2
      BY <3>1, <3>2, Zenon
    <3> QED
      BY <2>2, <3>3
  <2>3. CASE v.path # MainPath
    <3>1. v.path = <<0, x>>
      BY <1>1, <2>3
    <3>2. r.path = <<0, x>> \/ \E h \in Nat : r.path = Append(<<0, x>>, h)
      BY <2>1, <3>1
    <3>3. Len(r.path) >= 2 /\ r.path[2] = x
      BY <1>3, <3>2
    <3> QED
      BY <2>3, <3>3
  <2> QED
    BY <2>2, <2>3
<1>6. /\ w.path = MainPath => Len(s.path) < 2
      /\ w.path # MainPath => Len(s.path) >= 2 /\ s.path[2] = y
  <2>1. s.path = w.path \/ \E h \in Nat : s.path = Append(w.path, h)
    BY IdsAssumption DEF BelongsTo, MainOf, CopyOf
  <2>2. CASE w.path = MainPath
    <3>1. s.path = <<>> \/ \E h \in Nat : s.path = Append(<<>>, h)
      BY <2>1, <2>2 DEF MainPath
    <3>2. Len(<<>>) < 2 /\ \A h \in Nat : Len(Append(<<>>, h)) < 2
      OBVIOUS
    <3>3. Len(s.path) < 2
      BY <3>1, <3>2, Zenon
    <3> QED
      BY <2>2, <3>3
  <2>3. CASE w.path # MainPath
    <3>1. w.path = <<0, y>>
      BY <1>2, <2>3
    <3>2. s.path = <<0, y>> \/ \E h \in Nat : s.path = Append(<<0, y>>, h)
      BY <2>1, <3>1
    <3>3. Len(s.path) >= 2 /\ s.path[2] = y
      BY <1>3, <3>2
    <3> QED
      BY <2>3, <3>3
  <2> QED
    BY <2>2, <2>3
<1>7. r.path # s.path
  <2>1. CASE v.path = MainPath
    BY <1>5, <1>6, <2>1
  <2>2. CASE w.path = MainPath
    BY <1>5, <1>6, <2>2
  <2>3. CASE v.path # MainPath /\ w.path # MainPath
    BY <1>3, <1>5, <1>6, <2>3
  <2> QED
    BY <2>1, <2>2, <2>3
<1> QED
  BY <1>3, <1>4, <1>7

\* A row on the path of a file, or with an id that is not a conflict copy's, is
\* its main row.
LEMMA MainOnly ==
    ASSUME NEW v, Placed(v), NEW r, BelongsTo(r, v),
           Len(r.file) = 1 \/ r.path = MainPath \/ \E y : r.path = <<0, y>>
    PROVE  MainOf(r, v)
<1>1. ASSUME CopyOf(r, v) PROVE FALSE
  <2>1. Len(r.file) = 2 /\ r.path # MainPath /\ \A y : r.path # <<0, y>>
    BY <1>1, CopyIsLonger
  <2> QED
    BY <2>1
<1> QED
  BY <1>1 DEF BelongsTo

\* The rows of a file are those whose ids begin with that of the file.
LEMMA InSlice ==
    ASSUME NEW v, Placed(v), NEW w, Placed(w), NEW r, BelongsTo(r, v)
    PROVE  Len(r.file) >= Len(w.file) /\ SubSeq(r.file, 1, Len(w.file)) = w.file
              <=> v.file = w.file
<1>1. PICK x \in VersionIds : v.file = <<x>>
  BY DEF Placed
<1>2. Len(v.file) = 1 /\ Len(w.file) = 1
  BY CopyIsLonger
<1>3. SubSeq(r.file, 1, 1) = v.file /\ Len(r.file) >= 1
  <2>1. CASE MainOf(r, v)
    <3>1. r.file = <<x>> /\ x \in Nat
      BY <2>1, <1>1, IdsAssumption DEF MainOf
    <3>2. SubSeq(<<x>>, 1, 1) = <<x>>
      <4>1. <<x>> \in Seq(Nat) /\ Len(<<x>>) = 1
        BY <3>1
      <4>2. SubSeq(<<x>>, 1, 1) \in Seq(Nat) /\ Len(SubSeq(<<x>>, 1, 1)) = 1
            /\ SubSeq(<<x>>, 1, 1)[1] = x
        BY <3>1, <4>1
      <4>3. \A i \in 1 .. Len(<<x>>) : SubSeq(<<x>>, 1, 1)[i] = <<x>>[i]
        BY <4>1, <4>2
      <4> QED
        BY <4>1, <4>2, <4>3, SeqEqual
    <3> QED
      BY <1>1, <3>1, <3>2
  <2>2. CASE CopyOf(r, v)
    <3>1. Len(r.file) = 2 /\ SubSeq(r.file, 1, Len(v.file)) = v.file
      BY <2>2, CopyIsLonger
    <3> QED
      BY <1>2, <3>1
  <2> QED
    BY <2>1, <2>2 DEF BelongsTo
<1> QED
  BY <1>2, <1>3

\* The slice of a file has its rows, and no others collide with them.
LEMMA SliceBelongs ==
    ASSUME NEW K, NEW L, Coherent(K), L \subseteq K, NEW R, Placements(R, L), NEW w \in K
    PROVE  /\ \A r \in Slice(R, w.file) : r \in R /\ BelongsTo(r, w) /\ r.version \in Ids(Of(L, w.file))
           /\ \A r \in R : r.file = w.file \/ r.path = w.path => MainOf(r, w) /\ r \in Slice(R, w.file)
           /\ \A r \in R \ Slice(R, w.file) : \A s : BelongsTo(s, w) => r.file # s.file /\ r.path # s.path
<1> SUFFICES ASSUME NEW r \in R
             PROVE  /\ r \in Slice(R, w.file) => BelongsTo(r, w) /\ r.version \in Ids(Of(L, w.file))
                    /\ r.file = w.file \/ r.path = w.path => MainOf(r, w) /\ r \in Slice(R, w.file)
                    /\ r \notin Slice(R, w.file) =>
                          \A s : BelongsTo(s, w) => r.file # s.file /\ r.path # s.path
  BY DEF Slice
<1>1. PICK v \in L : BelongsTo(r, v) /\ r.version \in Ids(Of(L, v.file))
  BY DEF Placements
<1>2. Placed(v) /\ Placed(w) /\ (v.file = w.file <=> v.path = w.path)
  BY DEF Coherent
<1>3. r \in Slice(R, w.file) <=> v.file = w.file
  BY <1>1, <1>2, InSlice DEF Slice
<1>4. BelongsTo(w, w)
  BY DEF BelongsTo, MainOf
<1>5. v.file # w.file => \A s : BelongsTo(s, w) => r.file # s.file /\ r.path # s.path
  BY <1>1, <1>2, RowsApart
<1>6. v.file = w.file => BelongsTo(r, w) /\ r.version \in Ids(Of(L, w.file))
  BY <1>1, <1>2 DEF BelongsTo, MainOf, CopyOf
<1>7. r.file = w.file \/ r.path = w.path => MainOf(r, w) /\ r \in Slice(R, w.file)
  <2> SUFFICES ASSUME r.file = w.file \/ r.path = w.path PROVE MainOf(r, w) /\ v.file = w.file
    BY <1>3
  <2>1. v.file = w.file
    BY <1>4, <1>5
  <2>2. ASSUME CopyOf(r, w) PROVE FALSE
    BY <1>2, <2>2, CopyIsLonger
  <2> QED
    BY <1>6, <2>1, <2>2 DEF BelongsTo
<1> QED
  BY <1>3, <1>5, <1>6, <1>7

\* Writing rows of a file leaves the rows of the others alone, and replaces the
\* main row if that is all it writes.
LEMMA SliceUpsert ==
    ASSUME NEW K, NEW L, Coherent(K), L \subseteq K, NEW R, Placements(R, L), NEW w \in K,
           NEW W, \A s \in W : BelongsTo(s, w)
    PROVE  /\ \A v \in K : v.file # w.file => Slice(UpsertFiles(R, W), v.file) = Slice(R, v.file)
           /\ \A m : W = {m} /\ MainOf(m, w) =>
                Slice(UpsertFiles(R, W), w.file) = {r \in Slice(R, w.file) : r.file # w.file} \union {m}
<1>1. Placed(w)
  BY DEF Coherent
<1>2. ASSUME NEW v \in K, v.file # w.file
      PROVE  Slice(UpsertFiles(R, W), v.file) = Slice(R, v.file)
  <2>1. Placed(v)
    BY DEF Coherent
  <2>2. \A s \in W : ~(Len(s.file) >= Len(v.file) /\ SubSeq(s.file, 1, Len(v.file)) = v.file)
    BY <1>1, <1>2, <2>1, InSlice
  <2>3. ASSUME NEW r \in Slice(R, v.file), NEW s \in W PROVE r.file # s.file /\ r.path # s.path
    <3>1. BelongsTo(r, v)
      BY SliceBelongs
    <3>2. v.path # w.path
      BY <1>2 DEF Coherent
    <3> QED
      BY <1>1, <1>2, <2>1, <3>1, <3>2, RowsApart
  <2> QED
    BY <2>2, <2>3 DEF Slice, UpsertFiles
<1>3. ASSUME NEW m, W = {m}, MainOf(m, w)
      PROVE  Slice(UpsertFiles(R, W), w.file) = {r \in Slice(R, w.file) : r.file # w.file} \union {m}
  <2>1. Len(m.file) >= Len(w.file) /\ SubSeq(m.file, 1, Len(w.file)) = w.file
    BY <1>1, <1>3, InSlice
  <2>2. ASSUME NEW r \in R, r.path = w.path PROVE r.file = w.file
    <3>1. MainOf(r, w)
      BY <2>2, SliceBelongs
    <3> QED
      BY <3>1 DEF MainOf
  <2>3. UpsertFiles(R, W) = {r \in R : r.file # w.file} \union {m}
    BY <1>3, <2>2 DEF UpsertFiles, MainOf
  <2> QED
    BY <2>1, <2>3 DEF Slice
<1> QED
  BY <1>2, <1>3

\* A rebuild leaves the rows of other files alone and replaces all of its own.
LEMMA SliceReplace ==
    ASSUME NEW K, NEW L, Coherent(K), L \subseteq K, NEW R, Placements(R, L), NEW w \in K,
           NEW W, \A s \in W : BelongsTo(s, w), NEW m \in W, MainOf(m, w)
    PROVE  LET N == ReplaceConcurrentFileViews(R, w.file, W)
           IN  /\ \A v \in K : v.file # w.file => Slice(N, v.file) = Slice(R, v.file)
               /\ Slice(N, w.file) = W
               /\ N \subseteq R \union W
<1> DEFINE copy(r) == /\ r.conflictOf = w.file
                      /\ Len(r.file) > Len(w.file) /\ SubSeq(r.file, 1, Len(w.file)) = w.file
           T == {r \in R : ~copy(r)}
           N == ReplaceConcurrentFileViews(R, w.file, W)
<1>1. N = UpsertFiles(T, W) /\ T \subseteq R
  BY DEF ReplaceConcurrentFileViews
<1>2. Placements(T, L)
  BY DEF Placements
<1>3. Placed(w) /\ Len(w.file) = 1
  BY CopyIsLonger DEF Coherent
<1>4. ASSUME NEW v \in K, v.file # w.file PROVE Slice(T, v.file) = Slice(R, v.file)
  <2> SUFFICES ASSUME NEW r \in Slice(R, v.file), copy(r) PROVE FALSE
    BY DEF Slice
  <2>1. BelongsTo(r, v) /\ Placed(v)
    BY SliceBelongs DEF Coherent
  <2>2. Len(r.file) >= Len(w.file)
    <3>1. Len(r.file) = 1 \/ Len(r.file) = 2
      BY <2>1, CopyIsLonger DEF BelongsTo
    <3> QED
      BY <1>3, <3>1
  <2> QED
    BY <1>3, <1>4, <2>1, <2>2, InSlice
<1>5. Slice(N, w.file) = W
  <2>1. \A s \in W : Len(s.file) >= Len(w.file) /\ SubSeq(s.file, 1, Len(w.file)) = w.file
    BY <1>3, InSlice
  <2>2. ASSUME NEW r \in Slice(R, w.file), ~copy(r) PROVE r.file = m.file
    <3>1. BelongsTo(r, w)
      BY SliceBelongs
    <3>2. ~CopyOf(r, w)
      <4> SUFFICES ASSUME CopyOf(r, w) PROVE FALSE
        OBVIOUS
      <4>1. Len(r.file) = 2 /\ SubSeq(r.file, 1, Len(w.file)) = w.file /\ r.conflictOf = w.file
        BY <1>3, CopyIsLonger DEF CopyOf
      <4> QED
        BY <1>3, <2>2, <4>1
    <3> QED
      BY <3>1, <3>2 DEF BelongsTo, MainOf
  <2>3. \A r \in T : Len(r.file) >= Len(w.file) /\ SubSeq(r.file, 1, Len(w.file)) = w.file
                        => r.file = m.file
    BY <2>2 DEF Slice
  <2> HIDE DEF T, copy
  <2> QED
    BY <1>1, <2>1, <2>3 DEF Slice, UpsertFiles
<1>6. \A v \in K : v.file # w.file => Slice(N, v.file) = Slice(T, v.file)
  <2> HIDE DEF T, N
  <2> QED
    BY <1>1, <1>2, SliceUpsert
<1>7. N \subseteq R \union W
  <2> HIDE DEF T, N
  <2> QED
    BY <1>1 DEF UpsertFiles
<1> QED
  BY <1>4, <1>5, <1>6, <1>7

\* Some versions of a file on its path.
Family(V, v) ==
    /\ Graph(V) /\ V \subseteq Version /\ Placed(v)
    /\ \A u \in V : u.file = v.file /\ u.path = v.path

\* The rows of Views, under names.
MainView(V, v) == [file |-> v.file, path |-> v.path, version |-> Winner(V).id, conflictOf |-> None]

CopyView(v, h) == [file |-> ConcurrentConflictFileID(v.file, h.id),
                   path |-> ConcurrentConflictPath(v.path, h.id),
                   version |-> h.id, conflictOf |-> v.file]

\* What Views is made of.
LEMMA ViewsRows ==
    ASSUME NEW V, NEW v, Family(V, v), V # {}
    PROVE  /\ Views(V, v.file, v.path) =
                {MainView(V, v)} \union {CopyView(v, h) : h \in Heads(V) \ {Winner(V)}}
           /\ MainOf(MainView(V, v), v) /\ MainView(V, v).version = Winner(V).id
           /\ \A h \in Heads(V) : /\ CopyOf(CopyView(v, h), v) /\ CopyView(v, h).version = h.id
                                  /\ h \in V
           /\ Winner(V) \in V /\ Winner(V) \in Heads(V)
<1>1. Views(V, v.file, v.path) =
         {MainView(V, v)} \union {CopyView(v, h) : h \in Heads(V) \ {Winner(V)}}
  BY DEF Views, MainView, CopyView
<1>2. MainOf(MainView(V, v), v) /\ MainView(V, v).version = Winner(V).id
  BY DEF MainOf, MainView
<1>3. ASSUME NEW h \in Heads(V)
      PROVE  CopyOf(CopyView(v, h), v) /\ CopyView(v, h).version = h.id /\ h \in V
  <2>1. h \in V /\ h.id \in VersionIds
    BY Fields DEF Heads, Family
  <2>2. /\ CopyView(v, h).file = Append(v.file, h.id) /\ CopyView(v, h).path = Append(v.path, h.id)
        /\ CopyView(v, h).conflictOf = v.file /\ CopyView(v, h).version = h.id
    BY DEF CopyView, ConcurrentConflictFileID, ConcurrentConflictPath
  <2> QED
    BY <2>1, <2>2 DEF CopyOf
<1>4. Winner(V) \in V /\ Winner(V) \in Heads(V)
  BY WinnerWins DEF Family
<1> QED
  BY <1>1, <1>2, <1>3, <1>4

\* What is written when a file is rebuilt belongs to it.
LEMMA ViewsBelong ==
    ASSUME NEW V, NEW v, Family(V, v), V # {}
    PROVE  /\ \A r \in Views(V, v.file, v.path) : BelongsTo(r, v) /\ r.version \in Ids(V)
           /\ \E r \in Views(V, v.file, v.path) : MainOf(r, v)
           /\ \A r \in Views(V, v.file, v.path) : MainOf(r, v) => r.version = Winner(V).id
           /\ \A h \in Heads(V) : \E r \in Views(V, v.file, v.path) : r.version = h.id
<1>1. \A h \in Heads(V) : ~MainOf(CopyView(v, h), v)
  BY ViewsRows, CopyIsLonger DEF MainOf, Family
<1> QED
  BY <1>1, ViewsRows DEF BelongsTo, Ids

\* The main row of the projection shows the winner; all heads are shown.
LEMMA FaceRows ==
    ASSUME NEW V, NEW v, Family(V, v), V # {}
    PROVE  /\ \E r \in Face(V, v.file, v.path) : MainOf(r, v)
           /\ \A r \in Face(V, v.file, v.path) : MainOf(r, v) => r.version = Winner(V).id
           /\ \A h \in Heads(V) : \E r \in Face(V, v.file, v.path) : r.version = h.id
<1>1. CASE \E u \in V : V = {u}
  <2>1. PICK u \in V : V = {u}
    BY <1>1
  <2>2. Face(V, v.file, v.path) = {RowOf(u)}
    BY <2>1 DEF Face, Projection
  <2>3. u.id \in Nat \ {0} /\ u.parent \in Nat /\ u.parent # u.id
    BY <2>1 DEF Family, Graph, Links, Acyclic, Heads
  <2>4. Winner(V) = u
    BY <2>1, <2>3, OneVersion
  <2>5. MainOf(RowOf(u), v) /\ RowOf(u).version = u.id
    BY DEF MainOf, RowOf, Family
  <2>6. Heads(V) \subseteq {u}
    BY <2>1 DEF Heads
  <2> QED
    BY <2>2, <2>4, <2>5, <2>6
<1>2. CASE ~\E u \in V : V = {u}
  <2>1. Face(V, v.file, v.path) = Views(V, v.file, v.path)
    BY <1>2 DEF Face, Projection
  <2> QED
    BY <2>1, ViewsBelong
<1> QED
  BY <1>1, <1>2

\* A file with more than one version shows what a rebuild writes.
LEMMA FaceMany ==
    ASSUME NEW V, NEW v \in V, NEW w \in V, v # w, NEW file, NEW path
    PROVE  Face(V, file, path) = Views(V, file, path)
  BY DEF Face, Projection

\* A version on top of the winner takes over the main row; the copies stay.
LEMMA FaceNext ==
    ASSUME NEW V, NEW x, Family(V, x), V # {}, x \in Version,
           x.parent = Winner(V).id, x.conflictOf = None,
           \A v \in V : v.id # x.id /\ v.parent # x.id
    PROVE  Face(V \union {x}, x.file, x.path) =
             {r \in Face(V, x.file, x.path) : r.file # x.file} \union {RowOf(x)}
<1> DEFINE w == Winner(V)
           C == {CopyView(x, h) : h \in Heads(V) \ {w}}
<1>1. Graph(V) /\ x.id \in Nat \ {0}
  BY Fields DEF Family
<1>2. Winner(V \union {x}) = x /\ Heads(V \union {x}) = (Heads(V) \ {w}) \union {x}
  BY <1>1, ChildOfWinner
<1>3. PICK u \in V : TRUE
  OBVIOUS
<1>4. x \notin V /\ x \notin Heads(V)
  BY DEF Heads
<1>5. RowOf(x) = [file |-> x.file, path |-> x.path, version |-> x.id, conflictOf |-> None]
  BY DEF RowOf
<1>6. Face(V \union {x}, x.file, x.path) = {RowOf(x)} \union C
  <2>1. Face(V \union {x}, x.file, x.path) = Views(V \union {x}, x.file, x.path)
    <3>1. u \in V \union {x} /\ x \in V \union {x} /\ u # x
      BY <1>3, <1>4
    <3> QED
      BY <3>1, FaceMany
  <2>2. Views(V \union {x}, x.file, x.path) =
           {[file |-> x.file, path |-> x.path, version |-> x.id, conflictOf |-> None]}
           \union {CopyView(x, h) : h \in Heads(V \union {x}) \ {x}}
    BY <1>2 DEF Views, CopyView
  <2>3. Heads(V \union {x}) \ {x} = Heads(V) \ {w}
    BY <1>2, <1>4
  <2> HIDE DEF w
  <2> QED
    BY <2>1, <2>2, <2>3, <1>5
<1>7. \A r \in C : r.file # x.file
  <2>1. \A h \in Heads(V) : CopyOf(CopyView(x, h), x)
    BY ViewsRows
  <2>2. Placed(x)
    BY DEF Family
  <2> QED
    BY <2>1, <2>2, CopyIsLonger
<1>8. {r \in Face(V, x.file, x.path) : r.file # x.file} = C
  <2>1. CASE V = {u}
    <3>1. Face(V, x.file, x.path) = {RowOf(u)} /\ RowOf(u).file = x.file
      BY <2>1 DEF Face, Projection, RowOf, Family
    <3>2. Heads(V) \ {w} = {}
      BY <2>1, ViewsRows
    <3> HIDE DEF w
    <3>3. C = {}
      BY <3>2
    <3> HIDE DEF C
    <3> QED
      BY <3>1, <3>3
  <2>2. CASE V # {u}
    <3>1. PICK t \in V : t # u
      BY <2>2
    <3>2. Face(V, x.file, x.path) = {MainView(V, x)} \union C
      <4>1. Face(V, x.file, x.path) = Views(V, x.file, x.path)
        BY <3>1, FaceMany
      <4>2. Views(V, x.file, x.path) =
               {MainView(V, x)} \union {CopyView(x, h) : h \in Heads(V) \ {Winner(V)}}
        BY ViewsRows
      <4> QED
        BY <4>1, <4>2
    <3>3. MainView(V, x).file = x.file
      BY DEF MainView
    <3> HIDE DEF C, w
    <3> QED
      BY <3>2, <3>3, <1>7
  <2> QED
    BY <2>1, <2>2
<1> HIDE DEF C, w
<1> QED
  BY <1>6, <1>8

-----------------------------------------------------------------------------
(* Projection: the inductive invariant *)

\* Users that write to files and not to conflict copies, and one node where a
\* file is created on the path.  Nothing is assumed of handlers and faults.
Undisturbed ==
    /\ ~CopyEdits
    /\ \A m, n \in Creators : m = n
    /\ \A S \in Starts : \A v \in S : v.path = MainPath

\* The versions that were written or are about to be.
Known == Written \union {c.new : c \in commits}

\* The versions of a file that a node shows: all but those being applied.
Settled(n, file) ==
    {u \in ledger[n] : u.file = file /\ \A a \in applies : a.at = n => a.new # u}

Raced(n, file) == <<n, file>> \in raced

\* Handlers that work on one file of one node have overlapped; a node applies a
\* version once.
JobsApart ==
    /\ \A a, b \in applies : a.at = b.at /\ a.new = b.new => a = b
    /\ \A a, b \in applies : a.at = b.at /\ a.new.file = b.new.file /\ a # b =>
          Raced(a.at, a.new.file)
    /\ \A c, d \in commits : c.at = d.at /\ c.new.file = d.new.file /\ c # d =>
          Raced(c.at, c.new.file)
    /\ \A c \in commits, a \in applies : c.at = a.at /\ c.new.file = a.new.file =>
          Raced(c.at, c.new.file)

\* Files have their paths; their ids are those of their first versions; a version
\* on the path continues another one there, or is the first.
PlacesOK ==
    /\ Coherent(Known)
    /\ \A v \in Known : v.file[1] \in Ids(Written) \union {v.id}
    /\ \A v \in Known : v.path = MainPath /\ v.parent # 0 =>
          \E w \in Written : w.id = v.parent /\ w.path = MainPath

RowsPlaced == \A n \in Nodes : Placements(rows[n], ledger[n]) /\ MainsOnce(rows[n])

\* A body is received for a file that is there or may be created.
RequestsPlaced ==
    \A q \in requests : \/ q.path = MainPath /\ q.at \in Creators
                        \/ \E r \in rows[q.at], v \in Known : MainOf(r, v) /\ r.path = q.path

\* Before the first file is written, one write at most is under way, of that
\* file; after, it is on its path at its creator.
Genesis ==
    \/ /\ Written = {}
       /\ \A p, q \in requests : p = q
       /\ \A c, d \in commits : c = d
       /\ requests = {} \/ commits = {}
       /\ \A q \in requests : q.at \in Creators
       /\ \A c \in commits : c.at \in Creators /\ c.new.path = MainPath
    \/ Written # {} /\ \A n \in Creators : \E r \in rows[n] : r.path = MainPath

\* A file that had no accident shows what its settled versions determine, until
\* a rebuild that knows more is about to write.
SlicesOK ==
    \A n \in Nodes, v \in Known :
        /\ <<n, v.file>> \notin raced \union skipped
        /\ \A a \in applies : a.at = n /\ a.new.file = v.file => a.step # "replace"
        => Slice(rows[n], v.file) = Face(Settled(n, v.file), v.file, v.path)

\* A write whose file nobody else works on continues what the file shows.
CommitsBased ==
    \A c \in commits : ~Raced(c.at, c.new.file) =>
        \A r \in rows[c.at] : r.file = c.new.file =>
            c.new.parent = r.version /\ c.new.conflictOf = None

\* What an event is about to write belongs to its file; if nobody else works on
\* the file, the file has still no row, or the rows are those of its versions.
ApplyBased(a) ==
    /\ a.step = "look" => \A r \in rows[a.at] : r.file = a.new.file =>
                            \E w \in ledger[a.at] : w.file = a.new.file /\ w # a.new
    /\ a.step = "upsert" => a.views = {RowOf(a.new)}
    /\ a.step = "upsert" /\ ~Raced(a.at, a.new.file) =>
          \A r \in rows[a.at] : r.file # a.new.file
    /\ a.step \in {"list", "replace"} =>
          /\ a.path = a.new.path
          /\ \E w \in ledger[a.at] : w.file = a.new.file /\ w # a.new
    /\ a.step = "replace" =>
          /\ \A s \in a.views : /\ BelongsTo(s, a.new)
                                /\ s.version \in Ids(Of(ledger[a.at], a.new.file))
          /\ MainsOnce(a.views) /\ \E s \in a.views : MainOf(s, a.new)
    /\ a.step = "replace" /\ ~Raced(a.at, a.new.file) =>
          a.views = Views(Of(ledger[a.at], a.new.file), a.new.file, a.new.path)

AppliesBased == \A a \in applies : ApplyBased(a)

ViewsInv ==
    /\ VersionsInv /\ JobsApart /\ PlacesOK /\ RowsPlaced /\ RequestsPlaced
    /\ Genesis /\ SlicesOK /\ CommitsBased /\ AppliesBased

-----------------------------------------------------------------------------
(* Consequences *)

\* Known versions are versions with ids of their own.
LEMMA KnownVersions ==
    ASSUME ViewsInv
    PROVE  /\ Known \subseteq Version /\ Written \subseteq Known
           /\ \A c \in commits : c.new \in Known /\ c.at \in Nodes /\ c.new \in Version
           /\ \A a \in applies : a.at \in Nodes /\ a.new \in ledger[a.at] /\ a.new \in Version
           /\ \A id \in Fresh : id \in VersionIds /\ id \notin Ids(Known)
           /\ \A q \in requests : q.at \in Nodes
<1>1. Written \subseteq Version
  BY DEF ViewsInv, VersionsInv, LedgersOK, Written
<1>2. \A c \in commits : c.new \in Version /\ c.at \in Nodes
  BY Fields DEF ViewsInv, VersionsInv, CommitsOK
<1>3. \A a \in applies : a.at \in Nodes /\ a.new \in ledger[a.at] /\ a.new \in Version
  BY Fields DEF ViewsInv, VersionsInv, AppliesOK
<1>4. \A q \in requests : q.at \in Nodes
  BY Fields DEF ViewsInv, VersionsInv
<1> QED
  BY <1>1, <1>2, <1>3, <1>4 DEF Known, Fresh, Ids

\* What a node holds, and its rows, as the lemmas about slices want them.
LEMMA NodeRows ==
    ASSUME ViewsInv, NEW n \in Nodes
    PROVE  /\ Coherent(Known) /\ ledger[n] \subseteq Known /\ ledger[n] \subseteq Written
           /\ Placements(rows[n], ledger[n]) /\ MainsOnce(rows[n]) /\ rows[n] \subseteq Row
<1>1. ledger[n] \subseteq Written
  BY LedgerWritten
<1> QED
  BY <1>1 DEF Known, ViewsInv, PlacesOK, RowsPlaced, VersionsInv, RowsOK

\* The versions of a file that a node holds are some of a file on its path.
LEMMA HeldFamily ==
    ASSUME ViewsInv, NEW n \in Nodes, NEW v \in Known, NEW V, V \subseteq Of(ledger[n], v.file)
    PROVE  Family(V, v)
<1>1. V \subseteq ledger[n]
  BY DEF Of
<1>2. Graph(V) /\ V \subseteq Version
  BY <1>1, PartGraph DEF ViewsInv
<1>3. \A u \in V : u.file = v.file /\ u \in Known
  BY <1>1, NodeRows DEF Of
<1>4. Placed(v) /\ \A u \in V : u.path = v.path
  BY <1>3 DEF ViewsInv, PlacesOK, Coherent
<1> QED
  BY <1>2, <1>3, <1>4 DEF Family

\* The path of a version is one of a file.
LEMMA KnownPath ==
    ASSUME ViewsInv, NEW v \in Known
    PROVE  /\ v.path = MainPath \/ \E y : v.path = <<0, y>>
           /\ Len(v.file) = 1 /\ Placed(v)
  BY CopyIsLonger DEF ViewsInv, PlacesOK, Coherent, Placed

\* A row on the path of a file, or with an id that is no copy's, is the main row
\* of a file whose version it shows and which the node holds.
LEMMA MainRow ==
    ASSUME ViewsInv, NEW n \in Nodes, NEW r \in rows[n],
           Len(r.file) = 1 \/ r.path = MainPath \/ \E y : r.path = <<0, y>>
    PROVE  \E v \in ledger[n] : MainOf(r, v) /\ r.version = v.id
<1>1. PICK u \in ledger[n] : BelongsTo(r, u) /\ r.version \in Ids(Of(ledger[n], u.file))
  BY NodeRows DEF Placements
<1>2. u \in Known /\ Placed(u)
  BY NodeRows, KnownPath
<1>3. MainOf(r, u)
  BY <1>1, <1>2, MainOnly
<1>4. PICK v \in ledger[n] : v.file = u.file /\ v.id = r.version
  BY <1>1 DEF Ids, Of
<1>5. v.path = u.path
  BY <1>2, <1>4, NodeRows DEF Coherent
<1> QED
  BY <1>3, <1>4, <1>5 DEF MainOf

\* At the start.
LEMMA ViewsInit ==
    ASSUME Init, Undisturbed
    PROVE  ViewsInv
<1>1. VersionsInv
  BY VersionsInit
<1>2. PICK S \in Starts : /\ ledger = [n \in Nodes |-> S]
                          /\ rows = [n \in Nodes |-> {RowOf(v) : v \in S}]
  BY DEF Init
<1>3. requests = {} /\ commits = {} /\ applies = {}
  BY DEF Init
<1>4. Written \subseteq S /\ Known = Written /\ (S = {} => Written = {})
      /\ \A n \in Nodes : n \in Nodes => S \subseteq Written
  BY <1>2, <1>3 DEF Written, Known
<1>5. \A v, w \in S : v = w
  BY StartsAssumption DEF Undisturbed
<1>6. \A v \in S : v.file = <<v.id>> /\ v.id \in VersionIds /\ v.path = MainPath /\ v.parent = 0
  BY StartsAssumption, Fields DEF Undisturbed
<1>7. Coherent(Written)
  BY <1>4, <1>5, <1>6 DEF Coherent, Placed
<1>8. PlacesOK
  <2>1. \A v \in Written : v.file[1] = v.id
    BY <1>4, <1>6
  <2> QED
    BY <1>4, <1>6, <1>7, <2>1 DEF PlacesOK
<1>9. RowsPlaced
  <2>1. ASSUME NEW v \in S
        PROVE  BelongsTo(RowOf(v), v) /\ RowOf(v).version \in Ids(Of(S, v.file))
    BY DEF BelongsTo, MainOf, RowOf, Ids, Of
  <2>2. \A n \in Nodes : ledger[n] = S /\ rows[n] = {RowOf(v) : v \in S}
    BY <1>2
  <2>3. Placements({RowOf(v) : v \in S}, S)
    BY <2>1 DEF Placements
  <2>4. MainsOnce({RowOf(v) : v \in S})
    BY <1>5 DEF MainsOnce
  <2> QED
    BY <2>2, <2>3, <2>4 DEF RowsPlaced
<1>10. Genesis
  <2>1. CASE Written = {}
    BY <1>3, <2>1 DEF Genesis
  <2>2. CASE Written # {}
    <3>1. PICK v \in S : v.path = MainPath
      BY <1>4, <1>6, <2>2
    <3>2. RowOf(v).path = MainPath
      BY <3>1 DEF RowOf
    <3> QED
      BY <1>2, <2>2, <3>1, <3>2, CreatorsAssumption DEF Genesis
  <2> QED
    BY <2>1, <2>2
<1>11. SlicesOK
  <2> SUFFICES ASSUME NEW n \in Nodes, NEW v \in Written
               PROVE  Slice(rows[n], v.file) = Face(Settled(n, v.file), v.file, v.path)
    BY <1>4 DEF SlicesOK
  <2>1. S = {v} /\ v \in Version
    BY <1>4, <1>5, StartsAssumption
  <2>2. Settled(n, v.file) = {v}
    BY <1>2, <1>3, <2>1 DEF Settled
  <2>3. Face({v}, v.file, v.path) = {RowOf(v)}
    BY DEF Face, Projection
  <2>4. rows[n] = {RowOf(v)}
    BY <1>2, <2>1
  <2>5. Slice({RowOf(v)}, v.file) = {RowOf(v)}
    <3>1. Placed(v) /\ BelongsTo(RowOf(v), v)
      BY <1>7 DEF Coherent, BelongsTo, MainOf, RowOf
    <3> QED
      BY <3>1, InSlice DEF Slice
  <2> QED
    BY <2>2, <2>3, <2>4, <2>5
<1> QED
  BY <1>1, <1>3, <1>8, <1>9, <1>10, <1>11
  DEF ViewsInv, JobsApart, RequestsPlaced, CommitsBased, AppliesBased

-----------------------------------------------------------------------------
(* Every step keeps the invariant *)

\* A request comes or goes.
LEMMA ViewsRequest ==
    ASSUME ViewsInv, VersionsInv', UNCHANGED <<ledger, rows, commits, applies, accidents>>,
           RequestsPlaced', Genesis'
    PROVE  ViewsInv'
<1>1. Written' = Written /\ Known' = Known /\ raced' = raced /\ skipped' = skipped
  BY DEF Written, Known, accidents
<1>2. \A n, file : Raced(n, file)' = Raced(n, file)
  BY <1>1 DEF Raced
<1>3. \A n, file : Settled(n, file)' = Settled(n, file)
  BY DEF Settled
<1>4. PlacesOK' /\ RowsPlaced' /\ SlicesOK'
  BY <1>1, <1>3 DEF ViewsInv, PlacesOK, RowsPlaced, SlicesOK
<1>5. JobsApart' /\ CommitsBased'
  BY <1>2 DEF ViewsInv, JobsApart, CommitsBased
<1>6. AppliesBased'
  BY <1>2 DEF ViewsInv, AppliesBased, ApplyBased
<1> QED
  BY <1>4, <1>5, <1>6 DEF ViewsInv

\* Without a written version nothing is shown or applied.
LEMMA NothingYet ==
    ASSUME ViewsInv, Written = {}
    PROVE  applies = {} /\ \A n \in Nodes : rows[n] = {}
<1>1. \A n \in Nodes : ledger[n] = {}
  BY DEF Written
<1> QED
  BY <1>1, KnownVersions DEF ViewsInv, RowsPlaced, Placements

\* PutExisting.
LEMMA ViewsPutExisting ==
    ASSUME ViewsInv, Undisturbed, VersionsInv', NEW n \in Nodes, PutExisting(n)
    PROVE  ViewsInv'
<1>1. PICK r \in rows[n] : Writable(r) /\ BeginPut(n, r.path, r.version)
  BY DEF PutExisting
<1>2. Len(r.file) = 1
  BY <1>1 DEF Writable, Undisturbed
<1>3. PICK v \in ledger[n] : MainOf(r, v)
  BY <1>2, MainRow
<1> DEFINE q == [at |-> n, path |-> r.path, saw |-> r.version]
<1>4. requests' = requests \union {q} /\ UNCHANGED <<ledger, rows, commits, applies, accidents>>
  BY <1>1 DEF BeginPut
<1>5. q.at = n /\ q.path = r.path
  OBVIOUS
<1> HIDE DEF q
<1>6. v \in Known /\ Written # {}
  BY <1>3, NodeRows
<1>7. Known' = Known /\ Written' = Written
  BY <1>4 DEF Known, Written
<1>8. RequestsPlaced'
  BY <1>3, <1>4, <1>5, <1>6, <1>7 DEF ViewsInv, RequestsPlaced
<1>9. Genesis'
  BY <1>4, <1>6, <1>7 DEF ViewsInv, Genesis
<1> QED
  BY <1>4, <1>8, <1>9, ViewsRequest

\* PutNew.
LEMMA ViewsPutNew ==
    ASSUME ViewsInv, Undisturbed, VersionsInv', NEW n \in Nodes, PutNew(n)
    PROVE  ViewsInv'
<1> DEFINE q == [at |-> n, path |-> MainPath, saw |-> 0]
<1>1. /\ requests' = requests \union {q} /\ UNCHANGED <<ledger, rows, commits, applies, accidents>>
      /\ GetFile(n, MainPath) = {} /\ n \in Creators
      /\ \A j \in requests \union commits : j.at # n
  BY DEF PutNew, BeginPut, MayCreate
<1>2. q.at = n /\ q.path = MainPath
  OBVIOUS
<1> HIDE DEF q
<1>3. Known' = Known /\ Written' = Written
  BY <1>1 DEF Known, Written
<1>4. RequestsPlaced'
  BY <1>1, <1>2, <1>3 DEF ViewsInv, RequestsPlaced
<1>5. ~\E r \in rows[n] : r.path = MainPath
  BY <1>1 DEF GetFile
<1>6. Written = {} /\ requests = {} /\ commits = {}
  <2>1. /\ Written = {}
        /\ \A p \in requests : p.at \in Creators
        /\ \A c \in commits : c.at \in Creators
    BY <1>1, <1>5 DEF ViewsInv, Genesis
  <2> QED
    BY <1>1, <2>1 DEF Undisturbed
<1>7. Genesis'
  BY <1>1, <1>2, <1>3, <1>6 DEF Genesis
<1> QED
  BY <1>1, <1>4, <1>7, ViewsRequest

\* Abort.
LEMMA ViewsAbort ==
    ASSUME ViewsInv, Undisturbed, VersionsInv', NEW q \in requests, Abort(q)
    PROVE  ViewsInv'
<1>1. requests' \subseteq requests /\ UNCHANGED <<ledger, rows, commits, applies, accidents>>
  BY DEF Abort
<1>2. Known' = Known /\ Written' = Written
  BY <1>1 DEF Known, Written
<1>3. RequestsPlaced' /\ Genesis'
  BY <1>1, <1>2 DEF ViewsInv, RequestsPlaced, Genesis
<1> QED
  BY <1>1, <1>3, ViewsRequest

\* Handlers of other kinds are other records.
LEMMA KindsApart ==
    ASSUME ViewsInv, NEW c \in commits, NEW a \in applies
    PROVE  c # a
<1>1. c \in Commit /\ a \in Applying
  BY DEF ViewsInv, VersionsInv, CommitsOK, AppliesOK
<1>2. DOMAIN c = {"at", "dav", "new", "saw"}
  BY <1>1 DEF Commit
<1>3. DOMAIN a = {"at", "new", "step", "file", "path", "views"}
  BY <1>1 DEF Applying
<1> QED
  BY <1>2, <1>3

\* A write begins.
LEMMA ViewsBegin ==
    ASSUME ViewsInv, Undisturbed, VersionsInv', NEW n \in Nodes, NEW dav, NEW v \in Version, NEW saw,
           BeginCommit(n, dav, v, saw), requests' \subseteq requests,
           Coherent(Known \union {v}), v.file[1] \in Ids(Written) \union {v.id},
           v.path = MainPath /\ v.parent # 0 => \E w \in Written : w.id = v.parent /\ w.path = MainPath,
           \A r \in rows[n] : r.file = v.file => v.parent = r.version /\ v.conflictOf = None,
           Written = {} => /\ n \in Creators /\ v.path = MainPath
                           /\ commits = {} /\ requests' = {}
    PROVE  ViewsInv'
<1> DEFINE c == [at |-> n, dav |-> dav, new |-> v, saw |-> saw]
<1>1. commits' = commits \union {c} /\ UNCHANGED <<ledger, rows, applies>> /\ Overlap(n, v.file)
  BY DEF BeginCommit
<1>2. c.at = n /\ c.new = v
  OBVIOUS
<1> HIDE DEF c
<1>3. raced \subseteq raced' /\ skipped' = skipped
      /\ (JobsOn(n, v.file) # {} => <<n, v.file>> \in raced')
  BY <1>1 DEF Overlap
<1>4. Written' = Written /\ Known' = Known \union {v} /\ \A m, file : Settled(m, file)' = Settled(m, file)
  BY <1>1, <1>2 DEF Written, Known, Settled
<1>5. \A m, file : Raced(m, file) => Raced(m, file)'
  BY <1>3 DEF Raced
<1>6. JobsApart'
  <2>1. \A j \in commits \union applies : j.at = n /\ j.new.file = v.file => Raced(n, v.file)'
    BY <1>3 DEF JobsOn, Raced
  <2> QED
    BY <1>1, <1>2, <1>5, <2>1 DEF ViewsInv, JobsApart
<1>7. PlacesOK'
  BY <1>4 DEF ViewsInv, PlacesOK
<1>8. RowsPlaced'
  BY <1>1 DEF ViewsInv, RowsPlaced
<1>9. RequestsPlaced'
  BY <1>1, <1>4 DEF ViewsInv, RequestsPlaced
<1>10. Genesis'
  BY <1>1, <1>2, <1>4 DEF ViewsInv, Genesis
<1>11. SlicesOK'
  <2> SUFFICES ASSUME NEW m \in Nodes, NEW u \in Known \union {v},
                      <<m, u.file>> \notin raced' \union skipped',
                      \A a \in applies : a.at = m /\ a.new.file = u.file => a.step # "replace"
               PROVE  Slice(rows[m], u.file) = Face(Settled(m, u.file), u.file, u.path)
    BY <1>1, <1>4 DEF SlicesOK
  <2>1. \A w \in Known : w.file = u.file =>
           Slice(rows[m], w.file) = Face(Settled(m, w.file), w.file, w.path)
    BY <1>3 DEF ViewsInv, SlicesOK
  <2>2. CASE \E w \in Known : w.file = u.file
    BY <2>1, <2>2 DEF Coherent
  <2>3. CASE ~\E w \in Known : w.file = u.file
    <3>1. ledger[m] \subseteq Known /\ Placements(rows[m], ledger[m])
      BY NodeRows
    <3>2. Of(ledger[m], u.file) = {} /\ Settled(m, u.file) = {}
      BY <2>3, <3>1 DEF Of, Settled
    <3>3. \A r \in Slice(rows[m], u.file) : r.version \in Ids(Of(ledger[m], u.file))
      <4> DEFINE K == Known \union {v}
                 L == ledger[m]
                 R == rows[m]
      <4>1. Coherent(K) /\ L \subseteq K /\ u \in K /\ Placements(R, L)
        BY <3>1
      <4> HIDE DEF K, L, R
      <4>2. \A r \in Slice(R, u.file) : r.version \in Ids(Of(L, u.file))
        BY ONLY <4>1, SliceBelongs
      <4> QED
        BY <4>2 DEF L, R
    <3> QED
      BY <3>2, <3>3 DEF Ids, Face
  <2> QED
    BY <2>2, <2>3
<1>12. CommitsBased'
  BY <1>1, <1>2, <1>5 DEF ViewsInv, CommitsBased
<1>13. AppliesBased'
  BY <1>1, <1>5 DEF ViewsInv, AppliesBased, ApplyBased
<1> QED
  BY <1>6, <1>7, <1>8, <1>9, <1>10, <1>11, <1>12, <1>13 DEF ViewsInv

\* A write of a new file, on the path or beside it, begins.
LEMMA ViewsBeginFirst ==
    ASSUME ViewsInv, Undisturbed, VersionsInv', NEW n \in Nodes, NEW dav, NEW v \in Version, NEW saw,
           BeginCommit(n, dav, v, saw), requests' \subseteq requests,
           v.id \in Fresh, v.file = <<v.id>>,
           \/ v.path = <<0, v.id>> /\ Written # {}
           \/ /\ v.path = MainPath /\ v.parent = 0 /\ n \in Creators
              /\ Written = {} /\ commits = {} /\ requests' = {}
    PROVE  ViewsInv'
<1>1. v.id \in VersionIds /\ v.id \notin Ids(Known) /\ v.id \in Nat \ {0}
  BY KnownVersions, Fields
<1>2. v.file[1] = v.id /\ <<0, v.id>> # MainPath /\ Placed(v)
  BY <1>1 DEF MainPath, Placed
<1>3. \A w \in Known : w.file # v.file
  <2>1. Ids(Written) \subseteq Ids(Known)
    BY KnownVersions DEF Ids
  <2>2. \A w \in Known : w.file[1] \in Ids(Known)
    BY <2>1 DEF ViewsInv, PlacesOK, Ids
  <2> QED
    BY <1>1, <1>2, <2>2
<1>4. ASSUME NEW w \in Known PROVE w.path # v.path
  <2>1. CASE Written = {} /\ commits = {}
    BY <2>1 DEF Known
  <2>2. CASE v.path = <<0, v.id>>
    <3>1. PICK x \in VersionIds : w.file = <<x>> /\ (w.path = MainPath \/ w.path = <<0, x>>)
      BY KnownPath DEF Placed
    <3>2. x # v.id
      BY <1>3, <3>1
    <3>3. <<0, x>> # <<0, v.id>>
      <4>1. <<0, x>>[2] = x /\ <<0, v.id>>[2] = v.id
        OBVIOUS
      <4> QED
        BY <3>2, <4>1
    <3> QED
      BY <1>2, <2>2, <3>1, <3>3
  <2> QED
    BY <2>1, <2>2
<1>5. Coherent(Known \union {v})
  BY <1>2, <1>3, <1>4 DEF ViewsInv, PlacesOK, Coherent
<1>6. \A r \in rows[n] : r.file # v.file
  <2> SUFFICES ASSUME NEW r \in rows[n], r.file = v.file PROVE FALSE
    OBVIOUS
  <2>1. Len(r.file) = 1
    BY <1>2, CopyIsLonger
  <2>2. PICK u \in ledger[n] : MainOf(r, u)
    BY <2>1, MainRow
  <2> QED
    BY <1>3, <2>2, NodeRows DEF MainOf
<1>7. v.path = MainPath => v.parent = 0 /\ n \in Creators
  BY <1>2
<1>8. Written = {} => n \in Creators /\ v.path = MainPath /\ commits = {} /\ requests' = {}
  OBVIOUS
<1> QED
  BY <1>2, <1>5, <1>6, <1>7, <1>8, ViewsBegin

\* A write of a file that has a row begins.
LEMMA ViewsBeginNext ==
    ASSUME ViewsInv, Undisturbed, VersionsInv', NEW n \in Nodes, NEW dav, NEW v \in Version, NEW saw,
           BeginCommit(n, dav, v, saw), requests' \subseteq requests,
           NEW r \in rows[n], Len(r.file) = 1 \/ r.path = MainPath \/ \E y : r.path = <<0, y>>,
           v.file = r.file, v.path = r.path, v.parent = r.version, v.conflictOf = None
    PROVE  ViewsInv'
<1>1. PICK u \in ledger[n] : MainOf(r, u) /\ r.version = u.id
  BY MainRow
<1>2. u \in Known /\ u \in Written
  BY NodeRows
<1>3. u.file = v.file /\ u.path = v.path /\ u.id = v.parent
  BY <1>1 DEF MainOf
<1>4. Coherent(Known \union {v})
  <2>1. Coherent(Known)
    BY DEF ViewsInv, PlacesOK
  <2>2. Placed(v)
    BY <1>2, <1>3, <2>1 DEF Coherent, Placed
  <2> QED
    BY <1>2, <1>3, <2>1, <2>2 DEF Coherent
<1>5. v.file[1] \in Ids(Written)
  <2>1. u.file[1] \in Ids(Written) \union {u.id}
    BY <1>2 DEF ViewsInv, PlacesOK
  <2> QED
    BY <1>2, <1>3, <2>1 DEF Ids
<1>6. ASSUME NEW s \in rows[n], s.file = v.file PROVE s.version = r.version
  <2>1. Len(u.file) = 1
    BY <1>2, KnownPath
  <2> QED
    BY <1>3, <1>6, <2>1, NodeRows DEF MainsOnce
<1> QED
  BY <1>2, <1>3, <1>4, <1>5, <1>6, ViewsBegin

\* Close.
LEMMA ViewsClose ==
    ASSUME ViewsInv, Undisturbed, VersionsInv', NEW q \in requests, Close(q)
    PROVE  ViewsInv'
<1>1. q.at \in Nodes /\ q.path \in Path
  BY Fields DEF ViewsInv, VersionsInv, Path
<1>2. requests' = requests \ {q}
  BY DEF Close
<1>3. PICK id \in Fresh :
         \/ /\ GetFile(q.at, q.path) = {}
            /\ BeginCommit(q.at, TRUE, NewVersion(q.at, id, <<id>>, 0, q.path), q.saw)
         \/ \E r \in GetFile(q.at, q.path) :
               BeginCommit(q.at, TRUE, NewVersion(q.at, id, r.file, r.version, q.path), q.saw)
  BY DEF Close
<1>4. id \in VersionIds
  BY DEF Fresh
<1>5. q.path = MainPath \/ \E y : q.path = <<0, y>>
  <2>1. q.path = MainPath \/ \E r \in rows[q.at], v \in Known : MainOf(r, v) /\ r.path = q.path
    BY DEF ViewsInv, RequestsPlaced
  <2> QED
    BY <2>1, KnownPath DEF MainOf
<1>6. ASSUME GetFile(q.at, q.path) = {},
             BeginCommit(q.at, TRUE, NewVersion(q.at, id, <<id>>, 0, q.path), q.saw)
      PROVE  ViewsInv'
  <2> DEFINE v == NewVersion(q.at, id, <<id>>, 0, q.path)
  <2>1. v \in Version /\ v.id = id /\ v.parent = 0 /\ v.file = <<id>> /\ v.path = q.path
    BY <1>1, <1>4, NewFileTyped DEF NewVersion
  <2>2. q.path = MainPath /\ q.at \in Creators
    BY <1>6 DEF GetFile, ViewsInv, RequestsPlaced
  <2>3. ~\E r \in rows[q.at] : r.path = MainPath
    BY <1>6, <2>2 DEF GetFile
  <2>4. Written = {} /\ commits = {} /\ requests' = {}
    BY <1>2, <2>2, <2>3 DEF ViewsInv, Genesis
  <2>5. BeginCommit(q.at, TRUE, v, q.saw)
    BY <1>6
  <2>6. requests' \subseteq requests
    BY <1>2
  <2> HIDE DEF v
  <2> QED
    BY <1>1, <2>1, <2>2, <2>4, <2>5, <2>6, ViewsBeginFirst
<1>7. ASSUME NEW r \in GetFile(q.at, q.path),
             BeginCommit(q.at, TRUE, NewVersion(q.at, id, r.file, r.version, q.path), q.saw)
      PROVE  ViewsInv'
  <2> DEFINE v == NewVersion(q.at, id, r.file, r.version, q.path)
  <2>1. r \in rows[q.at] /\ r.path = q.path /\ r \in Row
    BY <1>1 DEF GetFile, ViewsInv, VersionsInv, RowsOK
  <2>2. r.file \in FileId /\ r.version \in VersionIds \union {0}
    BY <2>1, Fields DEF FileId
  <2>3. v \in Version
    BY <1>1, <1>4, <2>2, NewVersionTyped
  <2>4. v.file = r.file /\ v.path = r.path /\ v.parent = r.version /\ v.conflictOf = None
    BY <2>1 DEF NewVersion
  <2>5. BeginCommit(q.at, TRUE, v, q.saw)
    BY <1>7
  <2>6. requests' \subseteq requests
    BY <1>2
  <2> HIDE DEF v
  <2> QED
    BY <1>1, <1>5, <2>1, <2>3, <2>4, <2>5, <2>6, ViewsBeginNext
<1> QED
  BY <1>3, <1>6, <1>7

\* RestoreVersion.
LEMMA ViewsRestore ==
    ASSUME ViewsInv, Undisturbed, VersionsInv', NEW n \in Nodes, RestoreVersion(n)
    PROVE  ViewsInv'
<1>1. PICK r \in rows[n], id \in Fresh :
         /\ Writable(r)
         /\ BeginCommit(n, FALSE, NewVersion(n, id, r.file, r.version, r.path), r.version)
         /\ UNCHANGED requests
  BY DEF RestoreVersion
<1>2. r \in Row /\ id \in VersionIds /\ Len(r.file) = 1
  BY <1>1 DEF ViewsInv, VersionsInv, RowsOK, Fresh, Writable, Undisturbed
<1>3. r.file \in FileId /\ r.path \in Path /\ r.version \in VersionIds \union {0}
  BY <1>2, Fields DEF FileId, Path
<1> DEFINE v == NewVersion(n, id, r.file, r.version, r.path)
<1>4. v \in Version
  <2>1. \A file \in FileId, path \in Path, parent \in VersionIds \union {0} :
           NewVersion(n, id, file, parent, path) \in Version
    BY <1>2, NewVersionTyped
  <2> QED
    BY <1>3, <2>1
<1>5. v.file = r.file /\ v.path = r.path /\ v.parent = r.version /\ v.conflictOf = None
  BY DEF NewVersion
<1>6. BeginCommit(n, FALSE, v, r.version) /\ requests' \subseteq requests
  BY <1>1
<1> HIDE DEF v
<1> QED
  BY <1>2, <1>4, <1>5, <1>6, ViewsBeginNext

\* Upload: on the path if that is free, or else beside it.
LEMMA ViewsUpload ==
    ASSUME ViewsInv, Undisturbed, VersionsInv', NEW n \in Nodes, Upload(n)
    PROVE  ViewsInv'
<1>1. PICK id \in Fresh :
         LET v == PrepareFilePut(n, NewVersion(n, id, <<id>>, 0, MainPath))
         IN  BeginCommit(n, FALSE, v, v.parent) /\ UNCHANGED requests
  BY DEF Upload
<1> DEFINE u == NewVersion(n, id, <<id>>, 0, MainPath)
           v == PrepareFilePut(n, u)
<1>2. id \in VersionIds /\ MainPath \in Path /\ id \notin Ids(Known) /\ MayCreate(n)
  BY KnownVersions DEF MainPath, Path, Upload
<1>3. u \in Version /\ u.id = id /\ u.parent = 0 /\ u.path = MainPath /\ u.file = <<id>>
  BY <1>2, NewFileTyped DEF NewVersion
<1>4. BeginCommit(n, FALSE, v, v.parent) /\ requests' = requests
  BY <1>1
<1> HIDE DEF u
<1>5. rows[n] \subseteq Row
  BY DEF ViewsInv, VersionsInv, RowsOK
<1>6. v \in Version /\ v.id = id /\ v.file = <<id>>
  BY <1>3, <1>5, PrepareTyped
<1>7. CASE GetFile(n, MainPath) = {}
  <2>1. v = u
    BY <1>3, <1>7 DEF PrepareFilePut
  <2>2. n \in Creators /\ \A j \in requests \union commits : j.at # n
    BY <1>2, <1>7 DEF MayCreate
  <2>3. ~\E r \in rows[n] : r.path = MainPath
    BY <1>7 DEF GetFile
  <2>4. Written = {} /\ requests = {} /\ commits = {}
    <3>1. /\ Written = {}
          /\ \A p \in requests : p.at \in Creators
          /\ \A c \in commits : c.at \in Creators
      BY <2>2, <2>3 DEF ViewsInv, Genesis
    <3> QED
      BY <2>2, <3>1 DEF Undisturbed
  <2> HIDE DEF v
  <2> QED
    BY <1>1, <1>3, <1>4, <1>6, <2>1, <2>2, <2>4, ViewsBeginFirst
<1>8. CASE GetFile(n, MainPath) # {}
  <2>1. PICK r \in GetFile(n, MainPath) : TRUE
    BY <1>8
  <2>2. r \in rows[n] /\ r.path = MainPath
    BY <2>1 DEF GetFile
  <2>3. PICK w \in ledger[n] : MainOf(r, w) /\ r.version = w.id
    BY <2>2, MainRow
  <2>4. w \in Known /\ w \in Written
    BY NodeRows
  <2>5. w.id \in Ids(Known) /\ w.file[1] \in Ids(Known)
    <3>1. Ids(Written) \subseteq Ids(Known) /\ w.id \in Ids(Known)
      BY <2>4, KnownVersions DEF Ids
    <3>2. w.file[1] \in Ids(Written) \union {w.id}
      BY <2>4 DEF ViewsInv, PlacesOK
    <3> QED
      BY <3>1, <3>2
  <2>6. r.file # u.file /\ r.version # u.id
    <3>1. u.file[1] = id
      BY <1>3
    <3> QED
      BY <1>2, <1>3, <2>3, <2>5, <3>1 DEF MainOf
  <2>7. v.path = NextConflictPath(u.path, u.id)
    <3>1. \E s \in GetFile(n, u.path) : s.file # u.file /\ s.version # u.id
      BY <1>3, <2>1, <2>6
    <3>2. u \in Version
      BY <1>3
    <3> QED
      BY <3>1, <3>2 DEF PrepareFilePut, Version
  <2>8. v.path = <<0, v.id>>
    <3>1. <<0, id>> \in Seq(VersionIds \union {0})
      BY <1>2
    <3>2. <<>> \o <<0, id>> = <<0, id>>
      BY <3>1, ConcatEmptySeq
    <3> QED
      BY <1>3, <1>6, <2>7, <3>2 DEF NextConflictPath, MainPath
  <2>9. Written # {} /\ v.id \in Fresh /\ v.file = <<v.id>> /\ requests' \subseteq requests
    BY <1>1, <1>4, <1>6, <2>4
  <2> HIDE DEF v
  <2> QED
    BY <1>4, <1>6, <2>8, <2>9, ViewsBeginFirst
<1> QED
  BY <1>7, <1>8

\* Receive: the rows stay what the versions that are not being applied determine.
LEMMA ViewsReceive ==
    ASSUME ViewsInv, VersionsInv', NEW n \in Nodes, NEW v \in Written, Receive(n, v)
    PROVE  ViewsInv'
<1> DEFINE a == [at |-> n, new |-> v, step |-> "look",
                 file |-> None, path |-> MainPath, views |-> {}]
<1>1. /\ ledger' = [ledger EXCEPT ![n] = @ \union {v}] /\ applies' = applies \union {a}
      /\ UNCHANGED <<rows, requests, commits>> /\ Overlap(n, v.file) /\ v \notin ledger[n]
  BY DEF Receive
<1>2. a.at = n /\ a.new = v /\ a.step = "look"
  OBVIOUS
<1> HIDE DEF a
<1>3. raced \subseteq raced' /\ skipped' = skipped
      /\ (JobsOn(n, v.file) # {} => <<n, v.file>> \in raced')
  BY <1>1 DEF Overlap
<1>4. \A m, file : Raced(m, file) => Raced(m, file)'
  BY <1>3 DEF Raced
<1>5. \A j \in commits \union applies : j.at = n /\ j.new.file = v.file => Raced(n, v.file)'
  BY <1>3 DEF JobsOn, Raced
<1>6. ledger'[n] = ledger[n] \union {v} /\ \A m \in Nodes : m # n => ledger'[m] = ledger[m]
  BY <1>1 DEF ViewsInv, VersionsInv, LedgersOK
<1>7. Written' = Written /\ Known' = Known /\ v \in Known
  <2>1. Written' = Written \union {v}
    BY <1>6 DEF Written
  <2> QED
    BY <1>1, <2>1 DEF Known
<1>8. \A b \in applies : b.at \in Nodes /\ b.new \in ledger[b.at]
  BY KnownVersions
<1>9. JobsApart'
  BY <1>1, <1>2, <1>4, <1>5, <1>8 DEF ViewsInv, JobsApart
<1>10. PlacesOK'
  BY <1>7 DEF ViewsInv, PlacesOK
<1>11. \A m \in Nodes : ledger[m] \subseteq ledger'[m]
  BY <1>6
<1>12. RowsPlaced'
  <2>1. ASSUME NEW m \in Nodes PROVE Placements(rows[m], ledger'[m])
    BY <1>11 DEF ViewsInv, RowsPlaced, Placements, Ids, Of
  <2> QED
    BY <1>1, <2>1 DEF ViewsInv, RowsPlaced
<1>13. RequestsPlaced' /\ Genesis'
  BY <1>1, <1>7 DEF ViewsInv, RequestsPlaced, Genesis
<1>14. SlicesOK'
  <2>1. ASSUME NEW m \in Nodes, NEW file PROVE Settled(m, file)' = Settled(m, file)
    BY <1>1, <1>2, <1>6 DEF Settled
  <2> QED
    BY <1>1, <1>3, <1>7, <2>1 DEF ViewsInv, SlicesOK
<1>15. CommitsBased'
  BY <1>1, <1>4 DEF ViewsInv, CommitsBased
<1>16. AppliesBased'
  <2>1. ASSUME NEW r \in rows[n], r.file = v.file
        PROVE  \E w \in ledger[n] : w.file = v.file /\ w # v
    <3>1. Len(r.file) = 1
      BY <1>7, <2>1, KnownPath
    <3> QED
      BY <1>1, <2>1, <3>1, MainRow DEF MainOf
  <2>2. ApplyBased(a)'
    BY <1>1, <1>2, <1>11, <2>1 DEF ApplyBased
  <2>3. ASSUME NEW b \in applies PROVE ApplyBased(b)'
    <3>1. ApplyBased(b) /\ b.at \in Nodes
      BY <1>8 DEF ViewsInv, AppliesBased
    <3>2. ledger[b.at] \subseteq ledger'[b.at]
      BY <1>11, <3>1
    <3>3. ~Raced(b.at, b.new.file)' => Of(ledger'[b.at], b.new.file) = Of(ledger[b.at], b.new.file)
      BY <1>5, <1>6, <3>1 DEF Of
    <3>4. Ids(Of(ledger[b.at], b.new.file)) \subseteq Ids(Of(ledger'[b.at], b.new.file))
      BY <3>2 DEF Ids, Of
    <3> QED
      BY <1>1, <1>4, <3>1, <3>2, <3>3, <3>4 DEF ApplyBased
  <2> QED
    BY <1>1, <2>2, <2>3 DEF AppliesBased
<1> QED
  BY <1>9, <1>10, <1>12, <1>13, <1>14, <1>15, <1>16 DEF ViewsInv

\* An event goes to its next step; what happened to the file may be mended.
LEMMA ViewsAdvance ==
    ASSUME ViewsInv, VersionsInv', NEW a \in applies, NEW b, Advance(a, b),
           b.at = a.at, b.new = a.new, a.step # "replace", ApplyBased(b)',
           UNCHANGED <<ledger, rows, requests, commits>>,
           NEW M, M \subseteq {<<a.at, a.new.file>>}, raced' = raced \ M, skipped' = skipped \ M,
           M # {} => /\ b.step = "replace"
                     /\ \A j \in commits \union applies :
                           j.at = a.at /\ j.new.file = a.new.file => j = a
    PROVE  ViewsInv'
<1>1. applies' = (applies \ {a}) \union {b}
  BY DEF Advance
<1>2. Written' = Written /\ Known' = Known
  BY DEF Written, Known
<1>3. ASSUME NEW n, NEW file PROVE Settled(n, file)' = Settled(n, file)
  BY <1>1 DEF Settled
<1>4. ASSUME NEW j \in commits \union applies, <<j.at, j.new.file>> \in M PROVE j = a
  BY <1>4
<1>5. \A c \in commits : c # a
  BY KindsApart
<1>6. \A j \in commits \union applies : j # a =>
         (Raced(j.at, j.new.file)' <=> Raced(j.at, j.new.file))
  BY <1>4 DEF Raced
<1>7. JobsApart'
  <2>1. \A c, d \in commits : c.at = d.at /\ c.new.file = d.new.file /\ c # d =>
           Raced(c.at, c.new.file)'
    BY <1>5, <1>6 DEF ViewsInv, JobsApart
  <2>2. \A c \in commits, d \in applies' : c.at = d.at /\ c.new.file = d.new.file =>
           Raced(c.at, c.new.file)'
    BY <1>1, <1>5, <1>6 DEF ViewsInv, JobsApart
  <2>3. \A d \in applies \ {a} : d.at = a.at => d.new # a.new
    BY DEF ViewsInv, JobsApart
  <2>4. \A d \in applies \ {a} : d.at = a.at /\ d.new.file = a.new.file =>
           Raced(d.at, d.new.file)'
    BY <1>6 DEF ViewsInv, JobsApart
  <2>5. \A d, e \in applies \ {a} : d.at = e.at /\ d.new.file = e.new.file /\ d # e =>
           Raced(d.at, d.new.file)'
    BY <1>6 DEF ViewsInv, JobsApart
  <2>6. \A d, e \in applies \ {a} : d.at = e.at /\ d.new = e.new => d = e
    BY DEF ViewsInv, JobsApart
  <2> QED
    BY <1>1, <2>1, <2>2, <2>3, <2>4, <2>5, <2>6 DEF JobsApart
<1>8. PlacesOK' /\ RowsPlaced' /\ RequestsPlaced' /\ Genesis'
  BY <1>2 DEF ViewsInv, PlacesOK, RowsPlaced, RequestsPlaced, Genesis
<1>9. SlicesOK'
  <2> SUFFICES ASSUME NEW n \in Nodes, NEW v \in Known,
                      <<n, v.file>> \notin raced' \union skipped',
                      \A d \in applies' : d.at = n /\ d.new.file = v.file => d.step # "replace"
               PROVE  Slice(rows[n], v.file) = Face(Settled(n, v.file), v.file, v.path)
    BY <1>2, <1>3 DEF SlicesOK
  <2>1. <<n, v.file>> \notin M
    BY <1>1
  <2>2. <<n, v.file>> \notin raced \union skipped
    BY <2>1
  <2>3. \A d \in applies : d.at = n /\ d.new.file = v.file => d.step # "replace"
    BY <1>1
  <2> QED
    BY <2>2, <2>3 DEF ViewsInv, SlicesOK
<1>10. CommitsBased'
  BY <1>5, <1>6 DEF ViewsInv, CommitsBased
<1>11. AppliesBased'
  <2>1. ASSUME NEW d \in applies, d # a PROVE ApplyBased(d)'
    <3>1. ApplyBased(d)
      BY DEF ViewsInv, AppliesBased
    <3>2. Raced(d.at, d.new.file)' <=> Raced(d.at, d.new.file)
      BY <1>6, <2>1
    <3> QED
      BY <3>1, <3>2 DEF ApplyBased
  <2> QED
    BY <1>1, <2>1 DEF AppliesBased
<1> QED
  BY <1>7, <1>8, <1>9, <1>10, <1>11 DEF ViewsInv

\* Look: the path of the file is free or has the file.
LEMMA ViewsLook ==
    ASSUME ViewsInv, VersionsInv', NEW a \in applies, Look(a)
    PROVE  ViewsInv'
<1>1. a \in Applying /\ a.at \in Nodes /\ a.new \in ledger[a.at] /\ a.step = "look"
  BY KnownVersions DEF Look, ViewsInv, VersionsInv, AppliesOK
<1>2. UNCHANGED <<ledger, rows, requests, commits, accidents>> /\ ApplyBased(a)
  BY DEF Look, ViewsInv, AppliesBased
<1>3. raced' = raced \ {} /\ skipped' = skipped \ {} /\ {} \subseteq {<<a.at, a.new.file>>}
  BY <1>2 DEF accidents
<1>4. ASSUME NEW r \in rows[a.at], r.file = a.new.file \/ r.path = a.new.path
      PROVE  r.file = a.new.file /\ r.path = a.new.path
  <2>1. a.new \in Known
    BY <1>1, NodeRows
  <2> DEFINE K == Known
             L == ledger[a.at]
             R == rows[a.at]
             w == a.new
  <2>2. /\ Coherent(K) /\ L \subseteq K /\ Placements(R, L) /\ w \in K
        /\ r \in R /\ (r.file = w.file \/ r.path = w.path)
    BY <1>1, <1>4, <2>1, NodeRows
  <2> HIDE DEF K, L, R
  <2>3. MainOf(r, w)
    BY ONLY <2>2, SliceBelongs
  <2> QED
    BY <2>3 DEF MainOf
<1>5. CASE /\ \A r \in Existing(a) : r.file # a.new.file
           /\ Advance(a, [a EXCEPT !.step = "upsert", !.views = {RowOf(PrepareFilePut(a.at, a.new))}])
  <2> DEFINE b == [a EXCEPT !.step = "upsert", !.views = {RowOf(a.new)}]
  <2>1. PrepareFilePut(a.at, a.new) = a.new
    BY <1>4 DEF PrepareFilePut, GetFile
  <2>2. \A r \in rows[a.at] : r.file # a.new.file
    BY <1>4, <1>5 DEF Existing, GetFile
  <2>3. b.at = a.at /\ b.new = a.new /\ b.step = "upsert" /\ b.views = {RowOf(a.new)} /\ Advance(a, b)
    BY <1>1, <1>5, <2>1 DEF Applying
  <2> HIDE DEF b
  <2>4. ApplyBased(b)'
    BY <1>2, <2>2, <2>3 DEF ApplyBased
  <2>5. b.step # "replace" /\ a.step # "replace"
    BY <1>1, <2>3
  <2> QED
    BY <1>2, <1>3, <2>3, <2>4, <2>5, ViewsAdvance
<1>6. CASE \E r \in Existing(a) :
          /\ r.file = a.new.file
          /\ Advance(a, [a EXCEPT !.step = "list", !.file = r.file, !.path = r.path])
  <2>1. PICK r \in Existing(a) :
          /\ r.file = a.new.file
          /\ Advance(a, [a EXCEPT !.step = "list", !.file = r.file, !.path = r.path])
    BY <1>6
  <2>2. r \in rows[a.at]
    BY <2>1 DEF Existing, GetFile, GetFileByID
  <2> DEFINE b == [a EXCEPT !.step = "list", !.file = r.file, !.path = r.path]
  <2>3. b.at = a.at /\ b.new = a.new /\ b.step = "list" /\ b.path = a.new.path /\ Advance(a, b)
    BY <1>1, <1>4, <2>1, <2>2 DEF Applying
  <2>4. \E w \in ledger[a.at] : w.file = a.new.file /\ w # a.new
    BY <1>1, <1>2, <2>1, <2>2 DEF ApplyBased
  <2> HIDE DEF b
  <2>5. ApplyBased(b)'
    BY <1>2, <2>3, <2>4 DEF ApplyBased
  <2>6. b.step # "replace" /\ a.step # "replace"
    BY <1>1, <2>3
  <2> QED
    BY <1>2, <1>3, <2>3, <2>5, <2>6, ViewsAdvance
<1> QED
  BY <1>5, <1>6 DEF Look

\* ListVersions: what is about to be written is the projection.
LEMMA ViewsList ==
    ASSUME ViewsInv, VersionsInv', NEW a \in applies, ListVersions(a)
    PROVE  ViewsInv'
<1> DEFINE V == Of(ledger[a.at], a.new.file)
<1>0. PICK R : R = Views(V, a.new.file, a.new.path)
  OBVIOUS
<1> DEFINE b == [a EXCEPT !.step = "replace", !.views = R]
<1>1. a \in Applying /\ a.at \in Nodes /\ a.new \in ledger[a.at] /\ a.step = "list"
  BY KnownVersions DEF ListVersions, ViewsInv, VersionsInv, AppliesOK
<1>2. a.file = a.new.file /\ a.path = a.new.path /\ ApplyBased(a)
      /\ \E w \in ledger[a.at] : w.file = a.new.file /\ w # a.new
  BY <1>1 DEF ViewsInv, VersionsInv, AppliesOK, AppliesBased, ApplyBased
<1>3. Advance(a, b) /\ UNCHANGED <<ledger, rows, requests, commits>>
      /\ raced' = raced \ Mended(a) /\ skipped' = skipped \ Mended(a)
  BY <1>0, <1>2 DEF ListVersions, ListFileVersions, Of
<1>4. b.at = a.at /\ b.new = a.new /\ b.step = "replace" /\ b.path = a.new.path /\ b.views = R
  BY <1>1, <1>2 DEF Applying
<1>5. a.new \in Known /\ Placed(a.new)
  <2>1. a.new \in Known
    BY <1>1, NodeRows
  <2> QED
    BY <2>1, KnownPath
<1>6. Family(V, a.new) /\ V # {}
  <2>1. Family(V, a.new)
    BY <1>1, <1>5, HeldFamily
  <2> QED
    BY <1>1, <2>1 DEF Of
<1>7. /\ \A r \in R : BelongsTo(r, a.new) /\ r.version \in Ids(V)
      /\ \E r \in R : MainOf(r, a.new)
      /\ \A r \in R : MainOf(r, a.new) => r.version = Winner(V).id
  <2> HIDE DEF V
  <2> QED
    BY <1>0, <1>6, ViewsBelong
<1>8. MainsOnce(R)
  <2> HIDE DEF V
  <2>1. \A r \in R : Len(r.file) = 1 => MainOf(r, a.new)
    BY <1>5, <1>7, MainOnly
  <2> QED
    BY <1>7, <2>1 DEF MainsOnce
<1> HIDE DEF b
<1>9. ApplyBased(b)'
  <2>1. /\ \A s \in b.views : BelongsTo(s, b.new) /\ s.version \in Ids(Of(ledger[b.at], b.new.file))
        /\ MainsOnce(b.views) /\ \E s \in b.views : MainOf(s, b.new)
    BY <1>4, <1>7, <1>8
  <2>2. b.views = Views(Of(ledger[b.at], b.new.file), b.new.file, b.new.path)
    BY <1>0, <1>4
  <2> HIDE DEF V
  <2> QED
    BY <1>2, <1>3, <1>4, <2>1, <2>2 DEF ApplyBased
<1>10. Mended(a) \subseteq {<<a.at, a.new.file>>}
  BY <1>2 DEF Mended
<1>11. Mended(a) # {} =>
         \A j \in commits \union applies : j.at = a.at /\ j.new.file = a.new.file => j = a
  BY <1>2 DEF Mended, JobsOn
<1>12. a.step # "replace" /\ UNCHANGED <<ledger, rows, requests, commits>>
  BY <1>1, <1>3
<1>13. PICK M : M = Mended(a)
  OBVIOUS
<1>14. /\ M \subseteq {<<a.at, a.new.file>>} /\ raced' = raced \ M /\ skipped' = skipped \ M
       /\ M # {} => /\ b.step = "replace"
                    /\ \A j \in commits \union applies :
                          j.at = a.at /\ j.new.file = a.new.file => j = a
  BY <1>3, <1>4, <1>10, <1>11, <1>13
<1> HIDE DEF V
<1> QED
  BY <1>3, <1>4, <1>9, <1>12, <1>14, ViewsAdvance

\* With N for the rows and L for the versions of node n, the file of w shows what
\* all its versions determine, and the other files show what they did.
Rewritten(n, L, N, w) ==
    /\ ledger[n] \subseteq L /\ \A file : file # w.file => Of(L, file) = Of(ledger[n], file)
    /\ Placements(N, L) /\ MainsOnce(N) /\ \E m \in N : MainOf(m, w)
    /\ \A v \in Known : v.file # w.file => Slice(N, v.file) = Slice(rows[n], v.file)
    /\ <<n, w.file>> \notin raced \union skipped =>
          Slice(N, w.file) = Face(Of(L, w.file), w.file, w.path)

SameFiles(K, M) ==
    /\ \A v \in K : \E u \in M : u.file = v.file /\ u.path = v.path
    /\ \A u \in M : \E v \in K : u.file = v.file /\ u.path = v.path

\* Handler j of node n ends, with N for the rows and L for the versions of n.
Finishes(n, j, L, N) ==
    /\ ledger'[n] = L /\ rows'[n] = N
    /\ \A m \in Nodes : m # n => ledger'[m] = ledger[m] /\ rows'[m] = rows[m]
    /\ commits' = commits \ {j} /\ applies' = applies \ {j}
    /\ UNCHANGED <<requests, accidents>>

\* No other handler of node n applies y.
Alone(n, j, y) == \A d \in applies \ {j} : d.at = n => d.new # y

\* A handler writes the rows of its file and ends; y is the version it was about.
LEMMA ViewsWrite ==
    ASSUME ViewsInv, Undisturbed, VersionsInv', PlacesOK',
           NEW n \in Nodes, NEW L, NEW N, NEW w \in Known, NEW y \in L,
           NEW j \in commits \union applies, j.at = n, j.new.file = w.file,
           y.file = w.file, Alone(n, j, y), Finishes(n, j, L, N), SameFiles(Known, Known'),
           Written # {} \/ (n \in Creators /\ w.path = MainPath),
           Rewritten(n, L, N, w)
    PROVE  ViewsInv'
<1>0. /\ ledger[n] \subseteq L /\ \A file : file # w.file => Of(L, file) = Of(ledger[n], file)
      /\ Placements(N, L) /\ MainsOnce(N) /\ \E m \in N : MainOf(m, w)
      /\ \A v \in Known : v.file # w.file => Slice(N, v.file) = Slice(rows[n], v.file)
      /\ <<n, w.file>> \notin raced \union skipped =>
            Slice(N, w.file) = Face(Of(L, w.file), w.file, w.path)
      /\ \A v \in Known : \E u \in Known' : u.file = v.file /\ u.path = v.path
      /\ \A u \in Known' : \E v \in Known : u.file = v.file /\ u.path = v.path
      /\ \A d \in applies \ {j} : d.at = n => d.new # y
  BY DEF Rewritten, SameFiles, Alone
<1>1. ledger'[n] = L /\ \A m \in Nodes : m # n => ledger'[m] = ledger[m]
  BY DEF Finishes
<1>2. rows'[n] = N /\ \A m \in Nodes : m # n => rows'[m] = rows[m]
  BY DEF Finishes
<1>20. /\ commits' = commits \ {j} /\ applies' = applies \ {j}
       /\ UNCHANGED <<requests, accidents>>
  BY DEF Finishes
<1>3. raced' = raced /\ skipped' = skipped /\ \A m, file : Raced(m, file)' = Raced(m, file)
  BY <1>20 DEF accidents, Raced
<1>4. \A a \in applies : a.at \in Nodes /\ a.new \in Known
  BY KnownVersions, NodeRows
<1>5. \A c \in commits : c.at \in Nodes /\ c.new \in Known
  BY KnownVersions
<1>6. \A d \in (commits \union applies) \ {j} : d.at = n /\ d.new.file = w.file =>
         Raced(n, w.file)
  BY KindsApart DEF ViewsInv, JobsApart
<1>7. JobsApart'
  BY <1>3, <1>20 DEF ViewsInv, JobsApart
<1>8. RowsPlaced'
  BY <1>0, <1>1, <1>2 DEF ViewsInv, RowsPlaced
<1>9. ASSUME NEW v \in Known, v.file # w.file, NEW r, r.file = v.file
      PROVE  r \in N <=> r \in rows[n]
  <2>1. Placed(v) /\ BelongsTo(v, v)
    BY KnownPath DEF BelongsTo, MainOf
  <2>2. Len(r.file) >= Len(v.file) /\ SubSeq(r.file, 1, Len(v.file)) = v.file
    BY <1>9, <2>1, InSlice
  <2>3. Slice(N, v.file) = Slice(rows[n], v.file)
    BY <1>0, <1>9
  <2> QED
    BY <2>2, <2>3 DEF Slice
<1>10. ASSUME NEW m \in Nodes, NEW r \in rows[m], NEW v \in Known, MainOf(r, v)
       PROVE  \E s \in rows'[m] : MainOf(s, v)
  <2>1. CASE m # n
    BY <1>2, <1>10, <2>1
  <2>2. CASE m = n /\ v.file # w.file
    BY <1>2, <1>9, <1>10, <2>2 DEF MainOf
  <2>3. CASE m = n /\ v.file = w.file
    <3>1. v.path = w.path
      BY <2>3 DEF ViewsInv, PlacesOK, Coherent
    <3> QED
      BY <1>0, <1>2, <2>3, <3>1 DEF MainOf
  <2> QED
    BY <2>1, <2>2, <2>3
<1>11. RequestsPlaced'
  <2> SUFFICES ASSUME NEW q \in requests, NEW r \in rows[q.at], NEW v \in Known,
                      MainOf(r, v), r.path = q.path
               PROVE  \E s \in rows'[q.at], u \in Known' : MainOf(s, u) /\ s.path = q.path
    BY <1>20 DEF ViewsInv, RequestsPlaced
  <2>1. PICK u \in Known' : u.file = v.file /\ u.path = v.path
    BY <1>0
  <2>2. PICK s \in rows'[q.at] : MainOf(s, v)
    BY <1>10, KnownVersions
  <2> QED
    BY <2>1, <2>2 DEF MainOf
<1>12. Genesis'
  <2>0. Written' # {}
    BY <1>1 DEF Written
  <2>1. CASE Written # {}
    <3> SUFFICES ASSUME NEW m \in Creators, NEW r \in rows[m], r.path = MainPath
                 PROVE  \E s \in rows'[m] : s.path = MainPath
      BY <2>0, <2>1 DEF ViewsInv, Genesis
    <3>1. m \in Nodes
      BY CreatorsAssumption
    <3>2. PICK u \in ledger[m] : MainOf(r, u)
      BY <3>1, MainRow
    <3> QED
      BY <1>10, <3>1, <3>2, NodeRows DEF MainOf
  <2>2. CASE n \in Creators /\ w.path = MainPath
    BY <1>0, <1>2, <2>0, <2>2 DEF Undisturbed, Genesis, MainOf
  <2> QED
    BY <2>1, <2>2
<1>13. SlicesOK'
  <2> SUFFICES ASSUME NEW m \in Nodes, NEW v \in Known,
                      <<m, v.file>> \notin raced \union skipped,
                      \A a \in applies \ {j} : a.at = m /\ a.new.file = v.file => a.step # "replace"
               PROVE  Slice(rows'[m], v.file) = Face(Settled(m, v.file)', v.file, v.path)
    BY <1>0, <1>3, <1>20 DEF SlicesOK
  <2>1. CASE m # n \/ v.file # w.file
    <3>1. Slice(rows'[m], v.file) = Slice(rows[m], v.file)
      BY <1>0, <1>2, <2>1
    <3>2. Of(ledger'[m], v.file) = Of(ledger[m], v.file)
      BY <1>0, <1>1, <2>1
    <3>3. Settled(m, v.file)' = Settled(m, v.file)
      BY <1>20, <2>1, <3>2 DEF Settled, Of
    <3>4. \A a \in applies : a.at = m /\ a.new.file = v.file => a.step # "replace"
      BY <2>1
    <3> QED
      BY <3>1, <3>3, <3>4 DEF ViewsInv, SlicesOK
  <2>2. CASE m = n /\ v.file = w.file
    <3>1. v.path = w.path
      BY <2>2 DEF ViewsInv, PlacesOK, Coherent
    <3>2. \A a \in applies \ {j} : a.at = n => a.new.file # w.file
      BY <1>6, <2>2 DEF Raced
    <3>3. Settled(m, v.file)' = Of(L, w.file)
      BY <1>1, <1>20, <2>2, <3>2 DEF Settled, Of
    <3> QED
      BY <1>0, <1>2, <2>2, <3>1, <3>3
  <2> QED
    BY <2>1, <2>2
<1>14. CommitsBased'
  <2> SUFFICES ASSUME NEW c \in commits \ {j}, ~Raced(c.at, c.new.file),
                      NEW r \in rows'[c.at], r.file = c.new.file
               PROVE  c.new.parent = r.version /\ c.new.conflictOf = None
    BY <1>3, <1>20 DEF CommitsBased
  <2>1. ~(c.at = n /\ c.new.file = w.file)
    BY <1>6
  <2>2. r \in rows[c.at]
    BY <1>2, <1>5, <1>9, <2>1
  <2> QED
    BY <2>2 DEF ViewsInv, CommitsBased
<1>15. ASSUME NEW d \in applies \ {j} PROVE ApplyBased(d)'
  <2>1. ApplyBased(d) /\ d.at \in Nodes /\ d.new \in Known
    BY <1>4 DEF ViewsInv, AppliesBased
  <2>2. ledger[d.at] \subseteq ledger'[d.at]
    BY <1>0, <1>1, <2>1
  <2>3. Ids(Of(ledger[d.at], d.new.file)) \subseteq Ids(Of(ledger'[d.at], d.new.file))
    BY <2>2 DEF Ids, Of
  <2>4. d.at = n /\ d.new.file = w.file => Raced(d.at, d.new.file)
    BY <1>6
  <2>5. ASSUME NEW r \in rows'[d.at], r.file = d.new.file, ~(d.at = n /\ d.new.file = w.file)
        PROVE  r \in rows[d.at]
    BY <1>2, <1>9, <2>1, <2>5
  <2>6. ~(d.at = n /\ d.new.file = w.file) =>
           Of(ledger'[d.at], d.new.file) = Of(ledger[d.at], d.new.file)
    BY <1>0, <1>1, <2>1
  <2>7. d.step = "look" => \A r \in rows'[d.at] : r.file = d.new.file =>
                              \E u \in ledger'[d.at] : u.file = d.new.file /\ u # d.new
    <3>1. CASE d.at = n /\ d.new.file = w.file
      BY <1>0, <1>1, <3>1
    <3>2. CASE ~(d.at = n /\ d.new.file = w.file)
      BY <2>1, <2>2, <2>5, <3>2 DEF ApplyBased
    <3> QED
      BY <3>1, <3>2
  <2>8. d.step = "upsert" /\ ~Raced(d.at, d.new.file) => \A r \in rows'[d.at] : r.file # d.new.file
    BY <2>1, <2>4, <2>5 DEF ApplyBased
  <2>9. d.step = "replace" /\ ~Raced(d.at, d.new.file) =>
           d.views = Views(Of(ledger'[d.at], d.new.file), d.new.file, d.new.path)
    BY <2>1, <2>4, <2>6 DEF ApplyBased
  <2> QED
    BY <1>3, <2>1, <2>2, <2>3, <2>7, <2>8, <2>9 DEF ApplyBased
<1> QED
  BY <1>7, <1>8, <1>13, <1>14, <1>15, <1>11, <1>12, <1>20 DEF ViewsInv, AppliesBased

\* UpsertFile: the first version of a file that the node hears of.
LEMMA ViewsUpsertFile ==
    ASSUME ViewsInv, Undisturbed, VersionsInv', NEW a \in applies, UpsertFile(a)
    PROVE  ViewsInv'
<1> DEFINE n == a.at
           v == a.new
           L == ledger[n]
           R == rows[n]
<1>0. PICK N : N = UpsertFiles(R, {RowOf(v)})
  OBVIOUS
<1>1. a.at \in Nodes /\ v \in L /\ ApplyBased(a) /\ a.step = "upsert" /\ a.views = {RowOf(v)}
  BY KnownVersions DEF UpsertFile, ViewsInv, AppliesBased, ApplyBased
<1>2. /\ rows' = [rows EXCEPT ![a.at] = N] /\ applies' = applies \ {a}
      /\ UNCHANGED <<ledger, requests, commits, accidents>>
  BY <1>0, <1>1 DEF UpsertFile
<1>3. /\ Coherent(Known) /\ L \subseteq Known /\ Placements(R, L) /\ MainsOnce(R)
      /\ v \in Known /\ v \in Written /\ Family(Of(L, v.file), v)
  BY <1>1, NodeRows, HeldFamily
<1>4. MainOf(RowOf(v), v) /\ RowOf(v).version = v.id /\ RowOf(v).file = v.file
  BY DEF MainOf, RowOf
<1>5. N \subseteq R \union {RowOf(v)} /\ RowOf(v) \in N
      /\ \A r \in N : r.file = v.file => r = RowOf(v)
  BY <1>0, <1>4 DEF UpsertFiles
<1>6. Placements(N, L)
  <2>1. BelongsTo(RowOf(v), v) /\ RowOf(v).version \in Ids(Of(L, v.file))
    BY <1>1, <1>4 DEF BelongsTo, Ids, Of
  <2> HIDE DEF L, R
  <2> QED
    BY <1>1, <1>3, <1>5, <2>1 DEF Placements
<1>7. MainsOnce(N)
  <2> HIDE DEF L, R
  <2> QED
    BY <1>3, <1>4, <1>5 DEF MainsOnce
<1>8. /\ \A u \in Known : u.file # v.file => Slice(N, u.file) = Slice(R, u.file)
      /\ Slice(N, v.file) = {r \in Slice(R, v.file) : r.file # v.file} \union {RowOf(v)}
  <2> DEFINE K == Known
             W == {RowOf(v)}
             m == RowOf(v)
  <2>1. /\ Coherent(K) /\ L \subseteq K /\ Placements(R, L) /\ v \in K
        /\ \A s \in W : BelongsTo(s, v)
        /\ W = {m} /\ MainOf(m, v) /\ N = UpsertFiles(R, W)
    BY <1>0, <1>3, <1>4 DEF BelongsTo
  <2> HIDE DEF K, W, L, R, m
  <2>2. /\ \A u \in K : u.file # v.file => Slice(N, u.file) = Slice(R, u.file)
        /\ Slice(N, v.file) = {r \in Slice(R, v.file) : r.file # v.file} \union {m}
    BY ONLY <2>1, SliceUpsert
  <2> QED
    BY <2>2 DEF K, m
<1>9. ASSUME <<n, v.file>> \notin raced \union skipped
      PROVE  Slice(N, v.file) = Face(Of(L, v.file), v.file, v.path)
  <2>1. ~Raced(n, v.file) /\ \A r \in R : r.file # v.file
    BY <1>1, <1>9 DEF ApplyBased, Raced
  <2>2. \A d \in applies : d.at = n /\ d.new.file = v.file => d = a
    BY <2>1 DEF ViewsInv, JobsApart
  <2>3. Slice(R, v.file) = Face(Settled(n, v.file), v.file, v.path)
    BY <1>1, <1>3, <1>9, <2>2 DEF ViewsInv, SlicesOK
  <2>4. Settled(n, v.file) = Of(L, v.file) \ {v}
    BY <2>2 DEF Settled, Of
  <2>5. Of(L, v.file) \ {v} = {}
    <3> DEFINE V == Of(L, v.file) \ {v}
    <3> SUFFICES ASSUME V # {} PROVE FALSE
      OBVIOUS
    <3>1. Family(V, v)
      <4>1. V \subseteq Of(ledger[a.at], v.file)
        OBVIOUS
      <4> QED
        BY <1>1, <1>3, <4>1, HeldFamily
    <3>2. Slice(R, v.file) = Face(V, v.file, v.path)
      BY <2>3, <2>4
    <3> HIDE DEF V
    <3>3. \E r \in Slice(R, v.file) : MainOf(r, v)
      BY <3>1, <3>2, FaceRows
    <3> QED
      BY <2>1, <3>3 DEF Slice, MainOf
  <2>6. Of(L, v.file) = {v}
    BY <1>1, <2>5 DEF Of
  <2>7. Slice(R, v.file) = {}
    BY <2>3, <2>4, <2>5 DEF Face
  <2>8. Face({v}, v.file, v.path) = {RowOf(v)}
    BY DEF Face, Projection
  <2> QED
    BY <1>8, <2>6, <2>7, <2>8
<1>10. Written' = Written /\ Known' = Known
  BY <1>2 DEF Written, Known
<1>11. PlacesOK'
  BY <1>10 DEF ViewsInv, PlacesOK
<1>12. Finishes(n, a, L, N)
  <2>1. a \notin commits
    BY KindsApart
  <2> QED
    BY <1>1, <1>2, <2>1 DEF Finishes, ViewsInv, VersionsInv, RowsOK
<1>13. Alone(n, a, v)
  BY DEF ViewsInv, JobsApart, Alone
<1>14. Rewritten(n, L, N, v)
  BY <1>4, <1>5, <1>6, <1>7, <1>8, <1>9 DEF Rewritten
<1>15. SameFiles(Known, Known')
  BY <1>10 DEF SameFiles
<1>16. /\ n \in Nodes /\ v \in Known /\ v \in L /\ a \in commits \union applies
       /\ a.at = n /\ a.new.file = v.file /\ Written # {}
  BY <1>1, <1>3
<1>17. ViewsInv /\ Undisturbed /\ VersionsInv'
  OBVIOUS
<1> HIDE DEF n, L, R, v
<1> QED
  BY ONLY <1>11, <1>12, <1>13, <1>14, <1>15, <1>16, <1>17, ViewsWrite

\* ReplaceViews: the rows of the file become what the rebuild has computed.
LEMMA ViewsReplaceViews ==
    ASSUME ViewsInv, Undisturbed, VersionsInv', NEW a \in applies, ReplaceViews(a)
    PROVE  ViewsInv'
<1> DEFINE n == a.at
           v == a.new
           L == ledger[n]
           R == rows[n]
           W == a.views
<1>0. PICK N : N = ReplaceConcurrentFileViews(R, v.file, W)
  OBVIOUS
<1>1. n \in Nodes /\ v \in L /\ a.step = "replace" /\ a.file = v.file
  BY KnownVersions DEF ReplaceViews, ViewsInv, VersionsInv, AppliesOK
<1>2. /\ \A s \in W : BelongsTo(s, v) /\ s.version \in Ids(Of(L, v.file))
      /\ MainsOnce(W) /\ \E s \in W : MainOf(s, v)
      /\ \E u \in L : u.file = v.file /\ u # v
      /\ ~Raced(n, v.file) => W = Views(Of(L, v.file), v.file, v.path)
  BY <1>1 DEF ViewsInv, AppliesBased, ApplyBased
<1>3. /\ rows' = [rows EXCEPT ![n] = N] /\ applies' = applies \ {a}
      /\ UNCHANGED <<ledger, requests, commits, accidents>>
  BY <1>0, <1>1 DEF ReplaceViews
<1>4. /\ Coherent(Known) /\ L \subseteq Known /\ Placements(R, L) /\ MainsOnce(R)
      /\ v \in Known /\ v \in Written
  BY <1>1, NodeRows
<1>5. /\ \A u \in Known : u.file # v.file => Slice(N, u.file) = Slice(R, u.file)
      /\ Slice(N, v.file) = W
      /\ N \subseteq R \union W
  <2> DEFINE K == Known
  <2>1. PICK m \in W : MainOf(m, v)
    BY <1>2
  <2>2. /\ Coherent(K) /\ L \subseteq K /\ Placements(R, L) /\ v \in K
        /\ \A s \in W : BelongsTo(s, v)
        /\ m \in W /\ MainOf(m, v) /\ N = ReplaceConcurrentFileViews(R, v.file, W)
    BY <1>0, <1>2, <1>4, <2>1
  <2> HIDE DEF K, W, L, R, v
  <2>3. /\ \A u \in K : u.file # v.file => Slice(N, u.file) = Slice(R, u.file)
        /\ Slice(N, v.file) = W
        /\ N \subseteq R \union W
    BY ONLY <2>2, SliceReplace
  <2> QED
    BY <2>3 DEF K
<1>6. W \subseteq N
  BY <1>5 DEF Slice
<1>7. Placements(N, L)
  <2> HIDE DEF W, L, R
  <2> QED
    BY <1>1, <1>2, <1>4, <1>5 DEF Placements
<1>8. MainsOnce(N)
  <2> SUFFICES ASSUME NEW r \in N, NEW s \in N, r.file = s.file, Len(r.file) = 1
               PROVE  r.version = s.version
    BY DEF MainsOnce
  <2>1. r \in W <=> s \in W
    BY <1>5 DEF Slice
  <2> HIDE DEF W, R
  <2> QED
    BY <1>2, <1>4, <1>5, <2>1 DEF MainsOnce
<1>9. ASSUME <<n, v.file>> \notin raced \union skipped
      PROVE  Slice(N, v.file) = Face(Of(L, v.file), v.file, v.path)
  <2>1. W = Views(Of(L, v.file), v.file, v.path)
    BY <1>2, <1>9 DEF Raced
  <2>2. PICK u \in Of(L, v.file) : u # v /\ v \in Of(L, v.file)
    BY <1>1, <1>2 DEF Of
  <2> DEFINE V == Of(L, v.file)
  <2>3. v \in V /\ u \in V /\ u # v /\ W = Views(V, v.file, v.path)
    BY <2>1, <2>2
  <2> HIDE DEF V
  <2>4. Face(V, v.file, v.path) = Views(V, v.file, v.path)
    BY <2>3, FaceMany
  <2> QED
    BY <1>5, <2>3, <2>4 DEF V
<1>10. Written' = Written /\ Known' = Known
  BY <1>3 DEF Written, Known
<1>11. PlacesOK'
  BY <1>10 DEF ViewsInv, PlacesOK
<1>12. Finishes(n, a, L, N)
  <2>1. a \notin commits
    BY KindsApart
  <2> QED
    BY <1>1, <1>3, <2>1 DEF Finishes, ViewsInv, VersionsInv, RowsOK
<1>13. Alone(n, a, v)
  BY DEF ViewsInv, JobsApart, Alone
<1>14. Rewritten(n, L, N, v)
  <2> HIDE DEF W
  <2> QED
    BY <1>2, <1>5, <1>6, <1>7, <1>8, <1>9 DEF Rewritten
<1>15. SameFiles(Known, Known')
  BY <1>10 DEF SameFiles
<1>16. /\ n \in Nodes /\ v \in Known /\ v \in L /\ a \in commits \union applies
       /\ a.at = n /\ a.new.file = v.file /\ Written # {}
  BY <1>1, <1>4
<1>17. ViewsInv /\ Undisturbed /\ VersionsInv'
  OBVIOUS
<1> HIDE DEF n, L, R, v
<1> QED
  BY ONLY <1>11, <1>12, <1>13, <1>14, <1>15, <1>16, <1>17, ViewsWrite

\* CommitFilePut: the ledger and the rows move together.
LEMMA ViewsCommit ==
    ASSUME ViewsInv, Undisturbed, VersionsInv', NEW c \in commits, CommitFilePut(c)
    PROVE  ViewsInv'
<1> DEFINE n == c.at
           w == c.new
           R == rows[n]
<1>0. PICK x, L, N : /\ x = [w EXCEPT !.seq = NextSeq(n)]
                     /\ L = ledger[n] \union {x}
                     /\ N = UpsertFiles(R, {RowOf(w)})
  OBVIOUS
<1>1. /\ n \in Nodes /\ w \in Known /\ w \in Version
      /\ w.id \notin Ids(Written) /\ w.parent \in Ids(Written) \union {0}
  BY KnownVersions DEF ViewsInv, VersionsInv, CommitsOK
<1>2. /\ x \in Version /\ x.id = w.id /\ x.file = w.file /\ x.parent = w.parent
      /\ x.path = w.path /\ x.conflictOf = w.conflictOf /\ RowOf(x) = RowOf(w)
  <2>1. NextSeq(n) \in Nat
    BY <1>1, NextSeqTyped DEF ViewsInv
  <2> HIDE DEF n
  <2>2. /\ x \in Version /\ x.id = w.id /\ x.file = w.file /\ x.parent = w.parent
        /\ x.path = w.path /\ x.conflictOf = w.conflictOf
    BY <1>0, <1>1, <2>1 DEF Version
  <2> QED
    BY <2>2 DEF RowOf
<1>3. /\ ledger' = [ledger EXCEPT ![n] = L] /\ rows' = [rows EXCEPT ![n] = N]
      /\ commits' = commits \ {c} /\ UNCHANGED <<requests, applies, accidents>>
  BY <1>0 DEF CommitFilePut
<1>4. /\ Coherent(Known) /\ ledger[n] \subseteq Known /\ ledger[n] \subseteq Written
      /\ Placements(R, ledger[n]) /\ MainsOnce(R)
  BY <1>1, NodeRows
<1>5. MainOf(RowOf(w), w) /\ RowOf(w).version = w.id /\ RowOf(w).file = w.file
  BY DEF MainOf, RowOf
<1>6. N \subseteq R \union {RowOf(w)} /\ RowOf(w) \in N
      /\ \A r \in N : r.file = w.file => r = RowOf(w)
  BY <1>0, <1>5 DEF UpsertFiles
<1>7. Placements(N, L)
  <2>1. BelongsTo(RowOf(w), x) /\ RowOf(w).version \in Ids(Of(L, x.file)) /\ x \in L
    BY <1>0, <1>2, <1>5 DEF BelongsTo, MainOf, Ids, Of
  <2>2. \A file : Ids(Of(ledger[n], file)) \subseteq Ids(Of(L, file))
    BY <1>0 DEF Ids, Of
  <2> HIDE DEF R
  <2>3. \A r \in R : \E u \in L : BelongsTo(r, u) /\ r.version \in Ids(Of(L, u.file))
    BY <1>0, <1>4, <2>2 DEF Placements
  <2> QED
    BY <1>6, <2>1, <2>3 DEF Placements
<1>8. MainsOnce(N)
  <2> HIDE DEF R
  <2> QED
    BY <1>4, <1>5, <1>6 DEF MainsOnce
<1>9. /\ \A u \in Known : u.file # w.file => Slice(N, u.file) = Slice(R, u.file)
      /\ Slice(N, w.file) = {r \in Slice(R, w.file) : r.file # w.file} \union {RowOf(w)}
  <2> DEFINE K == Known
             W == {RowOf(w)}
             m == RowOf(w)
             M == ledger[n]
  <2>1. /\ Coherent(K) /\ M \subseteq K /\ Placements(R, M) /\ w \in K
        /\ \A s \in W : BelongsTo(s, w)
        /\ W = {m} /\ MainOf(m, w) /\ N = UpsertFiles(R, W)
    BY <1>0, <1>1, <1>4, <1>5 DEF BelongsTo
  <2> HIDE DEF K, W, M, R, m, w
  <2>2. /\ \A u \in K : u.file # w.file => Slice(N, u.file) = Slice(R, u.file)
        /\ Slice(N, w.file) = {r \in Slice(R, w.file) : r.file # w.file} \union {m}
    BY ONLY <2>1, SliceUpsert
  <2> QED
    BY <2>2 DEF K, m
<1>10. ASSUME <<n, w.file>> \notin raced \union skipped
       PROVE  Slice(N, w.file) = Face(Of(L, w.file), w.file, w.path)
  <2> DEFINE V == Of(ledger[n], w.file)
  <2>1. ~Raced(n, w.file)
    BY <1>10 DEF Raced
  <2>2. \A d \in applies : ~(d.at = n /\ d.new.file = w.file)
    BY <2>1 DEF ViewsInv, JobsApart
  <2>3. Settled(n, w.file) = V
    BY <2>2 DEF Settled, Of
  <2>4. Slice(R, w.file) = Face(V, w.file, w.path)
    BY <1>1, <1>10, <2>2, <2>3 DEF ViewsInv, SlicesOK
  <2>5. Of(L, w.file) = V \union {x}
    BY <1>0, <1>2 DEF Of
  <2>6. CASE V = {}
    <3>1. Slice(R, w.file) = {}
      BY <2>4, <2>6 DEF Face
    <3>2. Face({x}, w.file, w.path) = {RowOf(x)}
      BY DEF Face, Projection
    <3> HIDE DEF V
    <3> QED
      BY <1>2, <1>9, <2>5, <2>6, <3>1, <3>2
  <2>7. CASE V # {}
    <3>1. Family(V, w)
      BY <1>1, HeldFamily
    <3>2. PICK r \in Slice(R, w.file) : MainOf(r, w) /\ r.version = Winner(V).id
      <4> HIDE DEF V, R
      <4> QED
        BY <2>4, <2>7, <3>1, FaceRows
    <3>3. w.parent = Winner(V).id /\ w.conflictOf = None
      BY <2>1, <3>2 DEF ViewsInv, CommitsBased, Slice, MainOf
    <3>4. Family(V, x)
      BY <1>2, <3>1 DEF Family, Placed
    <3>5. \A u \in V : u.id # x.id /\ u.parent # x.id
      <4>1. \A u \in V : u \in Written
        BY <1>4 DEF Of
      <4>2. \A u \in V : u.id \in Ids(Written) /\ u.parent \in Ids(Written) \union {0}
        BY <4>1 DEF ViewsInv, VersionsInv, WrittenOK, Ids
      <4>3. x.id # 0
        BY <1>2, Fields
      <4> QED
        BY <1>1, <1>2, <4>2, <4>3
    <3>6. x.parent = Winner(V).id /\ x.conflictOf = None /\ x \in Version
      BY <1>2, <3>3
    <3> HIDE DEF V
    <3>7. Face(V \union {x}, x.file, x.path) =
             {s \in Face(V, x.file, x.path) : s.file # x.file} \union {RowOf(x)}
      BY <2>7, <3>4, <3>5, <3>6, FaceNext
    <3>8. Face(V \union {x}, w.file, w.path) =
             {s \in Slice(R, w.file) : s.file # w.file} \union {RowOf(w)}
      BY <1>2, <2>4, <3>7
    <3> HIDE DEF R
    <3> QED
      BY <1>9, <2>5, <3>8
  <2> QED
    BY <2>6, <2>7
<1>11. Written' = Written \union {x}
  BY <1>0, <1>1, <1>3 DEF Written, ViewsInv, VersionsInv, LedgersOK
<1>12. Known' \subseteq Known \union {x} /\ x \in Known' /\ Known \subseteq Known' \union {w}
  BY <1>3, <1>11 DEF Known
<1>13. PlacesOK'
  <2>1. Coherent(Known')
    <3>1. Placed(x) /\ Placed(w)
      BY <1>1, <1>2, KnownPath DEF Placed
    <3>2. Coherent(Known \union {x})
      BY <1>1, <1>2, <1>4, <3>1 DEF Coherent
    <3> QED
      BY <1>12, <3>2 DEF Coherent
  <2>2. Ids(Written) \subseteq Ids(Written') /\ Written \subseteq Written'
    BY <1>11 DEF Ids
  <2>3. \A u \in Known \union {x} : u.file[1] \in Ids(Written') \union {u.id}
    BY <1>1, <1>2, <2>2 DEF ViewsInv, PlacesOK
  <2>4. \A u \in Known \union {x} : u.path = MainPath /\ u.parent # 0 =>
           \E t \in Written' : t.id = u.parent /\ t.path = MainPath
    BY <1>1, <1>2, <2>2 DEF ViewsInv, PlacesOK
  <2> QED
    BY <1>12, <2>1, <2>3, <2>4 DEF PlacesOK
<1>14. Finishes(n, c, L, N)
  <2>1. c \notin applies
    BY KindsApart
  <2>2. ledger'[n] = L /\ \A m \in Nodes : m # n => ledger'[m] = ledger[m]
    BY <1>1, <1>3 DEF ViewsInv, VersionsInv, LedgersOK
  <2>3. rows'[n] = N /\ \A m \in Nodes : m # n => rows'[m] = rows[m]
    BY <1>1, <1>3 DEF ViewsInv, VersionsInv, RowsOK
  <2> QED
    BY <1>3, <2>1, <2>2, <2>3 DEF Finishes
<1>15. Alone(n, c, x)
  <2>1. \A d \in applies : d.at \in Nodes /\ d.new \in Written
    BY KnownVersions, NodeRows
  <2> QED
    BY <1>1, <1>2, <2>1 DEF Alone, Ids
<1>16. Rewritten(n, L, N, w)
  <2>1. \A file : file # w.file => Of(L, file) = Of(ledger[n], file)
    BY <1>0, <1>2 DEF Of
  <2> QED
    BY <1>0, <1>5, <1>6, <1>7, <1>8, <1>9, <1>10, <2>1 DEF Rewritten
<1>17. SameFiles(Known, Known')
  BY <1>1, <1>2, <1>12 DEF SameFiles
<1>18. Written # {} \/ (n \in Creators /\ w.path = MainPath)
  BY DEF ViewsInv, Genesis
<1>19. /\ n \in Nodes /\ w \in Known /\ x \in L /\ c \in commits \union applies
       /\ c.at = n /\ c.new.file = w.file /\ x.file = w.file
  BY <1>0, <1>1, <1>2
<1>20. ViewsInv /\ Undisturbed /\ VersionsInv'
  OBVIOUS
<1> HIDE DEF n, R, w
<1> QED
  BY ONLY <1>13, <1>14, <1>15, <1>16, <1>17, <1>18, <1>19, <1>20, ViewsWrite

\* A fault: handlers end without having done their work.
LEMMA ViewsFault ==
    ASSUME ViewsInv, VersionsInv', UNCHANGED <<ledger, rows, raced>>,
           requests' \subseteq requests, commits' \subseteq commits, applies' \subseteq applies,
           skipped \subseteq skipped',
           \A a \in applies \ applies' : <<a.at, a.new.file>> \in skipped'
    PROVE  ViewsInv'
<1>1. Written' = Written /\ Known' \subseteq Known /\ \A n, file : Raced(n, file)' = Raced(n, file)
  BY DEF Written, Known, Raced
<1>2. JobsApart'
  <2>1. \A c, d \in commits' : c \in commits /\ d \in commits
    OBVIOUS
  <2>2. \A a, b \in applies' : a \in applies /\ b \in applies
    OBVIOUS
  <2> QED
    BY <1>1, <2>1, <2>2 DEF ViewsInv, JobsApart
<1>3. PlacesOK'
  BY <1>1 DEF ViewsInv, PlacesOK, Coherent
<1>4. RowsPlaced'
  BY DEF ViewsInv, RowsPlaced
<1>5. RequestsPlaced'
  <2> SUFFICES ASSUME NEW q \in requests', ~(q.path = MainPath /\ q.at \in Creators)
               PROVE  \E r \in rows[q.at], v \in Known' : MainOf(r, v) /\ r.path = q.path
    BY DEF RequestsPlaced
  <2>1. PICK r \in rows[q.at], v \in Known : MainOf(r, v) /\ r.path = q.path
    BY DEF ViewsInv, RequestsPlaced
  <2>2. r.path = MainPath \/ \E y : r.path = <<0, y>>
    BY <2>1, KnownPath DEF MainOf
  <2>3. PICK u \in ledger[q.at] : MainOf(r, u)
    BY <2>2, KnownVersions, MainRow
  <2>4. u \in Written /\ Written \subseteq Known'
    BY <1>1, KnownVersions, NodeRows DEF Known
  <2> QED
    BY <2>1, <2>3, <2>4
<1>6. Genesis'
  <2>1. \A p, q \in requests' : p \in requests /\ q \in requests
    OBVIOUS
  <2>2. \A c, d \in commits' : c \in commits /\ d \in commits
    OBVIOUS
  <2> QED
    BY <1>1, <2>1, <2>2 DEF ViewsInv, Genesis
<1>7. SlicesOK'
  <2> SUFFICES ASSUME NEW n \in Nodes, NEW v \in Known, <<n, v.file>> \notin raced \union skipped',
                      \A a \in applies' : a.at = n /\ a.new.file = v.file => a.step # "replace"
               PROVE  Slice(rows[n], v.file) = Face(Settled(n, v.file)', v.file, v.path)
    BY <1>1 DEF SlicesOK
  <2>1. \A a \in applies : a.at = n /\ a.new.file = v.file => a \in applies'
    OBVIOUS
  <2>2. Settled(n, v.file)' = Settled(n, v.file)
    BY <2>1 DEF Settled
  <2>3. <<n, v.file>> \notin raced \union skipped
    OBVIOUS
  <2> QED
    BY <2>1, <2>2, <2>3 DEF ViewsInv, SlicesOK
<1>8. CommitsBased'
  BY <1>1 DEF ViewsInv, CommitsBased
<1>9. AppliesBased'
  BY <1>1 DEF ViewsInv, AppliesBased, ApplyBased
<1> QED
  BY <1>2, <1>3, <1>4, <1>5, <1>6, <1>7, <1>8, <1>9 DEF ViewsInv

\* Every step.
LEMMA ViewsNext ==
    ASSUME ViewsInv, Undisturbed, [Next]_vars
    PROVE  ViewsInv'
<1>1. VersionsInv'
  BY VersionsNext DEF ViewsInv
<1>2. CASE UNCHANGED vars
  <2>1. UNCHANGED <<ledger, rows, requests, commits, applies, accidents>>
    BY <1>2 DEF vars, accidents
  <2>2. RequestsPlaced' /\ Genesis'
    BY <2>1 DEF ViewsInv, RequestsPlaced, Genesis, Known, Written
  <2> QED
    BY <1>1, <2>1, <2>2, ViewsRequest
<1>3. CASE Write
  BY <1>1, <1>3, ViewsPutExisting, ViewsPutNew, ViewsRestore, ViewsUpload, ViewsAbort, ViewsClose,
     ViewsCommit DEF Write
<1>4. CASE ApplyStep
  BY <1>1, <1>4, ViewsReceive, ViewsLook, ViewsUpsertFile, ViewsList, ViewsReplaceViews
  DEF ApplyStep
<1>5. CASE Faulty
  <2>1. ASSUME NEW c \in commits, FailCommit(c) PROVE ViewsInv'
    BY <1>1, <2>1, ViewsFault DEF FailCommit
  <2>2. ASSUME NEW a \in applies, SkipEvent(a) PROVE ViewsInv'
    <3>1. /\ applies' = applies \ {a} /\ skipped' = skipped \union {<<a.at, a.new.file>>}
          /\ UNCHANGED <<ledger, rows, requests, commits, raced>>
      BY <2>2 DEF SkipEvent
    <3>2. \A b \in applies \ applies' : <<b.at, b.new.file>> \in skipped'
      BY <3>1
    <3>3. /\ UNCHANGED <<ledger, rows, raced>> /\ requests' \subseteq requests
          /\ commits' \subseteq commits /\ applies' \subseteq applies /\ skipped \subseteq skipped'
      BY <3>1
    <3> QED
      BY <1>1, <3>2, <3>3, ViewsFault
  <2>3. ASSUME NEW n \in Nodes, Restart(n) PROVE ViewsInv'
    <3>1. /\ UNCHANGED <<ledger, rows, raced>> /\ requests' \subseteq requests
          /\ commits' \subseteq commits /\ applies' = {a \in applies : a.at # n}
          /\ skipped' = skipped \union {<<n, a.new.file>> : a \in {b \in applies : b.at = n}}
      BY <2>3 DEF Restart
    <3>2. \A b \in applies \ applies' : <<b.at, b.new.file>> \in skipped'
      BY <3>1
    <3>3. applies' \subseteq applies /\ skipped \subseteq skipped'
      BY <3>1
    <3> QED
      BY <1>1, <3>1, <3>2, <3>3, ViewsFault
  <2> QED
    BY <1>5, <2>1, <2>2, <2>3 DEF Faulty
<1> QED
  BY <1>2, <1>3, <1>4, <1>5 DEF Next

\* ViewsInv is an invariant: whatever handlers overlap and whatever fails, the
\* rows of a file that had no accident since it was last rebuilt show what its
\* versions determine.
THEOREM ViewsInvariant ==
    ASSUME Undisturbed
    PROVE  Spec => []ViewsInv
<1>1. Init => ViewsInv
  BY ViewsInit
<1>2. ViewsInv /\ [Next]_vars => ViewsInv'
  BY ViewsNext
<1> QED
  BY <1>1, <1>2, PTL DEF Spec

-----------------------------------------------------------------------------
(* What users see is the projection of the ledger *)

\* No handler of node n works on the file, and no accident waits to be mended.
Calm(n, file) == JobsOn(n, file) = {} /\ <<n, file>> \notin raced \union skipped

\* Where a file is calm its rows show all versions that the node holds.
LEMMA CalmRows ==
    ASSUME ViewsInv, NEW n \in Nodes, NEW v \in ledger[n], Calm(n, v.file)
    PROVE  /\ RowsOf(n, v.file) = Face(Of(ledger[n], v.file), v.file, v.path)
           /\ Family(Of(ledger[n], v.file), v) /\ Of(ledger[n], v.file) # {}
<1>1. v \in Known /\ v \in Of(ledger[n], v.file)
  BY NodeRows DEF Of
<1>2. \A a \in applies : ~(a.at = n /\ a.new.file = v.file)
  BY DEF Calm, JobsOn
<1>3. Settled(n, v.file) = Of(ledger[n], v.file)
  BY <1>2 DEF Settled, Of
<1>4. Slice(rows[n], v.file) = Face(Settled(n, v.file), v.file, v.path)
  BY <1>1, <1>2 DEF ViewsInv, SlicesOK, Calm
<1>5. RowsOf(n, v.file) = Slice(rows[n], v.file)
  BY DEF RowsOf, Slice
<1>6. Family(Of(ledger[n], v.file), v)
  BY <1>1, HeldFamily
<1> QED
  BY <1>1, <1>3, <1>4, <1>5, <1>6

\* While no handler of a node works on a file, what users see of it there is
\* determined by the ledger of the node (rebuildConcurrentFileViews), in whatever
\* order versions arrived, whichever handlers overlapped and whatever failed
\* before the last rebuild that had the file to itself.
THEOREM ProjectedHolds ==
    ASSUME Undisturbed
    PROVE  Spec => []Projected
<1>1. ViewsInv => Projected
  <2> SUFFICES ASSUME ViewsInv, NEW n \in Nodes
               PROVE  /\ \A r \in rows[n] : \E v \in ledger[n] : r \in RowsOf(n, v.file)
                      /\ \A v \in ledger[n] : Calm(n, v.file) =>
                            RowsOf(n, v.file) = Projection(ListFileVersions(n, v.file), v.file, v.path)
    BY DEF Projected, Calm
  <2>1. ASSUME NEW r \in rows[n] PROVE \E v \in ledger[n] : r \in RowsOf(n, v.file)
    <3>1. PICK v \in ledger[n] : BelongsTo(r, v)
      BY NodeRows DEF Placements
    <3>2. Placed(v)
      BY <3>1, NodeRows, KnownPath
    <3> QED
      BY <3>1, <3>2, InSlice DEF RowsOf
  <2>2. ASSUME NEW v \in ledger[n], Calm(n, v.file)
        PROVE  RowsOf(n, v.file) = Projection(ListFileVersions(n, v.file), v.file, v.path)
    <3>1. ListFileVersions(n, v.file) = Of(ledger[n], v.file)
      BY DEF ListFileVersions, Of
    <3> QED
      BY <2>2, <3>1, CalmRows DEF Face
  <2> QED
    BY <2>1, <2>2
<1> QED
  BY <1>1, ViewsInvariant, PTL

\* "Cross-node arrival order must not change the final file projection"
\* (docs/architecture-decisions.md:257), file by file: two nodes that hold the
\* same versions of a file, calm at both, show the same rows of it.
SameWhereCalm ==
    \A m, n \in Nodes : \A v \in ledger[m] :
        /\ Calm(m, v.file) /\ Calm(n, v.file)
        /\ ListFileVersions(m, v.file) = ListFileVersions(n, v.file)
        => RowsOf(m, v.file) = RowsOf(n, v.file)

\* What run views_create refutes of all usage holds of undisturbed usage.
THEOREM ConvergedWhereCalm ==
    ASSUME Undisturbed
    PROVE  Spec => []SameWhereCalm
<1>1. Projected => SameWhereCalm
  <2> SUFFICES ASSUME Projected, NEW m \in Nodes, NEW n \in Nodes, NEW v \in ledger[m],
                      Calm(m, v.file), Calm(n, v.file),
                      ListFileVersions(m, v.file) = ListFileVersions(n, v.file)
               PROVE  RowsOf(m, v.file) = RowsOf(n, v.file)
    BY DEF SameWhereCalm
  <2>1. v \in ledger[n]
    BY DEF ListFileVersions
  <2> QED
    BY <2>1 DEF Projected, Calm
<1> QED
  BY <1>1, ProjectedHolds, PTL

\* "Conflicting writes must not be silently overwritten"
\* (docs/architecture-decisions.md:53), file by file: a version that no other one
\* supersedes is listed, on the path of its file or as a conflict copy.
HeadsShownWhereCalm ==
    \A n \in Nodes : \A v \in Heads(ledger[n]) :
        Calm(n, v.file) => \E r \in rows[n] : r.version = v.id

\* What run views_copy refutes of all usage holds as long as nobody writes to a
\* copy.
THEOREM HeadsShownHolds ==
    ASSUME Undisturbed
    PROVE  Spec => []HeadsShownWhereCalm
<1>1. ViewsInv => HeadsShownWhereCalm
  <2> SUFFICES ASSUME ViewsInv, NEW n \in Nodes, NEW v \in Heads(ledger[n]), Calm(n, v.file)
               PROVE  \E r \in rows[n] : r.version = v.id
    BY DEF HeadsShownWhereCalm
  <2> DEFINE V == Of(ledger[n], v.file)
  <2>1. v \in ledger[n] /\ v \in Heads(V)
    BY DEF Heads, Of
  <2>2. RowsOf(n, v.file) = Face(V, v.file, v.path) /\ Family(V, v) /\ V # {}
    BY <2>1, CalmRows
  <2> HIDE DEF V
  <2>3. \E r \in RowsOf(n, v.file) : r.version = v.id
    BY <2>1, <2>2, FaceRows
  <2> QED
    BY <2>3 DEF RowsOf
<1> QED
  BY <1>1, ViewsInvariant, PTL

-----------------------------------------------------------------------------
(* The normal path follows one branch *)

\* A file on the path has all versions on the path that its versions continue.
LEMMA MainCloses ==
    ASSUME NEW K, NEW W, Coherent(K), Distinct(W), W \subseteq K,
           \A u \in K : u.path = MainPath /\ u.parent # 0 =>
              \E w \in W : w.id = u.parent /\ w.path = MainPath,
           NEW L, L \subseteq W, L \subseteq Version, NEW v \in L, v.path = MainPath
    PROVE  \A u \in Of(L, v.file), w \in L : w.id = u.parent => w \in Of(L, v.file)
<1> SUFFICES ASSUME NEW u \in Of(L, v.file), NEW w \in L, w.id = u.parent
             PROVE  w.file = v.file
  BY DEF Of
<1>1. u \in L /\ u \in K /\ w \in K /\ v \in K /\ u.file = v.file
  BY DEF Of
<1>2. u.path = MainPath
  BY <1>1 DEF Coherent
<1>3. w.id # 0
  BY IdsAssumption, Fields
<1>4. PICK t \in W : t.id = u.parent /\ t.path = MainPath
  BY <1>1, <1>2, <1>3
<1>5. w = t
  BY <1>4 DEF Distinct
<1> QED
  BY <1>1, <1>4, <1>5 DEF Coherent

\* A version succeeds the one it was written on.
LEMMA ChildSucceeds ==
    ASSUME NEW V, Graph(V), NEW x \in V, x.parent # 0
    PROVE  Succeeds(V, x.id, x.parent)
<1> DEFINE p == VersionPath(V, x.id)
           q == VersionPath(V, x.parent)
<1>1. x.id \in Nat \ {0} /\ x.parent \in Nat \ {0} /\ ParentIn(V, x.id) = x.parent
  BY ParentOf DEF Graph, Links
<1>2. p = Append(q, x.id) /\ q \in Seq(Nat)
  BY <1>1, PathStep
<1>3. Len(q) \in Nat \ {0} /\ q[Len(q)] = x.parent
  BY <1>1, PathEnd
<1> HIDE DEF p, q
<1>4. Len(q) \in 1 .. Len(p) /\ p[Len(q)] = x.parent
  BY <1>1, <1>2, <1>3
<1> QED
  BY <1>4 DEF Succeeds, p

\* A write of another file leaves the row on the path alone.
LEMMA MainStays ==
    ASSUME ViewsInv, NEW n \in Nodes, NEW r \in rows[n], r.path = MainPath,
           NEW w \in Known, w.file # r.file
    PROVE  r \in UpsertFiles(rows[n], {RowOf(w)})
<1>1. PICK v \in ledger[n] : MainOf(r, v)
  BY MainRow
<1>2. v \in Known
  BY NodeRows
<1>3. v.path = MainPath /\ v.file = r.file /\ w.path # v.path
  BY <1>1, <1>2 DEF MainOf, ViewsInv, PlacesOK, Coherent
<1> QED
  BY <1>3 DEF UpsertFiles, RowOf

\* A write.
LEMMA MainCommit ==
    ASSUME ViewsInv, VersionsInv', NEW c \in commits, CommitFilePut(c), c.at \in Nodes,
           NEW r \in rows[c.at], r.path = MainPath, ~Raced(c.at, r.file)
    PROVE  \E s \in rows'[c.at] :
              /\ s.path = MainPath /\ s.file = r.file
              /\ s.version = r.version \/ Succeeds(ledger'[c.at], s.version, r.version)
<1> DEFINE n == c.at
           w == c.new
           x == [w EXCEPT !.seq = NextSeq(n)]
<1>1. w \in Known /\ w \in Version
  BY KnownVersions
<1>2. ledger'[n] = ledger[n] \union {x} /\ rows'[n] = UpsertFiles(rows[n], {RowOf(w)})
  BY DEF CommitFilePut, ViewsInv, VersionsInv, LedgersOK, RowsOK
<1>3. CASE w.file # r.file
  <2>1. r \in UpsertFiles(rows[n], {RowOf(w)})
    BY <1>1, <1>3, MainStays
  <2> QED
    BY <1>2, <2>1
<1>4. CASE w.file = r.file
  <2>1. PICK v \in ledger[n] : MainOf(r, v) /\ r.version = v.id
    BY MainRow
  <2>2. v \in Known /\ v \in Written
    BY NodeRows
  <2>3. w.path = MainPath
    BY <1>1, <1>4, <2>1, <2>2 DEF MainOf, ViewsInv, PlacesOK, Coherent
  <2>4. w.parent = r.version
    BY <1>4 DEF ViewsInv, CommitsBased
  <2>5. r.version # 0
    BY <2>1, <2>2, KnownVersions, Fields
  <2>6. x.id = w.id /\ x.parent = w.parent
    BY <1>1 DEF Version
  <2>7. Graph(ledger'[n])
    <3>1. ledger'[n] \subseteq Written' /\ IsFiniteSet(ledger'[n]) /\ ledger'[n] \subseteq Version
      BY DEF Written, VersionsInv, LedgersOK
    <3>2. Links(ledger'[n])
      BY <3>1, Fields DEF Links
    <3> QED
      BY <3>1, <3>2 DEF Graph, VersionsInv, WrittenOK, Distinct, Acyclic
  <2>8. Succeeds(ledger'[n], w.id, r.version)
    <3> DEFINE V == ledger'[n]
    <3>1. PICK y : y = x
      OBVIOUS
    <3>2. Graph(V) /\ y \in V /\ y.parent # 0 /\ y.id = w.id /\ y.parent = r.version
      BY <1>2, <2>4, <2>5, <2>6, <2>7, <3>1
    <3> HIDE DEF V
    <3>3. Succeeds(V, y.id, y.parent)
      BY <3>2, ChildSucceeds
    <3> QED
      BY <3>2, <3>3 DEF V
  <2>9. RowOf(w) \in rows'[n] /\ RowOf(w).path = w.path /\ RowOf(w).file = w.file
        /\ RowOf(w).version = w.id
    BY <1>2 DEF UpsertFiles, RowOf
  <2> QED
    BY <1>4, <2>3, <2>8, <2>9
<1> QED
  BY <1>3, <1>4

\* The first version of a file that a node hears of.
LEMMA MainUpsertFile ==
    ASSUME ViewsInv, NEW a \in applies, UpsertFile(a), a.at \in Nodes,
           NEW r \in rows[a.at], r.path = MainPath, ~Raced(a.at, r.file)
    PROVE  r \in rows'[a.at]
<1>1. a.step = "upsert" /\ ApplyBased(a) /\ a.new \in Known
  BY KnownVersions, NodeRows DEF UpsertFile, ViewsInv, AppliesBased
<1>2. a.views = {RowOf(a.new)} /\ a.new.file # r.file
  BY <1>1 DEF ApplyBased
<1>3. rows'[a.at] = UpsertFiles(rows[a.at], a.views)
  BY DEF UpsertFile, ViewsInv, VersionsInv, RowsOK
<1> QED
  BY <1>1, <1>2, <1>3, MainStays

\* A rebuild.
LEMMA MainReplaceViews ==
    ASSUME ViewsInv, NEW a \in applies, ReplaceViews(a), a.at \in Nodes,
           NEW r \in rows[a.at], r.path = MainPath, ~Raced(a.at, r.file)
    PROVE  \E s \in rows'[a.at] :
              /\ s.path = MainPath /\ s.file = r.file
              /\ s.version = r.version \/ Succeeds(ledger[a.at], s.version, r.version)
<1> DEFINE n == a.at
           f == a.new
           L == ledger[n]
           R == rows[n]
           W == a.views
           V == Of(L, f.file)
           N == ReplaceConcurrentFileViews(R, f.file, W)
<1>1. /\ f \in L /\ f \in Known /\ a.step = "replace" /\ a.file = f.file
      /\ Coherent(Known) /\ L \subseteq Known /\ L \subseteq Written /\ Placements(R, L)
  BY KnownVersions, NodeRows DEF ReplaceViews, ViewsInv, VersionsInv, AppliesOK
<1>2. rows'[n] = N
  BY <1>1 DEF ReplaceViews, ViewsInv, VersionsInv, RowsOK
<1>3. /\ \A s \in W : BelongsTo(s, f)
      /\ \E s \in W : MainOf(s, f)
      /\ ~Raced(n, f.file) => W = Views(V, f.file, f.path)
  BY <1>1 DEF ViewsInv, AppliesBased, ApplyBased
<1>4. PICK v \in L : MainOf(r, v) /\ r.version = v.id
  BY MainRow
<1>5. v \in Known /\ v.path = MainPath /\ v.file = r.file /\ (v.file = f.file <=> v.path = f.path)
  BY <1>1, <1>4 DEF MainOf, Coherent
<1>6. /\ \A u \in Known : u.file # f.file => Slice(N, u.file) = Slice(R, u.file)
      /\ Slice(N, f.file) = W
  <2> DEFINE K == Known
  <2>1. PICK m \in W : MainOf(m, f)
    BY <1>3
  <2>2. PICK M : M = N
    OBVIOUS
  <2>3. /\ Coherent(K) /\ L \subseteq K /\ Placements(R, L) /\ f \in K
        /\ \A s \in W : BelongsTo(s, f)
        /\ m \in W /\ MainOf(m, f) /\ M = ReplaceConcurrentFileViews(R, f.file, W)
    BY <1>1, <1>3, <2>1, <2>2
  <2> HIDE DEF K, W, L, R, f, N
  <2>4. /\ \A u \in K : u.file # f.file => Slice(M, u.file) = Slice(R, u.file)
        /\ Slice(M, f.file) = W
    BY ONLY <2>3, SliceReplace
  <2> QED
    BY <2>2, <2>4 DEF K
<1>7. CASE f.file # r.file
  <2>1. r \in Slice(R, v.file)
    <3>1. Placed(v) /\ BelongsTo(r, v)
      BY <1>4, <1>5, KnownPath DEF BelongsTo
    <3> QED
      BY <3>1, InSlice DEF Slice
  <2>2. r \in Slice(N, v.file)
    BY <1>5, <1>6, <1>7, <2>1
  <2>3. r \in N
    BY <2>2 DEF Slice
  <2> QED
    BY <1>2, <2>3
<1>8. CASE f.file = r.file
  <2>1. W = Views(V, f.file, f.path) /\ v \in V /\ V \subseteq L
    BY <1>3, <1>4, <1>5, <1>8 DEF Of
  <2>2. Family(V, f) /\ V # {}
    BY <1>1, <2>1, HeldFamily
  <2>3. PICK s \in W : MainOf(s, f) /\ s.version = Winner(V).id
    <3> HIDE DEF V, W
    <3> QED
      BY <2>1, <2>2, ViewsBelong
  <2>4. s \in N
    BY <1>6, <2>3 DEF Slice
  <2>5. Succeeds(V, s.version, v.id)
    <3> HIDE DEF V
    <3>1. Graph(V) /\ v \in V
      BY <2>1, <2>2 DEF Family
    <3> QED
      BY <2>3, <3>1, WinnerPrevails DEF Succeeds
  <2>6. VersionPath(V, s.version) = VersionPath(L, s.version)
        /\ VersionPath(V, v.id) = VersionPath(L, v.id)
    <3>1. Graph(L) /\ L \subseteq Version
      BY PartGraph DEF ViewsInv
    <3>2. \A u \in V, w \in L : w.id = u.parent => w \in V
      <4>1. /\ Coherent(Known) /\ Distinct(Written) /\ Written \subseteq Known
            /\ \A u \in Known : u.path = MainPath /\ u.parent # 0 =>
                  \E w \in Written : w.id = u.parent /\ w.path = MainPath
        BY KnownVersions DEF ViewsInv, VersionsInv, WrittenOK, PlacesOK
      <4>2. f.path = MainPath
        BY <1>5, <1>8
      <4> HIDE DEF L, f
      <4> QED
        BY <1>1, <3>1, <4>1, <4>2, MainCloses
    <3>3. Winner(V) \in V
      BY <2>2, ViewsRows
    <3> HIDE DEF V, L
    <3> QED
      BY <2>1, <2>3, <3>1, <3>2, <3>3, PathInPart
  <2>7. Succeeds(L, s.version, r.version)
    <3> HIDE DEF V, L
    <3> QED
      BY <1>4, <2>5, <2>6 DEF Succeeds
  <2> QED
    BY <1>2, <1>5, <1>8, <2>3, <2>4, <2>7 DEF MainOf
<1> QED
  BY <1>7, <1>8

\* One step of MainBranch.
LEMMA MainStep ==
    ASSUME ViewsInv, ViewsInv', [Next]_vars, NEW n \in Nodes,
           NEW r \in rows[n], r.path = MainPath, <<n, r.file>> \notin raced
    PROVE  \E s \in rows'[n] :
              /\ s.path = MainPath /\ s.file = r.file
              /\ s.version = r.version \/ Succeeds(ledger'[n], s.version, r.version)
<1>1. VersionsInv' /\ ~Raced(n, r.file)
  BY DEF ViewsInv, Raced
<1>2. CASE rows'[n] = rows[n]
  BY <1>2
<1>3. ASSUME NEW c \in commits, CommitFilePut(c)
      PROVE  rows'[n] = rows[n] \/ (c.at = n /\ c.at \in Nodes)
  <2>1. c.at \in Nodes
    BY KnownVersions
  <2> QED
    BY <1>3, <2>1 DEF CommitFilePut, ViewsInv, VersionsInv, RowsOK
<1>4. ASSUME NEW a \in applies, UpsertFile(a) \/ ReplaceViews(a)
      PROVE  rows'[n] = rows[n] \/ (a.at = n /\ a.at \in Nodes)
  <2>1. a.at \in Nodes
    BY KnownVersions
  <2> QED
    BY <1>4, <2>1 DEF UpsertFile, ReplaceViews, ViewsInv, VersionsInv, RowsOK
<1>5. \/ rows' = rows
      \/ \E c \in commits : CommitFilePut(c)
      \/ \E a \in applies : UpsertFile(a) \/ ReplaceViews(a)
  <2>1. CASE UNCHANGED vars
    BY <2>1 DEF vars
  <2>2. CASE Write
    BY <2>2 DEF Write, PutExisting, PutNew, BeginPut, RestoreVersion, Upload, BeginCommit, Abort, Close
  <2>3. CASE ApplyStep
    BY <2>3 DEF ApplyStep, Receive, Look, ListVersions
  <2>4. CASE Faulty
    BY <2>4 DEF Faulty, FailCommit, SkipEvent, Restart
  <2> QED
    BY <2>1, <2>2, <2>3, <2>4 DEF Next
<1>6. ASSUME NEW c \in commits, CommitFilePut(c), c.at = n
      PROVE  \E s \in rows'[n] :
                /\ s.path = MainPath /\ s.file = r.file
                /\ s.version = r.version \/ Succeeds(ledger'[n], s.version, r.version)
  BY <1>1, <1>6, MainCommit
<1>7. ASSUME NEW a \in applies, UpsertFile(a), a.at = n
      PROVE  r \in rows'[n]
  BY <1>1, <1>7, MainUpsertFile
<1>8. ASSUME NEW a \in applies, ReplaceViews(a), a.at = n
      PROVE  \E s \in rows'[n] :
                /\ s.path = MainPath /\ s.file = r.file
                /\ s.version = r.version \/ Succeeds(ledger'[n], s.version, r.version)
  <2>1. ledger' = ledger
    BY <1>8 DEF ReplaceViews
  <2> QED
    BY <1>1, <1>8, <2>1, MainReplaceViews
<1> QED
  BY <1>2, <1>3, <1>4, <1>5, <1>6, <1>7, <1>8

\* The file on the normal path changes only to a later version of itself or to a
\* concurrent branch that precedes it in the version graph, never back to a
\* version it has passed, whatever a write or an event does to the rows
\* (rebuildConcurrentFileViews, UpsertFileWithEvent), unless handlers that
\* overlapped on the file have left it in a mess that is not mended yet.
THEOREM MainBranchHolds ==
    ASSUME Undisturbed
    PROVE  Spec => MainBranch
<1>1. ViewsInv /\ ViewsInv' /\ [Next]_vars =>
        [\A n \in Nodes : \A r \in GetFile(n, MainPath) :
            <<n, r.file>> \notin raced =>
                \E s \in GetFile(n, MainPath)' :
                    /\ s.file = r.file
                    /\ s.version = r.version \/ Succeeds(ledger'[n], s.version, r.version)]_vars
  BY MainStep DEF GetFile
<1> QED
  BY <1>1, ViewsInvariant, PTL DEF Spec, MainBranch

=============================================================================
