# PocketCluster: a formal model

This directory models PocketCluster in TLA+: the agent (`src/internal`, Go) and the web interface that
its users work with (`src/web`, React). TLC checks the modules on small instances, TLAPS proves their
safety for instances of every size: the event log, file versions and the rows users see, membership,
evacuation and the pages. The code is the reference: each definition names, in `PROJECT.json` ("map"),
the lines it stands for.

## The system

An agent is one process per device. It keeps a SQLite database (`store.go`, one connection, so its
calls are serialised), a directory of content-addressed chunks, and a few in-memory structures. The
agents of a pool form no quorum and elect no leader: each of them serves its users from its own
database, and the databases are brought together in the background.

| component | state | operations | how it meets the others |
|---|---|---|---|
| event log and sync (`store/events.go`, `server/sync*.go`, `server/events.go`, `handlers_chunks.go`) | `events`, `peer_pushed_events` | `appendEvent`, `UpsertFileWithEvent`, `pullEvents`, `pushEvents`, `handleGetEvents`, `handlePushEvents`, `applyEvent` | every 2 s a pull and a push goroutine per peer; HTTP between agents; `applyEvent` calls every component below |
| file versions and views (`server/conflicts.go`, `store/file_versions.go`, write side of `webdav.go`, `handlers_files.go`) | `file_versions` (immutable ledger), `files` (what users see) | `commitFilePut`, `applyRemoteFilePut`, rebuild of a file's rows, restore of a version | FILE_PUT events; frees chunks after a rebuild |
| namespace (`store/files.go`, `handlers_files.go`, `webdav.go`) | `files.deleted`, `files.path` | delete, trash, restore, rename, mkdir, purge | change first, event after; applied elsewhere by path or id |
| snapshots (`server/snapshot.go`, `store/snapshots.go`) | `snapshots`, pruning of `events` | scheduler, prune, bootstrap | the pull answer carries the latest snapshot |
| chunks (`chunk.go`, `sync_chunks.go`, `health_scan.go`, `conflicts.go` 228-294) | chunk files, `chunks`, `replicas`, `file_chunks`, under-replicated queue | store, fetch, repair, clean up, verify | sync round, health scan (60 s), hourly tombstone clean-up, jobs |
| evacuation (`node_evacuation.go`) | set of nodes being evacuated | status, evacuate | reads the last health scan |
| membership (`handlers_core.go`, `join.go`, `store/{invites,pending_joins,nodes}.go`) | `invites`, `pending_joins`, `nodes` | invite, request, approve, retire | NODE_JOIN and NODE_UPDATE events; the sync round skips untrusted and offline nodes |
| discovery (`internal/discovery`) | discovered nodes, bounded removal queue | mDNS and external feed | `cmd/agent/main.go` turns it into node rows |
| jobs, tasks, sessions (`jobs.go`, `server.go`, `session.go`) | bounded in-memory lists | upsert, prune; lost in a restart | polled by the web interface |
| files page (`FilesPage.jsx`) | listed files, dialogs, busy flags, a message | load, search, upload, delete, rename, restore, restore a version | the file handlers of its agent; a 3 s refresh while copies are missing |
| nodes page (`NodesPage.jsx`) | cards, the job it follows, invitations, pending joins | evacuate, invite, approve, switch pool | membership, evacuation and jobs; 2 s and 3 s intervals |
| health and tasks pages (`HealthPage.jsx`, `SyncTasksPage.jsx`) | figures, retention field, purge, started task | save, purge, start a job | settings and jobs; 10 s, 5 s and 0.8 s timers |
| start, join and login (`App.jsx`, `AuthPages.jsx`) | which page is shown, one form | create, join, log in | membership and sessions |

The hard part is the same everywhere: a handler is a series of store calls, other handlers of the
same agent run between them, and what an agent learns from its peers arrives in an order it does not
choose, sometimes after a failure and sometimes twice. The pages have the same problem with their
agent: each request is a promise, the answers come in any order or not at all, and a handler goes on
with the state of the render that started it. `PROJECT.json` ("hazards") lists where that
bites, line by line, and the properties that would catch it.

What makes each component correct:

* *log and sync*: one event id, one event; nothing is marked as pushed that is not held; no gaps;
  each event applied once; every logged event gets everywhere;
* *versions and views*: the rows are a function of the ledger; the winner's branch stays on the
  normal path; no head is lost from view; a write supersedes what its client saw;
* *namespace*: delete, restore, rename and purge from several nodes end in the same tree;
* *snapshots*: pruning and bootstrap lose no event a peer still needs and reuse no sequence number;
* *chunks*: no chunk of a live file or a recoverable version is removed; a chunk with one copy is
  copied again while there is a peer to copy it to;
* *evacuation*: a node that is said to be safe has its chunks elsewhere; it is evacuated by one job
  at a time and freed whichever way that ends;
* *membership*: an invite is used once; nobody gets the pool's credentials without an approval, and
  an approved device gets in; an approved node is known to all or still pending;
* *pages*: what they say is under way is, what they announce was done, and what they show catches up
  with the agent.

## Modules

    EventGossip      what replication of the log promises
      ^ implemented by
    EventSync        the sync loop, with its faults     MCEventSync   instances for TLC
      ^ proved in
    EventSyncProofs  theorems about EventSync

    FileViews          versions, rows, conflict copies  MCFileViews   instances for TLC
      ^ proved in
    VersionGraphProofs the version graph, for any set of versions
      ^ used by
    FileViewsProofs    theorems about FileViews

    FilesPage        the files page and its agent       MCFilesPage
      ^ proved in
    FilesPageProofs  theorems about FilesPage

    JobLife          what a list of jobs promises
      ^ implemented by
    Evacuation       safe exit of a node                MCEvacuation
      ^ proved in
    EvacuationProofs theorems about Evacuation

    JobLife
      ^ relied on, as JobLife, by
    NodesPage        cards and evacuation jobs          MCNodesPage
    Maintenance      health and tasks pages             MCMaintenance
      ^ proved in
    NodesPageProofs, MaintenanceProofs

    PoolEntry        start, join, invite, approve       MCPoolEntry
      ^ proved in
    PoolEntryProofs  theorems about PoolEntry

### EventSync

A step is one call on the store. `log`, `pushed` are the tables `events` and `peer_pushed_events`;
`applied` stands for all the metadata tables: the set of mutations in force at a node (a payload is
an element of `Ops`). `appends` holds the handlers that have changed metadata and are inside
`appendEvent` (`ReadSeq` reads `NextSeq`, `InsertOwn` inserts); `CommitWithEvent` is
`UpsertFileWithEvent`, which does it all in one transaction. `SyncOnce` starts a round: `due` holds
its pulls and pushes, which start in any order (`StartPull`, `StartPush`) and whose answers or
bodies become an element of `exchanges`. The receiver feeds the events of an exchange to its store
in `ORDER BY node_id, seq` (`InsertNew`, `InsertKnown`, `ApplyEvent`); exchanges of one node
interleave. `FinishPush` is the answer and, at the pusher, `accepted = expected` and
`MarkEventsPushed`. A round ends when all its exchanges have (`wg.Wait`), or were given up
(`TimeOut`: the handler at the peer runs on). `InsertFails` and `ApplyFails` are store errors, on
which a pull stops and a push handler goes on; `LoseRequest` is a request that never arrives;
`Crash` is a restart, after which only the tables are left.

Left out: the several dial addresses of a peer (another request with the same events), the rewriting
of the address in NODE_JOIN and NODE_UPDATE payloads (only their data), going offline and being
recovered (a node that is not synced with is one whose `SyncOnce` has not run yet), pruning and
snapshots (so the theorems are about logs that have not been pruned).

### EventGossip

The promise, over `log` alone: `Publish` puts an event with a fresh id of the publisher into its log,
`Learn` copies an event from the log of its *origin*. EventSync implements it with `log` as it is.
It is not by construction: relays carry events the origin is not asked for, and the origin itself may
lose the insert of a sequence number it has chosen.

### FileViews

A step is one transaction, or reads that follow each other with no write of the same handler between
them. `ledger` is `file_versions`, `rows` is `files`, both per node. Writes: a WebDAV PUT is
`PutExisting`/`PutNew` (precondition), then `Close` (reads the current row, builds the version) or
`Abort`, then `CommitFilePut`; `RestoreVersion` and `Upload` are one read step and `CommitFilePut`. An
event at another node is `Receive` (`RecordFileVersion`), `Look` (which row decides), and either
`UpsertFile` or `ListVersions` and `ReplaceViews` (the two store calls of `rebuildConcurrentFileViews`).
`requests`, `commits` and `applies` hold what these handlers keep in local variables in between. Handlers
of a node overlap, up to `MaxJobs` of them. A store call may fail: that rolls back the transaction of a
write (`FailCommit`), or it ends an event between `RecordFileVersion` and the rows, after which the event
is never applied again (`SkipEvent`: `handlers_chunks.go:182` goes on with the next one,
`sync_events.go:84` gives up the pull, and to both the event is known from then on). `Restart` does the
same to all handlers of a node. The version graph (`VersionPath`, `CompareVersionPaths`, `Heads`,
`Winner`, `Views`) is written with a recursive function, not `RECURSIVE`, so that it can be proved about:
`VersionPath` walks from a version to its parent, as often as there are versions, which is often enough
because no walk meets a version twice.

There is one user path and the paths derived from it for conflicts. Version ids are random in the
code: numbers in the model, taken in any order, since their order decides who wins. Contents and
times are left out; times only enter the names of conflict copies, which the model keeps distinct by
the version id. Deleting, renaming and the clean-up of chunks are left out.
An event that fails between `InsertEvent` and `RecordFileVersion` leaves no version behind: with
`InOrder` FALSE, as in `views_converge`, it is a version that has not arrived.

Two history variables, which no action reads, say where the rows of a file may be off at a node:
`raced`, handlers of the file have overlapped there, and `skipped`, an event of it was cut short. Both
are taken back by a rebuild that reads the ledger while nobody else works on the file (`Mended`): it
puts the rows right whatever they were.

### FilesPage

One mounted page and its agent. `rows` is the table `files` (only what the page tells apart: live,
deleted, path, whether the copies are safe); `page` holds the `useState` hooks; `requests` the
requests in flight, each with what its closure captured. A request is three steps: an action of the
user or a timer sends it, `ServeList` or `ServeWrite` executes the handler, and one action per
handler (`ListArrives`, `DeleteArrives`, ...) runs the code behind the `await`; `FailRequest` makes it
fail before or after it was served. `Remount` is another tab and back. A write handler is one step
here: what happens between its store calls is the subject of FileViews. `done` is a history variable
for `SuccessIsTrue`.

### JobLife and Evacuation

JobLife is what whoever polls `/api/jobs/{id}` relies on. Evacuation is `node_evacuation.go` with the
scan loop, as run by one agent. A scan is two steps, because it asks the nodes first and writes its
snapshot from the replica rows of a later moment; a copy is one step per request. `disk` is what nodes
really hold and `replicas` what the agent believes; `Arrive`, `CleanUp`, `HearRemoved`, `LoseChunk`,
`GoOffline`, `ComeBack` and `Restart` are the world around. `List` maps the goroutines onto JobLife: a
job is running from the first to the last step of its goroutine. A copy made by the agent changes disk
and row together, and so does `Arrive`, which brings the file and its event.

`CleanUp` is `cleanupChunks`: a node finds that nothing refers to a chunk (which files and versions do
is not in this module, so it may be any chunk) and removes its copy, an ordinary step and no failure.
The agent's own row goes at once; the row of another node goes when its event is heard (`HearRemoved`),
in whatever order, and also if the node has the chunk again by then. The snapshot still counts the copy
until the next scan. `cleaned` is a history variable that says for which chunks it does, and each scan
under way keeps its own. `LoseChunk` is a disk that loses a chunk, or a clean-up that fails or is stopped
when the file is gone and the row is not marked: a fault, and the row stays.

### NodesPage and Maintenance

The pages, with the agent reduced to what they may rely on: `Jobs` is an instance of JobLife, of which
they take the actions, and a card's status changes freely. A load of the nodes page asks for its lists at
once and merges what each has answered (`Merged`): one says whether a node is offline, one whether its
chunks are still to be moved, and they may be of different moments, or one refused. A card puts them
together (`Shown`). Safe and blocked nodes are not told apart (`settled`): neither has a button. A node
that is offline is in the list of evacuations as one whose chunks are to be moved; the card does not show
it. Pending joins, the third list, are in PoolEntry. A save of the retention is refused out of its range
(`InRange`), without a session, or because the file cannot be written. Requests are in slots per kind, so
that one load, one tick and one post are in flight at a time; the interval of the code can send more,
with the answer of an earlier one still to come, which one slot per kind leaves out except between kinds.
Both modules lose sessions and jobs in a `Restart`, as the agent does.

### PoolEntry

Several devices that want to get into a pool, each with its browser and its agent, and one member.
`procs` are calls of `JoinViaBootstrap`: they survive the browser's reload, and an agent that discovers
the member starts one of its own (`AutoJoin`). The discovery is not modelled, nor are the two conditions
of `cmd/agent/main.go` 195-198: the mode is `auto`, and no trusted node is known at the member's address
(the nodes of a pool are stored when it is joined). `agent` has the configuration in memory and on disk,
which differ after a failed save. The start with `-join` is `JoinAtStart`; a failure there ends the
process (`log.Fatalf`), and `Exit` is its restart by the service manager (`scripts/install-service.sh`).
`claims` and `presented` are history variables.

## Runs

| run | question | bounds | result |
|---|---|---|---|
| `sync_safety` | `TypeOK`, `EventIdentity`, `PushedIsHeld`, `AppliedOnce`, `GapFree` under one fault of any kind | 2 nodes that sync with each other, 2 mutations at any of them, batches of 1 | holds, 2.1 million states |
| `sync_relay` | does it implement `EventGossip`; `EventsSpread` under fairness | 3 nodes in a chain, only the outer ones know the middle one; 1 mutation; one fault of any kind | holds, 0.2 million states |
| `sync_race` | `EventuallyConsistent` (docs/metadata-model.md:5) | 2 nodes, 2 mutations, no faults | violated |
| `views_converge` | `TypeOK`, `Projected`, `MainBranch` | 2 nodes that start with no file or with one, 4 versions, any delivery order, 2 handlers per node at a time, 1 fault (a store call or a restart) | holds, 2.5 million states |
| `views_create` | `Converged` (docs/architecture-decisions.md:257) | both nodes may create the file | violated |
| `views_copy` | `HeadsShown` (docs/architecture-decisions.md:53) | users write to conflict copies, 5 versions | violated |
| `views_ifmatch` | `MatchedIsParent` (the same line, for a client that sends If-Match) | one PUT whose body takes time | violated |
| `files_page` | `TypeOK`, `SpinnersHonest`, `SuccessIsTrue`; `SpinnersEnd`, `ReadinessCatchesUp` under fairness | 2 files, 2 requests in flight, 3 user actions, 1 fault | holds, 0.8 million states |
| `evacuation` | `TypeOK`, `OneEvacuation`, `SafeIsTrue`; `CopiesRecounted` and JobLife with its fairness | 3 nodes, 1 chunk with 2 copies, 2 jobs, 1 fault or clean-up of a copy at two of the nodes | holds, 0.35 million states |
| `nodes_page` | `TypeOK`, `AnnouncedTruly`; `TrackingEnds`, `CardsCatchUp` | 2 devices, 2 jobs, 2 user actions, 1 change of a status, lists answered one by one, 1 fault | holds, 0.3 million states |
| `maintenance` | `TypeOK`, `FlagsHonest`; `RetentionCatchesUp`, `PurgeEnds`, `TasksCatchUp` | 2 jobs, 3 user actions, a retention that is in range and one that is not, 1 fault | holds, 0.26 million states |
| `pool_entry` | `TypeOK`, `InviteOnce`, `MembersApproved`; `AnswersCome`, `ApprovedGetsIn` | 2 devices, 1 token, 2 procedures, 3 user actions, 1 poll, 1 fault | holds, 0.4 million states |

Why the bounds are enough to be of interest. With two mutations and batches of one, a pull never sees the
second event and the push needs two rounds, so every property is exercised on partial batches; two
mutations at one node give the race for a sequence number, at two nodes the interleaving of relayed and
own events. One fault of each kind in turn reaches each error path together with all interleavings of the
rest. Batches of two with one mutation (`sync_relay`) are batches that hold the whole log; liveness with
two mutations and a batch of one does not fit five minutes. (So that what is beyond the first 1000 events
of two logs gets everywhere is checked by no run: `EventsSpread` is about batches that hold the whole
log.) Four versions give two branches of different length, three heads where writes of a node overlap,
late parents, and an upload to an occupied path; two handlers are enough for a write and an event, or two
events, that overlap on a file, with a failure of either and a later event that mends it; three nodes do
not finish in the time the runs are given. `CHECK_DEADLOCK FALSE` in all runs but those of EventSync:
when the version ids are used up and all events applied, or the user has done all he does and no job is
left, there may be nothing to do.

In the runs of the pages, the user's actions are the scarce good: three of them are enough to start a
request, close its dialog and start another one, to edit while a save is under way, or to create a pool
while a procedure waits. Two evacuations are enough for a job that is accepted while the page follows
another one, and for overlapping scans of two jobs and the loop. One poll stands for the sixty of the
code: the first answer and a last one. Of two devices it is enough that the first one's status changes
(`Changing`), since nothing else tells them apart. In Evacuation one chunk is enough because jobs treat
chunks one after the other and independently. Faults and clean-ups share one budget there (`MaxUpsets`),
so TLC does not combine the two, and the copies that are cleaned up are those of the agent and of a node
that gets chunks by pushes only (`Cleaners`); the proofs have any number of both, at any node. One
uploader is a bound that `CopiesRecounted` needs: copies that moved between nodes for ever could be
elsewhere whenever a scan asks.

The violated properties are quotations. They come from three causes:

1. `appendEvent` takes a sequence number and uses it in two store calls; the loser's event vanishes
   while its change stays (`sync_race`).
2. A file id is random per creation and a conflict between two files on one path is resolved by
   arrival (`views_create`); the rebuild owns the conflict copies although users may write to them
   (`views_copy`).
3. What a write is based on is read before it commits and not checked again (`views_ifmatch`).

`Projected` and `MainBranch` are therefore checked, and proved, where the causes of the `views_*` runs
are excluded: one node creates the file, nobody writes to conflict copies. Handlers that overlap and
store calls that fail are not excluded. They do leave rows that are not the projection of the ledger: a
rebuild that replaces the rows by what it read before a write (`conflicts.go:92`), a write that commits
over a row it read before an event, an event that is skipped when its version is already in the ledger.
The properties say how far this goes, with `raced` and `skipped`. `Projected` is about the files of a
node that nobody works on there and that have no such accident behind them since their last undisturbed
rebuild; one file's accidents do not touch another's rows. `MainBranch`, that the normal path never goes
back to a version it has passed, is about files without an overlap only: a rebuild that was overtaken by
a write does take the path back to an ancestor, whereas a failure or a restart never does. The code
rebuilds a file only when a version of it arrives, so an accident may stay for good.

`SafeIsTrue` is about the chunks that the agent has rows for, and says for which of them a node may be
called safe on a count that is out of date although nothing failed: those with a copy that was cleaned up
since (`cleaned`). Such a chunk was of no use when it was removed; one that is uploaded again with the
same content is called safe on the old count until the next scan, which `CopiesRecounted` says comes.

### Fairness

`FairSpec` assumes weak fairness of the sync round of each node, of each pull and push of a round
(its start and the feeding of its events), and of the two steps of `appendEvent`. The code justifies
it: the ticker of `StartSync` fires every 2 s and `SyncOnce` waits for its goroutines only, each
request is cut off after 15 s (`syncRequestTimeout`), a started goroutine is scheduled and the store
answers. No fairness is assumed of users or faults. `LoseRequest` may always pre-empt one request,
but only as often as the fault budget allows: liveness is claimed once the network works.

For the pages: intervals fire, a request that was sent is served and its answer arrives (or its failure
does), files get their copies (the repair loop of the health scan), jobs run. Users do nothing they
need not do. For Evacuation: the scan loop (`StartHealthScan`, a ticker) and each goroutine go on. For
PoolEntry: requests and procedures go on, and a process that exited is started again. `WF(AutoJoin)` says
that a device without a pool asks the member again and again: this assumes that it runs in the mode
`auto`, and that the discovery finds the member at an address of no trusted node it knows
(`main.go` 187-204). `ApprovedGetsIn` is claimed for such devices; in the mode `invite` a device whose
procedure has ended asks again only when its user does.

Some liveness properties name what they except, because the code gives no more:

* `TrackingEnds`: if the load after the end of an evacuation fails, the handler of `NodesPage.jsx:164`
  stops before it lets go of the job, with its interval cleared (`Stuck`), until the page is remounted;
* `PurgeEnds`: `HealthPage.jsx:77` arms the next poll from the answer to the last one, so that one
  lost or refused answer was the last (`PollLost`);
* `RetentionCatchesUp`, `CardsCatchUp`, `TasksCatchUp`: a page whose session is gone keeps what it has.

## Proofs

`EventSyncProofs` proves, for any `Nodes`, `Ops`, `Links`, `BatchLimit` and any set of fault
budgets, from `Spec` and the named assumptions on the constants only:

| theorem | says |
|---|---|
| `TypeCorrect` | `Spec => []TypeOK` |
| `IdentityHolds` | `Spec => []EventIdentity` |
| `PushedHolds` | `Spec => []PushedIsHeld` |
| `AppliedOnceHolds` | `Spec => []AppliedOnce` |
| `GapFreeHolds` | `Spec => []GapFree` |
| `ImplementsGossip` | `Spec => Gossip!Spec` |
| `LogInvariant` | the inductive invariant `LogInv` holds |

The argument is in three layers, each inductive relative to the one before.

* `LogInv`: types; `SeqsConsecutive`, the own sequence numbers of a node are `1..k` for some `k`,
  which is what makes `MAX(seq) + 1` fresh; `EventIdentity`; `ExchangesOK`, the events of an exchange
  are split into `todo`, `applying`, `accepted` and what failed, and those inserted or accepted are
  in the receiver's log; `PushedIsHeld`. `EventIdentity` alone is not inductive: that a colliding
  insert is ignored at the origin is only sound because no one can hold an id its origin does not.
* `MutationInv` adds `OpsKnown` and `AppliedKnown`, which tie `applied` and `appends` to the logs,
  and yields `AppliedOnce`.
* `OrderInv` adds `LogsFinite`, `GapFree` and `TodoGapFree`: what is still to be fed of a batch
  continues what the receiver holds. That the first `BatchLimit` events of a finite log are closed
  downwards per origin is the lemma `FirstEventsClosed`.

Each layer has an Init lemma and a Step lemma; the step lemmas are split as Next is (`LocalStep`,
`RoundStep`, `FeedStep`, `Crash`), with one step per action below. The refinement is proved with the
same invariant: `InsertOwn` and `CommitWithEvent` are `Publish` or a stutter, `InsertNew` is `Learn`,
all else leaves `log` alone.

`EvacuationProofs` proves, for any finite `Nodes`, any `Chunks`, `Target`, number of jobs, faults and
clean-ups:

| theorem | says |
|---|---|
| `EvacuationTypes` | `Spec => []TypeOK` |
| `OneEvacuationHolds` | `Spec => []OneEvacuation` |
| `SafeIsTrueHolds` | `Spec => []SafeIsTrue` |
| `ImplementsJobLife` | `Spec => List!Spec`, the safety part of JobLife |
| `EvacuationInvariant` | the inductive invariant `EvacuationInv` holds |

It has two independent parts. `WorldInv` is about chunks: `SafeIsTrue` relates the snapshot to disks it
was not read from, and is inductive with `Honest`: until something fails, what a scan has seen, or the
snapshot counts, is on the disk or was cleaned up since, which `cleaned` knows for either (`SeenThere`,
`CleanUpKeeps`). Nothing is assumed of the replica rows, which removals that are heard late make wrong.
`JobsInv` is about jobs:
`IdsInOrder` makes the next id a free one, `StageOK` ties what the list shows to where the goroutine is,
and `OneEvacuation` is inductive with them. `ScansOfJobs` says that a scan of a job is one it waits for.
A step of a job is a change of its record (`Moves`), which one lemma takes to `JobsInv` (`JobMoves`) and
the refinement takes to a step of JobLife.

`PoolEntryProofs` proves, for any `Joiners`, `Invites`, `Procs` and budgets:

| theorem | says |
|---|---|
| `InviteOnceHolds` | `Spec => []InviteOnce` |
| `MembersApprovedHolds` | `Spec => []MembersApproved` |
| `PoolEntryTyped` | `Spec => []TypeOK` |
| `PoolInvariant`, `EntryInvariant` | the two inductive invariants hold |

`InviteOnce` needs `ClaimsOK`, that a claimed token is used. `MembersApproved` needs the two places the
pool's credentials come from: `AdoptersTrusted`, that a procedure adopts only for an approved device, and
`PoolTrusted`, which extends the claim to the file on disk, since a restart brings that back. The type
invariant says more than types (a session needs credentials, a file on disk is complete, a request
waits for a procedure of its own device) and is inductive with `Entered`: a procedure that has ended well
left credentials behind, and a procedure that a request waits for is not reused (`EndedStays`).

`VersionGraphProofs` is about sets of versions, `FileViewsProofs` about the nodes that hold them. For any
nodes, users, number of handlers and order of arrival:

| theorem | says |
|---|---|
| `VersionsInvariant` | the inductive invariant `VersionsInv` holds |
| `FileViewsTyped` | `Spec => []TypeOK` |

`VersionsInv` says that an id names one version wherever it is held, that a parent was written before
its child, and that what was ever written is acyclic: each non-empty part of it has a head. So every
rebuild finds a winner, which `TypeOK` depends on. It is about all nodes together and not one ledger,
because a child may arrive before its parent.

What the rows show holds only where the causes of the violated runs are excluded. `Undisturbed` says so:
nobody writes to conflict copies, the file of the path is created at one node, and what all nodes hold at
the start is on the path. Nothing is assumed of the number of nodes and versions, of the order of
arrival, of writes, restored versions, uploads and requests that are aborted, of how many handlers of a
node overlap, or of the store calls and processes that fail: the properties themselves name the files
that had such an accident. Under this hypothesis:

| theorem | says |
|---|---|
| `ProjectedHolds` | `Spec => []Projected` |
| `MainBranchHolds` | `Spec => MainBranch` |
| `ConvergedWhereCalm` | nodes that hold the same versions of a file show the same rows of it, where it is calm at both |
| `HeadsShownHolds` | a version that no other supersedes is listed, where its file is calm |
| `ViewsInvariant` | the inductive invariant `ViewsInv` holds |

A file is *calm* at a node when nobody works on it there and neither `raced` nor `skipped` holds it. The
third and fourth theorem are what `views_create` and `views_copy` refute without the hypothesis, file by
file.

`ViewsInv` has in its centre `SlicesOK`: the rows of a file are those of its *settled* versions, all but
those whose events are being applied, unless it had an accident or a rebuild is about to write. It is
inductive with `JobsApart` (two handlers of one file at one node are noted in `raced`), `CommitsBased` (a
write continues what its file shows, if nobody else works on it), `AppliesBased` (what an event is about
to write belongs to its file and, if nobody else works on it, is what the ledger makes of it), `Genesis`
(the first file of the path is created once, although handlers overlap), and `PlacesOK` and `RowsPlaced`
(a file has one path, its rows are its own, and a version on the normal path continues one there). The
parts of it that do not ask for a file without an overlap are what keeps an accident of one file from
spreading to another, and what lets a rebuild mend it. A write to `rows` is one lemma for all that make
it (`ViewsWrite`); a commit moves the rows of its file as `FaceNext` says, because a child of the winner
wins (`ChildOfWinner`). `MainBranch` rests on `WinnerPrevails`: a rebuild that has read the whole ledger
shows a winner that continues what was shown before, or whose path precedes its path where the two part.
To compare paths computed from a part of the ledger with those of the whole, `PathInPart` shows that they
agree if the part holds the parents of its versions.

`VersionPath` is a recursive function on `Nat`. Its equation is proved with the library's theorem about
well-founded recursion (`Iterate`, `WalkExists`), which takes sets and functions and not operators, and
facts about all paths with `Induction` over a set of numbers. From them follow the properties of the
order: it is irreflexive, total and transitive on paths, and a path of a head begins no other
(`HeadEndsPath`), so that there is one winner (`WinnerWins`, `WinnerUnique`).

`FilesPageProofs`, `NodesPageProofs` and `MaintenanceProofs` prove, for any sets of files, paths, nodes,
jobs, retentions, any number of request slots, user actions and faults:

| theorem | says |
|---|---|
| `SpinnersAreHonest`, `SuccessMessages` | `Spec => []SpinnersHonest`, `Spec => []SuccessIsTrue` (FilesPage) |
| `AnnouncementsTrue` | `Spec => []AnnouncedTruly` (NodesPage) |
| `FlagsAreHonest` | `Spec => []FlagsHonest` (Maintenance) |
| `FilesPageTyped`, `NodesPageTyped`, `MaintenanceTyped` | `Spec => []TypeOK` of each |
| `PageSafe`, `NodesPageSafe`, `MaintenanceSafe` | the inductive invariants `PageInv`, `NodesInv`, `MaintenanceInv` hold |

* *Files page.* A flag is backed by exactly one request, or by the reload that the answer to it has
  started (`Honest`). That is inductive because requests of a dialog that was closed are told from those
  of the page that is mounted (`orphan`), and because a request carries the entry it was sent for
  (`Attached`). `SuccessIsTrue` needs `ServedDone`: a request that was served has been carried out,
  whatever its answer will meet.
* *Nodes page.* A result is announced by the load that follows a tick, so the claim goes along that chain
  (`RequestOK`): the tick's answer, the load that is sent for it, the message. It stays true because a
  job's result is final and its node does not change (`Remembered`).
* *Health and tasks pages.* What a page waits for belongs to the page that is mounted (`Belongs`), and a
  flag of it is backed by a request that will clear it (`FlagsBacked`); a save is the only one, as its
  button is disabled.

The assumptions of all proofs are the named `ASSUME`s of the modules on their constants, and for the five
theorems about rows `Undisturbed`. They say that `None` is not one of the values it stands beside, that there
is a slot for a load, and that what all nodes hold at the start is a finite set of first versions with
ids and paths of their own.

With TLC only: liveness (`EventsSpread`, `CopiesRecounted`, `AnswersCome`, `ApprovedGetsIn`, the fairness
of JobLife, and what the pages catch up with: `SpinnersEnd`, `ReadinessCatchesUp`, `TrackingEnds`,
`CardsCatchUp`, `RetentionCatchesUp`, `PurgeEnds`, `TasksCatchUp`), which needs `ENABLED`, beyond the
provers at hand. Every safety invariant and action property of a passing run is proved.

## Plan

Done: EventSync, EventGossip, FileViews, FilesPage, JobLife, Evacuation, NodesPage, Maintenance,
PoolEntry, and the proofs of all they are checked for but liveness. Next, in this order:

1. **EventSnapshot**: scheduler, `PruneEventsBefore` by string comparison, bootstrap from a pull.
   Properties: no sequence number is used for two events; what is pruned is in a snapshot or held by
   every peer; a booted node ends with the ledger of its peer.
2. **ChunkLifecycle**: chunk files, `replicas`, `file_chunks`, clean-up against upload, rebuild and
   restore; repair queue against health scan. Properties: a chunk of a live file or a
   recoverable version is never removed from its last holder; an under-replicated chunk with a
   reachable peer is repaired.
3. **Membership** beyond one member: how an approval spreads, retirement, online and offline.
4. **Namespace**: delete, trash, restore, rename and purge by path and by id on two nodes; an
   abstract specification with one tree, to say exactly which operations commute.
5. **TaskStores**: bounded task and job lists, discovery's removal queue.

Abstract specifications worth stating: EventGossip and JobLife (done); for FileViews, a grow-only set
of versions whose view is `Projection` (now the invariant `Projected`); for ChunkLifecycle, a reference
count. Theorems worth proving: no reuse of sequence numbers under a corrected prune boundary, and that
clean-up removes only unreferenced chunks.

Not to be modelled: the Android shell, scripts, configuration, migrations, listing and reading, the
mount, local-file and log pages, and request signatures; they keep no replicated state, or are
sequential.
