------------------------------ MODULE EventSync ------------------------------
(***************************************************************************)
(* Replication of the metadata event log of a PocketCluster cluster.       *)
(*                                                                         *)
(* Every node keeps a table `events` whose key is event_id = node_id:seq,  *)
(* a table `peer_pushed_events`, and the metadata tables that the events   *)
(* describe.  An HTTP handler changes its own metadata and appends an      *)
(* event.  Every two seconds the sync loop pulls the events of each        *)
(* trusted peer and, at the same time, pushes to it the events it is not   *)
(* known to have.  Both ends feed what they receive, one event at a time,  *)
(* to InsertEvent (INSERT OR IGNORE) and applyEvent.                       *)
(*                                                                         *)
(* A step of the model is one call on the SQLite store, which serialises   *)
(* its callers (MaxOpenConns(1)): two handlers of one node interleave      *)
(* between their calls, as the goroutines of the agent do.                 *)
(*                                                                         *)
(* Abstractions.  A payload is an element of Ops, the mutation the event   *)
(* describes; what the mutation does to the files is the matter of the     *)
(* other modules, here it is in force at a node (`applied`) or not.  The   *)
(* several dial addresses of a peer are one: trying the next address after *)
(* an error is another request with the same events, which the next round  *)
(* sends as well.  Snapshots and the pruning of events are not modelled.   *)
(***************************************************************************)
EXTENDS Naturals, FiniteSets, FiniteSetsExt

CONSTANTS
    Nodes,        \* node ids, numbered in the order ORDER BY node_id gives them
    Ops,          \* local mutations, each performed at most once, by any node
    Links,        \* <<n, p>> : n has p in its node table, trusted and reachable
    BatchLimit,   \* the LIMIT of GetEventsSince and GetUnpushedEvents (1000)
    FaultCounts   \* bound: the fault counts a behaviour may reach

\* A failing InsertEvent or applyEvent, a request that does not arrive, a
\* request given up by its sender, the restart of a node.
FaultKinds == {"insert", "apply", "lost", "timeout", "crash"}

ASSUME NodesAssumption == Nodes \subseteq Nat
ASSUME LinksAssumption == Links \subseteq Nodes \X Nodes
ASSUME LimitAssumption == BatchLimit \in Nat \ {0}
ASSUME FaultsAssumption == FaultCounts \subseteq [FaultKinds -> Nat]

VARIABLES
    log,        \* log[n]: the rows of the table events of node n
    pushed,     \* pushed[n][p]: event ids in peer_pushed_events of n for peer p
    applied,    \* applied[n]: the mutations that have reached n's metadata
    appends,    \* handlers between their mutation and the end of appendEvent
    exchanges,  \* pulls and pushes whose events are being fed to a store
    due,        \* due[n]: the pulls and pushes the sync round of n has to start
    faults      \* faults[k]: how many faults of kind k have happened

vars == <<log, pushed, applied, appends, exchanges, due, faults>>

-----------------------------------------------------------------------------
(* Events and the queries on them *)

Event    == [node : Nodes, seq : Nat \ {0}, op : Ops]
EventId  == Nodes \X (Nat \ {0})
Id(e)    == <<e.node, e.seq>>
Ids(S)   == {Id(e) : e \in S}

\* A handler that has performed its mutation; seq = 0 until NextSeq is read.
Append == [at : Nodes, op : Ops, seq : Nat]

\* kind "pull": `at` asked `peer` for its events and is processing the answer.
\* kind "push": `at` is serving a POST of `peer`, which is `waiting` or has
\* given up.  `applying` is the event inserted but not applied yet, if any;
\* `since` tells a request from an earlier one that was given up.
Exchange == [kind : {"pull", "push"}, at : Nodes, peer : Nodes, since : Nat,
             batch : SUBSET Event, todo : SUBSET Event,
             applying : SUBSET Event, accepted : SUBSET Event,
             waiting : BOOLEAN]

Duty == {"pull", "push"} \X Nodes

\* ORDER BY node_id ASC, seq ASC
Before(e, f) == e.node < f.node \/ (e.node = f.node /\ e.seq < f.seq)

\* Mutant: ORDER BY node_id DESC, seq DESC.
LastEvents(S) ==
    {e \in S : Cardinality({f \in S : Before(e, f)}) < BatchLimit}

\* ... LIMIT BatchLimit
FirstEvents(S) ==
    {e \in S : Cardinality({f \in S : Before(f, e)}) < BatchLimit}

GetEvents(p) == FirstEvents(log[p])

GetUnpushedEvents(n, p) ==
    FirstEvents({e \in log[n] : Id(e) \notin pushed[n][p]})

\* SELECT COALESCE(MAX(seq), 0) + 1 FROM events WHERE node_id = n
OwnSeqs(n) == {e.seq : e \in {f \in log[n] : f.node = n}}

\* Mutant: the + 1 is missing.
LastSeq(n) == Max(OwnSeqs(n) \cup {0})

NextSeq(n) == Max(OwnSeqs(n) \cup {0}) + 1

\* Mutant: INSERT OR REPLACE.
ReplaceInto(S, e) == {f \in S : Id(f) # Id(e)} \cup {e}

\* INSERT OR IGNORE: a row with a known event_id changes nothing.
InsertInto(S, e) == IF Id(e) \in Ids(S) THEN S ELSE S \cup {e}

Used == UNION {applied[n] : n \in Nodes}

Replace(x, y) == exchanges' = (exchanges \ {x}) \cup {y}
Drop(x)       == exchanges' = exchanges \ {x}

\* The node whose sync round an exchange belongs to.
Initiator(x) == IF x.kind = "pull" THEN x.at ELSE x.peer

Fault(kind) ==
    /\ faults' = [faults EXCEPT ![kind] = @ + 1]
    /\ faults' \in FaultCounts

Init ==
    /\ log = [n \in Nodes |-> {}]
    /\ pushed = [n \in Nodes |-> [p \in Nodes |-> {}]]
    /\ applied = [n \in Nodes |-> {}]
    /\ appends = {}
    /\ exchanges = {}
    /\ due = [n \in Nodes |-> {}]
    /\ faults = [k \in FaultKinds |-> 0]

-----------------------------------------------------------------------------
(* Local mutations *)

\* UpsertFileWithEvent: the file row and its event in one transaction.
CommitWithEvent(n, op) ==
    /\ op \notin Used
    /\ applied' = [applied EXCEPT ![n] = @ \cup {op}]
    /\ log' = [log EXCEPT ![n] =
                  InsertInto(@, [node |-> n, seq |-> NextSeq(n), op |-> op])]
    /\ UNCHANGED <<pushed, appends, exchanges, due, faults>>

\* Delete, rename, mkdir, replica bookkeeping...: the handler changes the
\* metadata first and then calls appendEvent.
Mutate(n, op) ==
    /\ op \notin Used
    /\ applied' = [applied EXCEPT ![n] = @ \cup {op}]
    /\ appends' = appends \cup {[at |-> n, op |-> op, seq |-> 0]}
    /\ UNCHANGED <<log, pushed, exchanges, due, faults>>

\* appendEvent, first store call: NextSeq.
ReadSeq(a) ==
    /\ a.seq = 0
    /\ appends' = (appends \ {a}) \cup {[a EXCEPT !.seq = NextSeq(a.at)]}
    /\ UNCHANGED <<log, pushed, applied, exchanges, due, faults>>

\* appendEvent, second store call: InsertEvent, whose `inserted` is dropped.
InsertOwn(a) ==
    /\ a.seq > 0
    /\ log' = [log EXCEPT ![a.at] =
                  InsertInto(@, [node |-> a.at, seq |-> a.seq, op |-> a.op])]
    /\ appends' = appends \ {a}
    /\ UNCHANGED <<pushed, applied, exchanges, due, faults>>

-----------------------------------------------------------------------------
(* The sync round *)

\* SyncOnce -> syncPeers: one pull and one push goroutine per peer; the next
\* round starts when all of them have returned (wg.Wait).
SyncOnce(n) ==
    /\ due[n] = {}
    /\ \A x \in exchanges : x.waiting => Initiator(x) # n
    /\ due' = [due EXCEPT ![n] =
                  {"pull", "push"} \X {p \in Nodes : <<n, p>> \in Links}]
    /\ due'[n] # {}
    /\ UNCHANGED <<log, pushed, applied, appends, exchanges, faults>>

Begin(kind, at, peer, events) ==
    /\ exchanges' = exchanges \cup
          {[kind |-> kind, at |-> at, peer |-> peer,
            since |-> faults["timeout"] + faults["crash"],
            batch |-> events, todo |-> events, applying |-> {},
            accepted |-> {}, waiting |-> TRUE]}
    /\ UNCHANGED <<log, pushed, applied, appends, faults>>

\* pullEventsFrom: GET /api/events, always without `since`.
StartPull(n, p) ==
    /\ <<"pull", p>> \in due[n]
    /\ due' = [due EXCEPT ![n] = @ \ {<<"pull", p>>}]
    /\ Begin("pull", n, p, GetEvents(p))

\* pushEvents: POST /api/events/push; the handler runs at p.
StartPush(n, p) ==
    /\ <<"push", p>> \in due[n]
    /\ due' = [due EXCEPT ![n] = @ \ {<<"push", p>>}]
    /\ Begin("push", p, n, GetUnpushedEvents(n, p))

\* The request does not get through.
LoseRequest(n) ==
    /\ Fault("lost")
    /\ \E d \in due[n] : due' = [due EXCEPT ![n] = @ \ {d}]
    /\ UNCHANGED <<log, pushed, applied, appends, exchanges>>

-----------------------------------------------------------------------------
(* Feeding received events to the store: pullEventsFrom, handlePushEvents *)

\* The loop variable: events are taken in the order they were sent.
Current(x, e) ==
    /\ x.applying = {}
    /\ e \in x.todo
    /\ \A f \in x.todo \ {e} : Before(e, f)

\* Mutant: the event is applied whether or not its row is new.
InsertAndApply(x) ==
    \E e \in x.todo :
        /\ Current(x, e)
        /\ log' = [log EXCEPT ![x.at] = InsertInto(@, e)]
        /\ Replace(x, [x EXCEPT !.todo = @ \ {e}, !.applying = {e}])
        /\ UNCHANGED <<pushed, applied, appends, due, faults>>

\* InsertEvent reports a new row: the event will be applied.
InsertNew(x) ==
    \E e \in x.todo :
        /\ Current(x, e)
        /\ Id(e) \notin Ids(log[x.at])
        /\ log' = [log EXCEPT ![x.at] = InsertInto(@, e)]
        /\ Replace(x, [x EXCEPT !.todo = @ \ {e}, !.applying = {e}])
        /\ UNCHANGED <<pushed, applied, appends, due, faults>>

\* InsertEvent reports no new row: the event counts as accepted.
InsertKnown(x) ==
    \E e \in x.todo :
        /\ Current(x, e)
        /\ Id(e) \in Ids(log[x.at])
        /\ Replace(x, [x EXCEPT !.todo = @ \ {e}, !.accepted = @ \cup {e}])
        /\ UNCHANGED <<log, pushed, applied, appends, due, faults>>

ApplyEvent(x) ==
    \E e \in x.applying :
        /\ applied' = [applied EXCEPT ![x.at] = @ \cup {e.op}]
        /\ Replace(x, [x EXCEPT !.applying = {}, !.accepted = @ \cup {e}])
        /\ UNCHANGED <<log, pushed, appends, due, faults>>

\* An error of the store: a pull returns it, a push handler goes on with the
\* next event.
InsertFails(x) ==
    /\ Fault("insert")
    /\ \E e \in x.todo :
        /\ Current(x, e)
        /\ \/ x.kind = "pull" /\ Drop(x)
           \/ x.kind = "push" /\ Replace(x, [x EXCEPT !.todo = @ \ {e}])
    /\ UNCHANGED <<log, pushed, applied, appends, due>>

\* Mutant: the row of the event is deleted, so that it is sent again.
ApplyFailsAndForgets(x) ==
    /\ Fault("apply")
    /\ \E e \in x.applying : log' = [log EXCEPT ![x.at] = @ \ {e}]
    /\ \/ x.kind = "pull" /\ Drop(x)
       \/ x.kind = "push" /\ Replace(x, [x EXCEPT !.applying = {}])
    /\ UNCHANGED <<pushed, applied, appends, due>>

ApplyFails(x) ==
    /\ Fault("apply")
    /\ x.applying # {}
    /\ \/ x.kind = "pull" /\ Drop(x)
       \/ x.kind = "push" /\ Replace(x, [x EXCEPT !.applying = {}])
    /\ UNCHANGED <<log, pushed, applied, appends, due>>

Finished(x) == x.todo = {} /\ x.applying = {}

FinishPull(x) ==
    /\ x.kind = "pull" /\ Finished(x)
    /\ Drop(x)
    /\ UNCHANGED <<log, pushed, applied, appends, due, faults>>

\* Mutant: the number of accepted events is not compared.
FinishPushAnyway(x) ==
    /\ x.kind = "push" /\ Finished(x)
    /\ Drop(x)
    /\ pushed' = IF x.waiting
                 THEN [pushed EXCEPT ![x.peer][x.at] = @ \cup Ids(x.batch)]
                 ELSE pushed
    /\ UNCHANGED <<log, applied, appends, due, faults>>

\* Mutant: the unpushed events are queried again to be marked.
FinishPushRequery(x) ==
    /\ x.kind = "push" /\ Finished(x)
    /\ Drop(x)
    /\ pushed' = IF x.waiting /\ x.accepted = x.batch
                 THEN [pushed EXCEPT ![x.peer][x.at] =
                          @ \cup Ids(GetUnpushedEvents(x.peer, x.at))]
                 ELSE pushed
    /\ UNCHANGED <<log, applied, appends, due, faults>>

\* The answer reaches the peer, which marks the whole batch as pushed if
\* every event of it was accepted (payload.Accepted = expected).
FinishPush(x) ==
    /\ x.kind = "push" /\ Finished(x)
    /\ Drop(x)
    /\ pushed' = IF x.waiting /\ x.accepted = x.batch
                 THEN [pushed EXCEPT ![x.peer][x.at] = @ \cup Ids(x.batch)]
                 ELSE pushed
    /\ UNCHANGED <<log, applied, appends, due, faults>>

\* The peer gives up after syncRequestTimeout; the handler runs on.
TimeOut(x) ==
    /\ Fault("timeout")
    /\ x.kind = "push" /\ x.waiting
    /\ Replace(x, [x EXCEPT !.waiting = FALSE])
    /\ UNCHANGED <<log, pushed, applied, appends, due>>

\* The agent of n stops and restarts: its goroutines are gone, its tables stay.
Crash(n) ==
    /\ Fault("crash")
    /\ appends' = {a \in appends : a.at # n}
    /\ exchanges' = {IF Initiator(x) = n THEN [x EXCEPT !.waiting = FALSE] ELSE x :
                        x \in {y \in exchanges : y.at # n}}
    /\ due' = [due EXCEPT ![n] = {}]
    /\ UNCHANGED <<log, pushed, applied>>

-----------------------------------------------------------------------------
LocalStep ==
    \/ \E n \in Nodes, op \in Ops : CommitWithEvent(n, op) \/ Mutate(n, op)
    \/ \E a \in appends : ReadSeq(a) \/ InsertOwn(a)

RoundStep ==
    \/ \E n \in Nodes : SyncOnce(n) \/ LoseRequest(n)
    \/ \E n, p \in Nodes : StartPull(n, p) \/ StartPush(n, p)

FeedStep ==
    \E x \in exchanges :
        \/ InsertNew(x) \/ InsertKnown(x) \/ ApplyEvent(x)
        \/ InsertFails(x) \/ ApplyFails(x)
        \/ FinishPull(x) \/ FinishPush(x) \/ TimeOut(x)

Next == LocalStep \/ RoundStep \/ FeedStep \/ (\E n \in Nodes : Crash(n))

Spec == Init /\ [][Next]_vars

\* The loops of the agent run on: the 2 s ticker fires, a started goroutine is
\* scheduled, the store answers.  Nothing obliges a user to mutate anything.
Feed(n, p) ==
    \E x \in exchanges :
        /\ Initiator(x) = n /\ {x.at, x.peer} = {n, p}
        /\ \/ InsertNew(x) \/ InsertKnown(x) \/ ApplyEvent(x)
           \/ FinishPull(x) \/ FinishPush(x)

Progress ==
    /\ \A n \in Nodes : WF_vars(SyncOnce(n))
    /\ \A l \in Links :
          /\ WF_vars(StartPull(l[1], l[2]))
          /\ WF_vars(StartPush(l[1], l[2]))
          /\ WF_vars(Feed(l[1], l[2]))
    /\ \A op \in Ops :
          WF_vars(\E a \in appends : a.op = op /\ (ReadSeq(a) \/ InsertOwn(a)))

FairSpec == Spec /\ Progress

-----------------------------------------------------------------------------
(* Properties *)

TypeOK ==
    /\ log \in [Nodes -> SUBSET Event]
    /\ pushed \in [Nodes -> [Nodes -> SUBSET EventId]]
    /\ applied \in [Nodes -> SUBSET Ops]
    /\ appends \subseteq Append
    /\ exchanges \subseteq Exchange
    /\ due \in [Nodes -> SUBSET Duty]
    /\ faults \in [FaultKinds -> Nat]

\* An event id stands for one event: whatever two nodes hold, or are being
\* sent, under one event_id is the same mutation, and its originating node
\* holds it too.  This is what makes INSERT OR IGNORE on event_id a sound
\* test for "already known" although two handlers of the origin may both
\* have read the same next seq (appendEvent takes no lock).
Received ==
    (UNION {log[n] : n \in Nodes}) \cup (UNION {x.batch : x \in exchanges})

EventIdentity ==
    /\ \A n \in Nodes : \A e, f \in log[n] : Id(e) = Id(f) => e = f
    /\ \A e \in Received : e \in log[e.node]

\* What a node has in peer_pushed_events for a peer, the peer holds: the
\* pusher stops sending an event only when the peer cannot need it any more,
\* whatever responses are lost, late, or partial, and whoever crashes.
PushedIsHeld ==
    \A n, p \in Nodes : pushed[n][p] \subseteq Ids(log[p])

\* As long as no InsertEvent fails, the log of a node holds, for every origin,
\* an initial segment of the origin's events: no event overtakes an earlier
\* one of its node on the way, even over relays, partial batches, pulls that
\* stop half-way and pushes that are resent.
GapFree ==
    faults["insert"] = 0 =>
        \A n \in Nodes : \A e \in log[n] : \A s \in 1..e.seq :
            <<e.node, s>> \in Ids(log[n])

\* An event is applied at most once by a node: of the pull, the push handlers
\* and the relays that deliver it, one wins the insert, and until it has
\* applied the event nobody else has.
AppliedOnce ==
    \A x \in exchanges : \A e \in x.applying :
        /\ e \in log[x.at]
        /\ e.op \notin applied[x.at]
        /\ \A y \in exchanges : y.at = x.at /\ e \in y.applying => y = x

\* Every mutation whose event is in some log reaches the log of every node.
HasEvent(n, op) == \E e \in log[n] : e.op = op

EventsSpread ==
    \A op \in Ops :
        (\E n \in Nodes : HasEvent(n, op)) ~> (\A n \in Nodes : HasEvent(n, op))

\* The sync loop implements the abstract replication: with the table events
\* for its log, every step of a node publishes one event, learns one event as
\* its origin published it, or leaves all logs alone.
Gossip == INSTANCE EventGossip
GossipSpec == Gossip!Spec

-----------------------------------------------------------------------------
(* What the documents promise and the code does not keep *)

\* "Every node stores the complete metadata set.  Metadata is eventually
\* consistent across all nodes" (docs/metadata-model.md:5): a mutation in
\* force at one node comes into force at every node.
EventuallyConsistent ==
    \A op \in Ops :
        (\E n \in Nodes : op \in applied[n]) ~> (\A n \in Nodes : op \in applied[n])
=============================================================================
