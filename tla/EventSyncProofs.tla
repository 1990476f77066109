-------------------------- MODULE EventSyncProofs ---------------------------
(***************************************************************************)
(* Proofs about EventSync, for every set of nodes, mutations and links,    *)
(* every batch limit and any number of faults.                             *)
(*                                                                         *)
(* The safety properties of the log hang together: the sequence numbers a  *)
(* node has used are 1..k, so that NextSeq is k+1 and INSERT OR IGNORE can *)
(* only ignore an event whose number was taken meanwhile; therefore an id  *)
(* names one event, and an event comes to a node only as its origin holds  *)
(* it.  LogInv collects this.  MutationInv and OrderInv rest on it.        *)
(***************************************************************************)
EXTENDS EventSync, FiniteSetTheorems, TLAPS

-----------------------------------------------------------------------------
(* The inductive invariants *)

\* The sequence numbers of a node are consecutive, and a handler inside
\* appendEvent holds one that is at most the next.
SeqsConsecutive ==
    \A n \in Nodes : \E k \in Nat :
        /\ OwnSeqs(n) = 1..k
        /\ \A a \in appends : a.at = n => a.seq <= k + 1

\* What an exchange has accepted or is applying is in the log it feeds.
ExchangesOK ==
    \A x \in exchanges :
        /\ x.todo \subseteq x.batch
        /\ x.applying \subseteq x.batch
        /\ x.accepted \subseteq x.batch
        /\ x.applying \subseteq log[x.at]
        /\ Ids(x.accepted) \subseteq Ids(log[x.at])

LogInv == TypeOK /\ SeqsConsecutive /\ EventIdentity /\ ExchangesOK /\ PushedIsHeld

-----------------------------------------------------------------------------
(* Operators *)

\* NextSeq returns the number after the last one used.
LEMMA NextSeqIsNext ==
    ASSUME NEW n \in Nodes, NEW k \in Nat, OwnSeqs(n) = 1..k
    PROVE  NextSeq(n) = k + 1
<1>1. OwnSeqs(n) \cup {0} = 0..k
  OBVIOUS
<1>2. k \in 0..k /\ \A y \in 0..k : k >= y
  OBVIOUS
<1>3. Max(0..k) \in 0..k /\ \A y \in 0..k : Max(0..k) >= y
  BY <1>2 DEF Max
<1>4. Max(0..k) = k
  BY <1>2, <1>3
<1> QED
  BY <1>1, <1>4 DEF NextSeq

\* INSERT OR IGNORE keeps every row and adds at most the given one.
LEMMA InsertIntoAdds ==
    ASSUME NEW S, NEW e
    PROVE  /\ S \subseteq InsertInto(S, e)
           /\ InsertInto(S, e) \subseteq S \cup {e}
           /\ Id(e) \in Ids(InsertInto(S, e))
           /\ Id(e) \in Ids(S) => InsertInto(S, e) = S
           /\ Id(e) \notin Ids(S) => InsertInto(S, e) = S \cup {e}
BY DEF InsertInto, Ids

\* A batch consists of events of the queried table.
LEMMA FirstEventsSubset ==
    ASSUME NEW S
    PROVE  FirstEvents(S) \subseteq S
BY DEF FirstEvents


-----------------------------------------------------------------------------
(* Steps that add an event to a log *)

\* A node that appends an event of its own takes the next number, or finds the
\* number taken and changes nothing.
LEMMA OwnInsert ==
    ASSUME LogInv, NEW n \in Nodes, NEW s \in Nat \ {0}, NEW op \in Ops,
           s <= NextSeq(n),
           log' = [log EXCEPT ![n] =
                      InsertInto(@, [node |-> n, seq |-> s, op |-> op])]
    PROVE  /\ log' \in [Nodes -> SUBSET Event]
           /\ \A m \in Nodes : log[m] \subseteq log'[m]
           /\ \A m \in Nodes \ {n} : log'[m] = log[m]
           /\ \A e \in log'[n] :
                 e \in log[n] \/ (e = [node |-> n, seq |-> s, op |-> op]
                                  /\ e.seq = NextSeq(n))
           /\ \A m \in Nodes : \A k \in Nat :
                 OwnSeqs(m) = 1..k => OwnSeqs(m)' \in {1..k, 1..(k + 1)}
<1> DEFINE new == [node |-> n, seq |-> s, op |-> op]
<1>1. log \in [Nodes -> SUBSET Event] /\ new \in Event
  BY DEF LogInv, TypeOK, Event
<1>2. PICK k \in Nat : OwnSeqs(n) = 1..k
  BY DEF LogInv, SeqsConsecutive
<1>3. NextSeq(n) = k + 1
  BY <1>2, NextSeqIsNext
<1>4. log'[n] = InsertInto(log[n], new)
  BY <1>1
<1>5. CASE Id(new) \in Ids(log[n])
  <2>1. log' = log
    BY <1>1, <1>4, <1>5, InsertIntoAdds
  <2>2. \A m \in Nodes : OwnSeqs(m)' = OwnSeqs(m)
    BY <2>1 DEF OwnSeqs
  <2> QED
    BY <1>1, <2>1, <2>2
<1>6. CASE Id(new) \notin Ids(log[n])
  <2>1. log' = [log EXCEPT ![n] = @ \cup {new}]
    <3>1. InsertInto(log[n], new) = log[n] \cup {new}
      BY <1>6, InsertIntoAdds
    <3> QED
      BY <3>1
  <2>2. s = k + 1
    <3>1. s \notin OwnSeqs(n)
      BY <1>1, <1>6 DEF OwnSeqs, Ids, Id, Event
    <3> QED
      BY <3>1, <1>2, <1>3
  <2>3. OwnSeqs(n)' = 1..(k + 1)
    <3>1. OwnSeqs(n)' = OwnSeqs(n) \cup {s}
      BY <1>1, <2>1 DEF OwnSeqs
    <3> QED
      BY <3>1, <2>2, <1>2
  <2>4. \A m \in Nodes \ {n} : OwnSeqs(m)' = OwnSeqs(m)
    BY <1>1, <2>1 DEF OwnSeqs
  <2>5. \A j \in Nat : OwnSeqs(n) = 1..j => j = k
    <3>1. \A j \in Nat : 1..j = 1..k => j = k
      OBVIOUS
    <3> QED
      BY <3>1, <1>2
  <2> QED
    BY <1>1, <1>3, <2>1, <2>2, <2>3, <2>4, <2>5
<1> QED
  BY <1>5, <1>6

\* A node that inserts a received event gets it as the origin published it,
\* and never inserts an event of its own this way.
LEMMA ForeignInsert ==
    ASSUME LogInv, NEW x \in exchanges, NEW e \in x.todo,
           Id(e) \notin Ids(log[x.at]),
           log' = [log EXCEPT ![x.at] = InsertInto(@, e)]
    PROVE  /\ log' = [log EXCEPT ![x.at] = @ \cup {e}]
           /\ e \in Event /\ x.at \in Nodes
           /\ e.node # x.at /\ e \in log[e.node]
           /\ log' \in [Nodes -> SUBSET Event]
           /\ \A m \in Nodes : log[m] \subseteq log'[m]
           /\ \A m \in Nodes : OwnSeqs(m)' = OwnSeqs(m)
<1>1. /\ log \in [Nodes -> SUBSET Event]
      /\ x.at \in Nodes /\ x.batch \subseteq Event /\ e \in x.batch
  BY DEF LogInv, TypeOK, Exchange, ExchangesOK
<1>2. e \in log[e.node]
  BY <1>1 DEF LogInv, EventIdentity, Received
<1>3. e.node # x.at
  BY <1>2 DEF Ids
<1>4. log' = [log EXCEPT ![x.at] = @ \cup {e}]
  BY <1>1, InsertIntoAdds
<1>5. \A m \in Nodes : OwnSeqs(m)' = OwnSeqs(m)
  BY <1>1, <1>3, <1>4 DEF OwnSeqs
<1>6. log' \in [Nodes -> SUBSET Event]
  BY <1>1, <1>4
<1>7. \A m \in Nodes : log[m] \subseteq log'[m]
  BY <1>1, <1>4
<1>8. e \in Event
  BY <1>1
<1> QED
  BY <1>1, <1>2, <1>3, <1>4, <1>5, <1>6, <1>7, <1>8

-----------------------------------------------------------------------------
(* LogInv is inductive *)

\* At the start no log has an event and nothing is under way.
LEMMA LogInvInit == Init => LogInv
<1> SUFFICES ASSUME Init PROVE LogInv
  OBVIOUS
<1>1. TypeOK
  BY DEF Init, TypeOK
<1>2. SeqsConsecutive
  <2>1. \A n \in Nodes : OwnSeqs(n) = 1..0
    BY DEF Init, OwnSeqs
  <2> QED
    BY <2>1 DEF SeqsConsecutive, Init
<1>3. EventIdentity /\ ExchangesOK /\ PushedIsHeld
  BY DEF Init, EventIdentity, Received, ExchangesOK, PushedIsHeld
<1> QED
  BY <1>1, <1>2, <1>3 DEF LogInv

\* Appending an own event, whether in one transaction or in two calls.
LEMMA OwnInsertInv ==
    ASSUME LogInv, NEW n \in Nodes, NEW s \in Nat \ {0}, NEW op \in Ops,
           s <= NextSeq(n),
           log' = [log EXCEPT ![n] =
                      InsertInto(@, [node |-> n, seq |-> s, op |-> op])],
           appends' \subseteq appends,
           exchanges' = exchanges, pushed' = pushed
    PROVE  (SeqsConsecutive /\ EventIdentity /\ ExchangesOK /\ PushedIsHeld)'
<1> DEFINE new == [node |-> n, seq |-> s, op |-> op]
<1>1. /\ log' \in [Nodes -> SUBSET Event]
      /\ \A m \in Nodes : log[m] \subseteq log'[m]
      /\ \A m \in Nodes \ {n} : log'[m] = log[m]
      /\ \A e \in log'[n] :
            e \in log[n] \/ (e = new /\ e.seq = NextSeq(n))
      /\ \A m \in Nodes : \A k \in Nat :
            OwnSeqs(m) = 1..k => OwnSeqs(m)' \in {1..k, 1..(k + 1)}
  BY OwnInsert
<1>2. SeqsConsecutive'
  <2> SUFFICES ASSUME NEW m \in Nodes
               PROVE  \E k \in Nat : /\ OwnSeqs(m)' = 1..k
                                     /\ \A a \in appends' : a.at = m => a.seq <= k + 1
    BY DEF SeqsConsecutive
  <2>1. PICK k \in Nat : /\ OwnSeqs(m) = 1..k
                         /\ \A a \in appends : a.at = m => a.seq <= k + 1
    BY DEF LogInv, SeqsConsecutive
  <2>2. \A a \in appends' : a.seq \in Nat
    BY DEF LogInv, TypeOK, Append
  <2>3. OwnSeqs(m)' = 1..k \/ OwnSeqs(m)' = 1..(k + 1)
    BY <1>1, <2>1
  <2>4. k + 1 \in Nat /\ \A a \in appends' : a.at = m => a.seq <= k + 1 /\ a.seq <= k + 2
    BY <2>1, <2>2
  <2> QED
    BY <2>3, <2>4
<1>3. EventIdentity'
  <2>1. ASSUME NEW m \in Nodes, NEW e \in log'[m], NEW f \in log'[m], Id(e) = Id(f)
        PROVE  e = f
    <3>1. CASE e \in log[m] /\ f \in log[m]
      BY <2>1, <3>1 DEF LogInv, EventIdentity
    <3>2. ASSUME NEW g \in log[n], Id(g) = Id(new), NextSeq(n) = s
          PROVE  FALSE
      <4>1. g.node = n /\ g.seq = s
        BY <3>2 DEF Id
      <4>2. s \in OwnSeqs(n)
        BY <4>1 DEF OwnSeqs
      <4>3. PICK k \in Nat : OwnSeqs(n) = 1..k
        BY DEF LogInv, SeqsConsecutive
      <4> QED
        BY <3>2, <4>2, <4>3, NextSeqIsNext
    <3> QED
      BY <1>1, <2>1, <3>1, <3>2
  <2>2. ASSUME NEW e \in Received'
        PROVE  e \in log'[e.node]
    <3>1. \/ \E m \in Nodes : e \in log'[m]
          \/ \E x \in exchanges : e \in x.batch
      BY <2>2 DEF Received
    <3>2. e \in Received \/ (e = new /\ e \in log'[n])
      BY <1>1, <3>1 DEF Received
    <3>3. CASE e \in Received
      <4>1. e \in log[e.node]
        BY <3>3 DEF LogInv, EventIdentity
      <4>2. e.node \in Nodes
        <5>1. e \in Event
          BY <3>3 DEF LogInv, TypeOK, Received, Exchange
        <5> QED
          BY <5>1 DEF Event
      <4> QED
        BY <1>1, <4>1, <4>2
    <3> QED
      BY <3>2, <3>3
  <2> QED
    BY <2>1, <2>2 DEF EventIdentity
<1>4. ExchangesOK'
  <2> SUFFICES ASSUME NEW x \in exchanges
               PROVE  /\ x.todo \subseteq x.batch
                      /\ x.applying \subseteq x.batch
                      /\ x.accepted \subseteq x.batch
                      /\ x.applying \subseteq log'[x.at]
                      /\ Ids(x.accepted) \subseteq Ids(log'[x.at])
    BY DEF ExchangesOK
  <2>1. x.at \in Nodes
    BY DEF LogInv, TypeOK, Exchange
  <2> QED
    BY <1>1, <2>1 DEF LogInv, ExchangesOK, Ids
<1>5. PushedIsHeld'
  BY <1>1 DEF LogInv, PushedIsHeld, Ids
<1> QED
  BY <1>2, <1>3, <1>4, <1>5

\* Steps that leave the logs and the batches alone keep the identity of events;
\* steps that also leave the handlers in appendEvent alone keep the numbering.
LEMMA LogUnchanged ==
    ASSUME LogInv, log' = log, appends' \subseteq appends
    PROVE  SeqsConsecutive'
BY DEF LogInv, SeqsConsecutive, OwnSeqs

\* Exchanges that carry no new events keep ids unambiguous while the logs stay.
LEMMA IdentityKept ==
    ASSUME LogInv, log' = log,
           \A x \in exchanges' : x.batch \subseteq Received
    PROVE  EventIdentity'
<1>1. Received' \subseteq Received
  BY DEF Received
<1> QED
  BY <1>1 DEF LogInv, EventIdentity

\* An exchange that is replaced or dropped, the others being kept.
LEMMA ExchangeReplaced ==
    ASSUME LogInv, log' = log, NEW x \in exchanges, NEW y,
           exchanges' \subseteq exchanges \cup {y},
           y.batch = x.batch, y.at = x.at, y.todo \subseteq x.todo,
           y.applying \subseteq x.applying, y.accepted \subseteq x.batch,
           Ids(y.accepted) \subseteq Ids(log[x.at])
    PROVE  ExchangesOK' /\ \A z \in exchanges' : z.batch \subseteq Received
<1>1. ExchangesOK'
  BY DEF LogInv, ExchangesOK
<1>2. ASSUME NEW z \in exchanges' PROVE z.batch \subseteq Received
  BY DEF Received
<1> QED
  BY <1>1, <1>2

\* The start of a pull or a push.
LEMMA BeginInv ==
    ASSUME LogInv, NEW kind \in {"pull", "push"}, NEW at \in Nodes, NEW peer \in Nodes,
           NEW m \in Nodes, NEW events \in SUBSET log[m],
           Begin(kind, at, peer, events), due' \in [Nodes -> SUBSET Duty]
    PROVE  LogInv'
<1> DEFINE new == [kind |-> kind, at |-> at, peer |-> peer,
                   since |-> faults["timeout"] + faults["crash"],
                   batch |-> events, todo |-> events, applying |-> {},
                   accepted |-> {}, waiting |-> TRUE]
<1>1. /\ exchanges' = exchanges \cup {new}
      /\ UNCHANGED <<log, pushed, applied, appends, faults>>
  BY DEF Begin
<1>2. events \subseteq Event /\ faults["timeout"] + faults["crash"] \in Nat
  BY DEF LogInv, TypeOK, FaultKinds
<1>3. new \in Exchange
  BY <1>2 DEF Exchange
<1>4. TypeOK'
  BY <1>1, <1>3 DEF LogInv, TypeOK
<1>5. SeqsConsecutive'
  BY <1>1, LogUnchanged
<1>6. EventIdentity'
  <2>1. events \subseteq Received
    BY DEF Received
  <2>2. \A x \in exchanges' : x.batch \subseteq Received
    BY <1>1, <2>1 DEF Received
  <2> QED
    BY <1>1, <2>2, IdentityKept
<1>7. ExchangesOK'
  BY <1>1 DEF LogInv, ExchangesOK, Ids
<1>8. PushedIsHeld'
  BY <1>1 DEF LogInv, PushedIsHeld
<1> QED
  BY <1>4, <1>5, <1>6, <1>7, <1>8 DEF LogInv

\* InsertEvent reports a new row.
LEMMA InsertNewInv ==
    ASSUME LogInv, NEW x \in exchanges, InsertNew(x)
    PROVE  LogInv'
<1>1. PICK e \in x.todo :
         /\ Id(e) \notin Ids(log[x.at])
         /\ log' = [log EXCEPT ![x.at] = InsertInto(@, e)]
         /\ Replace(x, [x EXCEPT !.todo = @ \ {e}, !.applying = {e}])
         /\ UNCHANGED <<pushed, applied, appends, due, faults>>
  BY DEF InsertNew
<1> DEFINE y == [x EXCEPT !.todo = @ \ {e}, !.applying = {e}]
<1>2. /\ log' = [log EXCEPT ![x.at] = @ \cup {e}]
      /\ e \in Event /\ x.at \in Nodes
      /\ e.node # x.at /\ e \in log[e.node]
      /\ log' \in [Nodes -> SUBSET Event]
      /\ \A m \in Nodes : log[m] \subseteq log'[m]
      /\ \A m \in Nodes : OwnSeqs(m)' = OwnSeqs(m)
  BY <1>1, ForeignInsert
<1>3. x \in Exchange /\ e \in x.batch
  BY DEF LogInv, TypeOK, ExchangesOK
<1>4. y \in Exchange /\ y.at = x.at /\ y.batch = x.batch /\ y.todo = x.todo \ {e}
      /\ y.applying = {e} /\ y.accepted = x.accepted
  BY <1>2, <1>3 DEF Exchange
<1>5. exchanges' = (exchanges \ {x}) \cup {y}
  BY <1>1 DEF Replace
<1>6. TypeOK'
  BY <1>1, <1>2, <1>4, <1>5 DEF LogInv, TypeOK
<1>7. SeqsConsecutive'
  BY <1>1, <1>2 DEF LogInv, SeqsConsecutive
<1>8. EventIdentity'
  <2>1. ASSUME NEW m \in Nodes, NEW f \in log'[m], NEW g \in log'[m], Id(f) = Id(g)
        PROVE  f = g
    <3>1. log \in [Nodes -> SUBSET Event]
      BY DEF LogInv, TypeOK
    <3> QED
      BY <1>1, <1>2, <2>1, <3>1 DEF LogInv, EventIdentity, Ids
  <2>2. Received' \subseteq Received
    <3>1. \A m \in Nodes : log'[m] \subseteq Received
      <4>1. e \in Received
        BY <1>3 DEF Received
      <4>2. \A m \in Nodes : log[m] \subseteq Received
        BY DEF Received
      <4>3. \A m \in Nodes : log'[m] \subseteq log[m] \cup {e}
        BY <1>2 DEF LogInv, TypeOK
      <4> QED
        BY <4>1, <4>2, <4>3
    <3>2. \A z \in exchanges' : z.batch \subseteq Received
      BY <1>4, <1>5 DEF Received
    <3> QED
      BY <3>1, <3>2 DEF Received
  <2>3. \A f \in Received : f \in log[f.node] /\ f.node \in Nodes
    <3>1. Received \subseteq Event
      BY DEF LogInv, TypeOK, Received, Exchange
    <3> QED
      BY <3>1 DEF LogInv, EventIdentity, Event
  <2> QED
    BY <1>2, <2>1, <2>2, <2>3 DEF EventIdentity
<1>9. ExchangesOK'
  <2>1. ASSUME NEW z \in exchanges \ {x}
        PROVE  /\ z.todo \subseteq z.batch
               /\ z.applying \subseteq z.batch
               /\ z.accepted \subseteq z.batch
               /\ z.applying \subseteq log'[z.at]
               /\ Ids(z.accepted) \subseteq Ids(log'[z.at])
    <3>1. z.at \in Nodes
      BY DEF LogInv, TypeOK, Exchange
    <3> QED
      BY <1>2, <3>1 DEF LogInv, ExchangesOK, Ids
  <2>2. /\ y.todo \subseteq y.batch
        /\ y.applying \subseteq y.batch
        /\ y.accepted \subseteq y.batch
        /\ y.applying \subseteq log'[y.at]
        /\ Ids(y.accepted) \subseteq Ids(log'[y.at])
    <3>1. log'[x.at] = log[x.at] \cup {e}
      BY <1>2 DEF LogInv, TypeOK
    <3> QED
      BY <1>2, <1>3, <1>4, <3>1 DEF LogInv, ExchangesOK, Ids
  <2> QED
    BY <1>5, <2>1, <2>2 DEF ExchangesOK
<1>10. PushedIsHeld'
  BY <1>1, <1>2 DEF LogInv, PushedIsHeld, Ids
<1> QED
  BY <1>6, <1>7, <1>8, <1>9, <1>10 DEF LogInv

\* Steps that touch neither logs, exchanges nor pushed.
LEMMA QuietInv ==
    ASSUME LogInv, TypeOK', log' = log, exchanges' = exchanges, pushed' = pushed,
           appends' \subseteq appends
    PROVE  LogInv'
<1>1. SeqsConsecutive'
  BY LogUnchanged
<1>2. EventIdentity' /\ ExchangesOK' /\ PushedIsHeld'
  BY DEF LogInv, EventIdentity, Received, ExchangesOK, PushedIsHeld
<1> QED
  BY <1>1, <1>2 DEF LogInv

\* Steps that replace or drop one exchange.
LEMMA ReplacedInv ==
    ASSUME LogInv, log' = log, NEW x \in exchanges, NEW y \in Exchange,
           exchanges' \subseteq exchanges \cup {y},
           y.batch = x.batch, y.at = x.at, y.todo \subseteq x.todo,
           y.applying \subseteq x.applying, y.accepted \subseteq x.batch,
           Ids(y.accepted) \subseteq Ids(log[x.at]),
           applied' \in [Nodes -> SUBSET Ops], appends' = appends, due' = due,
           pushed' = pushed, faults' \in [FaultKinds -> Nat]
    PROVE  LogInv'
<1>1. TypeOK'
  BY DEF LogInv, TypeOK
<1>2. SeqsConsecutive'
  BY LogUnchanged
<1>3. ExchangesOK' /\ EventIdentity'
  BY ExchangeReplaced, IdentityKept
<1>4. PushedIsHeld'
  BY DEF LogInv, PushedIsHeld
<1> QED
  BY <1>1, <1>2, <1>3, <1>4 DEF LogInv

\* The local steps.
LEMMA LocalStepInv == LogInv /\ LocalStep => LogInv'
<1> SUFFICES ASSUME LogInv, LocalStep PROVE LogInv'
  OBVIOUS
<1> USE DEF LogInv
<1>1. ASSUME NEW n \in Nodes, NEW op \in Ops, CommitWithEvent(n, op)
      PROVE  LogInv'
  <2>1. NextSeq(n) \in Nat \ {0} /\ NextSeq(n) <= NextSeq(n)
    <3>1. PICK k \in Nat : OwnSeqs(n) = 1..k
      BY DEF SeqsConsecutive
    <3> QED
      BY <3>1, NextSeqIsNext
  <2>2. log' = [log EXCEPT ![n] =
                  InsertInto(@, [node |-> n, seq |-> NextSeq(n), op |-> op])]
    BY <1>1 DEF CommitWithEvent
  <2>3. /\ appends' \subseteq appends /\ appends' = appends
        /\ exchanges' = exchanges /\ pushed' = pushed
    BY <1>1 DEF CommitWithEvent
  <2>4. (SeqsConsecutive /\ EventIdentity /\ ExchangesOK /\ PushedIsHeld)'
    BY <2>1, <2>2, <2>3, OwnInsertInv
  <2>5. log' \in [Nodes -> SUBSET Event]
    BY <2>1, <2>2, OwnInsert
  <2>6. TypeOK'
    BY <1>1, <2>3, <2>5 DEF TypeOK, CommitWithEvent
  <2> QED
    BY <2>4, <2>6
<1>2. ASSUME NEW n \in Nodes, NEW op \in Ops, Mutate(n, op)
      PROVE  LogInv'
  <2>1. TypeOK'
    BY <1>2 DEF TypeOK, Mutate, Append
  <2>2. SeqsConsecutive'
    <3> SUFFICES ASSUME NEW m \in Nodes
                 PROVE  \E k \in Nat : /\ OwnSeqs(m)' = 1..k
                                       /\ \A a \in appends' : a.at = m => a.seq <= k + 1
      BY DEF SeqsConsecutive
    <3>1. PICK k \in Nat : /\ OwnSeqs(m) = 1..k
                           /\ \A a \in appends : a.at = m => a.seq <= k + 1
      BY DEF SeqsConsecutive
    <3>2. OwnSeqs(m)' = OwnSeqs(m)
      BY <1>2 DEF Mutate, OwnSeqs
    <3> QED
      BY <1>2, <3>1, <3>2 DEF Mutate
  <2>3. EventIdentity' /\ ExchangesOK' /\ PushedIsHeld'
    BY <1>2 DEF Mutate, EventIdentity, Received, ExchangesOK, PushedIsHeld
  <2> QED
    BY <2>1, <2>2, <2>3
<1>3. ASSUME NEW a \in appends, ReadSeq(a)
      PROVE  LogInv'
  <2> DEFINE b == [a EXCEPT !.seq = NextSeq(a.at)]
  <2>1. a \in Append
    BY DEF TypeOK
  <2>2. PICK k \in Nat : OwnSeqs(a.at) = 1..k
    BY <2>1 DEF SeqsConsecutive, Append
  <2>3. NextSeq(a.at) = k + 1
    BY <2>1, <2>2, NextSeqIsNext DEF Append
  <2>4. b \in Append /\ b.at = a.at /\ b.seq = k + 1
    BY <2>1, <2>3 DEF Append
  <2>5. TypeOK'
    BY <1>3, <2>4 DEF TypeOK, ReadSeq
  <2>6. SeqsConsecutive'
    <3> SUFFICES ASSUME NEW m \in Nodes
                 PROVE  \E j \in Nat : /\ OwnSeqs(m)' = 1..j
                                       /\ \A c \in appends' : c.at = m => c.seq <= j + 1
      BY DEF SeqsConsecutive
    <3>1. PICK j \in Nat : /\ OwnSeqs(m) = 1..j
                           /\ \A c \in appends : c.at = m => c.seq <= j + 1
      BY DEF SeqsConsecutive
    <3>2. OwnSeqs(m)' = OwnSeqs(m)
      BY <1>3 DEF ReadSeq, OwnSeqs
    <3>3. a.at = m => j = k
      <4>1. 1..j = 1..k => j = k
        OBVIOUS
      <4> QED
        BY <4>1, <2>2, <3>1
    <3>4. b.at = m => b.seq <= j + 1
      BY <2>4, <3>3
    <3>5. \A c \in appends' : c \in appends \/ c = b
      BY <1>3 DEF ReadSeq
    <3> HIDE DEF b
    <3>6. \A c \in appends' : c.at = m => c.seq <= j + 1
      BY <3>1, <3>4, <3>5
    <3> QED
      BY <3>1, <3>2, <3>6
  <2>7. EventIdentity' /\ ExchangesOK' /\ PushedIsHeld'
    BY <1>3 DEF ReadSeq, EventIdentity, Received, ExchangesOK, PushedIsHeld
  <2> QED
    BY <2>5, <2>6, <2>7
<1>4. ASSUME NEW a \in appends, InsertOwn(a)
      PROVE  LogInv'
  <2>1. a.at \in Nodes /\ a.seq \in Nat \ {0} /\ a.op \in Ops
    BY <1>4 DEF TypeOK, Append, InsertOwn
  <2>2. a.seq <= NextSeq(a.at)
    <3>1. PICK k \in Nat : OwnSeqs(a.at) = 1..k /\ a.seq <= k + 1
      BY <2>1 DEF SeqsConsecutive
    <3> QED
      BY <2>1, <3>1, NextSeqIsNext
  <2>3. log' = [log EXCEPT ![a.at] =
                  InsertInto(@, [node |-> a.at, seq |-> a.seq, op |-> a.op])]
    BY <1>4 DEF InsertOwn
  <2>4. appends' \subseteq appends /\ exchanges' = exchanges /\ pushed' = pushed
    BY <1>4 DEF InsertOwn
  <2>5. (SeqsConsecutive /\ EventIdentity /\ ExchangesOK /\ PushedIsHeld)'
    BY <2>1, <2>2, <2>3, <2>4, OwnInsertInv
  <2>6. log' \in [Nodes -> SUBSET Event]
    BY <2>1, <2>2, <2>3, OwnInsert
  <2>7. TypeOK'
    BY <1>4, <2>4, <2>6 DEF TypeOK, InsertOwn
  <2> QED
    BY <2>5, <2>7
<1> QED
  BY <1>1, <1>2, <1>3, <1>4 DEF LocalStep

\* One fault more.
LEMMA FaultType ==
    ASSUME NEW kind \in FaultKinds, faults \in [FaultKinds -> Nat], Fault(kind)
    PROVE  faults' \in [FaultKinds -> Nat]
BY DEF Fault

\* The steps of a round.
LEMMA RoundStepInv == LogInv /\ RoundStep => LogInv'
<1> SUFFICES ASSUME LogInv, RoundStep PROVE LogInv'
  OBVIOUS
<1>1. ASSUME NEW n \in Nodes, SyncOnce(n)
      PROVE  LogInv'
  <2>1. TypeOK'
    BY <1>1 DEF LogInv, TypeOK, SyncOnce, Duty
  <2> QED
    BY <1>1, <2>1, QuietInv DEF SyncOnce
<1>2. ASSUME NEW n \in Nodes, LoseRequest(n)
      PROVE  LogInv'
  <2>1. TypeOK'
    BY <1>2, FaultType DEF LogInv, TypeOK, LoseRequest, FaultKinds
  <2> QED
    BY <1>2, <2>1, QuietInv DEF LoseRequest
<1>3. ASSUME NEW n \in Nodes, NEW p \in Nodes, StartPull(n, p)
      PROVE  LogInv'
  <2>1. due' \in [Nodes -> SUBSET Duty]
    BY <1>3 DEF LogInv, TypeOK, StartPull
  <2>2. GetEvents(p) \subseteq log[p]
    BY FirstEventsSubset DEF GetEvents
  <2>3. Begin("pull", n, p, GetEvents(p))
    BY <1>3 DEF StartPull
  <2> QED
    BY <2>1, <2>2, <2>3, BeginInv
<1>4. ASSUME NEW n \in Nodes, NEW p \in Nodes, StartPush(n, p)
      PROVE  LogInv'
  <2>1. due' \in [Nodes -> SUBSET Duty]
    BY <1>4 DEF LogInv, TypeOK, StartPush
  <2>2. GetUnpushedEvents(n, p) \subseteq log[n]
    BY FirstEventsSubset DEF GetUnpushedEvents
  <2>3. Begin("push", p, n, GetUnpushedEvents(n, p))
    BY <1>4 DEF StartPush
  <2> QED
    BY <2>1, <2>2, <2>3, BeginInv
<1> QED
  BY <1>1, <1>2, <1>3, <1>4 DEF RoundStep

\* The answer of a push marks the batch only when the peer holds all of it.
LEMMA FinishPushInv ==
    ASSUME LogInv, NEW x \in exchanges, FinishPush(x)
    PROVE  LogInv'
<1>1. /\ x \in Exchange /\ x.batch \subseteq Event
      /\ x.at \in Nodes /\ x.peer \in Nodes
      /\ Ids(x.accepted) \subseteq Ids(log[x.at])
  BY DEF LogInv, TypeOK, Exchange, ExchangesOK
<1>2. /\ exchanges' = exchanges \ {x}
      /\ UNCHANGED <<log, applied, appends, due, faults>>
  BY DEF FinishPush, Drop
<1>3. Ids(x.batch) \subseteq EventId
  BY <1>1 DEF Ids, Id, EventId, Event
<1>4. pushed' = pushed \/ (x.accepted = x.batch /\
         pushed' = [pushed EXCEPT ![x.peer][x.at] = @ \cup Ids(x.batch)])
  BY DEF FinishPush
<1>5. pushed' \in [Nodes -> [Nodes -> SUBSET EventId]]
  <2>1. pushed \in [Nodes -> [Nodes -> SUBSET EventId]]
    BY DEF LogInv, TypeOK
  <2>2. [pushed[x.peer] EXCEPT ![x.at] = @ \cup Ids(x.batch)] \in [Nodes -> SUBSET EventId]
    BY <1>1, <1>3, <2>1
  <2> QED
    BY <1>1, <1>4, <2>1, <2>2
<1>6. PushedIsHeld'
  <2>1. CASE pushed' = pushed
    BY <1>2, <2>1 DEF LogInv, PushedIsHeld
  <2>2. CASE /\ x.accepted = x.batch
             /\ pushed' = [pushed EXCEPT ![x.peer][x.at] = @ \cup Ids(x.batch)]
    <3>1. Ids(x.batch) \subseteq Ids(log[x.at])
      BY <1>1, <2>2
    <3>2. ASSUME NEW n \in Nodes, NEW p \in Nodes
          PROVE  pushed'[n][p] \subseteq Ids(log[p])
      <4>1. pushed[n][p] \subseteq Ids(log[p])
        BY DEF LogInv, PushedIsHeld
      <4>2. CASE n = x.peer /\ p = x.at
        BY <1>1, <2>2, <3>1, <4>1, <4>2 DEF LogInv, TypeOK
      <4>3. CASE ~(n = x.peer /\ p = x.at)
        BY <1>1, <2>2, <4>1, <4>3 DEF LogInv, TypeOK
      <4> QED
        BY <4>2, <4>3
    <3> QED
      BY <1>2, <3>2 DEF PushedIsHeld
  <2> QED
    BY <1>4, <2>1, <2>2
<1>7. TypeOK'
  BY <1>2, <1>5 DEF LogInv, TypeOK
<1>8. SeqsConsecutive'
  BY <1>2, LogUnchanged
<1>9. EventIdentity' /\ ExchangesOK'
  BY <1>2 DEF LogInv, EventIdentity, Received, ExchangesOK
<1> QED
  BY <1>6, <1>7, <1>8, <1>9 DEF LogInv

\* Every step that feeds an exchange.
LEMMA FeedStepInv == LogInv /\ FeedStep => LogInv'
<1> SUFFICES ASSUME LogInv, NEW x \in exchanges,
                    \/ InsertNew(x) \/ InsertKnown(x) \/ ApplyEvent(x)
                    \/ InsertFails(x) \/ ApplyFails(x)
                    \/ FinishPull(x) \/ FinishPush(x) \/ TimeOut(x)
             PROVE  LogInv'
  BY DEF FeedStep
<1>t. /\ x \in Exchange /\ x.todo \subseteq x.batch /\ x.applying \subseteq x.batch
      /\ x.accepted \subseteq x.batch /\ x.batch \subseteq Event /\ x.at \in Nodes
      /\ x.applying \subseteq log[x.at] /\ Ids(x.accepted) \subseteq Ids(log[x.at])
      /\ applied \in [Nodes -> SUBSET Ops] /\ faults \in [FaultKinds -> Nat]
  BY DEF LogInv, TypeOK, Exchange, ExchangesOK
<1>1. CASE InsertNew(x)
  BY <1>1, InsertNewInv
<1>2. CASE InsertKnown(x)
  <2>1. PICK e \in x.todo :
           /\ Id(e) \in Ids(log[x.at])
           /\ Replace(x, [x EXCEPT !.todo = @ \ {e}, !.accepted = @ \cup {e}])
           /\ UNCHANGED <<log, pushed, applied, appends, due, faults>>
    BY <1>2 DEF InsertKnown
  <2> DEFINE y == [x EXCEPT !.todo = @ \ {e}, !.accepted = @ \cup {e}]
  <2>2. /\ y \in Exchange /\ y.batch = x.batch /\ y.at = x.at /\ y.todo = x.todo \ {e}
        /\ y.applying = x.applying /\ y.accepted = x.accepted \cup {e}
    BY <1>t DEF Exchange
  <2>3. Ids(y.accepted) \subseteq Ids(log[x.at])
    BY <1>t, <2>1, <2>2 DEF Ids
  <2>4. exchanges' \subseteq exchanges \cup {y}
    BY <2>1 DEF Replace
  <2> QED
    BY <1>t, <2>1, <2>2, <2>3, <2>4, ReplacedInv
<1>3. CASE ApplyEvent(x)
  <2>1. PICK e \in x.applying :
           /\ applied' = [applied EXCEPT ![x.at] = @ \cup {e.op}]
           /\ Replace(x, [x EXCEPT !.applying = {}, !.accepted = @ \cup {e}])
           /\ UNCHANGED <<log, pushed, appends, due, faults>>
    BY <1>3 DEF ApplyEvent
  <2> DEFINE y == [x EXCEPT !.applying = {}, !.accepted = @ \cup {e}]
  <2>2. /\ y \in Exchange /\ y.batch = x.batch /\ y.at = x.at /\ y.todo = x.todo
        /\ y.applying = {} /\ y.accepted = x.accepted \cup {e}
    BY <1>t DEF Exchange
  <2>3. Ids(y.accepted) \subseteq Ids(log[x.at])
    BY <1>t, <2>1, <2>2 DEF Ids
  <2>4. exchanges' \subseteq exchanges \cup {y}
    BY <2>1 DEF Replace
  <2>5. applied' \in [Nodes -> SUBSET Ops]
    BY <1>t, <2>1 DEF Event
  <2> QED
    BY <1>t, <2>1, <2>2, <2>3, <2>4, <2>5, ReplacedInv
<1>4. CASE InsertFails(x)
  <2>1. PICK e \in x.todo :
           \/ Drop(x)
           \/ Replace(x, [x EXCEPT !.todo = @ \ {e}])
    BY <1>4 DEF InsertFails
  <2> DEFINE y == [x EXCEPT !.todo = @ \ {e}]
  <2>2. /\ y \in Exchange /\ y.batch = x.batch /\ y.at = x.at /\ y.todo = x.todo \ {e}
        /\ y.applying = x.applying /\ y.accepted = x.accepted
    BY <1>t DEF Exchange
  <2>3. exchanges' \subseteq exchanges \cup {y}
    BY <2>1 DEF Replace, Drop
  <2>4. UNCHANGED <<log, pushed, applied, appends, due>> /\ Fault("insert")
    BY <1>4 DEF InsertFails
  <2>5. faults' \in [FaultKinds -> Nat]
    BY <1>t, <2>4, FaultType DEF FaultKinds
  <2> QED
    BY <1>t, <2>2, <2>3, <2>4, <2>5, ReplacedInv
<1>5. CASE ApplyFails(x)
  <2> DEFINE y == [x EXCEPT !.applying = {}]
  <2>2. /\ y \in Exchange /\ y.batch = x.batch /\ y.at = x.at /\ y.todo = x.todo
        /\ y.applying = {} /\ y.accepted = x.accepted
    BY <1>t DEF Exchange
  <2>3. exchanges' \subseteq exchanges \cup {y}
    BY <1>5 DEF Replace, Drop, ApplyFails
  <2>4. UNCHANGED <<log, pushed, applied, appends, due>> /\ Fault("apply")
    BY <1>5 DEF ApplyFails
  <2>5. faults' \in [FaultKinds -> Nat]
    BY <1>t, <2>4, FaultType DEF FaultKinds
  <2> QED
    BY <1>t, <2>2, <2>3, <2>4, <2>5, ReplacedInv
<1>6. CASE FinishPull(x)
  <2>1. exchanges' \subseteq exchanges \cup {x}
    BY <1>6 DEF FinishPull, Drop
  <2>2. UNCHANGED <<log, pushed, applied, appends, due, faults>>
    BY <1>6 DEF FinishPull
  <2> QED
    BY <1>t, <2>1, <2>2, ReplacedInv
<1>7. CASE FinishPush(x)
  BY <1>7, FinishPushInv
<1>8. CASE TimeOut(x)
  <2> DEFINE y == [x EXCEPT !.waiting = FALSE]
  <2>2. /\ y \in Exchange /\ y.batch = x.batch /\ y.at = x.at /\ y.todo = x.todo
        /\ y.applying = x.applying /\ y.accepted = x.accepted
    BY <1>t DEF Exchange
  <2>3. exchanges' \subseteq exchanges \cup {y}
    BY <1>8 DEF Replace, TimeOut
  <2>4. UNCHANGED <<log, pushed, applied, appends, due>> /\ Fault("timeout")
    BY <1>8 DEF TimeOut
  <2>5. faults' \in [FaultKinds -> Nat]
    BY <1>t, <2>4, FaultType DEF FaultKinds
  <2> QED
    BY <1>t, <2>2, <2>3, <2>4, <2>5, ReplacedInv
<1> QED
  BY <1>1, <1>2, <1>3, <1>4, <1>5, <1>6, <1>7, <1>8

\* A restart keeps the tables; the requests it cuts off can only be forgotten.
LEMMA CrashInv ==
    ASSUME LogInv, NEW n \in Nodes, Crash(n)
    PROVE  LogInv'
<1> DEFINE cut(x) == IF Initiator(x) = n THEN [x EXCEPT !.waiting = FALSE] ELSE x
<1>1. /\ appends' \subseteq appends
      /\ due' = [due EXCEPT ![n] = {}]
      /\ UNCHANGED <<log, pushed, applied>>
      /\ Fault("crash")
  BY DEF Crash
<1>2. \A y \in exchanges' : \E x \in exchanges : y = cut(x)
  BY DEF Crash
<1>3. ASSUME NEW x \in exchanges
      PROVE  /\ cut(x) \in Exchange
             /\ cut(x).batch = x.batch /\ cut(x).at = x.at /\ cut(x).todo = x.todo
             /\ cut(x).applying = x.applying /\ cut(x).accepted = x.accepted
  BY DEF LogInv, TypeOK, Exchange
<1> HIDE DEF cut
<1>4. TypeOK'
  <2>1. faults' \in [FaultKinds -> Nat]
    BY <1>1, FaultType DEF LogInv, TypeOK, FaultKinds
  <2>2. exchanges' \subseteq Exchange
    BY <1>2, <1>3
  <2>3. due' \in [Nodes -> SUBSET Duty]
    BY <1>1 DEF LogInv, TypeOK
  <2> QED
    BY <1>1, <2>1, <2>2, <2>3 DEF LogInv, TypeOK
<1>5. SeqsConsecutive'
  BY <1>1, LogUnchanged
<1>6. EventIdentity'
  <2>1. \A y \in exchanges' : y.batch \subseteq Received
    BY <1>2, <1>3 DEF Received
  <2> QED
    BY <1>1, <2>1, IdentityKept
<1>7. ExchangesOK'
  <2> SUFFICES ASSUME NEW y \in exchanges'
               PROVE  /\ y.todo \subseteq y.batch
                      /\ y.applying \subseteq y.batch
                      /\ y.accepted \subseteq y.batch
                      /\ y.applying \subseteq log[y.at]
                      /\ Ids(y.accepted) \subseteq Ids(log[y.at])
    BY <1>1 DEF ExchangesOK
  <2>1. PICK x \in exchanges : y = cut(x)
    BY <1>2
  <2> QED
    BY <1>3, <2>1 DEF LogInv, ExchangesOK
<1>8. PushedIsHeld'
  BY <1>1 DEF LogInv, PushedIsHeld
<1> QED
  BY <1>4, <1>5, <1>6, <1>7, <1>8 DEF LogInv

\* Every step keeps the first layer.
LEMMA LogInvStep == LogInv /\ [Next]_vars => LogInv'
<1> SUFFICES ASSUME LogInv, [Next]_vars PROVE LogInv'
  OBVIOUS
<1>1. CASE UNCHANGED vars
  <2>1. TypeOK'
    BY <1>1 DEF LogInv, TypeOK, vars
  <2> QED
    BY <1>1, <2>1, QuietInv DEF vars
<1> QED
  BY <1>1, LocalStepInv, RoundStepInv, FeedStepInv, CrashInv DEF Next

-----------------------------------------------------------------------------
(* The refinement: steps on the logs *)

\* An own event is published, under a number nobody has seen, or ignored.
LEMMA OwnInsertPublishes ==
    ASSUME LogInv, NEW n \in Nodes, NEW s \in Nat \ {0}, NEW op \in Ops,
           log' = [log EXCEPT ![n] =
                      InsertInto(@, [node |-> n, seq |-> s, op |-> op])]
    PROVE  log' = log \/ Gossip!Publish(n, op)
<1> DEFINE new == [node |-> n, seq |-> s, op |-> op]
<1>1. log \in [Nodes -> SUBSET Event]
  BY DEF LogInv, TypeOK
<1>2. CASE Id(new) \in Ids(log[n])
  <2>1. InsertInto(log[n], new) = log[n]
    BY <1>2, InsertIntoAdds
  <2> QED
    BY <1>1, <2>1
<1>3. CASE Id(new) \notin Ids(log[n])
  <2>1. log' = [log EXCEPT ![n] = @ \cup {new}]
    <3>1. InsertInto(log[n], new) = log[n] \cup {new}
      BY <1>3, InsertIntoAdds
    <3> QED
      BY <3>1
  <2>2. new \in log'[n]
    BY <1>1, <2>1
  <2>3. ASSUME NEW m \in Nodes, NEW f \in log[m]
        PROVE  Gossip!Id(f) # Gossip!Id(new)
    <3>1. f \in Received
      BY DEF Received
    <3>2. f \in log[f.node]
      BY <3>1 DEF LogInv, EventIdentity
    <3>3. Id(f) = Id(new) => f.node = n
      BY DEF Id
    <3> QED
      BY <1>3, <3>2, <3>3 DEF Ids, Id, Gossip!Id
  <2> QED
    BY <2>1, <2>2, <2>3 DEF Gossip!Publish
<1> QED
  BY <1>2, <1>3

\* A received event is learned as its origin published it.
LEMMA InsertNewLearns ==
    ASSUME LogInv, NEW x \in exchanges, InsertNew(x)
    PROVE  \E n, m \in Nodes : Gossip!Learn(n, m)
<1>1. PICK e \in x.todo :
         /\ Id(e) \notin Ids(log[x.at])
         /\ log' = [log EXCEPT ![x.at] = InsertInto(@, e)]
  BY DEF InsertNew
<1>2. /\ log' = [log EXCEPT ![x.at] = @ \cup {e}]
      /\ e \in Event /\ x.at \in Nodes /\ e \in log[e.node]
  BY <1>1, ForeignInsert
<1>3. \A f \in log[x.at] : Gossip!Id(f) # Gossip!Id(e)
  BY <1>1 DEF Ids, Id, Gossip!Id
<1>4. e.node \in Nodes
  BY <1>2 DEF Event
<1>5. Gossip!Learn(x.at, e.node)
  BY <1>2, <1>3 DEF Gossip!Learn
<1> QED
  BY <1>2, <1>4, <1>5

\* Every step publishes an event, lets a node learn one, or leaves the logs alone.
LEMMA GossipStep == LogInv /\ [Next]_vars => [Gossip!Next]_log
<1> SUFFICES ASSUME LogInv, [Next]_vars PROVE log' = log \/ Gossip!Next
  OBVIOUS
<1>1. ASSUME NEW n \in Nodes, NEW op \in Ops, CommitWithEvent(n, op)
      PROVE  log' = log \/ Gossip!Next
  <2>1. NextSeq(n) \in Nat \ {0}
    <3>1. PICK k \in Nat : OwnSeqs(n) = 1..k
      BY DEF LogInv, SeqsConsecutive
    <3> QED
      BY <3>1, NextSeqIsNext
  <2>2. log' = [log EXCEPT ![n] =
                  InsertInto(@, [node |-> n, seq |-> NextSeq(n), op |-> op])]
    BY <1>1 DEF CommitWithEvent
  <2>3. log' = log \/ Gossip!Publish(n, op)
    BY <2>1, <2>2, OwnInsertPublishes
  <2> QED
    BY <2>3 DEF Gossip!Next
<1>2. ASSUME NEW a \in appends, InsertOwn(a)
      PROVE  log' = log \/ Gossip!Next
  <2>1. a.at \in Nodes /\ a.seq \in Nat \ {0} /\ a.op \in Ops
    BY <1>2 DEF LogInv, TypeOK, Append, InsertOwn
  <2>2. log' = [log EXCEPT ![a.at] =
                  InsertInto(@, [node |-> a.at, seq |-> a.seq, op |-> a.op])]
    BY <1>2 DEF InsertOwn
  <2>3. log' = log \/ Gossip!Publish(a.at, a.op)
    BY <2>1, <2>2, OwnInsertPublishes
  <2> QED
    BY <2>1, <2>3 DEF Gossip!Next
<1>3. ASSUME NEW x \in exchanges, InsertNew(x)
      PROVE  Gossip!Next
  BY <1>3, InsertNewLearns DEF Gossip!Next
<1>4. CASE LocalStep
  BY <1>1, <1>2, <1>4 DEF LocalStep, Mutate, ReadSeq
<1>5. CASE RoundStep
  BY <1>5 DEF RoundStep, SyncOnce, LoseRequest, StartPull, StartPush, Begin
<1>6. CASE FeedStep
  BY <1>3, <1>6 DEF FeedStep, InsertKnown, ApplyEvent, InsertFails, ApplyFails,
                    FinishPull, FinishPush, TimeOut
<1>7. CASE \E n \in Nodes : Crash(n)
  BY <1>7 DEF Crash
<1> QED
  BY <1>4, <1>5, <1>6, <1>7 DEF Next, vars

-----------------------------------------------------------------------------
(* Mutations: who has performed or applied what *)

\* Every event was applied where it was made; a mutation has one event, or one
\* handler that is still to append it.
OpsKnown ==
    /\ \A e \in Received : e.op \in applied[e.node]
    /\ \A e, f \in Received : e.op = f.op => e = f
    /\ \A a \in appends :
          /\ a.op \in applied[a.at]
          /\ \A e \in Received : e.op # a.op
          /\ \A b \in appends : b.op = a.op => b = a

\* A mutation in force at a node is known from its event, or was made there
\* and is in force nowhere else.
AppliedKnown ==
    \A n \in Nodes : \A op \in applied[n] :
        HasEvent(n, op) \/ \A m \in Nodes : op \in applied[m] => m = n

MutationInv == LogInv /\ OpsKnown /\ AppliedKnown /\ AppliedOnce

\* The events in logs and batches are events of the nodes.
LEMMA ReceivedType ==
    ASSUME LogInv
    PROVE  /\ Received \subseteq Event
           /\ \A e \in Received : e.node \in Nodes /\ e \in log[e.node]
<1>1. Received \subseteq Event
  BY DEF LogInv, TypeOK, Received, Exchange
<1> QED
  BY <1>1 DEF LogInv, EventIdentity, Event

\* What no event and no handler can be about: a mutation not performed yet.
LEMMA UnusedOp ==
    ASSUME MutationInv, NEW op \in Ops, op \notin Used
    PROVE  /\ \A n \in Nodes : op \notin applied[n]
           /\ \A e \in Received : e.op # op
           /\ \A a \in appends : a.op # op
<1>1. \A n \in Nodes : op \notin applied[n]
  BY DEF Used
<1>2. \A a \in appends : a.at \in Nodes
  BY DEF MutationInv, LogInv, TypeOK, Append
<1> QED
  BY <1>1, <1>2, ReceivedType DEF MutationInv, OpsKnown

\* Frames: steps that bring no event that nobody had.
LEMMA OpsKnownFrame ==
    ASSUME MutationInv, Received' \subseteq Received, appends' \subseteq appends,
           \A n \in Nodes : applied[n] \subseteq applied'[n]
    PROVE  OpsKnown'
<1>1. \A a \in appends : a.at \in Nodes
  BY DEF MutationInv, LogInv, TypeOK, Append
<1>2. \A e \in Received : e.node \in Nodes
  BY ReceivedType DEF MutationInv
<1> QED
  BY <1>1, <1>2 DEF MutationInv, OpsKnown

\* What is in force stays known while the logs only grow.
LEMMA AppliedKnownFrame ==
    ASSUME MutationInv, applied' = applied,
           \A n \in Nodes : log[n] \subseteq log'[n]
    PROVE  AppliedKnown'
BY DEF MutationInv, AppliedKnown, HasEvent

\* One exchange goes on or ends, and applies nothing new.
LEMMA AppliedOnceFrame ==
    ASSUME MutationInv, applied' = applied, log' = log,
           NEW x \in exchanges, NEW y,
           exchanges' \subseteq (exchanges \ {x}) \cup {y},
           y.at = x.at, y.applying \subseteq x.applying
    PROVE  AppliedOnce'
<1> SUFFICES ASSUME NEW z \in exchanges', NEW e \in z.applying
             PROVE  /\ e \in log[z.at]
                    /\ e.op \notin applied[z.at]
                    /\ \A w \in exchanges' : w.at = z.at /\ e \in w.applying => w = z
  BY DEF AppliedOnce
<1>1. CASE z = y
  BY <1>1 DEF MutationInv, AppliedOnce
<1>2. CASE z \in exchanges \ {x}
  <2>1. ASSUME NEW w \in exchanges', w.at = z.at, e \in w.applying
        PROVE  w = z
    BY <1>2, <2>1 DEF MutationInv, AppliedOnce
  <2> QED
    BY <1>2, <2>1 DEF MutationInv, AppliedOnce
<1> QED
  BY <1>1, <1>2

\* The same exchanges, more events in the logs, and no mutation applied that
\* an event being applied is about.
LEMMA AppliedOnceLocal ==
    ASSUME MutationInv, exchanges' = exchanges,
           \A n \in Nodes : log[n] \subseteq log'[n],
           NEW op, \A e \in Received : e.op # op,
           \A n \in Nodes : applied'[n] \subseteq applied[n] \cup {op}
    PROVE  AppliedOnce'
<1>1. \A x \in exchanges : x.at \in Nodes /\ \A e \in x.applying : e \in Received
  BY DEF MutationInv, LogInv, TypeOK, Exchange, ExchangesOK, Received
<1> QED
  BY <1>1 DEF MutationInv, AppliedOnce

\* An event that joins a log for a mutation nobody has an event of.
LEMMA NewEventKnown ==
    ASSUME MutationInv, NEW n \in Nodes, NEW s, NEW op,
           log' = [log EXCEPT ![n] =
                      InsertInto(@, [node |-> n, seq |-> s, op |-> op])],
           \A e \in Received : e.op # op,
           op \in applied'[n],
           \A m \in Nodes : applied[m] \subseteq applied'[m],
           exchanges' = exchanges,
           appends' \subseteq appends, \A a \in appends' : a.op # op
    PROVE  OpsKnown' /\ \A m \in Nodes : log[m] \subseteq log'[m]
<1> DEFINE new == [node |-> n, seq |-> s, op |-> op]
<1>1. log \in [Nodes -> SUBSET Event]
  BY DEF MutationInv, LogInv, TypeOK
<1>2. \A m \in Nodes : log[m] \subseteq log'[m] /\ log'[m] \subseteq log[m] \cup {new}
  <2>1. InsertInto(log[n], new) \subseteq log[n] \cup {new}
        /\ log[n] \subseteq InsertInto(log[n], new)
    BY InsertIntoAdds
  <2> QED
    BY <1>1, <2>1
<1>3. Received' \subseteq Received \cup {new}
  BY <1>2 DEF Received
<1>4. new.op = op /\ new.node = n
  OBVIOUS
<1> HIDE DEF new
<1>5. \A a \in appends : a.at \in Nodes
  BY DEF MutationInv, LogInv, TypeOK, Append
<1>6. \A e \in Received : e.node \in Nodes
  BY ReceivedType DEF MutationInv
<1>7. \A e \in Received' : e.op \in applied'[e.node]
  BY <1>3, <1>4, <1>6 DEF MutationInv, OpsKnown
<1>8. \A e, f \in Received' : e.op = f.op => e = f
  BY <1>3, <1>4 DEF MutationInv, OpsKnown
<1>9. \A a \in appends' : /\ a.op \in applied'[a.at]
                          /\ \A e \in Received' : e.op # a.op
                          /\ \A b \in appends' : b.op = a.op => b = a
  BY <1>3, <1>4, <1>5 DEF MutationInv, OpsKnown
<1> QED
  BY <1>2, <1>7, <1>8, <1>9 DEF OpsKnown

\* The second layer: writes of users and what appendEvent does.
LEMMA LocalStepMutations ==
    ASSUME MutationInv, LocalStep
    PROVE  OpsKnown' /\ AppliedKnown' /\ AppliedOnce'
<1>t. /\ applied \in [Nodes -> SUBSET Ops] /\ log \in [Nodes -> SUBSET Event]
      /\ appends \subseteq Append
  BY DEF MutationInv, LogInv, TypeOK
<1>0. ASSUME NEW n \in Nodes, NEW op \in Ops, op \notin Used,
             applied' = [applied EXCEPT ![n] = @ \cup {op}],
             \A m \in Nodes : log[m] \subseteq log'[m]
      PROVE  /\ AppliedKnown'
             /\ op \in applied'[n]
             /\ \A m \in Nodes : applied[m] \subseteq applied'[m]
             /\ \A m \in Nodes : applied'[m] \subseteq applied[m] \cup {op}
  <2>1. /\ op \in applied'[n]
        /\ \A m \in Nodes : applied[m] \subseteq applied'[m]
        /\ \A m \in Nodes : applied'[m] \subseteq applied[m] \cup {op}
        /\ \A m \in Nodes \ {n} : applied'[m] = applied[m]
    BY <1>t, <1>0
  <2>2. \A m \in Nodes : op \notin applied[m]
    BY <1>0, UnusedOp
  <2>3. ASSUME NEW m \in Nodes, NEW q \in applied'[m]
        PROVE  HasEvent(m, q)' \/ \A k \in Nodes : q \in applied'[k] => k = m
    <3>1. CASE q = op
      BY <2>1, <2>2, <3>1
    <3>2. CASE q # op
      BY <1>0, <2>1, <3>2 DEF MutationInv, AppliedKnown, HasEvent
    <3> QED
      BY <3>1, <3>2
  <2> QED
    BY <2>1, <2>3 DEF AppliedKnown
<1>1. ASSUME NEW n \in Nodes, NEW op \in Ops, CommitWithEvent(n, op)
      PROVE  OpsKnown' /\ AppliedKnown' /\ AppliedOnce'
  <2>1. /\ op \notin Used
        /\ applied' = [applied EXCEPT ![n] = @ \cup {op}]
        /\ log' = [log EXCEPT ![n] =
                      InsertInto(@, [node |-> n, seq |-> NextSeq(n), op |-> op])]
        /\ UNCHANGED <<pushed, appends, exchanges, due, faults>>
    BY <1>1 DEF CommitWithEvent
  <2>2. (\A e \in Received : e.op # op) /\ (\A a \in appends : a.op # op)
    BY <2>1, UnusedOp
  <2>3. op \in applied'[n] /\ \A m \in Nodes : applied[m] \subseteq applied'[m]
    BY <1>t, <2>1
  <2>4. OpsKnown' /\ \A m \in Nodes : log[m] \subseteq log'[m]
    BY <2>1, <2>2, <2>3, NewEventKnown
  <2>5. AppliedKnown' /\ \A m \in Nodes : applied'[m] \subseteq applied[m] \cup {op}
    BY <1>0, <2>1, <2>4
  <2> QED
    BY <2>1, <2>2, <2>4, <2>5, AppliedOnceLocal
<1>2. ASSUME NEW n \in Nodes, NEW op \in Ops, Mutate(n, op)
      PROVE  OpsKnown' /\ AppliedKnown' /\ AppliedOnce'
  <2> DEFINE new == [at |-> n, op |-> op, seq |-> 0]
  <2>1. /\ op \notin Used
        /\ applied' = [applied EXCEPT ![n] = @ \cup {op}]
        /\ appends' = appends \cup {new}
        /\ UNCHANGED <<log, pushed, exchanges, due, faults>>
    BY <1>2 DEF Mutate
  <2>2. (\A e \in Received : e.op # op) /\ (\A a \in appends : a.op # op)
    BY <2>1, UnusedOp
  <2>3. /\ AppliedKnown' /\ op \in applied'[n]
        /\ \A m \in Nodes : applied[m] \subseteq applied'[m]
        /\ \A m \in Nodes : applied'[m] \subseteq applied[m] \cup {op}
    BY <1>0, <2>1
  <2>4. AppliedOnce'
    BY <2>1, <2>2, <2>3, AppliedOnceLocal
  <2>5. OpsKnown'
    <3>1. Received' = Received
      BY <2>1 DEF Received
    <3>2. \A e \in Received : e.node \in Nodes
      BY ReceivedType DEF MutationInv
    <3>3. \A a \in appends : a.at \in Nodes
      BY <1>t DEF Append
    <3>4. new.op = op /\ new.at = n
      OBVIOUS
    <3> HIDE DEF new
    <3>5. \A a \in appends' : /\ a.op \in applied'[a.at]
                              /\ \A e \in Received : e.op # a.op
                              /\ \A b \in appends' : b.op = a.op => b = a
      BY <2>1, <2>2, <2>3, <3>3, <3>4 DEF MutationInv, OpsKnown
    <3> QED
      BY <2>3, <3>1, <3>2, <3>5 DEF MutationInv, OpsKnown
  <2> QED
    BY <2>3, <2>4, <2>5
<1>3. ASSUME NEW a \in appends, ReadSeq(a)
      PROVE  OpsKnown' /\ AppliedKnown' /\ AppliedOnce'
  <2> DEFINE b == [a EXCEPT !.seq = NextSeq(a.at)]
  <2>1. /\ appends' = (appends \ {a}) \cup {b}
        /\ UNCHANGED <<log, pushed, applied, exchanges, due, faults>>
    BY <1>3 DEF ReadSeq
  <2>2. b.at = a.at /\ b.op = a.op
    BY <1>t DEF Append
  <2>3. Received' = Received
    BY <2>1 DEF Received
  <2> HIDE DEF b
  <2>4. \A c \in appends' : /\ c.op \in applied'[c.at]
                            /\ \A e \in Received : e.op # c.op
                            /\ \A d \in appends' : d.op = c.op => d = c
    BY <2>1, <2>2 DEF MutationInv, OpsKnown
  <2>5. OpsKnown'
    BY <2>1, <2>3, <2>4 DEF MutationInv, OpsKnown
  <2> QED
    BY <2>1, <2>5 DEF MutationInv, AppliedKnown, AppliedOnce, HasEvent
<1>4. ASSUME NEW a \in appends, InsertOwn(a)
      PROVE  OpsKnown' /\ AppliedKnown' /\ AppliedOnce'
  <2>1. /\ log' = [log EXCEPT ![a.at] =
                      InsertInto(@, [node |-> a.at, seq |-> a.seq, op |-> a.op])]
        /\ appends' = appends \ {a}
        /\ UNCHANGED <<pushed, applied, exchanges, due, faults>>
    BY <1>4 DEF InsertOwn
  <2>2. /\ \A e \in Received : e.op # a.op
        /\ a.op \in applied'[a.at] /\ a.at \in Nodes
        /\ \A c \in appends' : c.op # a.op
    BY <1>t, <2>1 DEF MutationInv, OpsKnown, Append
  <2>3. OpsKnown' /\ \A m \in Nodes : log[m] \subseteq log'[m]
    BY <2>1, <2>2, NewEventKnown
  <2>4. AppliedKnown'
    BY <2>1, <2>3, AppliedKnownFrame
  <2>5. AppliedOnce'
    BY <2>1, <2>2, <2>3, AppliedOnceLocal
  <2> QED
    BY <2>3, <2>4, <2>5
<1> QED
  BY <1>1, <1>2, <1>3, <1>4 DEF LocalStep

\* The second layer: rounds, their requests and their ends.
LEMMA RoundStepMutations ==
    ASSUME MutationInv, RoundStep
    PROVE  OpsKnown' /\ AppliedKnown' /\ AppliedOnce'
<1>1. UNCHANGED <<log, applied, appends>>
  BY DEF RoundStep, SyncOnce, LoseRequest, StartPull, StartPush, Begin
<1>2. \A y \in exchanges' \ exchanges : y.applying = {} /\ y.batch \subseteq Received
  <2>1. ASSUME NEW kind, NEW at, NEW peer, NEW m \in Nodes, NEW events \in SUBSET log[m],
               Begin(kind, at, peer, events)
        PROVE  \A y \in exchanges' \ exchanges : y.applying = {} /\ y.batch \subseteq Received
    BY <2>1 DEF Begin, Received
  <2>2. \A n, p \in Nodes :
           GetEvents(p) \subseteq log[p] /\ GetUnpushedEvents(n, p) \subseteq log[n]
    BY FirstEventsSubset DEF GetEvents, GetUnpushedEvents
  <2>3. CASE exchanges' = exchanges
    BY <2>3
  <2>4. CASE \E n, p \in Nodes : StartPull(n, p) \/ StartPush(n, p)
    BY <2>1, <2>2, <2>4 DEF StartPull, StartPush
  <2> QED
    BY <2>3, <2>4 DEF RoundStep, SyncOnce, LoseRequest
<1>3. Received' \subseteq Received
  BY <1>1, <1>2 DEF Received
<1>4. OpsKnown' /\ AppliedKnown'
  BY <1>1, <1>3, OpsKnownFrame, AppliedKnownFrame
<1>5. AppliedOnce'
  BY <1>1, <1>2 DEF MutationInv, AppliedOnce
<1> QED
  BY <1>4, <1>5

\* InsertEvent reports a new row: nobody applies this event at the node, and
\* nobody has applied it there.
LEMMA InsertNewMutations ==
    ASSUME MutationInv, NEW x \in exchanges, InsertNew(x)
    PROVE  OpsKnown' /\ AppliedKnown' /\ AppliedOnce'
<1> USE DEF MutationInv
<1>1. PICK e \in x.todo :
         /\ Current(x, e)
         /\ Id(e) \notin Ids(log[x.at])
         /\ log' = [log EXCEPT ![x.at] = InsertInto(@, e)]
         /\ Replace(x, [x EXCEPT !.todo = @ \ {e}, !.applying = {e}])
         /\ UNCHANGED <<pushed, applied, appends, due, faults>>
  BY DEF InsertNew
<1> DEFINE y == [x EXCEPT !.todo = @ \ {e}, !.applying = {e}]
<1>2. /\ log' = [log EXCEPT ![x.at] = @ \cup {e}]
      /\ e \in Event /\ x.at \in Nodes
      /\ e.node # x.at /\ e \in log[e.node]
      /\ \A m \in Nodes : log[m] \subseteq log'[m]
  BY <1>1, ForeignInsert
<1>3. e \in Received /\ e.node \in Nodes
  BY <1>2 DEF Received, Event
<1>4. log'[x.at] = log[x.at] \cup {e} /\ \A m \in Nodes \ {x.at} : log'[m] = log[m]
  BY <1>2 DEF LogInv, TypeOK
<1>5. y.at = x.at /\ y.applying = {e} /\ y.batch = x.batch
  BY DEF LogInv, TypeOK, Exchange
<1>6. exchanges' = (exchanges \ {x}) \cup {y}
  BY <1>1 DEF Replace
<1> HIDE DEF y
<1>7. Received' \subseteq Received
  BY <1>3, <1>4, <1>5, <1>6 DEF Received
<1>8. OpsKnown' /\ AppliedKnown'
  BY <1>1, <1>2, <1>7, OpsKnownFrame, AppliedKnownFrame
<1>9. e \notin log[x.at]
  BY <1>1 DEF Ids
<1>10. e.op \notin applied[x.at]
  <2>1. ~HasEvent(x.at, e.op)
    <3>1. \A f \in log[x.at] : f \in Received
      BY <1>2 DEF Received
    <3> QED
      BY <1>3, <1>9, <3>1 DEF HasEvent, OpsKnown
  <2>2. e.op \in applied[e.node]
    BY <1>3 DEF OpsKnown
  <2> QED
    BY <1>2, <1>3, <2>1, <2>2 DEF AppliedKnown
<1>11. \A z \in exchanges : z.at = x.at => e \notin z.applying
  BY <1>9 DEF LogInv, ExchangesOK
<1>12. ASSUME NEW z \in exchanges', NEW f \in z.applying
       PROVE  /\ f \in log'[z.at]
              /\ f.op \notin applied[z.at]
              /\ \A w \in exchanges' : w.at = z.at /\ f \in w.applying => w = z
  <2>1. CASE z = y
    BY <1>4, <1>5, <1>6, <1>10, <1>11, <2>1
  <2>2. CASE z \in exchanges \ {x}
    <3>1. z.at \in Nodes
      BY <2>2 DEF LogInv, TypeOK, Exchange
    <3>2. f \in log'[z.at] /\ f.op \notin applied[z.at]
      BY <1>2, <2>2, <3>1 DEF AppliedOnce
    <3>3. ASSUME NEW w \in exchanges', w.at = z.at, f \in w.applying
          PROVE  w = z
      BY <1>5, <1>6, <1>11, <2>2, <3>3 DEF AppliedOnce
    <3> QED
      BY <3>2, <3>3
  <2> QED
    BY <1>6, <2>1, <2>2
<1>13. AppliedOnce'
  BY <1>1, <1>12 DEF AppliedOnce
<1> QED
  BY <1>8, <1>13

\* The node applies the event it has inserted.
LEMMA ApplyEventMutations ==
    ASSUME MutationInv, NEW x \in exchanges, ApplyEvent(x)
    PROVE  OpsKnown' /\ AppliedKnown' /\ AppliedOnce'
<1> USE DEF MutationInv
<1>1. PICK e \in x.applying :
         /\ applied' = [applied EXCEPT ![x.at] = @ \cup {e.op}]
         /\ Replace(x, [x EXCEPT !.applying = {}, !.accepted = @ \cup {e}])
         /\ UNCHANGED <<log, pushed, appends, due, faults>>
  BY DEF ApplyEvent
<1> DEFINE y == [x EXCEPT !.applying = {}, !.accepted = @ \cup {e}]
<1>2. /\ x \in Exchange /\ x.at \in Nodes /\ e \in x.batch /\ e \in log[x.at]
      /\ applied \in [Nodes -> SUBSET Ops]
  BY DEF LogInv, TypeOK, Exchange, ExchangesOK
<1>3. /\ applied'[x.at] = applied[x.at] \cup {e.op}
      /\ \A m \in Nodes \ {x.at} : applied'[m] = applied[m]
  BY <1>1, <1>2
<1>4. y.at = x.at /\ y.applying = {} /\ y.batch = x.batch
  BY <1>2 DEF Exchange
<1>5. exchanges' = (exchanges \ {x}) \cup {y}
  BY <1>1 DEF Replace
<1> HIDE DEF y
<1>6. Received' \subseteq Received
  BY <1>1, <1>4, <1>5 DEF Received
<1>7. OpsKnown'
  BY <1>1, <1>3, <1>6, OpsKnownFrame
<1>8. e \in Received /\ e.node \in Nodes /\ e \in log[e.node]
  <2>1. e \in Received
    BY <1>2 DEF Received
  <2> QED
    BY <2>1, ReceivedType
<1>9. e.op \in applied[e.node]
  BY <1>8 DEF OpsKnown
<1>10. AppliedKnown'
  <2> SUFFICES ASSUME NEW m \in Nodes, NEW q \in applied'[m]
               PROVE  HasEvent(m, q) \/ \A k \in Nodes : q \in applied'[k] => k = m
    BY <1>1 DEF AppliedKnown, HasEvent
  <2>1. CASE q # e.op
    BY <1>3, <2>1 DEF AppliedKnown
  <2>2. CASE q = e.op
    <3>1. CASE m = x.at \/ m = e.node
      BY <1>2, <1>8, <2>2, <3>1 DEF HasEvent
    <3>2. CASE m # x.at /\ m # e.node
      BY <1>3, <1>8, <1>9, <2>2, <3>2 DEF AppliedKnown
    <3> QED
      BY <3>1, <3>2
  <2> QED
    BY <2>1, <2>2
<1>11. AppliedOnce'
  <2> SUFFICES ASSUME NEW z \in exchanges', NEW f \in z.applying
               PROVE  /\ f \in log[z.at]
                      /\ f.op \notin applied'[z.at]
                      /\ \A w \in exchanges' : w.at = z.at /\ f \in w.applying => w = z
    BY <1>1 DEF AppliedOnce
  <2>1. z \in exchanges \ {x}
    BY <1>4, <1>5
  <2>2. z.at \in Nodes /\ f \in Received
    BY <2>1 DEF LogInv, TypeOK, Exchange, ExchangesOK, Received
  <2>3. f.op \notin applied'[z.at]
    <3>1. z.at = x.at => f # e
      BY <2>1 DEF AppliedOnce
    <3>2. z.at = x.at => f.op # e.op
      BY <1>8, <2>2, <3>1 DEF OpsKnown
    <3>3. f.op \notin applied[z.at]
      BY <2>1 DEF AppliedOnce
    <3> QED
      BY <1>3, <2>2, <3>2, <3>3
  <2> QED
    BY <1>4, <1>5, <2>1, <2>3 DEF AppliedOnce
<1> QED
  BY <1>7, <1>10, <1>11

\* The second layer: feeding the events of an exchange to a store.
LEMMA FeedStepMutations ==
    ASSUME MutationInv, FeedStep
    PROVE  OpsKnown' /\ AppliedKnown' /\ AppliedOnce'
<1> SUFFICES ASSUME NEW x \in exchanges,
                    \/ InsertNew(x) \/ InsertKnown(x) \/ ApplyEvent(x)
                    \/ InsertFails(x) \/ ApplyFails(x)
                    \/ FinishPull(x) \/ FinishPush(x) \/ TimeOut(x)
             PROVE  OpsKnown' /\ AppliedKnown' /\ AppliedOnce'
  BY DEF FeedStep
<1>1. ASSUME NEW y, y.at = x.at, y.applying \subseteq x.applying, y.batch = x.batch,
             exchanges' \subseteq (exchanges \ {x}) \cup {y},
             UNCHANGED <<log, applied, appends>>
      PROVE  OpsKnown' /\ AppliedKnown' /\ AppliedOnce'
  <2>1. Received' \subseteq Received
    BY <1>1 DEF Received
  <2> QED
    BY <1>1, <2>1, OpsKnownFrame, AppliedKnownFrame, AppliedOnceFrame
<1>2. x \in Exchange
  BY DEF MutationInv, LogInv, TypeOK
<1>3. CASE InsertNew(x)
  BY <1>3, InsertNewMutations
<1>4. CASE ApplyEvent(x)
  BY <1>4, ApplyEventMutations
<1>5. CASE InsertKnown(x)
  <2>1. PICK e \in x.todo :
           /\ Replace(x, [x EXCEPT !.todo = @ \ {e}, !.accepted = @ \cup {e}])
           /\ UNCHANGED <<log, applied, appends>>
    BY <1>5 DEF InsertKnown
  <2> DEFINE y == [x EXCEPT !.todo = @ \ {e}, !.accepted = @ \cup {e}]
  <2>2. y.at = x.at /\ y.applying = x.applying /\ y.batch = x.batch
    BY <1>2 DEF Exchange
  <2> QED
    BY <1>1, <2>1, <2>2 DEF Replace
<1>6. CASE InsertFails(x)
  <2>1. PICK e \in x.todo :
           /\ Drop(x) \/ Replace(x, [x EXCEPT !.todo = @ \ {e}])
           /\ UNCHANGED <<log, applied, appends>>
    BY <1>6 DEF InsertFails
  <2> DEFINE y == [x EXCEPT !.todo = @ \ {e}]
  <2>2. y.at = x.at /\ y.applying = x.applying /\ y.batch = x.batch
    BY <1>2 DEF Exchange
  <2>3. exchanges' \subseteq (exchanges \ {x}) \cup {y}
    BY <2>1 DEF Replace, Drop
  <2> QED
    BY <1>1, <2>1, <2>2, <2>3
<1>7. CASE ApplyFails(x)
  <2> DEFINE y == [x EXCEPT !.applying = {}]
  <2>1. y.at = x.at /\ y.applying \subseteq x.applying /\ y.batch = x.batch
    BY <1>2 DEF Exchange
  <2>2. exchanges' \subseteq (exchanges \ {x}) \cup {y}
        /\ UNCHANGED <<log, applied, appends>>
    BY <1>7 DEF ApplyFails, Replace, Drop
  <2> QED
    BY <1>1, <2>1, <2>2
<1>8. CASE FinishPull(x) \/ FinishPush(x)
  <2>1. exchanges' \subseteq (exchanges \ {x}) \cup {x}
        /\ UNCHANGED <<log, applied, appends>>
    BY <1>8 DEF FinishPull, FinishPush, Drop
  <2> QED
    BY <1>1, <2>1
<1>9. CASE TimeOut(x)
  <2> DEFINE y == [x EXCEPT !.waiting = FALSE]
  <2>1. y.at = x.at /\ y.applying = x.applying /\ y.batch = x.batch
    BY <1>2 DEF Exchange
  <2>2. exchanges' \subseteq (exchanges \ {x}) \cup {y}
        /\ UNCHANGED <<log, applied, appends>>
    BY <1>9 DEF TimeOut, Replace
  <2> QED
    BY <1>1, <2>1, <2>2
<1> QED
  BY <1>3, <1>4, <1>5, <1>6, <1>7, <1>8, <1>9

\* The second layer: a restart leaves the tables only.
LEMMA CrashMutations ==
    ASSUME MutationInv, NEW n \in Nodes, Crash(n)
    PROVE  OpsKnown' /\ AppliedKnown' /\ AppliedOnce'
<1> DEFINE cut(x) == IF Initiator(x) = n THEN [x EXCEPT !.waiting = FALSE] ELSE x
<1>1. /\ appends' \subseteq appends
      /\ UNCHANGED <<log, pushed, applied>>
      /\ \A y \in exchanges' : \E x \in exchanges : y = cut(x)
  BY DEF Crash
<1>2. ASSUME NEW x \in exchanges
      PROVE  cut(x).batch = x.batch /\ cut(x).at = x.at /\ cut(x).applying = x.applying
  BY DEF MutationInv, LogInv, TypeOK, Exchange
<1> HIDE DEF cut
<1>3. Received' \subseteq Received
  BY <1>1, <1>2 DEF Received
<1>4. OpsKnown' /\ AppliedKnown'
  BY <1>1, <1>3, OpsKnownFrame, AppliedKnownFrame
<1>5. AppliedOnce'
  <2> SUFFICES ASSUME NEW y \in exchanges', NEW e \in y.applying
               PROVE  /\ e \in log[y.at]
                      /\ e.op \notin applied[y.at]
                      /\ \A z \in exchanges' : z.at = y.at /\ e \in z.applying => z = y
    BY <1>1 DEF AppliedOnce
  <2>1. PICK x \in exchanges : y = cut(x)
    BY <1>1
  <2>2. ASSUME NEW z \in exchanges', z.at = y.at, e \in z.applying
        PROVE  z = y
    <3>1. PICK w \in exchanges : z = cut(w)
      BY <1>1
    <3>2. w = x
      BY <1>2, <2>1, <2>2, <3>1 DEF MutationInv, AppliedOnce
    <3> QED
      BY <2>1, <3>1, <3>2
  <2> QED
    BY <1>2, <2>1, <2>2 DEF MutationInv, AppliedOnce
<1> QED
  BY <1>4, <1>5

\* The second layer at the start.
LEMMA MutationInvInit == Init => MutationInv
<1> SUFFICES ASSUME Init PROVE MutationInv
  OBVIOUS
<1>1. Received = {}
  BY DEF Init, Received
<1>2. OpsKnown
  BY <1>1 DEF Init, OpsKnown
<1>3. AppliedKnown /\ AppliedOnce
  BY DEF Init, AppliedKnown, AppliedOnce
<1> QED
  BY <1>2, <1>3, LogInvInit DEF MutationInv

\* Every step keeps the second layer.
LEMMA MutationInvStep == MutationInv /\ [Next]_vars => MutationInv'
<1> SUFFICES ASSUME MutationInv, [Next]_vars PROVE MutationInv'
  OBVIOUS
<1>1. LogInv'
  BY LogInvStep DEF MutationInv
<1>2. CASE UNCHANGED vars
  BY <1>1, <1>2 DEF MutationInv, OpsKnown, Received, AppliedKnown, HasEvent,
                    AppliedOnce, vars
<1>3. CASE Next
  BY <1>1, <1>3, LocalStepMutations, RoundStepMutations, FeedStepMutations,
     CrashMutations DEF Next, MutationInv
<1> QED
  BY <1>2, <1>3

-----------------------------------------------------------------------------
(* Order: no event overtakes an earlier one of its node *)

\* The events an exchange still has to insert continue the log it feeds.
TodoGapFree ==
    faults["insert"] = 0 =>
        \A x \in exchanges : \A e \in x.todo : \A s \in 1..e.seq :
            <<e.node, s>> \in Ids(x.todo) \cup Ids(log[x.at])

LogsFinite == \A n \in Nodes : IsFiniteSet(log[n])

OrderInv == LogInv /\ LogsFinite /\ GapFree /\ TodoGapFree

\* LIMIT takes what comes first: with an event, every earlier one.
LEMMA FirstEventsClosed ==
    ASSUME NEW S \in SUBSET Event, IsFiniteSet(S),
           NEW e \in FirstEvents(S), NEW f \in S, Before(f, e)
    PROVE  f \in FirstEvents(S)
<1> DEFINE Lower(g) == {h \in S : Before(h, g)}
<1>1. e \in S /\ Cardinality(Lower(e)) < BatchLimit
  BY DEF FirstEvents
<1>2. Lower(f) \subseteq Lower(e)
  <2>1. ASSUME NEW h \in S, Before(h, f)
        PROVE  Before(h, e)
    <3>1. \A g \in S : g.node \in Nat /\ g.seq \in Nat
      BY NodesAssumption DEF Event
    <3>2. /\ e.node \in Nat /\ f.node \in Nat /\ h.node \in Nat
          /\ e.seq \in Nat /\ f.seq \in Nat /\ h.seq \in Nat
      BY <1>1, <3>1
    <3> QED
      BY <2>1, <3>2 DEF Before
  <2> QED
    BY <2>1
<1>3. IsFiniteSet(Lower(e))
  BY FS_Subset
<1>4. IsFiniteSet(Lower(f)) /\ Cardinality(Lower(f)) <= Cardinality(Lower(e))
  BY <1>2, <1>3, FS_Subset
<1>5. Cardinality(Lower(e)) \in Nat /\ Cardinality(Lower(f)) \in Nat
  BY <1>3, <1>4, FS_CardinalityType
<1>6. Cardinality(Lower(f)) < BatchLimit
  BY <1>1, <1>4, <1>5, LimitAssumption
<1> QED
  BY <1>6 DEF FirstEvents

\* The events of a batch continue any log that holds those left out by id.
LEMMA BatchContinues ==
    ASSUME NEW S \in SUBSET Event, IsFiniteSet(S), NEW K, NEW T,
           \A e \in S : \A s \in 1..e.seq : <<e.node, s>> \in Ids(S) \cup K,
           T = FirstEvents(S)
    PROVE  \A e \in T : \A s \in 1..e.seq : <<e.node, s>> \in Ids(T) \cup K
<1> SUFFICES ASSUME NEW e \in T, NEW s \in 1..e.seq, <<e.node, s>> \notin K
             PROVE  <<e.node, s>> \in Ids(T)
  OBVIOUS
<1>1. e \in S /\ e.seq \in Nat /\ e.node \in Nat
  BY NodesAssumption DEF FirstEvents, Event
<1>2. PICK f \in S : Id(f) = <<e.node, s>>
  BY <1>1 DEF Ids
<1>3. f.node = e.node /\ f.seq = s
  BY <1>2 DEF Id
<1>4. CASE s = e.seq
  BY <1>4 DEF Ids, Id
<1>5. CASE s < e.seq
  <2>1. Before(f, e)
    BY <1>3, <1>5 DEF Before
  <2>2. f \in T
    BY <2>1, FirstEventsClosed
  <2> QED
    BY <1>2, <2>2 DEF Ids
<1> QED
  BY <1>1, <1>4, <1>5

\* Faults are only counted up.
LEMMA InsertFaultsCounted ==
    ASSUME LogInv, [Next]_vars
    PROVE  faults'["insert"] = 0 => faults["insert"] = 0
<1>1. faults \in [FaultKinds -> Nat] /\ "insert" \in FaultKinds
  BY DEF LogInv, TypeOK, FaultKinds
<1>2. ASSUME NEW k \in FaultKinds, Fault(k)
      PROVE  faults'["insert"] = 0 => faults["insert"] = 0
  BY <1>1, <1>2 DEF Fault
<1>3. faults' = faults \/ \E k \in FaultKinds : Fault(k)
  <2>1. LocalStep => faults' = faults
    BY DEF LocalStep, CommitWithEvent, Mutate, ReadSeq, InsertOwn
  <2>2. RoundStep => faults' = faults \/ Fault("lost")
    BY DEF RoundStep, SyncOnce, LoseRequest, StartPull, StartPush, Begin
  <2>3. FeedStep => \/ faults' = faults \/ Fault("insert") \/ Fault("apply")
                    \/ Fault("timeout")
    BY DEF FeedStep, InsertNew, InsertKnown, ApplyEvent, InsertFails, ApplyFails,
           FinishPull, FinishPush, TimeOut
  <2>4. (\E n \in Nodes : Crash(n)) => Fault("crash")
    BY DEF Crash
  <2> QED
    BY <2>1, <2>2, <2>3, <2>4 DEF Next, vars, FaultKinds
<1> QED
  BY <1>2, <1>3

\* Steps after which every exchange has left what an exchange had left before.
LEMMA OrderFrame ==
    ASSUME OrderInv, UNCHANGED log, faults'["insert"] = 0 => faults["insert"] = 0,
           \A y \in exchanges' : \E x \in exchanges : y.at = x.at /\ y.todo = x.todo
    PROVE  LogsFinite' /\ GapFree' /\ TodoGapFree'
BY DEF OrderInv, LogsFinite, GapFree, TodoGapFree

\* A node appends an event of its own.
LEMMA OwnInsertOrder ==
    ASSUME OrderInv, NEW n \in Nodes, NEW s \in Nat \ {0}, NEW op \in Ops,
           s <= NextSeq(n),
           log' = [log EXCEPT ![n] =
                      InsertInto(@, [node |-> n, seq |-> s, op |-> op])],
           exchanges' = exchanges, faults' = faults
    PROVE  LogsFinite' /\ GapFree' /\ TodoGapFree'
<1> DEFINE new == [node |-> n, seq |-> s, op |-> op]
<1>1. /\ \A m \in Nodes : log[m] \subseteq log'[m]
      /\ \A m \in Nodes \ {n} : log'[m] = log[m]
      /\ \A e \in log'[n] : e \in log[n] \/ (e = new /\ e.seq = NextSeq(n))
  BY OwnInsert DEF OrderInv
<1>2. LogsFinite'
  <2>1. log'[n] \subseteq log[n] \cup {new}
    BY <1>1
  <2>2. IsFiniteSet(log[n] \cup {new})
    BY FS_AddElement DEF OrderInv, LogsFinite
  <2>3. IsFiniteSet(log'[n])
    BY <2>1, <2>2, FS_Subset
  <2> QED
    BY <1>1, <2>3 DEF OrderInv, LogsFinite
<1>3. GapFree'
  <2> SUFFICES ASSUME faults["insert"] = 0, NEW m \in Nodes, NEW e \in log'[m],
                      NEW t \in 1..e.seq
               PROVE  <<e.node, t>> \in Ids(log'[m])
    BY DEF GapFree
  <2>1. CASE e \in log[m]
    BY <1>1, <2>1 DEF OrderInv, GapFree, Ids
  <2>2. CASE m = n /\ e = new /\ e.seq = NextSeq(n)
    <3>1. CASE t = e.seq
      BY <2>2, <3>1 DEF Ids, Id
    <3>2. CASE t < e.seq
      <4>1. PICK k \in Nat : OwnSeqs(n) = 1..k
        BY DEF OrderInv, LogInv, SeqsConsecutive
      <4>2. e.seq = k + 1
        BY <2>2, <4>1, NextSeqIsNext
      <4>3. t \in OwnSeqs(n)
        BY <3>2, <4>1, <4>2
      <4>4. PICK f \in log[n] : f.node = n /\ f.seq = t
        BY <4>3 DEF OwnSeqs
      <4> QED
        BY <1>1, <2>2, <4>4 DEF Ids, Id
    <3>3. e.seq \in Nat
      BY <2>2
    <3> QED
      BY <3>1, <3>2, <3>3
  <2> QED
    BY <1>1, <2>1, <2>2
<1>4. TodoGapFree'
  <2>1. \A x \in exchanges : Ids(log[x.at]) \subseteq Ids(log'[x.at])
    <3>1. \A x \in exchanges : x.at \in Nodes
      BY DEF OrderInv, LogInv, TypeOK, Exchange
    <3> QED
      BY <1>1, <3>1 DEF Ids
  <2> QED
    BY <2>1 DEF OrderInv, TodoGapFree
<1> QED
  BY <1>2, <1>3, <1>4

\* The third layer: a new event of a node continues its own.
LEMMA LocalStepOrder ==
    ASSUME OrderInv, LocalStep
    PROVE  LogsFinite' /\ GapFree' /\ TodoGapFree'
<1>1. ASSUME NEW n \in Nodes, NEW op \in Ops, CommitWithEvent(n, op)
      PROVE  LogsFinite' /\ GapFree' /\ TodoGapFree'
  <2>1. NextSeq(n) \in Nat \ {0} /\ NextSeq(n) <= NextSeq(n)
    <3>1. PICK k \in Nat : OwnSeqs(n) = 1..k
      BY DEF OrderInv, LogInv, SeqsConsecutive
    <3> QED
      BY <3>1, NextSeqIsNext
  <2>2. /\ log' = [log EXCEPT ![n] =
                      InsertInto(@, [node |-> n, seq |-> NextSeq(n), op |-> op])]
        /\ exchanges' = exchanges /\ faults' = faults
    BY <1>1 DEF CommitWithEvent
  <2> QED
    BY <2>1, <2>2, OwnInsertOrder
<1>2. ASSUME NEW a \in appends, InsertOwn(a)
      PROVE  LogsFinite' /\ GapFree' /\ TodoGapFree'
  <2>1. a.at \in Nodes /\ a.seq \in Nat \ {0} /\ a.op \in Ops
    BY <1>2 DEF OrderInv, LogInv, TypeOK, Append, InsertOwn
  <2>2. a.seq <= NextSeq(a.at)
    <3>1. PICK k \in Nat : OwnSeqs(a.at) = 1..k /\ a.seq <= k + 1
      BY <2>1 DEF OrderInv, LogInv, SeqsConsecutive
    <3> QED
      BY <2>1, <3>1, NextSeqIsNext
  <2>3. /\ log' = [log EXCEPT ![a.at] =
                      InsertInto(@, [node |-> a.at, seq |-> a.seq, op |-> a.op])]
        /\ exchanges' = exchanges /\ faults' = faults
    BY <1>2 DEF InsertOwn
  <2> QED
    BY <2>1, <2>2, <2>3, OwnInsertOrder
<1>3. CASE UNCHANGED <<log, exchanges, faults>>
  BY <1>3, OrderFrame
<1> QED
  BY <1>1, <1>2, <1>3 DEF LocalStep, Mutate, ReadSeq

\* A batch continues the log it is sent to: its events were read from a log
\* without gaps, and what a push leaves out the peer holds.
LEMMA RoundStepOrder ==
    ASSUME OrderInv, RoundStep, faults'["insert"] = 0 => faults["insert"] = 0
    PROVE  LogsFinite' /\ GapFree' /\ TodoGapFree'
<1>0. \A m \in Nodes : log[m] \in SUBSET Event
  BY DEF OrderInv, LogInv, TypeOK
<1>1. ASSUME NEW kind, NEW at \in Nodes, NEW peer, NEW events, Begin(kind, at, peer, events),
             faults["insert"] = 0 =>
                \A e \in events : \A s \in 1..e.seq :
                    <<e.node, s>> \in Ids(events) \cup Ids(log[at])
      PROVE  LogsFinite' /\ GapFree' /\ TodoGapFree'
  <2>1. /\ UNCHANGED <<log, faults>>
        /\ \A y \in exchanges' : y \in exchanges \/ (y.at = at /\ y.todo = events)
    BY <1>1 DEF Begin
  <2> QED
    BY <1>1, <2>1 DEF OrderInv, LogsFinite, GapFree, TodoGapFree
<1>2. ASSUME NEW n \in Nodes, NEW p \in Nodes, StartPull(n, p)
      PROVE  LogsFinite' /\ GapFree' /\ TodoGapFree'
  <2>1. ASSUME faults["insert"] = 0
        PROVE  \A e \in GetEvents(p) : \A s \in 1..e.seq :
                  <<e.node, s>> \in Ids(GetEvents(p)) \cup Ids(log[n])
    <3>1. \A e \in log[p] : \A s \in 1..e.seq :
             <<e.node, s>> \in Ids(log[p]) \cup Ids(log[n])
      BY <2>1 DEF OrderInv, GapFree
    <3>2. IsFiniteSet(log[p])
      BY DEF OrderInv, LogsFinite
    <3> QED
      BY <1>0, <3>1, <3>2, BatchContinues DEF GetEvents
  <2>2. Begin("pull", n, p, GetEvents(p))
    BY <1>2 DEF StartPull
  <2> QED
    BY <1>1, <2>1, <2>2
<1>3. ASSUME NEW n \in Nodes, NEW p \in Nodes, StartPush(n, p)
      PROVE  LogsFinite' /\ GapFree' /\ TodoGapFree'
  <2> DEFINE S == {e \in log[n] : Id(e) \notin pushed[n][p]}
  <2>1. ASSUME faults["insert"] = 0
        PROVE  \A e \in GetUnpushedEvents(n, p) : \A s \in 1..e.seq :
                  <<e.node, s>> \in Ids(GetUnpushedEvents(n, p)) \cup Ids(log[p])
    <3>1. Ids(log[n]) \subseteq Ids(S) \cup Ids(log[p])
      BY DEF OrderInv, LogInv, PushedIsHeld, Ids
    <3>2. \A e \in S : \A s \in 1..e.seq : <<e.node, s>> \in Ids(S) \cup Ids(log[p])
      BY <2>1, <3>1 DEF OrderInv, GapFree
    <3>3. IsFiniteSet(S)
      BY FS_Subset DEF OrderInv, LogsFinite
    <3>4. S \in SUBSET Event
      BY <1>0
    <3>5. GetUnpushedEvents(n, p) = FirstEvents(S)
      BY DEF GetUnpushedEvents
    <3> HIDE DEF S
    <3> QED
      BY <3>2, <3>3, <3>4, <3>5, BatchContinues
  <2>2. Begin("push", p, n, GetUnpushedEvents(n, p))
    BY <1>3 DEF StartPush
  <2> QED
    BY <1>1, <2>1, <2>2
<1>4. CASE UNCHANGED <<log, exchanges>>
  BY <1>4, OrderFrame
<1> QED
  BY <1>2, <1>3, <1>4 DEF RoundStep, SyncOnce, LoseRequest

\* The event inserted is the first of those left: all earlier ones of its node
\* are in the log already.
LEMMA InsertNewOrder ==
    ASSUME OrderInv, NEW x \in exchanges, InsertNew(x)
    PROVE  LogsFinite' /\ GapFree' /\ TodoGapFree'
<1> USE DEF OrderInv
<1>1. PICK e \in x.todo :
         /\ Current(x, e)
         /\ Id(e) \notin Ids(log[x.at])
         /\ log' = [log EXCEPT ![x.at] = InsertInto(@, e)]
         /\ Replace(x, [x EXCEPT !.todo = @ \ {e}, !.applying = {e}])
         /\ UNCHANGED <<pushed, applied, appends, due, faults>>
  BY DEF InsertNew
<1> DEFINE y == [x EXCEPT !.todo = @ \ {e}, !.applying = {e}]
<1>2. /\ log' = [log EXCEPT ![x.at] = @ \cup {e}]
      /\ e \in Event /\ x.at \in Nodes
      /\ \A m \in Nodes : log[m] \subseteq log'[m]
  BY <1>1, ForeignInsert
<1>3. log'[x.at] = log[x.at] \cup {e} /\ \A m \in Nodes \ {x.at} : log'[m] = log[m]
  BY <1>2 DEF LogInv, TypeOK
<1>4. y.at = x.at /\ y.todo = x.todo \ {e}
  BY DEF LogInv, TypeOK, Exchange
<1>5. exchanges' = (exchanges \ {x}) \cup {y}
  BY <1>1 DEF Replace
<1> HIDE DEF y
<1>6. LogsFinite'
  <2>1. IsFiniteSet(log[x.at] \cup {e})
    BY <1>2, FS_AddElement DEF LogsFinite
  <2> QED
    BY <1>3, <2>1 DEF LogsFinite
<1>7. ASSUME faults["insert"] = 0, NEW s \in 1..e.seq
      PROVE  <<e.node, s>> \in Ids(log[x.at]) \cup {Id(e)}
  <2>1. <<e.node, s>> \in Ids(x.todo) \cup Ids(log[x.at])
    BY <1>7 DEF TodoGapFree
  <2>2. ASSUME NEW f \in x.todo, Id(f) = <<e.node, s>>
        PROVE  f = e
    <3>1. f.node = e.node /\ f.seq = s /\ e.seq \in Nat /\ e.node \in Nat
      BY <1>2, <2>2, NodesAssumption DEF Id, Event
    <3>2. ~Before(e, f)
      BY <3>1 DEF Before
    <3> QED
      BY <1>1, <3>2 DEF Current
  <2> QED
    BY <2>1, <2>2 DEF Ids
<1>8. GapFree'
  <2> SUFFICES ASSUME faults["insert"] = 0, NEW m \in Nodes, NEW f \in log'[m],
                      NEW s \in 1..f.seq
               PROVE  <<f.node, s>> \in Ids(log'[m])
    BY <1>1 DEF GapFree
  <2>1. CASE f \in log[m]
    BY <1>2, <2>1 DEF GapFree, Ids
  <2>2. CASE m = x.at /\ f = e
    BY <1>3, <1>7, <2>2 DEF Ids
  <2> QED
    BY <1>3, <2>1, <2>2
<1>9. TodoGapFree'
  <2> SUFFICES ASSUME faults["insert"] = 0, NEW z \in exchanges', NEW f \in z.todo,
                      NEW s \in 1..f.seq
               PROVE  <<f.node, s>> \in Ids(z.todo) \cup Ids(log'[z.at])
    BY <1>1 DEF TodoGapFree
  <2>1. CASE z = y
    <3>1. <<f.node, s>> \in Ids(x.todo) \cup Ids(log[x.at])
      BY <1>4, <2>1 DEF TodoGapFree
    <3>2. Ids(x.todo) \cup Ids(log[x.at]) \subseteq Ids(y.todo) \cup Ids(log'[x.at])
      BY <1>3, <1>4 DEF Ids
    <3> QED
      BY <1>4, <2>1, <3>1, <3>2
  <2>2. CASE z \in exchanges \ {x}
    <3>1. Ids(log[z.at]) \subseteq Ids(log'[z.at])
      <4>1. z.at \in Nodes
        BY <2>2 DEF LogInv, TypeOK, Exchange
      <4> QED
        BY <1>2, <4>1 DEF Ids
    <3> QED
      BY <2>2, <3>1 DEF TodoGapFree
  <2> QED
    BY <1>5, <2>1, <2>2
<1> QED
  BY <1>6, <1>8, <1>9

\* The third layer: what is fed continues what the receiver holds.
LEMMA FeedStepOrder ==
    ASSUME OrderInv, FeedStep, faults'["insert"] = 0 => faults["insert"] = 0
    PROVE  LogsFinite' /\ GapFree' /\ TodoGapFree'
<1> SUFFICES ASSUME NEW x \in exchanges,
                    \/ InsertNew(x) \/ InsertKnown(x) \/ ApplyEvent(x)
                    \/ InsertFails(x) \/ ApplyFails(x)
                    \/ FinishPull(x) \/ FinishPush(x) \/ TimeOut(x)
             PROVE  LogsFinite' /\ GapFree' /\ TodoGapFree'
  BY DEF FeedStep
<1>t. x \in Exchange /\ faults \in [FaultKinds -> Nat]
  BY DEF OrderInv, LogInv, TypeOK
<1>1. ASSUME NEW y, y.at = x.at, y.todo = x.todo,
             exchanges' \subseteq exchanges \cup {y}, UNCHANGED log
      PROVE  LogsFinite' /\ GapFree' /\ TodoGapFree'
  BY <1>1, OrderFrame
<1>2. CASE InsertNew(x)
  BY <1>2, InsertNewOrder
<1>3. CASE InsertKnown(x)
  <2>1. PICK e \in x.todo :
           /\ Id(e) \in Ids(log[x.at])
           /\ Replace(x, [x EXCEPT !.todo = @ \ {e}, !.accepted = @ \cup {e}])
           /\ UNCHANGED <<log, faults>>
    BY <1>3 DEF InsertKnown
  <2> DEFINE y == [x EXCEPT !.todo = @ \ {e}, !.accepted = @ \cup {e}]
  <2>2. y.at = x.at /\ y.todo = x.todo \ {e}
    BY <1>t DEF Exchange
  <2>3. Ids(x.todo) \cup Ids(log[x.at]) \subseteq Ids(y.todo) \cup Ids(log[x.at])
    BY <2>1, <2>2 DEF Ids
  <2>4. \A z \in exchanges' : z \in exchanges \/ z = y
    BY <2>1 DEF Replace
  <2> HIDE DEF y
  <2> QED
    BY <2>1, <2>2, <2>3, <2>4 DEF OrderInv, LogsFinite, GapFree, TodoGapFree
<1>4. CASE ApplyEvent(x)
  <2>1. PICK e \in x.applying :
           /\ Replace(x, [x EXCEPT !.applying = {}, !.accepted = @ \cup {e}])
           /\ UNCHANGED log
    BY <1>4 DEF ApplyEvent
  <2> DEFINE y == [x EXCEPT !.applying = {}, !.accepted = @ \cup {e}]
  <2>2. y.at = x.at /\ y.todo = x.todo /\ exchanges' \subseteq exchanges \cup {y}
    BY <1>t, <2>1 DEF Exchange, Replace
  <2> QED
    BY <1>1, <2>1, <2>2
<1>5. CASE InsertFails(x)
  <2>1. faults'["insert"] # 0 /\ UNCHANGED log
    BY <1>5, <1>t DEF InsertFails, Fault, FaultKinds
  <2> QED
    BY <2>1 DEF OrderInv, LogsFinite, GapFree, TodoGapFree
<1>6. CASE ApplyFails(x)
  <2> DEFINE y == [x EXCEPT !.applying = {}]
  <2>1. y.at = x.at /\ y.todo = x.todo
    BY <1>t DEF Exchange
  <2>2. exchanges' \subseteq exchanges \cup {y} /\ UNCHANGED log
    BY <1>6 DEF ApplyFails, Replace, Drop
  <2> QED
    BY <1>1, <2>1, <2>2
<1>7. CASE FinishPull(x) \/ FinishPush(x)
  BY <1>1, <1>7 DEF FinishPull, FinishPush, Drop
<1>8. CASE TimeOut(x)
  <2> DEFINE y == [x EXCEPT !.waiting = FALSE]
  <2>1. y.at = x.at /\ y.todo = x.todo
    BY <1>t DEF Exchange
  <2>2. exchanges' \subseteq exchanges \cup {y} /\ UNCHANGED log
    BY <1>8 DEF TimeOut, Replace
  <2> QED
    BY <1>1, <2>1, <2>2
<1> QED
  BY <1>2, <1>3, <1>4, <1>5, <1>6, <1>7, <1>8

\* The third layer at the start.
LEMMA OrderInvInit == Init => OrderInv
<1> SUFFICES ASSUME Init PROVE OrderInv
  OBVIOUS
<1>1. LogsFinite
  BY FS_EmptySet DEF Init, LogsFinite
<1>2. GapFree /\ TodoGapFree
  BY DEF Init, GapFree, TodoGapFree
<1> QED
  BY <1>1, <1>2, LogInvInit DEF OrderInv

\* Every step keeps the third layer.
LEMMA OrderInvStep == OrderInv /\ [Next]_vars => OrderInv'
<1> SUFFICES ASSUME OrderInv, [Next]_vars PROVE OrderInv'
  OBVIOUS
<1>1. LogInv' /\ (faults'["insert"] = 0 => faults["insert"] = 0)
  BY LogInvStep, InsertFaultsCounted DEF OrderInv
<1>2. CASE UNCHANGED vars
  BY <1>1, <1>2, OrderFrame DEF OrderInv, vars
<1>3. ASSUME NEW n \in Nodes, Crash(n)
      PROVE  LogsFinite' /\ GapFree' /\ TodoGapFree'
  <2>1. \A x \in exchanges : LET y == [x EXCEPT !.waiting = FALSE]
                             IN  y.at = x.at /\ y.todo = x.todo
    BY DEF OrderInv, LogInv, TypeOK, Exchange
  <2>2. /\ UNCHANGED log
        /\ \A y \in exchanges' : \E x \in exchanges :
              y = x \/ y = [x EXCEPT !.waiting = FALSE]
    BY <1>3 DEF Crash
  <2> QED
    BY <1>1, <2>1, <2>2, OrderFrame
<1> QED
  BY <1>1, <1>2, <1>3, LocalStepOrder, RoundStepOrder, FeedStepOrder DEF Next, OrderInv

-----------------------------------------------------------------------------
(* The theorems *)

\* The inductive invariant of the event log holds in every behaviour.
THEOREM LogInvariant == Spec => []LogInv
BY LogInvInit, LogInvStep, PTL DEF Spec

\* Every variable keeps its type: in particular the sequence number that
\* appendEvent computes is always a positive integer.
THEOREM TypeCorrect == Spec => []TypeOK
<1>1. LogInv => TypeOK
  BY DEF LogInv
<1> QED
  BY <1>1, LogInvariant, PTL

\* An event id stands for one event, everywhere, although appendEvent reads
\* the next number in one store call and inserts in another.
THEOREM IdentityHolds == Spec => []EventIdentity
<1>1. LogInv => EventIdentity
  BY DEF LogInv
<1> QED
  BY <1>1, LogInvariant, PTL

\* peer_pushed_events never names an event that the peer does not hold.
THEOREM PushedHolds == Spec => []PushedIsHeld
<1>1. LogInv => PushedIsHeld
  BY DEF LogInv
<1> QED
  BY <1>1, LogInvariant, PTL

\* The sync loop, with all its interleavings and faults, replicates the log as
\* EventGossip says: nothing published is lost, changed or attributed anew.
THEOREM ImplementsGossip == Spec => GossipSpec
<1>1. Init => Gossip!Init
  BY DEF Init, Gossip!Init
<1> QED
  BY <1>1, LogInvariant, GossipStep, PTL DEF Spec, GossipSpec, Gossip!Spec

\* InsertEvent's answer decides who applies an event: of all pulls and push
\* handlers that a node runs at once, one at most has an event to apply, and
\* it has not been applied before.
THEOREM AppliedOnceHolds == Spec => []AppliedOnce
<1>1. MutationInv => AppliedOnce
  BY DEF MutationInv
<1> QED
  BY <1>1, MutationInvInit, MutationInvStep, PTL DEF Spec

\* While no insert fails, every log holds an initial segment of each origin's
\* events: neither the limit of a batch, nor a relay, nor a lost or late
\* answer lets an event overtake an earlier one.
THEOREM GapFreeHolds == Spec => []GapFree
<1>1. OrderInv => GapFree
  BY DEF OrderInv
<1> QED
  BY <1>1, OrderInvInit, OrderInvStep, PTL DEF Spec

=============================================================================
