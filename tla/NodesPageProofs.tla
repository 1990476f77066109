-------------------------- MODULE NodesPageProofs ---------------------------
(***************************************************************************)
(* Proofs about NodesPage, for every set of nodes, jobs and request slots, *)
(* any number of changes, user actions and faults.                         *)
(*                                                                         *)
(* A result is announced by the load that follows a tick, so the argument  *)
(* goes along that chain: a job's result is final, and its node never      *)
(* changes; a tick that was answered with a result names a job that came   *)
(* to it; so does the load that is sent then, and the message.             *)
(***************************************************************************)
EXTENDS NodesPage, TLAPS

-----------------------------------------------------------------------------
(* The inductive invariant *)

Statuses == {"unborn", "pending", "running", "forgotten"} \union Finals
\* An answer of the agent: a refusal, or one value.
Answers(S) == {<<>>} \union {<<x>> : x \in S}
Results == Finals \X Nodes

\* What a list says of the nodes.
Contents == [Nodes -> Cards \union {"online", "none"}]

Loads == [kind: {"load"}, answer: [Lists -> {None} \union Answers(Contents)],
          after: {None} \union Results, failed: BOOLEAN]
Ticks == [kind: {"tick"}, job: JobIds, answer: {None} \union Answers(Statuses), failed: BOOLEAN]
Posts == [kind: {"post"}, node: Nodes, answer: {None} \union Answers(JobIds), failed: BOOLEAN]
Requests == Loads \union Ticks \union Posts

Pages == [lists: [Lists -> Contents], slot: JobIds \union {None}, timer: BOOLEAN,
          message: {None} \union Results \union ({"error", "started"} \X Nodes)]

Types ==
    /\ status \in [JobIds -> Statuses]
    /\ target \in [JobIds -> Nodes \union {None}] /\ outcome \in [JobIds -> Finals \union {None}]
    /\ cards \in [Nodes -> Cards] /\ session \in BOOLEAN
    /\ page \in Pages /\ requests \in [Slots -> Requests \union {None}]

\* A job has a node from its acceptance on, and its result once it has ended; only the status is
\* forgotten.
JobsOK ==
    \A j \in JobIds :
        /\ status[j] = "unborn" <=> target[j] = None
        /\ status[j] \in Finals => outcome[j] = status[j]
        /\ outcome[j] # None => status[j] \in Finals \union {"forgotten"}

\* Some job of this node came to this result.
Truly(m, node, result) == \E j \in JobIds : node[j] = m[2] /\ result[j] = m[1]

\* What a request has been told is true of its job, or will be announced for one.
RequestOK(r, node, result) ==
    /\ r \in Posts => \A j \in JobIds : r.answer # None /\ r.answer = <<j>> => node[j] # None
    /\ r \in Ticks => /\ node[r.job] # None
                      /\ \A f \in Finals : r.answer # None /\ r.answer = <<f>> => result[r.job] = f
    /\ r \in Loads => (r.after # None => Truly(r.after, node, result))

PageOK ==
    /\ page.timer => page.slot # None
    /\ page.slot # None => target[page.slot] # None
    /\ page.message \in Results \ {None} => Truly(page.message, target, outcome)

NodesInv ==
    /\ Types /\ JobsOK /\ PageOK
    /\ \A s \in Slots : requests[s] # None => RequestOK(requests[s], target, outcome)

-----------------------------------------------------------------------------
(* Steps *)

\* Nothing that is true of a job ceases to be: its node stays, and so does its result.
Remembered ==
    \A j \in JobIds : /\ target[j] # None => target'[j] = target[j]
                      /\ outcome[j] # None => outcome'[j] = outcome[j]

\* What was true of a request or a message stays true.
LEMMA TruthStays ==
    ASSUME Types, Remembered
    PROVE  /\ \A m \in Results : Truly(m, target, outcome) => Truly(m, target', outcome')
           /\ \A r \in Requests : RequestOK(r, target, outcome) => RequestOK(r, target', outcome')
<1>1. ASSUME NEW m \in Results, Truly(m, target, outcome) PROVE Truly(m, target', outcome')
  <2>1. PICK j \in JobIds : target[j] = m[2] /\ outcome[j] = m[1]
    BY <1>1 DEF Truly
  <2>2. m[2] # None /\ m[1] # None
    BY NodesPageAssumption DEF Results, Finals
  <2>3. target'[j] = m[2] /\ outcome'[j] = m[1]
    BY <2>1, <2>2 DEF Remembered
  <2> QED
    BY <2>3 DEF Truly
<1>2. ASSUME NEW r \in Posts, RequestOK(r, target, outcome) PROVE RequestOK(r, target', outcome')
  <2>1. r \notin Ticks /\ r \notin Loads
    BY DEF Posts, Ticks, Loads
  <2> QED
    BY <1>2, <2>1 DEF RequestOK, Remembered
<1>3. ASSUME NEW r \in Ticks, RequestOK(r, target, outcome) PROVE RequestOK(r, target', outcome')
  <2>1. r \notin Posts /\ r \notin Loads /\ r.job \in JobIds
    BY DEF Posts, Ticks, Loads
  <2>2. \A f \in Finals : f # None
    BY NodesPageAssumption DEF Finals
  <2> QED
    BY <1>3, <2>1, <2>2 DEF RequestOK, Remembered
<1>4. ASSUME NEW r \in Loads, RequestOK(r, target, outcome) PROVE RequestOK(r, target', outcome')
  <2>1. r \notin Posts /\ r \notin Ticks /\ r.after \in {None} \union Results
    BY DEF Posts, Ticks, Loads
  <2> QED
    BY <1>1, <1>4, <2>1 DEF RequestOK
<1> QED
  BY <1>1, <1>2, <1>3, <1>4 DEF Requests

\* A step of the agent that forgets nothing and serves nobody.
LEMMA AgentStep ==
    ASSUME NodesInv, Types', JobsOK', Remembered, UNCHANGED <<page, requests>>
    PROVE  NodesInv'
<1>1. \A s \in Slots : requests'[s] # None => RequestOK(requests'[s], target', outcome')
  BY TruthStays DEF NodesInv, Types
<1>2. PageOK'
  BY TruthStays DEF NodesInv, PageOK, Types, Pages, Remembered
<1> QED
  BY <1>1, <1>2 DEF NodesInv

\* A step that leaves the job list alone remembers it.
LEMMA Unforgotten ==
    ASSUME UNCHANGED <<target, outcome>> PROVE Remembered
  BY DEF Remembered

\* A step of the page, or of the agent for one request.
LEMMA RequestStep ==
    ASSUME NodesInv, Types', JobsOK', Remembered, PageOK',
           NEW s \in Slots, NEW r, requests' = [requests EXCEPT ![s] = r],
           r # None => RequestOK(r, target', outcome')
    PROVE  NodesInv'
<1>1. requests \in [Slots -> Requests \union {None}]
  BY DEF NodesInv, Types
<1>2. requests'[s] = r /\ \A t \in Slots \ {s} : requests'[t] = requests[t]
  BY <1>1
<1>3. ASSUME NEW t \in Slots, requests'[t] # None PROVE RequestOK(requests'[t], target', outcome')
  <2>1. CASE t = s
    <3>1. RequestOK(r, target', outcome')
      BY <1>2, <1>3, <2>1
    <3> QED
      BY <1>2, <2>1, <3>1
  <2>2. CASE t # s
    <3>1. requests'[t] = requests[t] /\ requests[t] \in Requests /\ RequestOK(requests[t], target, outcome)
      BY <1>1, <1>2, <1>3, <2>2 DEF NodesInv
    <3> QED
      BY <3>1, TruthStays DEF NodesInv
  <2> QED
    BY <2>1, <2>2
<1> QED
  BY <1>3 DEF NodesInv

\* Initially nothing is known, followed or asked.
LEMMA NodesInit == Init => NodesInv
<1> SUFFICES ASSUME Init PROVE NodesInv
  OBVIOUS
<1>1. FreshPage \in Pages
  BY DEF FreshPage, Unknown, Pages, Contents
<1>2. Types
  BY <1>1 DEF Init, Types, Jobs!Init, Statuses, Cards
<1>3. JobsOK
  BY DEF Init, Jobs!Init, JobsOK, Finals
<1>4. PageOK
  <2>1. ~page.timer /\ page.slot = None /\ page.message = None
    BY DEF Init, FreshPage
  <2> QED
    BY <2>1 DEF PageOK, Results, Finals
<1>5. \A s \in Slots : requests[s] = None
  BY DEF Init
<1> QED
  BY <1>2, <1>3, <1>4, <1>5 DEF NodesInv

\* A device changes its status.
LEMMA ChangeKeeps == ASSUME NodesInv, NEW n \in Nodes, Change(n) PROVE NodesInv'
<1>1. Types' /\ JobsOK' /\ UNCHANGED <<target, outcome, page, requests>>
  BY DEF NodesInv, Types, JobsOK, Change
<1> QED
  BY <1>1, AgentStep, Unforgotten

\* A job starts.
LEMMA RunJobKeeps == ASSUME NodesInv, NEW j \in JobIds, RunJob(j) PROVE NodesInv'
<1>1. /\ status[j] = "pending" /\ status' = [status EXCEPT ![j] = "running"]
      /\ UNCHANGED <<target, outcome, cards, session, page, requests>>
  BY DEF RunJob, Jobs!Run, Jobs!Become
<1>2. Types'
  BY <1>1 DEF NodesInv, Types, Statuses
<1>3. JobsOK'
  BY <1>1 DEF NodesInv, Types, JobsOK, Finals
<1> QED
  BY <1>1, <1>2, <1>3, AgentStep, Unforgotten

\* A job ends, once.
LEMMA EndJobKeeps == ASSUME NodesInv, NEW j \in JobIds, EndJob(j) PROVE NodesInv'
<1>1. PICK f : status[j] = "running" /\ status' = [status EXCEPT ![j] = f]
  BY DEF EndJob, Jobs!End, Jobs!Become
<1>2. /\ f \in Finals /\ outcome' = [outcome EXCEPT ![j] = f]
      /\ UNCHANGED <<target, cards, session, page, requests>>
  BY <1>1 DEF EndJob, NodesInv, Types
<1>3. Types'
  BY <1>1, <1>2 DEF NodesInv, Types, Statuses
<1>4. outcome[j] = None
  BY <1>1 DEF NodesInv, JobsOK, Finals
<1>5. Remembered
  BY <1>2, <1>4 DEF Remembered, NodesInv, Types
<1>6. JobsOK'
  BY <1>1, <1>2 DEF NodesInv, Types, JobsOK, Finals
<1> QED
  BY <1>2, <1>3, <1>5, <1>6, AgentStep

\* The agent forgets the jobs; what they came to remains true.
LEMMA RestartKeeps == NodesInv /\ Restart => NodesInv'
<1> SUFFICES ASSUME NodesInv, Restart PROVE NodesInv'
  OBVIOUS
<1>1. /\ status' = [j \in JobIds |-> IF Jobs!Known(j) THEN "forgotten" ELSE status[j]]
      /\ session' = FALSE /\ UNCHANGED <<target, outcome, cards, page, requests>>
  BY DEF Restart, Jobs!Forget
<1>2. Types'
  BY <1>1 DEF NodesInv, Types, Statuses
<1>3. JobsOK'
  BY <1>1 DEF NodesInv, Types, JobsOK, Finals, Jobs!Known, Jobs!Results
<1> QED
  BY <1>1, <1>2, <1>3, AgentStep, Unforgotten

\* The user logs in again.
LEMMA LoginKeeps == NodesInv /\ Login => NodesInv'
<1> SUFFICES ASSUME NodesInv, Login PROVE NodesInv'
  OBVIOUS
<1>1. Types' /\ JobsOK' /\ UNCHANGED <<target, outcome, page, requests>>
  BY DEF NodesInv, Types, JobsOK, Login
<1> QED
  BY <1>1, AgentStep, Unforgotten

-----------------------------------------------------------------------------
(* Requests *)

\* A request is of its type, and of one kind.
LEMMA RequestKinds ==
    ASSUME Types, NEW s \in Slots, requests[s] # None
    PROVE  /\ requests[s] \in Requests
           /\ requests[s].kind = "load" => requests[s] \in Loads
           /\ requests[s].kind = "tick" => requests[s] \in Ticks
           /\ requests[s].kind = "post" => requests[s] \in Posts
           /\ requests[s] \in Loads => requests[s] \notin Ticks \union Posts
           /\ requests[s] \in Ticks => requests[s] \notin Loads \union Posts
           /\ requests[s] \in Posts => requests[s] \notin Loads \union Ticks
<1>1. requests[s] \in Loads \union Ticks \union Posts
  BY DEF Types, Requests
<1> QED
  BY <1>1 DEF Requests, Loads, Ticks, Posts

\* A step that leaves the agent alone.
LEMMA AgentKeeps ==
    ASSUME NodesInv, UNCHANGED agent, page' \in Pages,
           NEW s \in Slots, NEW r \in Requests \union {None}, requests' = [requests EXCEPT ![s] = r]
    PROVE  Types' /\ JobsOK' /\ Remembered
<1>1. UNCHANGED <<status, target, outcome, cards, session>>
  BY DEF agent
<1>2. requests' \in [Slots -> Requests \union {None}]
  BY DEF NodesInv, Types
<1> QED
  BY <1>1, <1>2 DEF NodesInv, Types, JobsOK, Remembered

\* A step that leaves the page alone too.
LEMMA PageKeeps ==
    ASSUME NodesInv, UNCHANGED <<agent, page>>,
           NEW s \in Slots, NEW r \in Requests \union {None}, requests' = [requests EXCEPT ![s] = r],
           r # None => RequestOK(r, target, outcome)
    PROVE  NodesInv'
<1>1. Types' /\ JobsOK' /\ Remembered
  BY AgentKeeps DEF NodesInv, Types
<1>2. UNCHANGED <<target, outcome>> /\ PageOK'
  BY DEF agent, NodesInv, PageOK
<1> QED
  BY <1>1, <1>2, RequestStep

\* A list is served.
LEMMA ServeLoadKeeps == ASSUME NodesInv, NEW s \in Slots, ServeLoad(s) PROVE NodesInv'
<1>1. PICK l \in Lists :
         requests' = [requests EXCEPT ![s].answer[l] =
                         IF session THEN <<[n \in Nodes |-> Says(l, cards[n])]>> ELSE <<>>]
  BY DEF ServeLoad
<1>2. requests[s] \in Loads /\ requests[s] # None
  BY RequestKinds DEF NodesInv, ServeLoad, Is
<1>3. [n \in Nodes |-> Says(l, cards[n])] \in Contents
  BY DEF Says, Contents, NodesInv, Types, Cards
<1> DEFINE x == IF session THEN <<[n \in Nodes |-> Says(l, cards[n])]>> ELSE <<>>
           ans == [requests[s].answer EXCEPT ![l] = x]
           r == [requests[s] EXCEPT !.answer = ans]
<1>4. requests' = [requests EXCEPT ![s] = r] /\ UNCHANGED <<agent, page>>
  BY <1>1 DEF ServeLoad
<1>5. x \in Answers(Contents)
  BY <1>3 DEF Answers
<1> HIDE DEF x
<1>6. ans \in [Lists -> {None} \union Answers(Contents)]
  BY <1>2, <1>5 DEF Loads
<1> HIDE DEF ans
<1>7. r \in Loads /\ r.after = requests[s].after
  BY <1>2, <1>6 DEF Loads
<1> HIDE DEF r
<1>8. r \in Requests /\ r \notin Ticks /\ r \notin Posts
  BY <1>7 DEF Requests, Loads, Ticks, Posts
<1>9. RequestOK(r, target, outcome)
  BY <1>2, <1>7, <1>8 DEF RequestOK, NodesInv
<1> QED
  BY <1>4, <1>8, <1>9, PageKeeps

\* A job's status is served: a result is the one it came to.
LEMMA ServeTickKeeps == ASSUME NodesInv, NEW s \in Slots, ServeTick(s) PROVE NodesInv'
<1> DEFINE a == IF session /\ Jobs!Known(requests[s].job) THEN <<status[requests[s].job]>> ELSE <<>>
           r == [requests[s] EXCEPT !.answer = a]
<1>1. requests[s] \in Ticks /\ requests[s] # None
  BY RequestKinds DEF NodesInv, ServeTick, Is
<1>2. requests[s].job \in JobIds /\ target[requests[s].job] # None
  BY <1>1 DEF Ticks, NodesInv, RequestOK
<1>3. a \in Answers(Statuses)
  BY <1>2 DEF Answers, NodesInv, Types
<1>4. \A f \in Finals : a = <<f>> => outcome[requests[s].job] = f
  BY <1>2 DEF NodesInv, JobsOK
<1>5. requests' = [requests EXCEPT ![s] = r] /\ UNCHANGED <<agent, page>>
  BY DEF ServeTick
<1> HIDE DEF a
<1>6. r \in Ticks /\ r.job = requests[s].job /\ r.answer = a
  BY <1>1, <1>3 DEF Ticks
<1> HIDE DEF r
<1>7. r \in Requests /\ r \notin Loads /\ r \notin Posts
  BY <1>6 DEF Requests, Loads, Ticks, Posts
<1>8. RequestOK(r, target, outcome)
  BY <1>2, <1>4, <1>6, <1>7 DEF RequestOK
<1> QED
  BY <1>5, <1>7, <1>8, PageKeeps

\* An evacuation is refused, or accepted as a job that was not there before.
LEMMA ServePostKeeps == ASSUME NodesInv, NEW s \in Slots, ServePost(s) PROVE NodesInv'
<1>1. requests[s] \in Posts /\ requests[s] # None /\ requests[s].node \in Nodes
  BY RequestKinds DEF NodesInv, ServePost, Is, Posts
<1> DEFINE n == requests[s].node
<1>2. CASE /\ requests' = [requests EXCEPT ![s].answer = <<>>]
           /\ UNCHANGED agent
  <2> DEFINE r == [requests[s] EXCEPT !.answer = <<>>]
  <2>1. requests' = [requests EXCEPT ![s] = r] /\ UNCHANGED <<agent, page>>
    BY <1>2 DEF ServePost
  <2>2. r \in Posts /\ \A j \in JobIds : r.answer # <<j>>
    BY <1>1 DEF Posts, Answers
  <2> HIDE DEF r
  <2>3. r \in Requests /\ r \notin Loads /\ r \notin Ticks
    BY <2>2 DEF Requests, Loads, Ticks, Posts
  <2>4. RequestOK(r, target, outcome)
    BY <2>2, <2>3 DEF RequestOK
  <2> QED
    BY <2>1, <2>3, <2>4, PageKeeps
<1>3. CASE \E j \in NextJob :
              /\ Jobs!Accept(j) /\ target' = [target EXCEPT ![j] = n]
              /\ requests' = [requests EXCEPT ![s].answer = <<j>>]
              /\ UNCHANGED <<outcome, cards, session, page>>
  <2>1. PICK j \in NextJob :
              /\ Jobs!Accept(j) /\ target' = [target EXCEPT ![j] = n]
              /\ requests' = [requests EXCEPT ![s].answer = <<j>>]
              /\ UNCHANGED <<outcome, cards, session, page>>
    BY <1>3
  <2> DEFINE r == [requests[s] EXCEPT !.answer = <<j>>]
  <2>2. /\ j \in JobIds /\ status[j] = "unborn" /\ status' = [status EXCEPT ![j] = "pending"]
        /\ requests' = [requests EXCEPT ![s] = r]
    BY <2>1 DEF NextJob, Jobs!Accept, Jobs!Become
  <2>3. r \in Posts /\ \A i \in JobIds : r.answer = <<i>> => i = j
    BY <1>1, <2>2 DEF Posts, Answers
  <2> HIDE DEF r
  <2>4. r \in Requests /\ r \notin Loads /\ r \notin Ticks
    BY <2>3 DEF Requests, Loads, Ticks, Posts
  <2>5. target[j] = None /\ outcome[j] = None
    BY <2>2 DEF NodesInv, JobsOK, Finals
  <2>6. Remembered
    BY <2>1, <2>5 DEF Remembered, NodesInv, Types
  <2>7. Types'
    <3>1. requests' \in [Slots -> Requests \union {None}]
      BY <2>2, <2>4 DEF NodesInv, Types
    <3> QED
      BY <1>1, <2>1, <2>2, <3>1 DEF NodesInv, Types, Statuses
  <2>8. JobsOK'
    BY <1>1, <2>1, <2>2, NodesPageAssumption DEF NodesInv, Types, JobsOK, Finals
  <2>9. target'[j] # None
    BY <1>1, <2>1, <2>2, NodesPageAssumption DEF NodesInv, Types
  <2>10. RequestOK(r, target', outcome')
    BY <2>3, <2>4, <2>9 DEF RequestOK
  <2>11. PageOK'
    BY <2>1, <2>6, TruthStays DEF NodesInv, PageOK, Types, Pages, Remembered
  <2> QED
    BY <2>2, <2>6, <2>7, <2>8, <2>10, <2>11, RequestStep
<1> QED
  BY <1>2, <1>3 DEF ServePost

\* A request fails.
LEMMA FailRequestKeeps == ASSUME NodesInv, NEW s \in Slots, FailRequest(s) PROVE NodesInv'
<1> DEFINE r == [requests[s] EXCEPT !.failed = TRUE, !.answer = Unanswered(requests[s].kind)]
<1>1. /\ requests[s] # None /\ requests' = [requests EXCEPT ![s] = r] /\ UNCHANGED <<agent, page>>
  BY DEF FailRequest
<1>2. requests[s] \in Requests /\ RequestOK(requests[s], target, outcome)
  BY <1>1 DEF NodesInv, Types
<1>3. /\ r \in Requests
      /\ (r \in Loads => requests[s] \in Loads /\ r.after = requests[s].after)
      /\ (r \in Ticks => requests[s] \in Ticks /\ r.job = requests[s].job /\ r.answer = None)
      /\ (r \in Posts => requests[s] \in Posts /\ r.answer = None)
  <2>1. CASE requests[s] \in Loads
    BY <2>1 DEF Requests, Loads, Ticks, Posts, Unanswered
  <2>2. CASE requests[s] \in Ticks
    BY <2>2 DEF Requests, Loads, Ticks, Posts, Unanswered
  <2>3. CASE requests[s] \in Posts
    BY <2>3 DEF Requests, Loads, Ticks, Posts, Unanswered
  <2> QED
    BY <1>2, <2>1, <2>2, <2>3 DEF Requests
<1> HIDE DEF r
<1>4. RequestOK(r, target, outcome)
  BY <1>2, <1>3 DEF RequestOK
<1> QED
  BY <1>1, <1>3, <1>4, PageKeeps

\* The page asks for the lists.
LEMMA SendLoadKeeps == ASSUME NodesInv, NEW s \in Slots, SendLoad(s) PROVE NodesInv'
<1>1. requests' = [requests EXCEPT ![s] = Load(None)] /\ UNCHANGED <<agent, page>>
  BY DEF SendLoad
<1>2. Load(None) \in Loads /\ Load(None).after = None
  BY DEF Load, Loads, Unanswered
<1>3. Load(None) \in Requests /\ Load(None) \notin Ticks /\ Load(None) \notin Posts
  BY <1>2 DEF Requests, Loads, Ticks, Posts
<1>4. RequestOK(Load(None), target, outcome)
  BY <1>2, <1>3 DEF RequestOK
<1> QED
  BY <1>1, <1>3, <1>4, PageKeeps

\* The interval asks for the job that the page follows.
LEMMA SendTickKeeps == ASSUME NodesInv, NEW s \in Slots, SendTick(s) PROVE NodesInv'
<1> DEFINE r == Tick(page.slot)
<1>1. requests' = [requests EXCEPT ![s] = r] /\ UNCHANGED <<agent, page>>
  BY DEF SendTick
<1>2. page.slot \in JobIds /\ target[page.slot] # None
  BY DEF SendTick, NodesInv, PageOK, Types, Pages
<1>3. r \in Ticks /\ r.job = page.slot /\ r.answer = None
  BY <1>2 DEF Tick, Ticks
<1> HIDE DEF r
<1>4. r \in Requests /\ r \notin Loads /\ r \notin Posts
  BY <1>3 DEF Requests, Loads, Ticks, Posts
<1>5. RequestOK(r, target, outcome)
  BY <1>2, <1>3, <1>4 DEF RequestOK
<1> QED
  BY <1>1, <1>4, <1>5, PageKeeps

\* The user asks for an evacuation.
LEMMA EvacuateNodeKeeps ==
    ASSUME NodesInv, NEW n \in Nodes, NEW s \in Slots, EvacuateNode(n, s) PROVE NodesInv'
<1> DEFINE r == Post(n)
<1>1. /\ requests' = [requests EXCEPT ![s] = r] /\ UNCHANGED agent
      /\ page' = [page EXCEPT !.message = None]
  BY DEF EvacuateNode, UserActs
<1>2. r \in Posts /\ r.answer = None
  BY DEF Post, Posts
<1> HIDE DEF r
<1>3. r \in Requests /\ r \notin Loads /\ r \notin Ticks
  BY <1>2 DEF Requests, Loads, Ticks, Posts
<1>4. RequestOK(r, target', outcome')
  BY <1>2, <1>3 DEF RequestOK
<1>5. page' \in Pages /\ page'.message = None /\ page'.slot = page.slot /\ page'.timer = page.timer
  BY <1>1 DEF NodesInv, Types, Pages
<1>6. PageOK'
  BY <1>1, <1>5 DEF NodesInv, PageOK, agent
<1>7. Types' /\ JobsOK' /\ Remembered
  BY <1>1, <1>3, <1>5, AgentKeeps
<1> QED
  BY <1>1, <1>4, <1>6, <1>7, RequestStep

\* The new page follows nothing.
LEMMA RemountKeeps == NodesInv /\ Remount => NodesInv'
<1> SUFFICES ASSUME NodesInv, Remount PROVE NodesInv'
  OBVIOUS
<1>1. page' = FreshPage /\ requests' = [s \in Slots |-> None] /\ UNCHANGED agent
  BY DEF Remount, UserActs
<1>2. FreshPage \in Pages
  BY DEF FreshPage, Unknown, Pages, Contents
<1>3. UNCHANGED <<status, target, outcome, cards, session>>
  BY <1>1 DEF agent
<1>4. Types' /\ JobsOK'
  BY <1>1, <1>2, <1>3 DEF NodesInv, Types, JobsOK
<1>5. PageOK'
  <2>1. ~page'.timer /\ page'.slot = None /\ page'.message = None
    BY <1>1 DEF FreshPage
  <2> QED
    BY <2>1 DEF PageOK
<1>6. \A s \in Slots : requests'[s] = None
  BY <1>1
<1> QED
  BY <1>4, <1>5, <1>6 DEF NodesInv

\* An answer or a failure arrives, and the slot is free again.
LEMMA SlotFreed ==
    ASSUME NodesInv, UNCHANGED agent, page' \in Pages, PageOK', NEW s \in Slots, requests' = Done(s)
    PROVE  NodesInv'
<1>1. requests' = [requests EXCEPT ![s] = None]
  BY DEF Done
<1>2. Types' /\ JobsOK' /\ Remembered
  BY <1>1, AgentKeeps
<1> QED
  BY <1>1, <1>2, RequestStep

\* The lists arrive, and with them the result that is to be announced.
LEMMA LoadArrivesKeeps == ASSUME NodesInv, NEW s \in Slots, LoadArrives(s) PROVE NodesInv'
<1> DEFINE r == requests[s]
           c == Merged(r.answer)
<1>1. /\ r \in Loads /\ r # None /\ RequestOK(r, target, outcome) /\ AllAnswered(s)
      /\ UNCHANGED agent /\ requests' = Done(s)
  BY RequestKinds DEF NodesInv, LoadArrives, Came, Is
<1>2. page \in Pages
  BY DEF NodesInv, Types
<1>3. c \in [Lists -> Contents]
  <2>1. \A l \in Lists : r.answer[l] \in Answers(Contents)
    BY <1>1 DEF Loads, AllAnswered
  <2>2. \A l \in Lists : r.answer[l] = <<>> \/ \E x \in Contents : r.answer[l] = <<x>>
    BY <2>1 DEF Answers
  <2>3. page.lists \in [Lists -> Contents]
    BY <1>2 DEF Pages
  <2>4. \A l \in Lists : c[l] = IF r.answer[l] = <<>> THEN page.lists[l] ELSE r.answer[l][1]
    BY DEF Merged
  <2>5. \A l \in Lists : c[l] \in Contents
    BY <2>2, <2>3, <2>4
  <2>6. c = [l \in Lists |-> c[l]]
    BY DEF Merged
  <2> HIDE DEF c
  <2> QED
    BY <2>5, <2>6
<1>4. page' = IF r.after = None THEN [page EXCEPT !.lists = c]
              ELSE [[page EXCEPT !.lists = c] EXCEPT !.message = r.after, !.slot = None, !.timer = FALSE]
  BY DEF LoadArrives
<1>5. r.after # None => r.after \in Results /\ Truly(r.after, target, outcome)
  BY <1>1 DEF Loads, RequestOK
<1> HIDE DEF r, c
<1>6. CASE r.after = None
  <2>1. /\ page' \in Pages /\ page'.slot = page.slot /\ page'.timer = page.timer
        /\ page'.message = page.message
    BY <1>2, <1>3, <1>4, <1>6 DEF Pages
  <2>2. PageOK'
    BY <1>1, <2>1 DEF NodesInv, PageOK, agent
  <2> QED
    BY <1>1, <2>1, <2>2, SlotFreed
<1>7. CASE r.after # None
  <2>1. page' \in Pages /\ page'.slot = None /\ page'.timer = FALSE /\ page'.message = r.after
    BY <1>2, <1>3, <1>4, <1>5, <1>7 DEF Pages
  <2>2. PageOK'
    BY <1>1, <1>5, <1>7, <2>1 DEF PageOK, agent
  <2> QED
    BY <1>1, <2>1, <2>2, SlotFreed
<1> QED
  BY <1>6, <1>7

\* A result is announced by the load that follows it.
LEMMA TickArrivesKeeps == ASSUME NodesInv, NEW s \in Slots, TickArrives(s) PROVE NodesInv'
<1> DEFINE r == requests[s]
<1>1. /\ r \in Ticks /\ r # None /\ RequestOK(r, target, outcome) /\ r.answer # None
      /\ UNCHANGED agent
  BY RequestKinds DEF NodesInv, TickArrives, Came, Is
<1>2. page \in Pages
  BY DEF NodesInv, Types
<1>3. UNCHANGED <<target, outcome>>
  BY <1>1 DEF agent
<1>4. CASE r.answer # <<>> /\ r.answer[1] \in Finals
  <2> DEFINE m == <<r.answer[1], target[r.job]>>
             l == Load(m)
  <2>1. /\ page' = [page EXCEPT !.timer = @ /\ page.slot # r.job]
        /\ requests' = [requests EXCEPT ![s] = l]
    BY <1>4 DEF TickArrives
  <2>2. r.job \in JobIds /\ target[r.job] \in Nodes
    <3>1. r.job \in JobIds /\ target[r.job] # None
      BY <1>1 DEF Ticks, RequestOK
    <3> QED
      BY <3>1 DEF NodesInv, Types
  <2>3. PICK x \in Statuses : r.answer = <<x>>
    BY <1>1, <1>4 DEF Ticks, Answers
  <2>4. x \in Finals /\ r.answer[1] = x
    BY <1>4, <2>3
  <2>5. outcome[r.job] = x
    BY <1>1, <2>3, <2>4 DEF RequestOK
  <2>6. m \in Results /\ Truly(m, target, outcome)
    BY <2>2, <2>4, <2>5 DEF Results, Truly
  <2> HIDE DEF m
  <2>7. l \in Loads /\ l.after = m
    BY <2>6 DEF Load, Loads, Unanswered
  <2> HIDE DEF l
  <2>8. l \in Requests /\ l \notin Ticks /\ l \notin Posts
    BY <2>7 DEF Requests, Loads, Ticks, Posts
  <2>9. RequestOK(l, target', outcome')
    BY <1>3, <2>6, <2>7, <2>8 DEF RequestOK
  <2>10. /\ page' \in Pages /\ page'.slot = page.slot /\ page'.message = page.message
         /\ page'.timer => page.timer
    BY <1>2, <2>1 DEF Pages
  <2>11. PageOK'
    BY <1>3, <2>10 DEF NodesInv, PageOK
  <2>12. Types' /\ JobsOK' /\ Remembered
    BY <1>1, <2>1, <2>8, <2>10, AgentKeeps
  <2> QED
    BY <2>1, <2>9, <2>11, <2>12, RequestStep
<1>5. CASE ~(r.answer # <<>> /\ r.answer[1] \in Finals)
  <2>1. requests' = Done(s) /\ UNCHANGED page
    BY <1>5 DEF TickArrives
  <2>2. PageOK'
    BY <1>3, <2>1 DEF NodesInv, PageOK
  <2> QED
    BY <1>1, <1>2, <2>1, <2>2, SlotFreed
<1> QED
  BY <1>4, <1>5

\* The page follows the job that its request was accepted as.
LEMMA PostArrivesKeeps == ASSUME NodesInv, NEW s \in Slots, PostArrives(s) PROVE NodesInv'
<1> DEFINE r == requests[s]
<1>1. /\ r \in Posts /\ r # None /\ RequestOK(r, target, outcome) /\ r.answer # None
      /\ UNCHANGED agent /\ requests' = Done(s)
  BY RequestKinds DEF NodesInv, PostArrives, Came, Is
<1>2. page \in Pages /\ r.node \in Nodes
  BY <1>1 DEF NodesInv, Types, Posts
<1>3. UNCHANGED <<target, outcome>>
  BY <1>1 DEF agent
<1>4. CASE r.answer = <<>>
  <2>1. page' = [page EXCEPT !.message = <<"error", r.node>>]
    BY <1>4 DEF PostArrives
  <2>2. <<"error", r.node>> \in {"error", "started"} \X Nodes /\ <<"error", r.node>> \notin Results
    BY <1>2 DEF Results, Finals
  <2>3. /\ page' \in Pages /\ page'.slot = page.slot /\ page'.timer = page.timer
        /\ page'.message = <<"error", r.node>>
    BY <1>2, <2>1, <2>2 DEF Pages
  <2>4. PageOK'
    BY <1>3, <2>2, <2>3 DEF NodesInv, PageOK
  <2> QED
    BY <1>1, <2>3, <2>4, SlotFreed
<1>5. CASE r.answer # <<>>
  <2>1. PICK j \in JobIds : r.answer = <<j>>
    BY <1>1, <1>5 DEF Posts, Answers
  <2>2. page' = [page EXCEPT !.message = <<"started", r.node>>, !.slot = j, !.timer = TRUE]
    BY <1>5, <2>1 DEF PostArrives
  <2>3. <<"started", r.node>> \in {"error", "started"} \X Nodes /\ <<"started", r.node>> \notin Results
    BY <1>2 DEF Results, Finals
  <2>4. /\ page' \in Pages /\ page'.slot = j /\ page'.timer
        /\ page'.message = <<"started", r.node>>
    BY <1>2, <2>1, <2>2, <2>3 DEF Pages
  <2>5. j # None /\ target[j] # None
    BY <1>1, <2>1, NodesPageAssumption DEF RequestOK
  <2>6. PageOK'
    BY <1>3, <2>3, <2>4, <2>5 DEF PageOK
  <2> QED
    BY <1>1, <2>4, <2>6, SlotFreed
<1> QED
  BY <1>4, <1>5

\* A failed post is shown as an error.
LEMMA FailureArrivesKeeps == ASSUME NodesInv, NEW s \in Slots, FailureArrives(s) PROVE NodesInv'
<1>1. /\ requests[s] # None /\ UNCHANGED agent /\ requests' = Done(s) /\ page \in Pages
  BY DEF NodesInv, Types, FailureArrives
<1>2. UNCHANGED <<target, outcome>>
  BY <1>1 DEF agent
<1>3. CASE requests[s].kind # "post"
  <2>1. UNCHANGED page
    BY <1>3 DEF FailureArrives
  <2>2. PageOK'
    BY <1>2, <2>1 DEF NodesInv, PageOK
  <2> QED
    BY <1>1, <2>1, <2>2, SlotFreed
<1>4. CASE requests[s].kind = "post"
  <2> DEFINE m == <<"error", requests[s].node>>
  <2>1. page' = [page EXCEPT !.message = m]
    BY <1>4 DEF FailureArrives
  <2>2. requests[s].node \in Nodes
    BY <1>1, <1>4, RequestKinds DEF NodesInv, Posts
  <2>3. m \in {"error", "started"} \X Nodes /\ m \notin Results
    BY <2>2 DEF Results, Finals
  <2> HIDE DEF m
  <2>4. page' \in Pages /\ page'.slot = page.slot /\ page'.timer = page.timer /\ page'.message = m
    BY <1>1, <2>1, <2>3 DEF Pages
  <2>5. PageOK'
    BY <1>2, <2>3, <2>4 DEF NodesInv, PageOK
  <2> QED
    BY <1>1, <2>4, <2>5, SlotFreed
<1> QED
  BY <1>3, <1>4

-----------------------------------------------------------------------------
(* Theorems *)

\* Every step keeps the invariant.
LEMMA NodesNext == NodesInv /\ [Next]_vars => NodesInv'
<1> SUFFICES ASSUME NodesInv, [Next]_vars PROVE NodesInv'
  OBVIOUS
<1>1. CASE \E n \in Nodes : Change(n) \/ \E s \in Slots : EvacuateNode(n, s)
  BY <1>1, ChangeKeeps, EvacuateNodeKeeps
<1>2. CASE \E j \in JobIds : RunJob(j) \/ EndJob(j)
  BY <1>2, RunJobKeeps, EndJobKeeps
<1>3. CASE Restart \/ Remount \/ Login
  BY <1>3, RestartKeeps, RemountKeeps, LoginKeeps
<1>4. CASE \E s \in Slots : Serve(s) \/ FailRequest(s) \/ SendLoad(s) \/ SendTick(s)
  BY <1>4, ServeLoadKeeps, ServeTickKeeps, ServePostKeeps, FailRequestKeeps, SendLoadKeeps,
     SendTickKeeps DEF Serve
<1>5. CASE \E s \in Slots : Arrive(s)
  BY <1>5, LoadArrivesKeeps, TickArrivesKeeps, PostArrivesKeeps, FailureArrivesKeeps DEF Arrive
<1>6. CASE UNCHANGED vars
  <2>1. UNCHANGED <<status, target, outcome, cards, session, page, requests>>
    BY <1>6 DEF vars
  <2> QED
    BY <2>1 DEF NodesInv, Types, JobsOK, PageOK
<1> QED
  BY <1>1, <1>2, <1>3, <1>4, <1>5, <1>6 DEF Next

\* The inductive invariant holds in every reachable state.
THEOREM NodesPageSafe == Spec => []NodesInv
<1>1. Init => NodesInv
  BY NodesInit
<1>2. NodesInv /\ [Next]_vars => NodesInv'
  BY NodesNext
<1> QED
  BY <1>1, <1>2, PTL DEF Spec

\* Jobs, cards, page and requests keep their types, and the interval belongs to the followed job.
THEOREM NodesPageTyped == Spec => []TypeOK
<1>1. NodesInv => TypeOK
  <2> SUFFICES ASSUME NodesInv PROVE TypeOK
    OBVIOUS
  <2>1. \A s \in Slots : requests[s] # None => requests[s].kind \in {"load", "tick", "post"}
    BY DEF NodesInv, Types, Requests, Loads, Ticks, Posts
  <2>2. \A j \in JobIds : (status[j] = "unborn") = (target[j] = None)
    BY DEF NodesInv, JobsOK
  <2>3. /\ status \in [JobIds -> {"unborn", "pending", "running", "forgotten"} \union Finals]
        /\ cards \in [Nodes -> Cards] /\ page.lists \in [Lists -> [Nodes -> Cards \union {"online", "none"}]]
        /\ page.slot \in JobIds \union {None} /\ (page.timer => page.slot # None)
    BY DEF NodesInv, Types, Statuses, Pages, PageOK, Contents
  <2> QED
    BY <2>1, <2>2, <2>3 DEF TypeOK
<1> QED
  BY <1>1, NodesPageSafe, PTL

\* "The device can now leave safely", and every other result that the page announces, is the result
\* of a job for that device.
THEOREM AnnouncementsTrue == Spec => []AnnouncedTruly
<1>1. NodesInv => AnnouncedTruly
  <2> SUFFICES ASSUME NodesInv, page.message # None, page.message[1] \in Finals
               PROVE  \E j \in JobIds : target[j] = page.message[2] /\ outcome[j] = page.message[1]
    BY DEF AnnouncedTruly
  <2>1. page.message \in Results
    BY DEF NodesInv, Types, Pages, Results, Finals
  <2> QED
    BY <2>1 DEF NodesInv, PageOK, Truly
<1> QED
  BY <1>1, NodesPageSafe, PTL
=============================================================================
