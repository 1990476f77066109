----------------------------- MODULE NodesPage ------------------------------
(***************************************************************************)
(* The cards of the nodes page (NodesPage.jsx): what they say about each   *)
(* device, the button that starts an evacuation, and how the page follows  *)
(* the job.  The agent is here what the page may rely on: a list of jobs   *)
(* as in JobLife, which Evacuation implements, and for every node a status *)
(* that changes freely.  Every poll is answered in parts, late, out of     *)
(* order, with an error, or not at all.  Invitations, the approval of      *)
(* joins and joining another pool are in PoolEntry.                        *)
(***************************************************************************)
EXTENDS Naturals, FiniteSets

CONSTANTS Nodes,
          JobIds,      \* evacuations there will be
          LoadSlots, TickSlots, PostSlots,  \* room for requests of each kind
          Changing,    \* nodes whose status changes
          MaxChanges,  \* how often
          MaxActs,     \* what the user does
          MaxFaults,   \* failed requests and restarts
          None         \* nothing tracked, answered, shown or requested

ASSUME NodesPageAssumption ==
    /\ JobIds \subseteq Nat /\ MaxChanges \in Nat /\ MaxActs \in Nat /\ MaxFaults \in Nat
    /\ None \notin Nodes /\ None \notin JobIds /\ None \notin {"done", "blocked", "failed"}
    /\ LoadSlots \cap TickSlots = {} /\ (LoadSlots \union TickSlots) \cap PostSlots = {}

VARIABLES status,    \* the agent's job list
          target,    \* node of each job
          outcome,   \* history: result of each job that ended
          cards,     \* what the agent says of every node
          session,   \* the browser is logged in
          page,      \* state hooks of the page
          requests,  \* requests in flight
          changes, acts, faults

vars == <<status, target, outcome, cards, session, page, requests, changes, acts, faults>>
agent == <<status, target, outcome, cards, session>>
budgets == <<changes, acts, faults>>

Jobs == INSTANCE JobLife WITH Jobs <- JobIds

Slots == LoadSlots \union TickSlots \union PostSlots
\* What the agent says of a node; one that is safe to exit, or blocked, is settled.
Cards == {"offline", "settled", "needs"}
\* What of it is in each list: one has whether the node is offline, the other whether its chunks are still
\* to be moved, which those of a node that is offline are, here.
Lists == {"nodes", "evacuation"}
Says(l, card) == IF card = "offline" THEN (IF l = "nodes" THEN card ELSE "needs")
                 ELSE IF l = "nodes" THEN "online" ELSE card
Finals == {"done", "blocked", "failed"}
Unknown == [l \in Lists |-> [n \in Nodes |-> "none"]]

\* A mounted page: its lists, the job followed and whether the interval still runs, the message.
FreshPage == [lists |-> Unknown, slot |-> None, timer |-> FALSE, message |-> None]

\* The card of a node puts both lists together.
Shown(n) ==
    IF page.lists["nodes"][n] = "online" THEN page.lists["evacuation"][n] ELSE page.lists["nodes"][n]

Init ==
    /\ Jobs!Init
    /\ target = [j \in JobIds |-> None] /\ outcome = [j \in JobIds |-> None]
    /\ cards = [n \in Nodes |-> "needs"]
    /\ session = TRUE
    /\ page = FreshPage /\ requests = [s \in Slots |-> None]
    /\ changes = 0 /\ acts = 0 /\ faults = 0

-----------------------------------------------------------------------------
\* The agent.

Change(n) ==
    /\ n \in Changing /\ changes < MaxChanges /\ changes' = changes + 1
    /\ \E c \in Cards \ {cards[n]} : cards' = [cards EXCEPT ![n] = c]
    /\ UNCHANGED <<status, target, outcome, session, page, requests, acts, faults>>

RunJob(j) ==
    /\ Jobs!Run(j)
    /\ UNCHANGED <<target, outcome, cards, session, page, requests>> /\ UNCHANGED budgets

EndJob(j) ==
    /\ Jobs!End(j) /\ status'[j] \in Finals
    /\ outcome' = [outcome EXCEPT ![j] = status'[j]]
    /\ UNCHANGED <<target, cards, session, page, requests>> /\ UNCHANGED budgets

\* Sessions are in memory, like jobs.
Restart ==
    /\ faults < MaxFaults /\ faults' = faults + 1
    /\ Jobs!Forget /\ session' = FALSE
    /\ UNCHANGED <<target, outcome, cards, page, requests, changes, acts>>

Working(n) == {j \in JobIds : target[j] = n /\ status[j] \in {"pending", "running"}}
NextJob == {j \in JobIds : status[j] = "unborn" /\ \A k \in JobIds : k < j => status[k] # "unborn"}

-----------------------------------------------------------------------------
\* Requests.

Unanswered(kind) == IF kind = "load" THEN [l \in Lists |-> None] ELSE None
Load(after) == [kind |-> "load", answer |-> Unanswered("load"), after |-> after, failed |-> FALSE]
Tick(j) == [kind |-> "tick", job |-> j, answer |-> None, failed |-> FALSE]
Post(n) == [kind |-> "post", node |-> n, answer |-> None, failed |-> FALSE]

Is(s, kind) == requests[s] # None /\ requests[s].kind = kind /\ ~requests[s].failed

\* Each list is asked for on its own, and refused when the session is gone.  Pending joins, the third
\* list, are in PoolEntry.
ServeLoad(s) ==
    /\ Is(s, "load")
    /\ \E l \in Lists :
          /\ requests[s].answer[l] = None
          /\ requests' = [requests EXCEPT ![s].answer[l] =
                             IF session THEN <<[n \in Nodes |-> Says(l, cards[n])]>> ELSE <<>>]
    /\ UNCHANGED <<agent, page, budgets>>

\* GET /jobs/{id}: a job that is unknown is refused too.
ServeTick(s) ==
    /\ Is(s, "tick") /\ requests[s].answer = None
    /\ requests' = [requests EXCEPT ![s].answer =
                       IF session /\ Jobs!Known(requests[s].job)
                       THEN <<status[requests[s].job]>> ELSE <<>>]
    /\ UNCHANGED <<agent, page, budgets>>

\* A job that is still listed as running may have let go of its node already.
ServePost(s) ==
    /\ Is(s, "post") /\ requests[s].answer = None
    /\ LET n == requests[s].node IN
       \/ /\ ~session \/ cards[n] = "offline" \/ Working(n) # {}
          /\ requests' = [requests EXCEPT ![s].answer = <<>>]
          /\ UNCHANGED agent
       \/ /\ session /\ cards[n] # "offline"
          /\ \A j \in Working(n) : status[j] = "running"
          /\ \E j \in NextJob :
                /\ Jobs!Accept(j) /\ target' = [target EXCEPT ![j] = n]
                /\ requests' = [requests EXCEPT ![s].answer = <<j>>]
          /\ UNCHANGED <<outcome, cards, session>>
    /\ UNCHANGED <<page, budgets>>

FailRequest(s) ==
    /\ faults < MaxFaults /\ faults' = faults + 1
    /\ requests[s] # None /\ ~requests[s].failed
    /\ requests' = [requests EXCEPT ![s].failed = TRUE, ![s].answer = Unanswered(requests[s].kind)]
    /\ UNCHANGED <<agent, page, changes, acts>>

-----------------------------------------------------------------------------
\* The page sends.

\* Mutant: the lists are loaded when the page opens, and not again.
SendFirstLoad(s) ==
    /\ s \in LoadSlots /\ requests[s] = None /\ page.lists = Unknown
    /\ requests' = [requests EXCEPT ![s] = Load(None)]
    /\ UNCHANGED <<agent, page, budgets>>

\* loadNodes, every 3 s.
SendLoad(s) ==
    /\ s \in LoadSlots /\ requests[s] = None
    /\ requests' = [requests EXCEPT ![s] = Load(None)]
    /\ UNCHANGED <<agent, page, budgets>>

\* The interval of the followed job, every 2 s.
SendTick(s) ==
    /\ s \in TickSlots /\ requests[s] = None /\ page.slot # None /\ page.timer
    /\ requests' = [requests EXCEPT ![s] = Tick(page.slot)]
    /\ UNCHANGED <<agent, page, budgets>>

UserActs == acts < MaxActs /\ acts' = acts + 1 /\ UNCHANGED <<agent, changes, faults>>

\* The button of a card.
Offered(n) ==
    /\ Shown(n) = "needs"
    /\ page.slot # None => target[page.slot] # n

EvacuateNode(n, s) ==
    /\ UserActs /\ Offered(n) /\ s \in PostSlots /\ requests[s] = None
    /\ page' = [page EXCEPT !.message = None]
    /\ requests' = [requests EXCEPT ![s] = Post(n)]

\* Another tab and back: the answers to the old page reach no one; a failed slot is free again.
Remount ==
    /\ UserActs /\ page # FreshPage /\ \A s \in PostSlots : requests[s] = None
    /\ page' = FreshPage
    /\ requests' = [s \in Slots |-> None]

\* The user logs in again, in another tab of the browser.
Login ==
    /\ acts < MaxActs /\ acts' = acts + 1 /\ ~session /\ session' = TRUE
    /\ UNCHANGED <<status, target, outcome, cards, page, requests, changes, faults>>

-----------------------------------------------------------------------------
\* Answers.

Came(s, kind) == Is(s, kind) /\ UNCHANGED <<agent, budgets>>
Done(s) == [requests EXCEPT ![s] = None]

\* A list whose request was refused keeps its old state.
AllAnswered(s) == \A l \in Lists : requests[s].answer[l] # None
Merged(answer) == [l \in Lists |-> IF answer[l] = <<>> THEN page.lists[l] ELSE answer[l][1]]

\* Mutant: the job is let go of, its interval is not.
LoadKeepsTimer(s) ==
    /\ Came(s, "load") /\ AllAnswered(s)
    /\ LET r == requests[s]
           shown == [page EXCEPT !.lists = Merged(r.answer)] IN
       page' = IF r.after = None THEN shown ELSE [shown EXCEPT !.message = r.after, !.slot = None]
    /\ requests' = Done(s)

\* All lists are there.  The load that ends the following of a job announces its result and follows no
\* job from then on, whichever is followed by now.
LoadArrives(s) ==
    /\ Came(s, "load") /\ AllAnswered(s)
    /\ LET r == requests[s]
           shown == [page EXCEPT !.lists = Merged(r.answer)] IN
       page' = IF r.after = None THEN shown
               ELSE [shown EXCEPT !.message = r.after, !.slot = None, !.timer = FALSE]
    /\ requests' = Done(s)

\* Mutant: every final status counts as success.
TickSaysDone(s) ==
    /\ Came(s, "tick") /\ requests[s].answer # None
    /\ LET r == requests[s] IN
       IF r.answer # <<>> /\ r.answer[1] \in Finals
       THEN /\ page' = [page EXCEPT !.timer = @ /\ page.slot # r.job]
            /\ requests' = [requests EXCEPT ![s] = Load(<<"done", target[r.job]>>)]
       ELSE /\ requests' = Done(s)
            /\ UNCHANGED page

\* Mutant: "blocked" is not taken for an end.
TickAwaitsMore(s) ==
    /\ Came(s, "tick") /\ requests[s].answer # None
    /\ LET r == requests[s] IN
       IF r.answer # <<>> /\ r.answer[1] \in {"done", "failed"}
       THEN /\ page' = [page EXCEPT !.timer = @ /\ page.slot # r.job]
            /\ requests' = [requests EXCEPT ![s] = Load(<<r.answer[1], target[r.job]>>)]
       ELSE /\ requests' = Done(s)
            /\ UNCHANGED page

\* Only a final status ends the interval; the lists are loaded before it is announced.
TickArrives(s) ==
    /\ Came(s, "tick") /\ requests[s].answer # None
    /\ LET r == requests[s] IN
       IF r.answer # <<>> /\ r.answer[1] \in Finals
       THEN /\ page' = [page EXCEPT !.timer = @ /\ page.slot # r.job]
            /\ requests' = [requests EXCEPT ![s] = Load(<<r.answer[1], target[r.job]>>)]
       ELSE /\ requests' = Done(s)
            /\ UNCHANGED page

PostArrives(s) ==
    /\ Came(s, "post") /\ requests[s].answer # None
    /\ LET r == requests[s] IN
       page' = IF r.answer = <<>> THEN [page EXCEPT !.message = <<"error", r.node>>]
               ELSE [page EXCEPT !.message = <<"started", r.node>>,
                                 !.slot = r.answer[1], !.timer = TRUE]
    /\ requests' = Done(s)

\* A failed post is shown; a failed load or tick is an unhandled rejection, and what the handler had
\* still to do is not done.
FailureArrives(s) ==
    /\ requests[s] # None /\ requests[s].failed
    /\ page' = IF requests[s].kind # "post" THEN page
               ELSE [page EXCEPT !.message = <<"error", requests[s].node>>]
    /\ requests' = Done(s)
    /\ UNCHANGED <<agent, budgets>>

Serve(s) == ServeLoad(s) \/ ServeTick(s) \/ ServePost(s)
Arrive(s) == LoadArrives(s) \/ TickArrives(s) \/ PostArrives(s) \/ FailureArrives(s)

Next ==
    \/ \E n \in Nodes : Change(n) \/ \E s \in Slots : EvacuateNode(n, s)
    \/ \E j \in JobIds : RunJob(j) \/ EndJob(j)
    \/ Restart \/ Remount \/ Login
    \/ \E s \in Slots : Serve(s) \/ FailRequest(s) \/ SendLoad(s) \/ SendTick(s) \/ Arrive(s)

Spec == Init /\ [][Next]_vars

\* Intervals fire, requests end, jobs run.
FairSpec ==
    /\ Spec
    /\ \A s \in Slots : WF_vars(Serve(s)) /\ WF_vars(Arrive(s))
    /\ \A s \in LoadSlots : WF_vars(SendLoad(s))
    /\ \A s \in TickSlots : WF_vars(SendTick(s))
    /\ \A j \in JobIds : WF_vars(RunJob(j)) /\ WF_vars(EndJob(j))

-----------------------------------------------------------------------------
\* Status, page and requests have their types; the interval belongs to the job that is followed.
TypeOK ==
    /\ status \in [JobIds -> {"unborn", "pending", "running", "forgotten"} \union Finals]
    /\ \A j \in JobIds : (status[j] = "unborn") = (target[j] = None)
    /\ cards \in [Nodes -> Cards] /\ page.lists \in [Lists -> [Nodes -> Cards \union {"online", "none"}]]
    /\ page.slot \in JobIds \union {None} /\ (page.timer => page.slot # None)
    /\ \A s \in Slots : requests[s] # None => requests[s].kind \in {"load", "tick", "post"}

\* "The device can now leave safely" and the other results are announced for devices whose job came
\* to that result, also when ticks and loads of several jobs overtake each other.
AnnouncedTruly ==
    page.message # None /\ page.message[1] \in Finals =>
        \E j \in JobIds : target[j] = page.message[2] /\ outcome[j] = page.message[1]

\* The list load at the end of the job failed: nothing will ever end the following of this job.
Stuck == page.slot # None /\ ~page.timer
            /\ \A s \in TickSlots : requests[s] = None

\* A card does not say "migrating" for good: the page learns the end of the job it follows, however
\* many polls fail, unless the agent has forgotten the job, the browser is logged out, or the list
\* load that follows the end of the job failed.
TrackingEnds ==
    \A j \in JobIds : page.slot = j ~>
        page.slot # j \/ status[j] = "forgotten" \/ ~session \/ Stuck

\* A card comes to show what the agent says of its node and does not stay behind, although lists are
\* answered one by one and arrive in any order, as long as the browser is logged in.
CardsCatchUp ==
    \A n \in Nodes :
        []<>(session => Shown(n) = cards[n])
=============================================================================
