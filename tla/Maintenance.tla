---------------------------- MODULE Maintenance -----------------------------
(***************************************************************************)
(* The two pages an operator works from: the health page (HealthPage.jsx), *)
(* with the retention of deleted files and the immediate purge, and the    *)
(* tasks page (SyncTasksPage.jsx).  One of them is mounted at a time; the  *)
(* other one's hooks are gone.  Behind both is the job list of the agent,  *)
(* which is a JobLife.                                                     *)
(*                                                                         *)
(* Each kind of request has its own slots.  The figures of the health page *)
(* other than the retention, its chunk explorer, the list of sync tasks,   *)
(* labels and the two seconds of the "saved" mark are left out.            *)
(***************************************************************************)
EXTENDS Naturals, FiniteSets

CONSTANTS JobIds,      \* jobs there will be
          Inputs,      \* what may be typed as retention; the page does not send 0
          MaxRetention, \* what the agent accepts at most
          LoadSlots, PollSlots, UserSlots,  \* room for requests of each kind
          MaxActs,     \* what the user does
          MaxFaults,   \* failed requests, failed saves, restarts
          None         \* no request, answer, purge, job or message

ASSUME MaintenanceAssumption ==
    /\ JobIds \subseteq Nat /\ Inputs \subseteq Nat /\ MaxRetention \in Nat
    /\ MaxActs \in Nat /\ MaxFaults \in Nat
    /\ LoadSlots # {} /\ LoadSlots \cap PollSlots = {} /\ (LoadSlots \union PollSlots) \cap UserSlots = {}

VARIABLES status,    \* the agent's job list
          purges,    \* the jobs that purge retained data
          retention, \* the agent's setting in memory, and as saved
          session,   \* the browser is logged in
          tab,       \* the mounted page
          health,    \* state hooks of the health page
          tasks,     \* state hooks of the tasks page
          requests,  \* requests in flight
          acts, faults

vars == <<status, purges, retention, session, tab, health, tasks, requests, acts, faults>>
agent == <<status, purges, retention, session>>
hooks == <<tab, health, tasks>>

Jobs == INSTANCE JobLife WITH Jobs <- JobIds

Slots == LoadSlots \union PollSlots \union UserSlots
Retentions == {1} \union Inputs
Statuses == {"unborn", "pending", "running", "forgotten"} \union Jobs!Results

\* What a request holds while it is in flight, by what it asks; an answer is <<>>, for an error, or
\* one value.  orphan: the page that sent it is gone.
Answers(S) == {None, <<>>} \union {<<x>> : x \in S}
LoadsOf(S) == [kind: {"load"}, what: {None}, after: {"mount", "interval", "save", "purge", "run"},
               answer: Answers(S), failed: BOOLEAN, orphan: BOOLEAN]
Loads == LoadsOf(Retentions) \union LoadsOf([JobIds -> Statuses])
Polls == [kind: {"poll"}, what: JobIds, after: {None}, answer: Answers(Statuses),
          failed: BOOLEAN, orphan: BOOLEAN]
Saves == [kind: {"save"}, what: Retentions, after: {None}, answer: Answers(Retentions),
          failed: BOOLEAN, orphan: BOOLEAN]
Starts == [kind: {"purge", "run"}, what: {None}, after: {None}, answer: Answers(JobIds),
           failed: BOOLEAN, orphan: BOOLEAN]

ASSUME NoneAssumption ==
    /\ None \notin LoadsOf(Retentions) /\ None \notin LoadsOf([JobIds -> Statuses])
    /\ None \notin Polls /\ None \notin Saves /\ None \notin Starts
    /\ None \notin {"save", "run"}

\* A request by what it asks; "after" says which handler awaits a load.
Ask(kind, what, after) ==
    [kind |-> kind, what |-> what, after |-> after, answer |-> None, failed |-> FALSE, orphan |-> FALSE]
Load(after) == Ask("load", None, after)

FreshHealth == [shown |-> None, loading |-> TRUE, refreshing |-> FALSE, field |-> 1, dirty |-> FALSE,
                saving |-> FALSE, purge |-> None]
FreshTasks == [list |-> [j \in JobIds |-> "unborn"], loading |-> TRUE, running |-> FALSE,
               message |-> None]

\* The requests once a page was mounted: its effect loads; what the old page wrote is under way.
Mounted(q) ==
    LET load == CHOOSE s \in LoadSlots : TRUE IN
    [s \in Slots |-> IF s = load THEN Load("mount")
                     ELSE IF q[s] # None /\ q[s].kind \in {"save", "purge", "run"}
                     THEN [q[s] EXCEPT !.orphan = TRUE] ELSE None]

Init ==
    /\ Jobs!Init /\ purges = {}
    /\ retention = [memory |-> 1, disk |-> 1] /\ session = TRUE
    /\ tab = "health" /\ health = FreshHealth /\ tasks = FreshTasks
    /\ requests = Mounted([s \in Slots |-> None])
    /\ acts = 0 /\ faults = 0

-----------------------------------------------------------------------------
\* The agent.

RunJob(j) ==
    /\ Jobs!Run(j)
    /\ UNCHANGED <<purges, retention, session, requests, acts, faults>> /\ UNCHANGED hooks

\* Mutant: a purge may be blocked.
EndAny(j) ==
    /\ Jobs!End(j)
    /\ UNCHANGED <<purges, retention, session, requests, acts, faults>> /\ UNCHANGED hooks

\* A purge ends "done" or "failed".
EndJob(j) ==
    /\ Jobs!End(j) /\ (j \in purges => status'[j] \in {"done", "failed"})
    /\ UNCHANGED <<purges, retention, session, requests, acts, faults>> /\ UNCHANGED hooks

\* Jobs and sessions are in memory, settings in a file.
Restart ==
    /\ faults < MaxFaults /\ faults' = faults + 1
    /\ Jobs!Forget /\ session' = FALSE
    /\ retention' = [retention EXCEPT !.memory = retention.disk]
    /\ UNCHANGED <<purges, requests, acts>> /\ UNCHANGED hooks

Pending(s, kinds) ==
    requests[s] # None /\ requests[s].kind \in kinds /\ ~requests[s].failed /\ requests[s].answer = None
Answer(s, a) == requests' = [requests EXCEPT ![s].answer = a]

\* An answer is <<>> when it is an error, of which a lost session is one.
ServeLoad(s) ==
    /\ Pending(s, {"load"})
    /\ Answer(s, IF ~session THEN <<>> ELSE IF tab = "health" THEN <<retention.memory>> ELSE <<status>>)
    /\ UNCHANGED <<agent, hooks, acts, faults>>

ServePoll(s) ==
    /\ Pending(s, {"poll"})
    /\ LET j == requests[s].what IN Answer(s, IF session /\ Jobs!Known(j) THEN <<status[j]>> ELSE <<>>)
    /\ UNCHANGED <<agent, hooks, acts, faults>>

NextJob == {j \in JobIds : status[j] = "unborn" /\ \A k \in JobIds : k < j => status[k] # "unborn"}

\* POST /jobs/...: a job of any kind is accepted at any time.
ServeJob(s) ==
    /\ Pending(s, {"purge", "run"})
    /\ \/ /\ ~session /\ Answer(s, <<>>)
          /\ UNCHANGED <<status, purges>>
       \/ /\ session
          /\ \E j \in NextJob :
                /\ Jobs!Accept(j) /\ Answer(s, <<j>>)
                /\ purges' = IF requests[s].kind = "purge" THEN purges \union {j} ELSE purges
    /\ UNCHANGED <<retention, session, hooks, acts, faults>>

\* POST /settings: memory first; the file may fail.
InRange(s) == requests[s].what <= MaxRetention
ServeSave(s) ==
    /\ Pending(s, {"save"})
    /\ \/ ~(session /\ InRange(s)) /\ Answer(s, <<>>) /\ UNCHANGED <<retention, faults>>
       \/ /\ session /\ InRange(s)
          /\ retention' = [memory |-> requests[s].what, disk |-> requests[s].what]
          /\ Answer(s, <<requests[s].what>>)
          /\ UNCHANGED faults
       \/ /\ session /\ InRange(s) /\ faults < MaxFaults /\ faults' = faults + 1
          /\ retention' = [retention EXCEPT !.memory = requests[s].what]
          /\ Answer(s, <<>>)
    /\ UNCHANGED <<status, purges, session, hooks, acts>>

FailRequest(s) ==
    /\ faults < MaxFaults /\ faults' = faults + 1
    /\ requests[s] # None /\ ~requests[s].failed
    /\ requests' = [requests EXCEPT ![s].failed = TRUE]
    /\ UNCHANGED <<agent, hooks, acts>>

-----------------------------------------------------------------------------
\* The health page sends.

\* Mutant: the effect runs only for a new value, not when the field is no longer edited.
FollowedOnChange(h) ==
    IF ~h.dirty /\ h.shown # None /\ h.shown # health.shown THEN [h EXCEPT !.field = h.shown] ELSE h

\* Effect: a field that was not edited follows the agent's value.
Followed(h) == IF ~h.dirty /\ h.shown # None THEN [h EXCEPT !.field = h.shown] ELSE h

Active(p) == p # None /\ p.status \in {"pending", "running"}
\* setPurgeJob; the effect arms the next poll of a job that is not finished.
Purge(j, st) == [job |-> j, status |-> st, armed |-> st \in {"pending", "running"}]

UserActs == acts < MaxActs /\ acts' = acts + 1 /\ UNCHANGED <<agent, faults>>
Send(s, r) == requests[s] = None /\ requests' = [requests EXCEPT ![s] = r]

\* Mutant: only the health page has an interval.
SendHealthLoad(s) ==
    /\ s \in LoadSlots /\ tab = "health" /\ Send(s, Load("interval"))
    /\ health' = [health EXCEPT !.refreshing = TRUE]
    /\ UNCHANGED <<agent, tab, tasks, acts, faults>>

\* The intervals of both pages: 10 s and 5 s.
SendLoad(s) ==
    /\ s \in LoadSlots /\ Send(s, Load("interval"))
    /\ health' = IF tab = "health" THEN [health EXCEPT !.refreshing = TRUE] ELSE health
    /\ UNCHANGED <<agent, tab, tasks, acts, faults>>

\* 800 ms after the purge job was set.
SendPoll(s) ==
    /\ s \in PollSlots /\ health.purge # None /\ health.purge.armed
    /\ Send(s, Ask("poll", health.purge.job, None))
    /\ health' = [health EXCEPT !.purge.armed = FALSE]
    /\ UNCHANGED <<agent, tab, tasks, acts, faults>>

\* The page is visible once it has data.
Ready == tab = "health" /\ ~health.loading /\ health.shown # None

Type(v) ==
    /\ UserActs /\ Ready /\ v # health.field
    /\ health' = [health EXCEPT !.field = v, !.dirty = TRUE]
    /\ UNCHANGED <<tab, tasks, requests>>

SaveRetention(s) ==
    /\ UserActs /\ Ready /\ ~health.saving /\ health.field >= 1
    /\ s \in UserSlots /\ Send(s, Ask("save", health.field, None))
    /\ health' = [health EXCEPT !.saving = TRUE]
    /\ UNCHANGED <<tab, tasks>>

\* The button is disabled for a job that runs, not for one that is being asked for.
PurgeRetainedNow(s) ==
    /\ UserActs /\ Ready /\ ~Active(health.purge)
    /\ s \in UserSlots /\ Send(s, Ask("purge", None, None))
    /\ UNCHANGED hooks

\* The three buttons of the tasks page compare runningJob with words it is never set to, so that they
\* are never disabled.
RunTask(s) ==
    /\ UserActs /\ tab = "tasks"
    /\ s \in UserSlots /\ Send(s, Ask("run", None, None))
    /\ tasks' = [tasks EXCEPT !.running = TRUE, !.message = None]
    /\ UNCHANGED <<tab, health>>

OpenTab(t) ==
    /\ UserActs /\ t # tab /\ tab' = t
    /\ health' = FreshHealth /\ tasks' = FreshTasks
    /\ requests' = Mounted(requests)

-----------------------------------------------------------------------------
\* Answers.

Came(s, kind) ==
    /\ requests[s] # None /\ requests[s].kind = kind /\ ~requests[s].orphan
    /\ requests[s].failed \/ requests[s].answer # None
    /\ UNCHANGED <<agent, tab, acts, faults>>
Ok(s) == ~requests[s].failed /\ requests[s].answer # <<>>
Value(s) == requests[s].answer[1]
Free(s) == [requests EXCEPT ![s] = None]
Then(s, r) == [requests EXCEPT ![s] = r]

\* Mutant: the flags are cleared only by a load that succeeded.
HealthLoadUnguarded(s) ==
    /\ Came(s, "load") /\ tab = "health"
    /\ health' = Followed([health EXCEPT !.shown = IF Ok(s) THEN Value(s) ELSE @,
                                         !.loading = @ /\ ~Ok(s), !.refreshing = @ /\ ~Ok(s),
                                         !.dirty = @ /\ requests[s].after # "save",
                                         !.saving = @ /\ requests[s].after # "save"])
    /\ requests' = Free(s)
    /\ UNCHANGED tasks

\* A failed load is ignored and clears both flags like any other; the save that awaits it goes on,
\* and takes back what was typed since.
HealthLoadArrives(s) ==
    /\ Came(s, "load") /\ tab = "health"
    /\ health' = Followed([health EXCEPT !.shown = IF Ok(s) THEN Value(s) ELSE @,
                                         !.loading = FALSE, !.refreshing = FALSE,
                                         !.dirty = @ /\ requests[s].after # "save",
                                         !.saving = @ /\ requests[s].after # "save"])
    /\ requests' = Free(s)
    /\ UNCHANGED tasks

SaveArrives(s) ==
    /\ Came(s, "save")
    /\ IF Ok(s)
       THEN /\ health' = [health EXCEPT !.refreshing = TRUE]
            /\ requests' = Then(s, Load("save"))
       ELSE /\ health' = [health EXCEPT !.saving = FALSE]
            /\ requests' = Free(s)
    /\ UNCHANGED tasks

\* A request that the network lost is an unhandled rejection.
PurgeArrives(s) ==
    /\ Came(s, "purge")
    /\ health' = IF requests[s].failed THEN health
                 ELSE [health EXCEPT !.purge = IF Ok(s) THEN Purge(Value(s), "pending")
                                               ELSE Purge(None, "failed")]
    /\ requests' = Free(s)
    /\ UNCHANGED tasks

\* Mutant: the answer does not arm the next poll.
PollArrivesOnce(s) ==
    /\ Came(s, "poll")
    /\ health' = IF Ok(s) THEN [health EXCEPT !.purge = [Purge(requests[s].what, Value(s)) EXCEPT
                                                            !.armed = FALSE]]
                 ELSE health
    /\ requests' = Free(s)
    /\ UNCHANGED tasks

\* An answer is shown whichever job is followed by now, and arms the next poll; without one, no poll
\* follows.  When the status becomes "done", an effect loads.
PollArrives(s) ==
    /\ Came(s, "poll")
    /\ LET done == Ok(s) /\ Value(s) = "done" /\ health.purge.status # "done" IN
       /\ health' = IF Ok(s) THEN [health EXCEPT !.purge = Purge(requests[s].what, Value(s)),
                                                 !.refreshing = @ \/ done]
                    ELSE health
       /\ requests' = IF done THEN Then(s, Load("purge")) ELSE Free(s)
    /\ UNCHANGED tasks

\* A started task whose load failed is reported as not started.
TasksLoadArrives(s) ==
    /\ Came(s, "load") /\ tab = "tasks"
    /\ LET awaited == requests[s].after = "run" IN
       tasks' = [tasks EXCEPT !.list = IF Ok(s) THEN Value(s) ELSE @, !.loading = FALSE,
                              !.running = @ /\ ~awaited,
                              !.message = IF awaited /\ requests[s].failed THEN "failed" ELSE @]
    /\ requests' = Free(s)
    /\ UNCHANGED health

RunArrives(s) ==
    /\ Came(s, "run")
    /\ tasks' = [tasks EXCEPT !.running = @ /\ Ok(s), !.message = IF Ok(s) THEN "started" ELSE "failed"]
    /\ requests' = IF Ok(s) THEN Then(s, Load("run")) ELSE Free(s)
    /\ UNCHANGED health

OrphanArrives(s) ==
    /\ requests[s] # None /\ requests[s].orphan
    /\ requests[s].failed \/ requests[s].answer # None
    /\ requests' = Free(s)
    /\ UNCHANGED <<agent, hooks, acts, faults>>

Serve(s) == ServeLoad(s) \/ ServePoll(s) \/ ServeJob(s) \/ ServeSave(s)
Arrive(s) ==
    \/ HealthLoadArrives(s) \/ SaveArrives(s) \/ PurgeArrives(s) \/ PollArrives(s)
    \/ TasksLoadArrives(s) \/ RunArrives(s) \/ OrphanArrives(s)
Acts(s) == SaveRetention(s) \/ PurgeRetainedNow(s) \/ RunTask(s)

Next ==
    \/ \E j \in JobIds : RunJob(j) \/ EndJob(j)
    \/ Restart
    \/ \E v \in Inputs : Type(v)
    \/ \E t \in {"health", "tasks"} : OpenTab(t)
    \/ \E s \in Slots : Serve(s) \/ FailRequest(s) \/ SendLoad(s) \/ SendPoll(s) \/ Acts(s) \/ Arrive(s)

Spec == Init /\ [][Next]_vars

\* Timers fire, requests end, jobs run.
FairSpec ==
    /\ Spec
    /\ \A s \in Slots : WF_vars(Serve(s)) /\ WF_vars(Arrive(s)) /\ WF_vars(SendLoad(s)) /\ WF_vars(SendPoll(s))
    /\ \A j \in JobIds : WF_vars(RunJob(j)) /\ WF_vars(EndJob(j))

-----------------------------------------------------------------------------
InFlight == {requests[s] : s \in {t \in Slots : requests[t] # None /\ ~requests[t].orphan}}

\* Jobs and hooks have their types, and only a page that is mounted has a state.
TypeOK ==
    /\ status \in [JobIds -> Statuses]
    /\ \A j \in purges : status[j] \notin {"unborn", "blocked", "retrying"}
    /\ retention \in [memory : Retentions, disk : Retentions]
    /\ tab # "health" => health = FreshHealth
    /\ tab # "tasks" => tasks = FreshTasks
    /\ health.field \in Retentions /\ health.shown \in Retentions \union {None}
    /\ \A b \in {health.loading, health.refreshing, health.dirty, health.saving} : b \in BOOLEAN
    /\ tasks.message \in {None, "started", "failed"}

\* What the pages say is under way is under way, although every load clears the flags that another
\* one has set: "loading" and "refreshing" have a load to wait for, one save runs exactly while its
\* button is disabled, and a task is only called starting while one is.
FlagsHonest ==
    /\ tab = "health" /\ health.loading => \E r \in InFlight : r.kind = "load" /\ r.after = "mount"
    /\ health.refreshing => \E r \in InFlight : r.kind = "load" /\ r.after # "mount"
    /\ Cardinality({s \in Slots : requests[s] # None /\ ~requests[s].orphan
                        /\ (requests[s].kind = "save" \/ requests[s].after = "save")})
         = IF health.saving THEN 1 ELSE 0
    /\ tasks.running => \E r \in InFlight : r.kind = "run" \/ r.after = "run"

\* The retention field comes to show what the agent has, after saves that failed half-way, lists that
\* overtook each other and edits that a save took back, unless the user is editing it or the session
\* is gone.
RetentionCatchesUp ==
    []<>(tab = "health" /\ session => health.dirty \/ health.field = retention.memory)

Purging(j) == health.purge # None /\ health.purge.job = j /\ Active(health.purge)
\* A poll without an answer was the last one; it takes a fault to lose or refuse one.
PollLost(j) ==
    faults > 0 /\ ~health.purge.armed /\ \A r \in InFlight : ~(r.kind = "poll" /\ r.what = j)

\* A purge is not shown as running for good: its end is shown, unless a poll was lost or refused.
PurgeEnds == \A j \in JobIds : Purging(j) ~> ~Purging(j) \/ PollLost(j)

\* The list of tasks comes to show the jobs as they are.
TasksCatchUp == []<>(tab = "tasks" /\ session => tasks.list = status)
=============================================================================
