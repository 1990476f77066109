------------------------- MODULE MaintenanceProofs --------------------------
(***************************************************************************)
(* Proofs about Maintenance, for every set of jobs, retentions and request *)
(* slots, any number of user actions and faults.                           *)
(*                                                                         *)
(* What a page waits for belongs to the page that is mounted: opening the  *)
(* other one ends the loads and polls and orphans the writes.  So a flag   *)
(* of the mounted page is backed by a request in flight that will clear    *)
(* it: whatever takes the request away either clears the flag or puts one  *)
(* in its place that will.                                                 *)
(***************************************************************************)
EXTENDS Maintenance, FiniteSetTheorems, TLAPS

-----------------------------------------------------------------------------
(* The inductive invariant *)

Requests == Loads \union Polls \union Saves \union Starts

Purges == [job: JobIds \union {None}, status: Statuses, armed: BOOLEAN]
HealthStates ==
    [shown: Retentions \union {None}, loading: BOOLEAN, refreshing: BOOLEAN, field: Retentions,
     dirty: BOOLEAN, saving: BOOLEAN, purge: Purges \union {None}]
TaskStates ==
    [list: [JobIds -> Statuses], loading: BOOLEAN, running: BOOLEAN,
     message: {None, "started", "failed"}]

\* The agent; a purge has no other result than these.
AgentOK ==
    /\ status \in [JobIds -> Statuses] /\ purges \subseteq JobIds
    /\ retention \in [memory : Retentions, disk : Retentions] /\ session \in BOOLEAN
    /\ \A j \in purges : status[j] \notin {"unborn", "blocked", "retrying"}

\* The hooks; a poll is armed for a job that there is.
HooksOK ==
    /\ tab \in {"health", "tasks"} /\ health \in HealthStates /\ tasks \in TaskStates
    /\ health.purge # None /\ health.purge.armed => health.purge.job \in JobIds
    /\ tab # "health" => health = FreshHealth
    /\ tab # "tasks" => tasks = FreshTasks

\* A request that is not an orphan was sent by the page that is mounted, and was answered for it.
Belongs(r, page) ==
    /\ r.kind = "load" =>
          /\ r.answer \in IF page = "health" THEN Answers(Retentions) ELSE Answers([JobIds -> Statuses])
          /\ r.after \in {"save", "purge"} => page = "health"
          /\ r.after = "run" => page = "tasks"
          /\ ~r.orphan
    /\ r.kind \in {"poll", "save", "purge"} /\ ~r.orphan => page = "health"
    /\ r.kind = "run" /\ ~r.orphan => page = "tasks"

\* Requests that flags of the mounted page stand for.
IsMount(r) == r # None /\ ~r.orphan /\ r.kind = "load" /\ r.after = "mount"
IsRefresh(r) == r # None /\ ~r.orphan /\ r.kind = "load" /\ r.after # "mount"
IsStart(r) == r # None /\ ~r.orphan /\ (r.kind = "run" \/ r.after = "run")
IsSave(r) == r # None /\ ~r.orphan /\ (r.kind = "save" \/ r.after = "save")

SaveSlots(q) == {s \in Slots : IsSave(q[s])}
\* S is the one request that a disabled button stands for.
One(S, busy) == IF busy THEN \E s \in S : S = {s} ELSE S = {}

FlagsBacked(q, page, h, t) ==
    /\ page = "health" /\ h.loading => \E s \in Slots : IsMount(q[s])
    /\ h.refreshing => \E s \in Slots : IsRefresh(q[s])
    /\ t.running => \E s \in Slots : IsStart(q[s])
    /\ One(SaveSlots(q), h.saving)

MaintenanceInv ==
    /\ AgentOK /\ HooksOK
    /\ requests \in [Slots -> Requests \union {None}]
    /\ \A s \in Slots : requests[s] # None => Belongs(requests[s], tab)
    /\ FlagsBacked(requests, tab, health, tasks)

-----------------------------------------------------------------------------
(* Steps *)

\* Requests are of one kind, and none is None.
LEMMA RequestKinds ==
    /\ None \notin Requests
    /\ \A r \in Requests : /\ r.kind = "load" => r \in Loads
                           /\ r.kind = "poll" => r \in Polls
                           /\ r.kind = "save" => r \in Saves
                           /\ r.kind \in {"purge", "run"} => r \in Starts
                           /\ r.after # None => r \in Loads
  BY NoneAssumption DEF Requests, Loads, LoadsOf, Polls, Saves, Starts

\* A new request is one.
LEMMA AskOK ==
    /\ \A a \in {"mount", "interval", "save", "purge", "run"} :
          Load(a) \in Loads /\ Load(a).kind = "load" /\ Load(a).after = a /\ ~Load(a).orphan
          /\ Load(a).answer = None /\ Load(a) # None
    /\ \A j \in JobIds : Ask("poll", j, None) \in Polls /\ Ask("poll", j, None).kind = "poll"
          /\ Ask("poll", j, None).after = None /\ ~Ask("poll", j, None).orphan
    /\ \A v \in Retentions : Ask("save", v, None) \in Saves /\ Ask("save", v, None).kind = "save"
          /\ Ask("save", v, None).after = None /\ ~Ask("save", v, None).orphan
          /\ Ask("save", v, None) # None
    /\ \A k \in {"purge", "run"} : Ask(k, None, None) \in Starts /\ Ask(k, None, None).kind = k
          /\ Ask(k, None, None).after = None /\ ~Ask(k, None, None).orphan
          /\ Ask(k, None, None) # None
<1>1. \A a \in {"mount", "interval", "save", "purge", "run"} :
          Load(a) \in Loads /\ Load(a).kind = "load" /\ Load(a).after = a /\ ~Load(a).orphan
          /\ Load(a).answer = None
  BY DEF Load, Ask, Loads, LoadsOf, Answers
<1>2. \A j \in JobIds : Ask("poll", j, None) \in Polls /\ Ask("poll", j, None).kind = "poll"
          /\ Ask("poll", j, None).after = None /\ ~Ask("poll", j, None).orphan
  BY DEF Ask, Polls, Answers
<1>3. \A v \in Retentions : Ask("save", v, None) \in Saves /\ Ask("save", v, None).kind = "save"
          /\ Ask("save", v, None).after = None /\ ~Ask("save", v, None).orphan
  BY DEF Ask, Saves, Answers
<1>4. \A k \in {"purge", "run"} : Ask(k, None, None) \in Starts /\ Ask(k, None, None).kind = k
          /\ Ask(k, None, None).after = None /\ ~Ask(k, None, None).orphan
  BY DEF Ask, Starts, Answers
<1> QED
  BY <1>1, <1>2, <1>3, <1>4, NoneAssumption DEF Loads

\* A step that changes one slot: a flag that is left is backed by the new request, or by one that the
\* old request was not.
LEMMA SlotStep ==
    ASSUME MaintenanceInv, AgentOK', UNCHANGED tab,
           NEW s \in Slots, NEW r \in Requests \union {None}, requests' = [requests EXCEPT ![s] = r],
           r # None => Belongs(r, tab),
           health' \in HealthStates, tasks' \in TaskStates,
           tab # "health" => health' = health, tab # "tasks" => tasks' = tasks,
           health'.purge # None /\ health'.purge.armed => health'.purge.job \in JobIds,
           tab = "health" /\ health'.loading =>
               IsMount(r) \/ (health.loading /\ ~IsMount(requests[s])),
           health'.refreshing => IsRefresh(r) \/ (health.refreshing /\ ~IsRefresh(requests[s])),
           tasks'.running => IsStart(r) \/ (tasks.running /\ ~IsStart(requests[s])),
           IF IsSave(r) THEN health'.saving /\ (IsSave(requests[s]) \/ ~health.saving)
                        ELSE health'.saving = (health.saving /\ ~IsSave(requests[s]))
    PROVE  MaintenanceInv'
<1>1. /\ requests' \in [Slots -> Requests \union {None}]
      /\ requests'[s] = r /\ \A t \in Slots \ {s} : requests'[t] = requests[t]
  BY DEF MaintenanceInv
<1>2. HooksOK'
  BY DEF MaintenanceInv, HooksOK
<1>3. \A t \in Slots : requests'[t] # None => Belongs(requests'[t], tab')
  BY <1>1 DEF MaintenanceInv
<1>4. tab = "health" /\ health'.loading => \E t \in Slots : IsMount(requests'[t])
  <2> SUFFICES ASSUME tab = "health", health'.loading, ~IsMount(r)
               PROVE  \E t \in Slots : IsMount(requests'[t])
    BY <1>1
  <2>1. PICK t \in Slots : IsMount(requests[t])
    BY DEF MaintenanceInv, FlagsBacked
  <2>2. t # s
    BY <2>1
  <2> QED
    BY <1>1, <2>1, <2>2
<1>5. health'.refreshing => \E t \in Slots : IsRefresh(requests'[t])
  <2> SUFFICES ASSUME health'.refreshing, ~IsRefresh(r)
               PROVE  \E t \in Slots : IsRefresh(requests'[t])
    BY <1>1
  <2>1. PICK t \in Slots : IsRefresh(requests[t])
    BY DEF MaintenanceInv, FlagsBacked
  <2>2. t # s
    BY <2>1
  <2> QED
    BY <1>1, <2>1, <2>2
<1>6. tasks'.running => \E t \in Slots : IsStart(requests'[t])
  <2> SUFFICES ASSUME tasks'.running, ~IsStart(r)
               PROVE  \E t \in Slots : IsStart(requests'[t])
    BY <1>1
  <2>1. PICK t \in Slots : IsStart(requests[t])
    BY DEF MaintenanceInv, FlagsBacked
  <2>2. t # s
    BY <2>1
  <2> QED
    BY <1>1, <2>1, <2>2
<1>7. One(SaveSlots(requests'), health'.saving)
  <2>1. One(SaveSlots(requests), health.saving)
    BY DEF MaintenanceInv, FlagsBacked
  <2>2. CASE IsSave(r)
    <3>1. SaveSlots(requests') = SaveSlots(requests) \union {s}
      BY <1>1, <2>2 DEF SaveSlots
    <3>2. SaveSlots(requests) \subseteq {s}
      BY <2>1, <2>2 DEF One, SaveSlots
    <3> QED
      BY <2>2, <3>1, <3>2 DEF One
  <2>3. CASE ~IsSave(r) /\ IsSave(requests[s])
    <3>1. SaveSlots(requests') = SaveSlots(requests) \ {s}
      BY <1>1, <2>3 DEF SaveSlots
    <3>2. SaveSlots(requests) = {s}
      BY <2>1, <2>3 DEF One, SaveSlots
    <3>3. health'.saving = FALSE
      BY <2>3
    <3> QED
      BY <3>1, <3>2, <3>3 DEF One
  <2>4. CASE ~IsSave(r) /\ ~IsSave(requests[s])
    <3>1. SaveSlots(requests') = SaveSlots(requests)
      BY <1>1, <2>4 DEF SaveSlots
    <3>2. health.saving \in BOOLEAN
      BY DEF MaintenanceInv, HooksOK, HealthStates
    <3>3. health'.saving = health.saving
      BY <2>4, <3>2
    <3> QED
      BY <2>1, <3>1, <3>3
  <2> QED
    BY <2>2, <2>3, <2>4
<1>8. FlagsBacked(requests', tab', health', tasks')
  BY <1>4, <1>5, <1>6, <1>7 DEF FlagsBacked
<1> QED
  BY <1>1, <1>2, <1>3, <1>8 DEF MaintenanceInv

-----------------------------------------------------------------------------
(* The initial state, the agent and mounting *)

\* The state of a page that was just mounted.
LEMMA Fresh ==
    /\ FreshHealth \in HealthStates /\ FreshTasks \in TaskStates
    /\ FreshHealth.purge = None /\ ~FreshHealth.refreshing /\ ~FreshHealth.saving /\ ~FreshTasks.running
  BY DEF FreshHealth, FreshTasks, HealthStates, TaskStates, Retentions, Statuses

\* What an old page wrote goes on without it.
LEMMA OrphanOK ==
    ASSUME NEW r \in Requests, r.kind \in {"save", "purge", "run"}
    PROVE  /\ [r EXCEPT !.orphan = TRUE] \in Requests
           /\ [r EXCEPT !.orphan = TRUE].orphan = TRUE
           /\ [r EXCEPT !.orphan = TRUE].kind = r.kind
  BY RequestKinds DEF Requests, Saves, Starts

\* Mounting: only the mount load belongs to the new page, and its flag is the only one set.
LEMMA MountedOK ==
    ASSUME NEW q \in [Slots -> Requests \union {None}], NEW page \in {"health", "tasks"}
    PROVE  /\ Mounted(q) \in [Slots -> Requests \union {None}]
           /\ \A s \in Slots : Mounted(q)[s] # None => Belongs(Mounted(q)[s], page)
           /\ FlagsBacked(Mounted(q), page, FreshHealth, FreshTasks)
<1> DEFINE load == CHOOSE s \in LoadSlots : TRUE
<1> DEFINE m == Mounted(q)
<1>1. load \in LoadSlots
  BY MaintenanceAssumption
<1>2. load \in Slots
  BY <1>1 DEF Slots
<1>3. m = [s \in Slots |-> IF s = load THEN Load("mount")
                           ELSE IF q[s] # None /\ q[s].kind \in {"save", "purge", "run"}
                           THEN [q[s] EXCEPT !.orphan = TRUE] ELSE None]
  BY DEF Mounted
<1> HIDE DEF load, m
<1>4. Load("mount") \in Requests /\ Load("mount").kind = "load" /\ Load("mount").after = "mount"
      /\ Load("mount").answer = None /\ ~Load("mount").orphan /\ Load("mount") # None
  BY AskOK DEF Requests
<1>5. m[load] = Load("mount")
  BY <1>2, <1>3
<1>6. ASSUME NEW s \in Slots \ {load}
      PROVE  \/ m[s] = None
             \/ /\ m[s] \in Requests /\ m[s].orphan = TRUE
                /\ m[s].kind \in {"save", "purge", "run"}
  <2>1. CASE q[s] # None /\ q[s].kind \in {"save", "purge", "run"}
    <3>1. m[s] = [q[s] EXCEPT !.orphan = TRUE]
      BY <1>3, <1>6, <2>1
    <3>2. q[s] \in Requests
      BY <2>1, <1>6
    <3> QED
      BY <2>1, <3>1, <3>2, OrphanOK
  <2>2. CASE ~(q[s] # None /\ q[s].kind \in {"save", "purge", "run"})
    BY <1>3, <1>6, <2>2
  <2> QED
    BY <2>1, <2>2
<1>7. m \in [Slots -> Requests \union {None}]
  <2>1. \A s \in Slots : m[s] \in Requests \union {None}
    BY <1>4, <1>5, <1>6
  <2> QED
    BY <1>3, <2>1
<1>8. \A s \in Slots : m[s] # None => Belongs(m[s], page)
  <2>1. Belongs(m[load], page)
    BY <1>4, <1>5 DEF Belongs, Answers
  <2>2. \A s \in Slots \ {load} : m[s] # None => Belongs(m[s], page)
    BY <1>6 DEF Belongs
  <2> QED
    BY <2>1, <2>2
<1>9. IsMount(m[load]) /\ ~IsSave(m[load])
  BY <1>4, <1>5 DEF IsMount, IsSave
<1>10. \A s \in Slots : ~IsSave(m[s])
  BY <1>6, <1>9 DEF IsSave
<1>11. SaveSlots(m) = {}
  BY <1>10 DEF SaveSlots
<1>12. FlagsBacked(m, page, FreshHealth, FreshTasks)
  BY <1>2, <1>9, <1>11, Fresh DEF FlagsBacked, One
<1> QED
  BY <1>7, <1>8, <1>12 DEF m

\* The health page is the first one.
LEMMA MaintenanceInit == Init => MaintenanceInv
<1> SUFFICES ASSUME Init PROVE MaintenanceInv
  OBVIOUS
<1>1. AgentOK
  BY DEF Init, AgentOK, Jobs!Init, Retentions, Statuses
<1>2. HooksOK
  BY Fresh DEF Init, HooksOK
<1>3. [s \in Slots |-> None] \in [Slots -> Requests \union {None}]
  OBVIOUS
<1> QED
  BY <1>1, <1>2, <1>3, MountedOK DEF Init, MaintenanceInv

\* A step of the agent that no request sees.
LEMMA AgentStep ==
    ASSUME MaintenanceInv, AgentOK', UNCHANGED <<hooks, requests>>
    PROVE  MaintenanceInv'
  BY DEF MaintenanceInv, hooks, HooksOK, FlagsBacked

\* A job starts.
LEMMA RunJobStep ==
    ASSUME MaintenanceInv, NEW j \in JobIds, RunJob(j)
    PROVE  MaintenanceInv'
<1>1. status' \in [JobIds -> Statuses]
  BY DEF MaintenanceInv, AgentOK, RunJob, Jobs!Run, Jobs!Become, Statuses
<1>2. \A k \in JobIds : status'[k] = IF k = j THEN "running" ELSE status[k]
  BY DEF MaintenanceInv, AgentOK, RunJob, Jobs!Run, Jobs!Become
<1>3. AgentOK'
  BY <1>1, <1>2 DEF MaintenanceInv, AgentOK, RunJob
<1> QED
  BY <1>3, AgentStep DEF RunJob

\* A job ends; a purge is done or failed.
LEMMA EndJobStep ==
    ASSUME MaintenanceInv, NEW j \in JobIds, EndJob(j)
    PROVE  MaintenanceInv'
<1>1. PICK r \in Jobs!Results : status' = [status EXCEPT ![j] = r]
  BY DEF EndJob, Jobs!End, Jobs!Become
<1>2. status' \in [JobIds -> Statuses]
  BY <1>1 DEF MaintenanceInv, AgentOK, Statuses
<1>3. \A k \in JobIds \ {j} : status'[k] = status[k]
  BY <1>1 DEF MaintenanceInv, AgentOK
<1>4. j \in purges => status'[j] \in {"done", "failed"}
  BY DEF EndJob
<1>5. AgentOK'
  BY <1>2, <1>3, <1>4 DEF MaintenanceInv, AgentOK, EndJob
<1> QED
  BY <1>5, AgentStep DEF EndJob

\* A restart forgets the jobs and takes the setting from the file.
LEMMA RestartStep ==
    ASSUME MaintenanceInv, Restart
    PROVE  MaintenanceInv'
<1>1. status' = [j \in JobIds |-> IF Jobs!Known(j) THEN "forgotten" ELSE status[j]]
  BY DEF Restart, Jobs!Forget
<1>2. status' \in [JobIds -> Statuses]
  BY <1>1 DEF MaintenanceInv, AgentOK, Statuses
<1>3. retention' \in [memory : Retentions, disk : Retentions] /\ session' \in BOOLEAN
      /\ purges' = purges
  BY DEF MaintenanceInv, AgentOK, Restart
<1>4. \A j \in purges : status'[j] \notin {"unborn", "blocked", "retrying"}
  BY <1>1 DEF MaintenanceInv, AgentOK
<1>5. AgentOK'
  BY <1>2, <1>3, <1>4 DEF MaintenanceInv, AgentOK
<1> QED
  BY <1>5, AgentStep DEF Restart

\* The other page is mounted.
LEMMA OpenTabStep ==
    ASSUME MaintenanceInv, NEW t \in {"health", "tasks"}, OpenTab(t)
    PROVE  MaintenanceInv'
<1>1. AgentOK'
  BY DEF MaintenanceInv, AgentOK, OpenTab, UserActs, agent
<1>2. HooksOK'
  BY Fresh DEF OpenTab, HooksOK
<1>3. requests \in [Slots -> Requests \union {None}]
  BY DEF MaintenanceInv
<1> QED
  BY <1>1, <1>2, <1>3, MountedOK DEF OpenTab, MaintenanceInv

\* The field is edited.
LEMMA TypeStep ==
    ASSUME MaintenanceInv, NEW v \in Inputs, Type(v)
    PROVE  MaintenanceInv'
<1>1. AgentOK'
  BY DEF MaintenanceInv, AgentOK, Type, UserActs, agent
<1>2. health \in HealthStates
  BY DEF MaintenanceInv, HooksOK
<1>3. /\ health' \in HealthStates
      /\ health'.purge = health.purge /\ health'.loading = health.loading
      /\ health'.refreshing = health.refreshing /\ health'.saving = health.saving
  BY <1>2 DEF Type, HealthStates, Retentions
<1>4. HooksOK'
  BY <1>3 DEF MaintenanceInv, HooksOK, Type, Ready
<1>5. FlagsBacked(requests', tab', health', tasks')
  BY <1>3 DEF MaintenanceInv, FlagsBacked, Type
<1> QED
  BY <1>1, <1>4, <1>5 DEF MaintenanceInv, Type

-----------------------------------------------------------------------------
(* Requests that are served, and that fail *)

\* The state functions have their types.
LEMMA Typed ==
    ASSUME MaintenanceInv
    PROVE  /\ health \in HealthStates /\ tasks \in TaskStates /\ tab \in {"health", "tasks"}
           /\ requests \in [Slots -> Requests \union {None}]
           /\ status \in [JobIds -> Statuses] /\ purges \subseteq JobIds
           /\ retention \in [memory : Retentions, disk : Retentions] /\ session \in BOOLEAN
           /\ (tab # "health" => health = FreshHealth) /\ (tab # "tasks" => tasks = FreshTasks)
           /\ (health.purge # None /\ health.purge.armed => health.purge.job \in JobIds)
  BY DEF MaintenanceInv, HooksOK, AgentOK

\* A save in flight disables its button.
LEMMA Saving ==
    ASSUME MaintenanceInv, NEW s \in Slots, IsSave(requests[s])
    PROVE  health.saving
  BY DEF MaintenanceInv, FlagsBacked, One, SaveSlots

\* A step that leaves what a request is for, and the hooks, as they are.
LEMMA SameRequest ==
    ASSUME MaintenanceInv, AgentOK', UNCHANGED hooks,
           NEW s \in Slots, NEW r \in Requests, requests' = [requests EXCEPT ![s] = r],
           requests[s] # None, r.kind = requests[s].kind, r.after = requests[s].after,
           r.orphan = requests[s].orphan, Belongs(r, tab)
    PROVE  MaintenanceInv'
<1>1. r # None
  BY RequestKinds
<1>2. /\ IsMount(r) = IsMount(requests[s]) /\ IsRefresh(r) = IsRefresh(requests[s])
      /\ IsStart(r) = IsStart(requests[s]) /\ IsSave(r) = IsSave(requests[s])
  BY <1>1 DEF IsMount, IsRefresh, IsStart, IsSave
<1>3. health' = health /\ tasks' = tasks /\ tab' = tab
  BY DEF hooks
<1>4. health.saving \in BOOLEAN
  BY Typed DEF HealthStates
<1>5. IsSave(requests[s]) => health.saving
  BY Saving
<1>6. IF IsSave(r) THEN health'.saving /\ (IsSave(requests[s]) \/ ~health.saving)
                   ELSE health'.saving = (health.saving /\ ~IsSave(requests[s]))
  BY <1>2, <1>3, <1>4, <1>5
<1>7. /\ tab = "health" /\ health'.loading => IsMount(r) \/ (health.loading /\ ~IsMount(requests[s]))
      /\ health'.refreshing => IsRefresh(r) \/ (health.refreshing /\ ~IsRefresh(requests[s]))
      /\ tasks'.running => IsStart(r) \/ (tasks.running /\ ~IsStart(requests[s]))
  BY <1>2, <1>3
<1>8. health' \in HealthStates /\ tasks' \in TaskStates
      /\ (health'.purge # None /\ health'.purge.armed => health'.purge.job \in JobIds)
  BY <1>3, Typed
<1> QED
  BY <1>1, <1>3, <1>6, <1>7, <1>8, SlotStep

\* An answer of the right sort; what the request asks stays.
LEMMA Answered ==
    ASSUME NEW r \in Requests, NEW a,
           r.kind = "load" => a \in Answers(Retentions) \/ a \in Answers([JobIds -> Statuses]),
           r.kind = "poll" => a \in Answers(Statuses),
           r.kind = "save" => a \in Answers(Retentions),
           r.kind \in {"purge", "run"} => a \in Answers(JobIds)
    PROVE  /\ [r EXCEPT !.answer = a] \in Requests
           /\ [r EXCEPT !.answer = a].kind = r.kind /\ [r EXCEPT !.answer = a].after = r.after
           /\ [r EXCEPT !.answer = a].orphan = r.orphan /\ [r EXCEPT !.answer = a].answer = a
<1>1. CASE r \in Loads
  BY <1>1 DEF Requests, Loads, LoadsOf
<1>2. CASE r \in Polls
  BY <1>2 DEF Requests, Polls
<1>3. CASE r \in Saves
  BY <1>3 DEF Requests, Saves
<1>4. CASE r \in Starts
  BY <1>4 DEF Requests, Starts
<1> QED
  BY <1>1, <1>2, <1>3, <1>4 DEF Requests

\* A request is answered.
LEMMA AnswerStep ==
    ASSUME MaintenanceInv, AgentOK', UNCHANGED hooks, NEW s \in Slots, NEW a,
           requests[s] # None, Answer(s, a),
           requests[s].kind = "load" =>
               a \in IF tab = "health" THEN Answers(Retentions) ELSE Answers([JobIds -> Statuses]),
           requests[s].kind = "poll" => a \in Answers(Statuses),
           requests[s].kind = "save" => a \in Answers(Retentions),
           requests[s].kind \in {"purge", "run"} => a \in Answers(JobIds)
    PROVE  MaintenanceInv'
<1> DEFINE r == [requests[s] EXCEPT !.answer = a]
<1>1. requests[s] \in Requests
  BY Typed
<1>2. r \in Requests /\ r.kind = requests[s].kind /\ r.after = requests[s].after
      /\ r.orphan = requests[s].orphan /\ r.answer = a
  BY <1>1, Answered, ZenonT(30)
<1>3. requests' = [requests EXCEPT ![s] = r]
  BY DEF Answer
<1> HIDE DEF r
<1>4. Belongs(requests[s], tab)
  BY DEF MaintenanceInv
<1>5. Belongs(r, tab)
  BY <1>2, <1>4 DEF Belongs
<1> QED
  BY <1>2, <1>3, <1>5, SameRequest

\* A request is lost; it still ends, so its flags are still backed.
LEMMA FailStep ==
    ASSUME MaintenanceInv, NEW s \in Slots, FailRequest(s)
    PROVE  MaintenanceInv'
<1> DEFINE r == [requests[s] EXCEPT !.failed = TRUE]
<1>1. requests[s] \in Requests /\ requests[s] # None
  BY Typed DEF FailRequest
<1>2. r \in Requests /\ r.kind = requests[s].kind /\ r.after = requests[s].after
      /\ r.orphan = requests[s].orphan /\ r.answer = requests[s].answer
  <2>1. CASE requests[s] \in Loads
    BY <2>1 DEF Requests, Loads, LoadsOf
  <2>2. CASE requests[s] \in Polls
    BY <2>2 DEF Requests, Polls
  <2>3. CASE requests[s] \in Saves
    BY <2>3 DEF Requests, Saves
  <2>4. CASE requests[s] \in Starts
    BY <2>4 DEF Requests, Starts
  <2> QED
    BY <1>1, <2>1, <2>2, <2>3, <2>4 DEF Requests
<1>3. requests' = [requests EXCEPT ![s] = r]
  BY DEF FailRequest
<1> HIDE DEF r
<1>4. Belongs(r, tab)
  BY <1>1, <1>2 DEF Belongs, MaintenanceInv
<1>5. AgentOK' /\ UNCHANGED hooks
  BY DEF MaintenanceInv, AgentOK, FailRequest, agent
<1> QED
  BY <1>1, <1>2, <1>3, <1>4, <1>5, SameRequest

\* A load is answered for the page that is mounted, which is the one that sent it.
LEMMA ServeLoadStep ==
    ASSUME MaintenanceInv, NEW s \in Slots, ServeLoad(s)
    PROVE  MaintenanceInv'
<1> DEFINE a == IF ~session THEN <<>> ELSE IF tab = "health" THEN <<retention.memory>> ELSE <<status>>
<1>1. a \in IF tab = "health" THEN Answers(Retentions) ELSE Answers([JobIds -> Statuses])
  BY Typed DEF Answers
<1>2. requests[s] # None /\ requests[s].kind = "load" /\ Answer(s, a)
  BY DEF ServeLoad, Pending
<1>3. AgentOK' /\ UNCHANGED hooks
  BY DEF MaintenanceInv, AgentOK, ServeLoad, agent
<1> HIDE DEF a
<1> QED
  BY <1>1, <1>2, <1>3, AnswerStep

\* A poll is answered.
LEMMA ServePollStep ==
    ASSUME MaintenanceInv, NEW s \in Slots, ServePoll(s)
    PROVE  MaintenanceInv'
<1> DEFINE j == requests[s].what
<1> DEFINE a == IF session /\ Jobs!Known(j) THEN <<status[j]>> ELSE <<>>
<1>1. requests[s] # None /\ requests[s].kind = "poll" /\ Answer(s, a)
  BY DEF ServePoll, Pending
<1>2. j \in JobIds
  BY <1>1, Typed, RequestKinds DEF Polls
<1>3. a \in Answers(Statuses)
  BY <1>2, Typed DEF Answers
<1>4. AgentOK' /\ UNCHANGED hooks
  BY DEF MaintenanceInv, AgentOK, ServePoll, agent
<1> HIDE DEF a
<1> QED
  BY <1>1, <1>3, <1>4, AnswerStep

\* A job is accepted, and remembered as a purge if it is one.
LEMMA ServeJobStep ==
    ASSUME MaintenanceInv, NEW s \in Slots, ServeJob(s)
    PROVE  MaintenanceInv'
<1>1. requests[s] # None /\ requests[s].kind \in {"purge", "run"}
  BY DEF ServeJob, Pending
<1>2. UNCHANGED <<retention, session, hooks>>
  BY DEF ServeJob
<1>3. CASE ~session /\ Answer(s, <<>>) /\ UNCHANGED <<status, purges>>
  <2>1. AgentOK'
    BY <1>2, <1>3 DEF MaintenanceInv, AgentOK
  <2>2. <<>> \in Answers(JobIds)
    BY DEF Answers
  <2> QED
    BY <1>1, <1>2, <1>3, <2>1, <2>2, AnswerStep
<1>4. ASSUME NEW j \in NextJob, Jobs!Accept(j), Answer(s, <<j>>),
             purges' = IF requests[s].kind = "purge" THEN purges \union {j} ELSE purges
      PROVE  MaintenanceInv'
  <2>1. j \in JobIds /\ status' = [status EXCEPT ![j] = "pending"]
    BY <1>4 DEF NextJob, Jobs!Accept, Jobs!Become
  <2>2. status' \in [JobIds -> Statuses] /\ purges' \subseteq JobIds
    BY <1>4, <2>1, Typed DEF Statuses
  <2>3. \A k \in purges' : status'[k] \notin {"unborn", "blocked", "retrying"}
    BY <1>4, <2>1 DEF MaintenanceInv, AgentOK
  <2>4. AgentOK'
    BY <1>2, <2>2, <2>3 DEF MaintenanceInv, AgentOK
  <2>5. <<j>> \in Answers(JobIds)
    BY <2>1 DEF Answers
  <2> QED
    BY <1>1, <1>2, <1>4, <2>4, <2>5, AnswerStep
<1> QED
  BY <1>3, <1>4 DEF ServeJob

\* A setting is saved, in memory only or in both places.
LEMMA ServeSaveStep ==
    ASSUME MaintenanceInv, NEW s \in Slots, ServeSave(s)
    PROVE  MaintenanceInv'
<1> DEFINE v == requests[s].what
<1>1. requests[s] # None /\ requests[s].kind = "save"
  BY DEF ServeSave, Pending
<1>2. v \in Retentions
  BY <1>1, Typed, RequestKinds DEF Saves
<1>3. UNCHANGED <<status, purges, session, hooks>>
  BY DEF ServeSave
<1>4. PICK a \in {<<>>, <<v>>} : Answer(s, a)
  BY DEF ServeSave
<1>5. a \in Answers(Retentions)
  BY <1>2 DEF Answers
<1>6. retention' \in [memory : Retentions, disk : Retentions]
  BY <1>2, Typed DEF ServeSave
<1>7. AgentOK'
  BY <1>3, <1>6 DEF MaintenanceInv, AgentOK
<1> QED
  BY <1>1, <1>3, <1>4, <1>5, <1>7, AnswerStep

-----------------------------------------------------------------------------
(* What the pages send *)

\* A request without a handler that awaits it is neither a save nor a start.
LEMMA NoneNotSave == None # "save" /\ None # "run"
  BY NoneAssumption

\* The interval fires.
LEMMA SendLoadStep ==
    ASSUME MaintenanceInv, NEW s \in Slots, SendLoad(s)
    PROVE  MaintenanceInv'
<1> DEFINE r == Load("interval")
<1>1. r \in Requests /\ r.kind = "load" /\ r.after = "interval" /\ ~r.orphan /\ r.answer = None /\ r # None
  BY AskOK DEF Requests
<1>2. requests[s] = None /\ requests' = [requests EXCEPT ![s] = r]
  BY DEF SendLoad, Send
<1> HIDE DEF r
<1>3. Belongs(r, tab)
  BY <1>1, Typed DEF Belongs, Answers
<1>4. IsRefresh(r) /\ ~IsSave(r) /\ ~IsSave(requests[s]) /\ ~IsMount(requests[s]) /\ ~IsStart(requests[s])
  BY <1>1, <1>2 DEF IsRefresh, IsSave, IsMount, IsStart
<1>5. AgentOK' /\ UNCHANGED <<tab, tasks>>
  BY DEF MaintenanceInv, AgentOK, SendLoad, agent
<1>6. /\ health' \in HealthStates /\ health'.loading = health.loading /\ health'.saving = health.saving
      /\ health'.purge = health.purge /\ (tab # "health" => health' = health)
  BY Typed DEF SendLoad, HealthStates
<1>7. health.saving \in BOOLEAN
  BY Typed DEF HealthStates
<1> QED
  BY <1>1, <1>2, <1>3, <1>4, <1>5, <1>6, <1>7, Typed, SlotStep

\* The poll that was armed is sent.
LEMMA SendPollStep ==
    ASSUME MaintenanceInv, NEW s \in Slots, SendPoll(s)
    PROVE  MaintenanceInv'
<1> DEFINE r == Ask("poll", health.purge.job, None)
<1>1. health.purge.job \in JobIds /\ tab = "health"
  BY Typed DEF SendPoll, FreshHealth
<1>2. r \in Requests /\ r.kind = "poll" /\ r.after = None /\ ~r.orphan
  BY <1>1, AskOK DEF Requests
<1>3. requests[s] = None /\ requests' = [requests EXCEPT ![s] = r]
  BY DEF SendPoll, Send
<1> HIDE DEF r
<1>4. Belongs(r, tab)
  BY <1>1, <1>2 DEF Belongs
<1>5. ~IsSave(r) /\ ~IsSave(requests[s]) /\ ~IsMount(requests[s]) /\ ~IsStart(requests[s])
      /\ ~IsRefresh(requests[s])
  BY <1>2, <1>3, NoneNotSave DEF IsRefresh, IsSave, IsMount, IsStart
<1>6. AgentOK' /\ UNCHANGED <<tab, tasks>>
  BY DEF MaintenanceInv, AgentOK, SendPoll, agent
<1>7. health.purge \in Purges
  BY Typed DEF SendPoll, HealthStates
<1>8. health' = [health EXCEPT !.purge = [health.purge EXCEPT !.armed = FALSE]]
  BY DEF SendPoll
<1>9. [health.purge EXCEPT !.armed = FALSE] \in Purges /\ ~[health.purge EXCEPT !.armed = FALSE].armed
  BY <1>7 DEF Purges
<1>10. /\ health' \in HealthStates /\ health'.loading = health.loading /\ health'.saving = health.saving
       /\ health'.refreshing = health.refreshing
       /\ ~health'.purge.armed
  BY <1>8, <1>9, Typed DEF HealthStates
<1>11. health.saving \in BOOLEAN
  BY Typed DEF HealthStates
<1> QED
  BY <1>1, <1>2, <1>3, <1>4, <1>5, <1>6, <1>10, <1>11, Typed, SlotStep

\* A save is sent; there is no other.
LEMMA SaveRetentionStep ==
    ASSUME MaintenanceInv, NEW s \in Slots, SaveRetention(s)
    PROVE  MaintenanceInv'
<1> DEFINE r == Ask("save", health.field, None)
<1>1. health.field \in Retentions /\ tab = "health" /\ ~health.saving
  BY Typed DEF SaveRetention, Ready, HealthStates
<1>2. r \in Requests /\ r.kind = "save" /\ r.after = None /\ ~r.orphan /\ r # None
  BY <1>1, AskOK DEF Requests
<1>3. requests[s] = None /\ requests' = [requests EXCEPT ![s] = r]
  BY DEF SaveRetention, Send
<1> HIDE DEF r
<1>4. Belongs(r, tab)
  BY <1>1, <1>2 DEF Belongs
<1>5. IsSave(r) /\ ~IsMount(requests[s]) /\ ~IsStart(requests[s]) /\ ~IsRefresh(requests[s])
  BY <1>2, <1>3 DEF IsRefresh, IsSave, IsMount, IsStart
<1>6. AgentOK' /\ UNCHANGED <<tab, tasks>>
  BY DEF MaintenanceInv, AgentOK, SaveRetention, UserActs, agent
<1>7. /\ health' \in HealthStates /\ health'.loading = health.loading /\ health'.saving
      /\ health'.refreshing = health.refreshing /\ health'.purge = health.purge
  BY Typed DEF SaveRetention, HealthStates
<1> QED
  BY <1>1, <1>2, <1>3, <1>4, <1>5, <1>6, <1>7, Typed, SlotStep

\* A purge is asked for.
LEMMA PurgeRetainedNowStep ==
    ASSUME MaintenanceInv, NEW s \in Slots, PurgeRetainedNow(s)
    PROVE  MaintenanceInv'
<1> DEFINE r == Ask("purge", None, None)
<1>1. r \in Requests /\ r.kind = "purge" /\ r.after = None /\ ~r.orphan /\ r # None
  BY AskOK DEF Requests
<1>2. requests[s] = None /\ requests' = [requests EXCEPT ![s] = r] /\ tab = "health"
  BY DEF PurgeRetainedNow, Send, Ready
<1> HIDE DEF r
<1>3. Belongs(r, tab)
  BY <1>1, <1>2 DEF Belongs
<1>4. ~IsSave(r) /\ ~IsSave(requests[s]) /\ ~IsMount(requests[s]) /\ ~IsStart(requests[s])
      /\ ~IsRefresh(requests[s])
  BY <1>1, <1>2, NoneNotSave DEF IsRefresh, IsSave, IsMount, IsStart
<1>5. AgentOK' /\ UNCHANGED <<tab, tasks, health>>
  BY DEF MaintenanceInv, AgentOK, PurgeRetainedNow, UserActs, agent, hooks
<1>6. health.saving \in BOOLEAN
  BY Typed DEF HealthStates
<1> QED
  BY <1>1, <1>2, <1>3, <1>4, <1>5, <1>6, Typed, SlotStep

\* A task is started.
LEMMA RunTaskStep ==
    ASSUME MaintenanceInv, NEW s \in Slots, RunTask(s)
    PROVE  MaintenanceInv'
<1> DEFINE r == Ask("run", None, None)
<1>1. r \in Requests /\ r.kind = "run" /\ r.after = None /\ ~r.orphan /\ r # None
  BY AskOK DEF Requests
<1>2. requests[s] = None /\ requests' = [requests EXCEPT ![s] = r] /\ tab = "tasks"
  BY DEF RunTask, Send
<1> HIDE DEF r
<1>3. Belongs(r, tab)
  BY <1>1, <1>2 DEF Belongs
<1>4. IsStart(r) /\ ~IsSave(r) /\ ~IsSave(requests[s]) /\ ~IsMount(requests[s])
      /\ ~IsRefresh(requests[s])
  BY <1>1, <1>2, NoneNotSave DEF IsRefresh, IsSave, IsMount, IsStart
<1>5. AgentOK' /\ UNCHANGED <<tab, health>>
  BY DEF MaintenanceInv, AgentOK, RunTask, UserActs, agent
<1>6. tasks' \in TaskStates
  BY Typed DEF RunTask, TaskStates
<1>7. health.saving \in BOOLEAN
  BY Typed DEF HealthStates
<1> QED
  BY <1>1, <1>2, <1>3, <1>4, <1>5, <1>6, <1>7, Typed, SlotStep

-----------------------------------------------------------------------------
(* What arrives *)

\* What an answer that is not an error holds.
LEMMA AnswerValue ==
    ASSUME NEW S, NEW a \in Answers(S), a # None, a # <<>>
    PROVE  a[1] \in S
  BY DEF Answers

\* The request whose answer came, and the flags it backs.
LEMMA Arrived ==
    ASSUME MaintenanceInv, NEW s \in Slots, NEW kind, Came(s, kind)
    PROVE  /\ requests[s] # None /\ requests[s].kind = kind /\ ~requests[s].orphan
           /\ requests[s] \in Requests /\ Belongs(requests[s], tab)
           /\ Ok(s) => requests[s].answer # None /\ requests[s].answer # <<>>
           /\ AgentOK' /\ UNCHANGED tab
           /\ health \in HealthStates /\ tasks \in TaskStates
           /\ health.saving \in BOOLEAN /\ (IsSave(requests[s]) => health.saving)
  BY Typed, Saving DEF MaintenanceInv, AgentOK, Came, Ok, agent, HealthStates

\* A load that a handler awaits.
LEMMA NextLoad ==
    ASSUME NEW a \in {"save", "purge", "run"}, NEW page, page = IF a = "run" THEN "tasks" ELSE "health"
    PROVE  /\ Load(a) \in Requests /\ Load(a) # None /\ Belongs(Load(a), page)
           /\ IsRefresh(Load(a)) /\ ~IsMount(Load(a))
           /\ IsSave(Load(a)) = (a = "save") /\ IsStart(Load(a)) = (a = "run")
  BY AskOK DEF Requests, Belongs, Answers, IsRefresh, IsMount, IsSave, IsStart

\* The effect on the field touches nothing else.
LEMMA FollowedOK ==
    ASSUME NEW h \in HealthStates
    PROVE  /\ Followed(h) \in HealthStates
           /\ Followed(h).loading = h.loading /\ Followed(h).refreshing = h.refreshing
           /\ Followed(h).saving = h.saving /\ Followed(h).purge = h.purge
<1>1. CASE ~h.dirty /\ h.shown # None
  <2>1. h.shown \in Retentions
    BY <1>1 DEF HealthStates
  <2> QED
    BY <1>1, <2>1 DEF Followed, HealthStates
<1>2. CASE ~(~h.dirty /\ h.shown # None)
  BY <1>2 DEF Followed
<1> QED
  BY <1>1, <1>2

\* A load clears both flags, of whichever load they were, and ends the save that awaits it.
LEMMA HealthLoadArrivesStep ==
    ASSUME MaintenanceInv, NEW s \in Slots, HealthLoadArrives(s)
    PROVE  MaintenanceInv'
<1>1. Came(s, "load") /\ tab = "health" /\ tasks' = tasks /\ requests' = [requests EXCEPT ![s] = None]
  BY DEF HealthLoadArrives, Free
<1>2. Ok(s) => Value(s) \in Retentions
  BY <1>1, Arrived, AnswerValue DEF Belongs, Value
<1> DEFINE h == [health EXCEPT !.shown = IF Ok(s) THEN Value(s) ELSE @,
                               !.loading = FALSE, !.refreshing = FALSE,
                               !.dirty = @ /\ requests[s].after # "save",
                               !.saving = @ /\ requests[s].after # "save"]
<1>3. /\ h \in HealthStates /\ ~h.loading /\ ~h.refreshing /\ h.purge = health.purge
      /\ h.saving = (health.saving /\ requests[s].after # "save")
  BY <1>1, <1>2, Arrived, ZenonT(30) DEF HealthStates
<1>4. health' = Followed(h)
  BY DEF HealthLoadArrives
<1> HIDE DEF h
<1>5. /\ health' \in HealthStates /\ ~health'.loading /\ ~health'.refreshing
      /\ health'.purge = health.purge
      /\ health'.saving = (health.saving /\ requests[s].after # "save")
  BY <1>3, <1>4, FollowedOK
<1>6. IsSave(requests[s]) = (requests[s].after = "save") /\ ~IsStart(requests[s])
  BY <1>1, Arrived DEF IsSave, IsStart, Belongs
<1>7. ~IsSave(None)
  BY DEF IsSave
<1>8. health'.saving = (health.saving /\ ~IsSave(requests[s]))
  BY <1>5, <1>6
<1>9. AgentOK' /\ UNCHANGED tab
  BY <1>1, Arrived
<1> QED
  BY <1>1, <1>5, <1>6, <1>7, <1>8, <1>9, Typed, SlotStep

\* A save that succeeded hands its flag to the load that it awaits.
LEMMA SaveArrivesStep ==
    ASSUME MaintenanceInv, NEW s \in Slots, SaveArrives(s)
    PROVE  MaintenanceInv'
<1>1. Came(s, "save") /\ tasks' = tasks
  BY DEF SaveArrives
<1>2. tab = "health" /\ AgentOK' /\ UNCHANGED tab
  BY <1>1, Arrived DEF Belongs
<1>3. requests[s].after = None
  BY <1>1, Arrived, RequestKinds DEF Saves
<1>4. IsSave(requests[s]) /\ ~IsStart(requests[s]) /\ ~IsMount(requests[s]) /\ ~IsRefresh(requests[s])
  BY <1>1, <1>3, Arrived, NoneNotSave DEF IsSave, IsStart, IsMount, IsRefresh
<1>5. health.saving
  BY <1>4, Saving
<1>6. CASE Ok(s)
  <2>1. requests' = [requests EXCEPT ![s] = Load("save")]
        /\ health' = [health EXCEPT !.refreshing = TRUE]
    BY <1>6 DEF SaveArrives, Then
  <2>2. /\ health' \in HealthStates /\ health'.loading = health.loading
        /\ health'.purge = health.purge /\ health'.saving = health.saving
    BY <2>1, Typed DEF HealthStates
  <2>3. /\ Load("save") \in Requests /\ Belongs(Load("save"), tab) /\ IsRefresh(Load("save"))
        /\ IsSave(Load("save")) /\ ~IsStart(Load("save"))
    BY <1>2, NextLoad
  <2> QED
    BY <1>1, <1>2, <1>4, <1>5, <2>1, <2>2, <2>3, Typed, SlotStep
<1>7. CASE ~Ok(s)
  <2>1. requests' = [requests EXCEPT ![s] = None] /\ health' = [health EXCEPT !.saving = FALSE]
    BY <1>7 DEF SaveArrives, Free
  <2>2. /\ health' \in HealthStates /\ health'.loading = health.loading
        /\ health'.purge = health.purge /\ health'.refreshing = health.refreshing
        /\ health'.saving = FALSE
    BY <2>1, Typed DEF HealthStates
  <2>3. ~IsSave(None) /\ health'.saving = (health.saving /\ ~IsSave(requests[s]))
    BY <1>4, <2>2 DEF IsSave
  <2> QED
    BY <1>1, <1>2, <1>4, <2>1, <2>2, <2>3, Typed, SlotStep
<1> QED
  BY <1>6, <1>7

\* The purge a poll is armed for.
LEMMA PurgeOK ==
    ASSUME NEW j \in JobIds \union {None}, NEW st \in Statuses
    PROVE  /\ Purge(j, st) \in Purges /\ Purge(j, st).job = j
           /\ Purge(j, st).armed => st \in {"pending", "running"}
<1>1. Purge(j, st) \in Purges
  BY DEF Purge, Purges
<1>2. Purge(j, st).job = j
  BY DEF Purge
<1>3. Purge(j, st).armed = (st \in {"pending", "running"})
  BY Zenon DEF Purge
<1> QED
  BY <1>1, <1>2, <1>3

\* The purge has a job or failed.
LEMMA PurgeArrivesStep ==
    ASSUME MaintenanceInv, NEW s \in Slots, PurgeArrives(s)
    PROVE  MaintenanceInv'
<1>1. Came(s, "purge") /\ tasks' = tasks /\ requests' = [requests EXCEPT ![s] = None]
  BY DEF PurgeArrives, Free
<1>2. tab = "health" /\ AgentOK' /\ UNCHANGED tab
  BY <1>1, Arrived DEF Belongs
<1>3. requests[s].after = None
  BY <1>1, Arrived, RequestKinds DEF Starts
<1>4. ~IsSave(requests[s]) /\ ~IsStart(requests[s]) /\ ~IsMount(requests[s]) /\ ~IsRefresh(requests[s])
  BY <1>1, <1>3, Arrived, NoneNotSave DEF IsSave, IsStart, IsMount, IsRefresh
<1>5. ~IsSave(None)
  BY DEF IsSave
<1>6. /\ health' \in HealthStates /\ health'.loading = health.loading
      /\ health'.saving = health.saving /\ health'.refreshing = health.refreshing
      /\ (health'.purge # None /\ health'.purge.armed => health'.purge.job \in JobIds)
  <2>1. CASE requests[s].failed
    BY <2>1, Typed DEF PurgeArrives
  <2>2. CASE ~requests[s].failed
    <3> DEFINE p == IF Ok(s) THEN Purge(Value(s), "pending") ELSE Purge(None, "failed")
    <3> requests[s] \in Starts
      BY <1>1, Arrived, RequestKinds
    <3> requests[s].answer \in Answers(JobIds)
      BY DEF Starts
    <3>1. Ok(s) => Value(s) \in JobIds
      BY <1>1, Arrived, AnswerValue DEF Value
    <3>2. p \in Purges /\ (p.armed => p.job \in JobIds)
      <4>1. CASE Ok(s)
        BY <3>1, <4>1, PurgeOK DEF Statuses
      <4>2. CASE ~Ok(s)
        <5>1. "failed" \in Statuses
          BY DEF Statuses, Jobs!Results
        <5>2. Purge(None, "failed") \in Purges /\ ~Purge(None, "failed").armed
          BY <5>1, PurgeOK
        <5> QED
          BY <4>2, <5>2
      <4> QED
        BY <4>1, <4>2
    <3>3. health' = [health EXCEPT !.purge = p]
      BY <2>2 DEF PurgeArrives
    <3> HIDE DEF p
    <3> QED
      BY <3>2, <3>3, Typed DEF HealthStates
  <2> QED
    BY <2>1, <2>2
<1> QED
  BY <1>1, <1>2, <1>4, <1>5, <1>6, Arrived, Typed, SlotStep

\* A poll shows a job, and the load it starts when the job is done backs the flag.
LEMMA PollArrivesStep ==
    ASSUME MaintenanceInv, NEW s \in Slots, PollArrives(s)
    PROVE  MaintenanceInv'
<1> DEFINE done == Ok(s) /\ Value(s) = "done" /\ health.purge.status # "done"
<1>1. Came(s, "poll") /\ tasks' = tasks
  BY DEF PollArrives
<1>2. tab = "health" /\ AgentOK' /\ UNCHANGED tab
  BY <1>1, Arrived DEF Belongs
<1>3. requests[s].after = None /\ requests[s].what \in JobIds
  BY <1>1, Arrived, RequestKinds DEF Polls
<1>4. ~IsSave(requests[s]) /\ ~IsStart(requests[s]) /\ ~IsMount(requests[s]) /\ ~IsRefresh(requests[s])
  BY <1>1, <1>3, Arrived, NoneNotSave DEF IsSave, IsStart, IsMount, IsRefresh
<1>5. ~IsSave(None)
  BY DEF IsSave
<1>6. /\ health' \in HealthStates /\ health'.loading = health.loading
      /\ health'.saving = health.saving /\ (health'.refreshing => health.refreshing \/ done)
      /\ (health'.purge # None /\ health'.purge.armed => health'.purge.job \in JobIds)
  <2>1. CASE Ok(s)
    <3> DEFINE p == Purge(requests[s].what, Value(s))
    <3>1. Value(s) \in Statuses
      BY <1>1, <2>1, Arrived, AnswerValue, RequestKinds DEF Polls, Value
    <3>2. p \in Purges /\ p.job \in JobIds
      BY <1>3, <3>1 DEF Purge, Purges
    <3>3. health' = [health EXCEPT !.purge = p, !.refreshing = @ \/ done]
      BY <2>1 DEF PollArrives
    <3>4. done \in BOOLEAN
      OBVIOUS
    <3> HIDE DEF p, done
    <3> QED
      BY <3>2, <3>3, <3>4, Typed DEF HealthStates
  <2>2. CASE ~Ok(s)
    BY <2>2, Typed DEF PollArrives
  <2> QED
    BY <2>1, <2>2
<1>7. requests' = [requests EXCEPT ![s] = IF done THEN Load("purge") ELSE None]
  BY DEF PollArrives, Then, Free
<1> HIDE DEF done
<1>8. /\ Load("purge") \in Requests /\ Belongs(Load("purge"), tab) /\ IsRefresh(Load("purge"))
      /\ ~IsSave(Load("purge"))
  BY <1>2, NextLoad
<1>9. health.saving \in BOOLEAN
  BY <1>1, Arrived
<1>10. CASE done
  BY <1>1, <1>2, <1>4, <1>6, <1>7, <1>8, <1>9, <1>10, Typed, SlotStep
<1>11. CASE ~done
  BY <1>1, <1>2, <1>4, <1>5, <1>6, <1>7, <1>9, <1>11, Typed, SlotStep
<1> QED
  BY <1>10, <1>11

\* A load of the tasks page ends the start that awaits it.
LEMMA TasksLoadArrivesStep ==
    ASSUME MaintenanceInv, NEW s \in Slots, TasksLoadArrives(s)
    PROVE  MaintenanceInv'
<1> DEFINE awaited == requests[s].after = "run"
<1>1. Came(s, "load") /\ tab = "tasks" /\ health' = health /\ requests' = [requests EXCEPT ![s] = None]
  BY DEF TasksLoadArrives, Free
<1>2. AgentOK' /\ UNCHANGED tab
  BY <1>1, Arrived
<1>3. requests[s].after # "save"
  BY <1>1, Arrived DEF Belongs
<1>4. /\ ~IsSave(requests[s]) /\ (IsStart(requests[s]) => awaited)
      /\ (IsMount(requests[s]) \/ IsRefresh(requests[s]))
  BY <1>1, <1>3, Arrived DEF IsSave, IsStart, IsMount, IsRefresh
<1>5. Ok(s) => Value(s) \in [JobIds -> Statuses]
  BY <1>1, Arrived, AnswerValue DEF Belongs, Value
<1>6. tasks' \in TaskStates /\ tasks'.running = (tasks.running /\ ~awaited)
  <2>1. tasks' = [tasks EXCEPT !.list = IF Ok(s) THEN Value(s) ELSE @, !.loading = FALSE,
                               !.running = @ /\ ~awaited,
                               !.message = IF awaited /\ requests[s].failed THEN "failed" ELSE @]
    BY DEF TasksLoadArrives
  <2> HIDE DEF awaited
  <2> QED
    BY <1>5, <2>1, Typed DEF TaskStates
<1>7. ~health.refreshing /\ ~health.saving
  BY <1>1, Typed, Fresh
<1>8. ~IsSave(None)
  BY DEF IsSave
<1>9. health.saving \in BOOLEAN
  BY <1>1, Arrived
<1> QED
  BY <1>1, <1>2, <1>4, <1>6, <1>7, <1>8, <1>9, Typed, SlotStep

\* A start that succeeded hands its flag to the load that it awaits.
LEMMA RunArrivesStep ==
    ASSUME MaintenanceInv, NEW s \in Slots, RunArrives(s)
    PROVE  MaintenanceInv'
<1>1. Came(s, "run") /\ health' = health
  BY DEF RunArrives
<1>2. tab = "tasks" /\ AgentOK' /\ UNCHANGED tab
  BY <1>1, Arrived DEF Belongs
<1>3. requests[s].after = None
  BY <1>1, Arrived, RequestKinds DEF Starts
<1>4. ~IsSave(requests[s]) /\ ~IsMount(requests[s]) /\ ~IsRefresh(requests[s])
  BY <1>1, <1>3, Arrived, NoneNotSave DEF IsSave, IsMount, IsRefresh
<1>5. tasks' \in TaskStates /\ tasks'.running = (tasks.running /\ Ok(s))
  <2>1. tasks' = [tasks EXCEPT !.running = @ /\ Ok(s), !.message = IF Ok(s) THEN "started" ELSE "failed"]
    BY DEF RunArrives
  <2> QED
    BY <2>1, Typed DEF TaskStates
<1>6. health.saving \in BOOLEAN
  BY <1>1, Arrived
<1>7. CASE Ok(s)
  <2>1. requests' = [requests EXCEPT ![s] = Load("run")]
    BY <1>7 DEF RunArrives, Then
  <2>2. /\ Load("run") \in Requests /\ Belongs(Load("run"), tab) /\ IsStart(Load("run"))
        /\ ~IsSave(Load("run"))
    BY <1>2, NextLoad
  <2> QED
    BY <1>1, <1>2, <1>4, <1>5, <1>6, <2>1, <2>2, Typed, SlotStep
<1>8. CASE ~Ok(s)
  <2>1. requests' = [requests EXCEPT ![s] = None] /\ ~tasks'.running
    BY <1>5, <1>8 DEF RunArrives, Free
  <2>2. ~IsSave(None)
    BY DEF IsSave
  <2> QED
    BY <1>1, <1>2, <1>4, <1>5, <1>6, <2>1, <2>2, Typed, SlotStep
<1> QED
  BY <1>7, <1>8

\* What an old page wrote ends; no flag stands for it.
LEMMA OrphanArrivesStep ==
    ASSUME MaintenanceInv, NEW s \in Slots, OrphanArrives(s)
    PROVE  MaintenanceInv'
<1>1. requests[s].orphan /\ requests' = [requests EXCEPT ![s] = None]
  BY DEF OrphanArrives, Free
<1>2. AgentOK' /\ UNCHANGED hooks
  BY DEF MaintenanceInv, AgentOK, OrphanArrives, agent
<1>3. /\ ~IsSave(requests[s]) /\ ~IsMount(requests[s]) /\ ~IsRefresh(requests[s])
      /\ ~IsStart(requests[s]) /\ ~IsSave(None)
  BY <1>1 DEF IsSave, IsMount, IsRefresh, IsStart
<1>4. health.saving \in BOOLEAN
  BY Typed DEF HealthStates
<1> QED
  BY <1>1, <1>2, <1>3, <1>4, Typed, SlotStep DEF hooks

\* Every step.
LEMMA MaintenanceStep == MaintenanceInv /\ [Next]_vars => MaintenanceInv'
<1> SUFFICES ASSUME MaintenanceInv, [Next]_vars PROVE MaintenanceInv'
  OBVIOUS
<1>1. ASSUME NEW j \in JobIds, RunJob(j) \/ EndJob(j) PROVE MaintenanceInv'
  BY <1>1, RunJobStep, EndJobStep
<1>2. CASE Restart
  BY <1>2, RestartStep
<1>3. ASSUME NEW v \in Inputs, Type(v) PROVE MaintenanceInv'
  BY <1>3, TypeStep
<1>4. ASSUME NEW t \in {"health", "tasks"}, OpenTab(t) PROVE MaintenanceInv'
  BY <1>4, OpenTabStep
<1>5. ASSUME NEW s \in Slots, Serve(s) PROVE MaintenanceInv'
  BY <1>5, ServeLoadStep, ServePollStep, ServeJobStep, ServeSaveStep DEF Serve
<1>6. ASSUME NEW s \in Slots, FailRequest(s) \/ SendLoad(s) \/ SendPoll(s) \/ Acts(s)
      PROVE  MaintenanceInv'
  BY <1>6, FailStep, SendLoadStep, SendPollStep, SaveRetentionStep, PurgeRetainedNowStep, RunTaskStep
     DEF Acts
<1>7. ASSUME NEW s \in Slots, Arrive(s) PROVE MaintenanceInv'
  BY <1>7, HealthLoadArrivesStep, SaveArrivesStep, PurgeArrivesStep, PollArrivesStep,
     TasksLoadArrivesStep, RunArrivesStep, OrphanArrivesStep DEF Arrive
<1>8. CASE UNCHANGED vars
  BY <1>8, AgentStep DEF vars, hooks, MaintenanceInv, AgentOK
<1> QED
  BY <1>1, <1>2, <1>3, <1>4, <1>5, <1>6, <1>7, <1>8 DEF Next

-----------------------------------------------------------------------------
(* Theorems *)

\* The pages and the agent stay consistent: what the mounted page waits for is in flight and belongs
\* to it, whatever fails, restarts or is left behind by a page that was closed.
THEOREM MaintenanceSafe == Spec => []MaintenanceInv
  BY MaintenanceInit, MaintenanceStep, PTL DEF Spec

\* Jobs, settings and hooks have their types, and the page that is not mounted has no state.
THEOREM MaintenanceTyped == Spec => []TypeOK
<1>1. MaintenanceInv => TypeOK
  BY DEF MaintenanceInv, AgentOK, HooksOK, HealthStates, TaskStates, TypeOK
<1> QED
  BY <1>1, MaintenanceSafe, PTL

\* The flags of the two pages are true: a page that says it loads, refreshes, saves or starts a task
\* has the request for it in flight, and there is one save while its button is disabled.
THEOREM FlagsAreHonest == Spec => []FlagsHonest
<1>1. MaintenanceInv => FlagsHonest
  <2> SUFFICES ASSUME MaintenanceInv PROVE FlagsHonest
    OBVIOUS
  <2>1. \A s \in Slots : requests[s] # None /\ ~requests[s].orphan => requests[s] \in InFlight
    BY DEF InFlight
  <2>2. tab = "health" /\ health.loading => \E r \in InFlight : r.kind = "load" /\ r.after = "mount"
    BY <2>1 DEF MaintenanceInv, FlagsBacked, IsMount
  <2>3. health.refreshing => \E r \in InFlight : r.kind = "load" /\ r.after # "mount"
    BY <2>1 DEF MaintenanceInv, FlagsBacked, IsRefresh
  <2>4. tasks.running => \E r \in InFlight : r.kind = "run" \/ r.after = "run"
    BY <2>1 DEF MaintenanceInv, FlagsBacked, IsStart
  <2>5. SaveSlots(requests) = {s \in Slots : requests[s] # None /\ ~requests[s].orphan
                                  /\ (requests[s].kind = "save" \/ requests[s].after = "save")}
    BY DEF SaveSlots, IsSave
  <2>6. One(SaveSlots(requests), health.saving)
    BY DEF MaintenanceInv, FlagsBacked
  <2>7. Cardinality(SaveSlots(requests)) = IF health.saving THEN 1 ELSE 0
    BY <2>6, FS_EmptySet, FS_Singleton DEF One
  <2> QED
    BY <2>2, <2>3, <2>4, <2>5, <2>7 DEF FlagsHonest
<1> QED
  BY <1>1, MaintenanceSafe, PTL

=============================================================================
