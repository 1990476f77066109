----------------------------- MODULE PoolEntry ------------------------------
(***************************************************************************)
(* How a device gets into a pool: the start of its web interface           *)
(* (App.jsx), its pages for joining, creating and logging in               *)
(* (AuthPages.jsx), the join procedure of its agent (join.go), and the     *)
(* member it asks, with the invitations and approvals that the nodes page  *)
(* of that member offers (NodesPage.jsx).  A procedure goes on when the    *)
(* browser that started it reloads, so several may run for one device.     *)
(*                                                                         *)
(* There is one pool to join, and one member that everybody asks.  A       *)
(* device may instead create a pool of its own.  Addresses, scanning,      *)
(* discovery lists, sessions' ages and the limit of failed logins are left *)
(* out.                                                                    *)
(***************************************************************************)
EXTENDS Naturals, FiniteSets

CONSTANTS Joiners,
          Invites,     \* tokens the member may create
          Procs,       \* room for join procedures that users start
          MaxPolls,    \* polls of a procedure that waits for its approval (60)
          MaxActs,     \* what users do
          MaxFaults,   \* lost answers, failed saves, expirations, restarts
          None

ASSUME PoolEntryAssumption ==
    /\ MaxPolls \in Nat /\ MaxActs \in Nat /\ MaxFaults \in Nat
    /\ Procs \cap Joiners = {} /\ None \notin {"own", "pool", "ok"} \union Procs \union Joiners

VARIABLES invites,   \* the member's tokens: "none", "open", or "used" (or expired)
          pending,   \* devices that wait for approval
          trusted,   \* devices that were approved
          shown,     \* devices to approve on the member's nodes page
          agent,     \* configuration of every joiner's agent
          procs,     \* join procedures; the one an agent runs by itself has the device's name
          screen,    \* what every joiner's browser shows
          call,      \* the request it waits for
          claims,    \* history: which token let which device ask
          presented, \* history: devices whose password or token was accepted
          acts, faults

member == <<invites, pending, trusted, shown>>
browser == <<screen, call>>
history == <<claims, presented>>
budgets == <<acts, faults>>
vars == <<member, agent, procs, browser, history, budgets>>

\* What a device has to show: a password of the pool, a token.
Cards == [pass: {"right", "wrong", None}, token: Invites \union {None}]
\* ClusterID and whether there are pool credentials; the file holds both.
Alone == [pool |-> None, creds |-> FALSE]

Slots == Procs \union Joiners
Procedures ==
    [node: Joiners, card: Cards, step: {"asking", "adopting", "done", "failed", "fatal"},
     polls: 0 .. MaxPolls, boot: BOOLEAN]

ASSUME ProceduresAssumption == None \notin Procedures

EmptyHanded == [pass |-> None, token |-> None]

Call(kind) == [kind |-> kind, card |-> None, proc |-> None, answer |-> None]

Init ==
    /\ invites = [t \in Invites |-> "none"]
    /\ pending = {} /\ trusted = {} /\ shown = {}
    /\ agent = [j \in Joiners |-> [memory |-> Alone, disk |-> Alone, session |-> FALSE]]
    /\ procs = [s \in Slots |-> None]
    /\ screen = [j \in Joiners |-> "loading"] /\ call = [j \in Joiners |-> Call("status")]
    /\ claims = {} /\ presented = {}
    /\ acts = 0 /\ faults = 0

Act == acts < MaxActs /\ acts' = acts + 1 /\ UNCHANGED faults
Fault == faults < MaxFaults /\ faults' = faults + 1 /\ UNCHANGED acts

-----------------------------------------------------------------------------
\* The member, and the user at its nodes page.

CreateInvite(t) ==
    /\ Act /\ invites[t] = "none"
    /\ invites' = [invites EXCEPT ![t] = "open"]
    /\ UNCHANGED <<pending, trusted, shown, agent, procs, browser, history>>

\* 15 and 30 minutes.
ExpireInvite(t) ==
    /\ Fault /\ invites[t] = "open"
    /\ invites' = [invites EXCEPT ![t] = "used"]
    /\ UNCHANGED <<pending, trusted, shown, agent, procs, browser, history>>

ExpirePendingJoin(j) ==
    /\ Fault /\ j \in pending
    /\ pending' = pending \ {j}
    /\ UNCHANGED <<invites, trusted, shown, agent, procs, browser, history>>

\* loadNodes, every 3 s.
LoadPending ==
    /\ shown # pending /\ shown' = pending
    /\ UNCHANGED <<invites, pending, trusted, agent, procs, browser, history, budgets>>

\* The button of a request, which may be out of date.
ApproveJoin(j) ==
    /\ Act /\ j \in shown
    /\ IF j \in pending
       THEN /\ trusted' = trusted \union {j} /\ pending' = pending \ {j} /\ shown' = pending'
       ELSE UNCHANGED <<trusted, pending, shown>>
    /\ UNCHANGED <<invites, agent, procs, browser, history>>

-----------------------------------------------------------------------------
\* The join procedure of an agent.

\* Procedures have no identity: a new one takes the chosen free room.
FreeProc(s) == procs[s] = None /\ s = CHOOSE r \in Procs : procs[r] = None
\* With boot, the agent waits for the procedure to start, and exits when it fails.
Begin(j, card) == [node |-> j, card |-> card, step |-> "asking", polls |-> 0, boot |-> FALSE]
Awaited(s) == \E j \in Joiners : call[j] # None /\ call[j].proc = s
\* Mutant: the result of a procedure is forgotten while a request waits for it.
Vanished(s, how) == [procs EXCEPT ![s] = None]
\* A procedure that no request waits for leaves nothing behind.
Ended(s, how) ==
    [procs EXCEPT ![s] = IF @.boot /\ how = "failed" THEN [@ EXCEPT !.step = "fatal"]
                         ELSE IF Awaited(s) THEN [@ EXCEPT !.step = how] ELSE None]

\* Mutant: the check and the mark of a token are two steps of the store.
UnmarkedInvite(t) == UNCHANGED invites
UseInvite(t) == invites' = [invites EXCEPT ![t] = "used"]

\* Mutant: a request that waits is answered like an approved one.
PendingApproved(j) == j \in trusted \/ j \in pending
Approved(j) == j \in trusted

\* handleJoinRequest for a device that is neither approved nor waiting: with a user and a password
\* the token is not looked at.
Accepts(card) ==
    IF card.pass # None THEN card.pass = "right"
    ELSE card.token # None /\ invites[card.token] = "open"

Admit(j, card) ==
    /\ pending' = pending \union {j} /\ presented' = presented \union {j}
    /\ IF card.pass = None
       THEN UseInvite(card.token) /\ claims' = claims \union {<<card.token, j>>}
       ELSE UNCHANGED <<invites, claims>>

\* Mutant: polls are not counted.
Unbounded(s) == [procs EXCEPT ![s].polls = 0]
Polled(s) == IF procs[s].polls < MaxPolls THEN [procs EXCEPT ![s].polls = @ + 1] ELSE Ended(s, "failed")

\* One request to the member, now or after 5 s.
Ask(s) ==
    /\ procs[s] # None /\ procs[s].step = "asking"
    /\ LET j == procs[s].node
           card == procs[s].card
       IN  IF Approved(j)
           THEN /\ procs' = [procs EXCEPT ![s].step = "adopting"]
                /\ UNCHANGED <<invites, pending, claims, presented>>
           ELSE IF j \in pending
           THEN procs' = Polled(s) /\ UNCHANGED <<invites, pending, claims, presented>>
           ELSE IF Accepts(card)
           THEN procs' = Polled(s) /\ Admit(j, card)
           ELSE procs' = Ended(s, "failed") /\ UNCHANGED <<invites, pending, claims, presented>>
    /\ UNCHANGED <<trusted, shown, agent, browser, budgets>>

\* The request or its answer is lost: the procedure ends, what the member did remains.
AskInVain(s) ==
    /\ Fault /\ procs[s] # None /\ procs[s].step = "asking"
    /\ LET j == procs[s].node
           card == procs[s].card
       IN  \/ UNCHANGED <<invites, pending, claims, presented>>
           \/ ~Approved(j) /\ j \notin pending /\ Accepts(card) /\ Admit(j, card)
    /\ procs' = Ended(s, "failed")
    /\ UNCHANGED <<trusted, shown, agent, browser>>

Member == [pool |-> "pool", creds |-> TRUE]

\* The answer of the member becomes the configuration, whatever it was.  The password may not be
\* hashed, the file not written, or the nodes of the pool not stored; nothing is taken back.
Adopt(s) ==
    /\ procs[s] # None /\ procs[s].step = "adopting"
    /\ LET j == procs[s].node IN
       \/ /\ agent' = [agent EXCEPT ![j].memory = Member, ![j].disk = Member]
          /\ procs' = Ended(s, "done")
          /\ UNCHANGED budgets
       \/ /\ Fault
          /\ \E hashed, saved \in BOOLEAN :
                /\ saved => hashed
                /\ agent' = [agent EXCEPT ![j].memory = [Member EXCEPT !.creds = hashed \/ agent[j].memory.creds],
                                          ![j].disk = IF saved THEN Member ELSE @]
          /\ procs' = Ended(s, "failed")
    /\ UNCHANGED <<member, browser, history>>

\* Mutant: the agent asks again only while the member has its request waiting.
AutoJoinWhileWaiting(j) ==
    /\ agent[j].memory.pool = None /\ procs[j] = None /\ j \in pending
    /\ procs' = [procs EXCEPT ![j] = Begin(j, EmptyHanded)]
    /\ UNCHANGED <<member, agent, browser, history, budgets>>

\* An agent that has no pool and finds the member in the network asks it empty-handed, one procedure
\* after the other.  What the member would refuse at once, without any effect, is left out.  So are the
\* discovery, its mode, and trusted nodes that a newcomer may know at the member's address: that this
\* step is fair means that the mode is auto and that the member is found and is not yet known.
AutoJoin(j) ==
    /\ agent[j].memory.pool = None /\ procs[j] = None /\ j \in trusted \union pending
    /\ procs' = [procs EXCEPT ![j] = Begin(j, EmptyHanded)]
    /\ UNCHANGED <<member, agent, browser, history, budgets>>

\* The agent starts again: its file is left; sessions, procedures and requests are gone.
Started(j) ==
    /\ agent' = [agent EXCEPT ![j].memory = agent[j].disk, ![j].session = FALSE]
    /\ call' = [call EXCEPT ![j] = IF @ = None THEN None ELSE [@ EXCEPT !.answer = "lost", !.proc = None]]
Left(j) == [s \in Slots |-> IF procs[s] # None /\ procs[s].node = j THEN None ELSE procs[s]]

Restart(j) ==
    /\ Fault /\ Started(j) /\ procs' = Left(j)
    /\ UNCHANGED <<member, screen, history>>

\* The user starts the agent with -join and -join-token.
JoinAtStart(j, t, s) ==
    /\ Act /\ invites[t] # "none" /\ FreeProc(s)
    /\ Started(j)
    /\ procs' = [Left(j) EXCEPT ![s] = [Begin(j, [pass |-> None, token |-> t]) EXCEPT !.boot = TRUE]]
    /\ UNCHANGED <<member, screen, history>>

\* That procedure failed.  The agent is started again, without the flags.
Exit(s) ==
    /\ procs[s] # None /\ procs[s].step = "fatal"
    /\ Started(procs[s].node) /\ procs' = Left(procs[s].node)
    /\ UNCHANGED <<member, screen, history, budgets>>

-----------------------------------------------------------------------------
\* The requests of a joiner's browser, as its agent serves them.

Waits(j, kind) == call[j] # None /\ call[j].kind = kind /\ call[j].answer = None
Answer(j, a) == call' = [call EXCEPT ![j].answer = a, ![j].proc = None]
\* Without pool credentials every request is let in.
Allowed(j) == ~agent[j].memory.creds \/ agent[j].session

ServeStatus(j) ==
    /\ Waits(j, "status")
    /\ Answer(j, IF agent[j].memory.creds THEN "credentials" ELSE "none")
    /\ UNCHANGED <<member, agent, procs, screen, history, budgets>>

ServeInfo(j) ==
    /\ Waits(j, "info")
    /\ Answer(j, IF ~Allowed(j) THEN "refused"
                 ELSE IF agent[j].memory.pool = None THEN "none" ELSE "ok")
    /\ UNCHANGED <<member, agent, procs, screen, history, budgets>>

ServeLogin(j) ==
    /\ Waits(j, "login")
    /\ Answer(j, IF agent[j].memory.creds /\ call[j].card = "right" THEN "ok" ELSE "refused")
    /\ UNCHANGED <<member, agent, procs, screen, history, budgets>>

\* The cluster id is set first; the password may be too long to be hashed, and the file may not be
\* written.
ServeCreate(j) ==
    /\ Waits(j, "create")
    /\ LET a == agent[j].memory
           own == IF a.pool = None THEN "own" ELSE a.pool
       IN  \/ /\ a.pool # None /\ a.creds
              /\ Answer(j, "refused") /\ UNCHANGED <<agent, budgets>>
           \/ /\ a.pool = None \/ ~a.creds
              /\ agent' = [agent EXCEPT ![j].memory = [pool |-> own, creds |-> TRUE],
                                        ![j].disk = [pool |-> own, creds |-> TRUE]]
              /\ Answer(j, "ok") /\ UNCHANGED budgets
           \/ /\ (a.pool = None \/ ~a.creds) /\ Fault
              /\ \E hashed \in BOOLEAN :
                    agent' = [agent EXCEPT ![j].memory = [pool |-> own, creds |-> a.creds \/ hashed]]
              /\ Answer(j, "refused")
    /\ UNCHANGED <<member, procs, screen, history>>

\* POST /api/join needs a session as soon as there is a cluster id.
ServeJoin(j) ==
    /\ Waits(j, "join") /\ call[j].proc = None
    /\ \/ /\ agent[j].memory # Alone /\ ~agent[j].session
          /\ Answer(j, "refused") /\ UNCHANGED procs
       \/ /\ agent[j].memory = Alone \/ agent[j].session
          /\ \E s \in Procs :
                /\ FreeProc(s)
                /\ procs' = [procs EXCEPT ![s] = Begin(j, call[j].card)]
                /\ call' = [call EXCEPT ![j].proc = s]
    /\ UNCHANGED <<member, agent, screen, history, budgets>>

JoinEnds(j) ==
    /\ Waits(j, "join") /\ call[j].proc # None
    /\ LET p == procs[call[j].proc] IN
       /\ p.step \in {"done", "failed"}
       /\ Answer(j, IF p.step = "done" THEN "ok" ELSE "refused")
       /\ procs' = [procs EXCEPT ![call[j].proc] = None]
    /\ UNCHANGED <<member, agent, screen, history, budgets>>

\* The procedures once the browser of j waits for none; one that has ended is gone.
Released(j) ==
    [s \in Slots |-> IF call[j] # None /\ call[j].proc = s /\ procs[s].step \in {"done", "failed"}
                     THEN None ELSE procs[s]]

LoseAnswer(j) ==
    /\ Fault /\ call[j] # None /\ call[j].answer # "lost"
    /\ Answer(j, "lost") /\ procs' = Released(j)
    /\ UNCHANGED <<member, agent, screen, history>>

-----------------------------------------------------------------------------
\* The browser.

\* Reloading forgets the form and the request, not the procedure that it started.
Reloaded(j) == screen' = [screen EXCEPT ![j] = "loading"] /\ call' = [call EXCEPT ![j] = Call("status")]

Reload(j) ==
    /\ Act /\ (screen[j] # "loading" \/ call[j] = None)
    /\ Reloaded(j) /\ procs' = Released(j)
    /\ UNCHANGED <<member, agent, history>>

\* The forms are disabled while one of them waits.  The join form wants a user and a password; so
\* does the one on the nodes page with which a device leaves its pool, here one of its own, for the
\* member's.
Submit(j, c) ==
    /\ Act /\ call[j] = None
    /\ call' = [call EXCEPT ![j] = c]
    /\ UNCHANGED <<member, agent, procs, screen, history>>

SubmitLogin(j) == screen[j] = "login" /\ \E p \in {"right", "wrong"} : Submit(j, [Call("login") EXCEPT !.card = p])
SubmitCreate(j) == screen[j] = "join" /\ Submit(j, Call("create"))
SubmitJoin(j) ==
    /\ screen[j] = "join" \/ (screen[j] = "main" /\ agent[j].memory.pool = "own")
    /\ \E card \in Cards :
          /\ card.pass # None /\ (card.token # None => invites[card.token] # "none")
          /\ Submit(j, [Call("join") EXCEPT !.card = card])

Show(j, s) == screen' = [screen EXCEPT ![j] = s] /\ call' = [call EXCEPT ![j] = None]
Came(j, kinds) == call[j] # None /\ call[j].kind \in kinds /\ call[j].answer # None

StatusArrives(j) ==
    /\ Came(j, {"status"})
    /\ CASE call[j].answer = "lost" -> Show(j, "error")
         [] call[j].answer = "none" -> Show(j, "join")
         [] OTHER -> call' = [call EXCEPT ![j] = Call("info")] /\ UNCHANGED screen
    /\ UNCHANGED <<member, agent, procs, history, budgets>>

\* No one handles a lost answer to the second request: the page keeps loading.
InfoArrives(j) ==
    /\ Came(j, {"info"})
    /\ CASE call[j].answer = "lost" -> Show(j, "loading")
         [] call[j].answer = "refused" -> Show(j, "login")
         [] call[j].answer = "none" -> Show(j, "join")
         [] OTHER -> Show(j, "main")
    /\ UNCHANGED <<member, agent, procs, history, budgets>>

\* Success brings a session and reloads; anything else is shown in the form.
FormArrives(j) ==
    /\ Came(j, {"login", "create", "join"})
    /\ IF call[j].answer = "ok"
       THEN Reloaded(j) /\ agent' = [agent EXCEPT ![j].session = TRUE]
       ELSE Show(j, screen[j]) /\ UNCHANGED agent
    /\ UNCHANGED <<member, procs, history, budgets>>

-----------------------------------------------------------------------------
Serve(j) ==
    ServeStatus(j) \/ ServeInfo(j) \/ ServeLogin(j) \/ ServeCreate(j) \/ ServeJoin(j) \/ JoinEnds(j)
Arrive(j) == StatusArrives(j) \/ InfoArrives(j) \/ FormArrives(j)
Users(j) ==
    \/ Reload(j) \/ SubmitLogin(j) \/ SubmitCreate(j) \/ SubmitJoin(j) \/ ApproveJoin(j)
    \/ \E t \in Invites, s \in Procs : JoinAtStart(j, t, s)

Next ==
    \/ \E t \in Invites : CreateInvite(t) \/ ExpireInvite(t)
    \/ LoadPending
    \/ \E s \in Slots : Ask(s) \/ AskInVain(s) \/ Adopt(s) \/ Exit(s)
    \/ \E j \in Joiners :
          \/ Users(j) \/ Serve(j) \/ Arrive(j) \/ ExpirePendingJoin(j) \/ Restart(j) \/ LoseAnswer(j)
          \/ AutoJoin(j)

Spec == Init /\ [][Next]_vars

\* Timers fire, requests end and agents are started again; users need not do anything.
FairSpec ==
    /\ Spec /\ WF_vars(LoadPending)
    /\ \A s \in Slots : WF_vars(Ask(s)) /\ WF_vars(Adopt(s)) /\ WF_vars(Exit(s))
    /\ \A j \in Joiners :
          WF_vars(Serve(j)) /\ WF_vars(Arrive(j)) /\ WF_vars(AutoJoin(j))

-----------------------------------------------------------------------------
\* Configurations, procedures and screens have their types; what is on disk was in memory; a session
\* needs credentials; a request waits for a procedure of its own device.
TypeOK ==
    /\ invites \in [Invites -> {"none", "open", "used"}]
    /\ pending \subseteq Joiners /\ trusted \subseteq Joiners /\ shown \subseteq Joiners
    /\ \A j \in Joiners :
          /\ agent[j].memory.pool \in {None, "own", "pool"} /\ agent[j].disk \in {Alone} \union [pool: {"own", "pool"}, creds: {TRUE}]
          /\ agent[j].session => agent[j].memory.creds
          /\ screen[j] \in {"loading", "error", "login", "join", "main"}
          /\ call[j] # None /\ call[j].proc # None => procs[call[j].proc] # None /\ procs[call[j].proc].node = j
    /\ procs \in [Slots -> Procedures \union {None}]

\* A token lets one device ask, also when two devices that hold it ask at the same time, when an
\* answer is lost, and when a procedure is started again.
InviteOnce == \A t \in Invites : Cardinality({c \in claims : c[1] = t}) <= 1

\* Whoever has the pool's credentials was approved by a member, and had shown a password or an open
\* token before; the empty-handed procedures get no further than that.
MembersApproved ==
    /\ \A j \in Joiners : agent[j].memory.pool = "pool" => j \in trusted
    /\ trusted \union pending \subseteq presented

\* Every form gets its answer, although the procedure behind it may wait for an approval that never
\* comes.
AnswersCome == \A j \in Joiners : []<>(call[j] = None)

\* A device that was approved gets in, also when the approval comes after its procedure timed out or
\* was lost in a restart: the agent asks again by itself, unless it has another pool by then.
ApprovedGetsIn == \A j \in Joiners : j \in trusted ~> agent[j].memory.pool # None
=============================================================================
