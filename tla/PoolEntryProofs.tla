-------------------------- MODULE PoolEntryProofs ---------------------------
(***************************************************************************)
(* Proofs about PoolEntry, for every set of devices, tokens and join       *)
(* procedures, any number of polls, user actions and faults.               *)
(*                                                                         *)
(* A token admits one device because a claim leaves it used, and only an   *)
(* open one is accepted.  Pool credentials come from a procedure that was  *)
(* told of an approval, or from a file that such a procedure wrote;        *)
(* approvals are never taken back.  PoolInv collects this.                 *)
(***************************************************************************)
EXTENDS PoolEntry, FiniteSetTheorems, TLAPS

-----------------------------------------------------------------------------
(* The inductive invariant *)

Requests ==
    [kind: {"status", "info", "login", "create", "join"}, card: Cards \union {None, "right", "wrong"},
     proc: Slots \union {None}, answer: {None, "credentials", "none", "refused", "ok", "lost"}]

Configurations == [pool: {None, "own", "pool"}, creds: BOOLEAN]
Agents == [memory: Configurations, disk: Configurations, session: BOOLEAN]

\* Types of what the two invariants depend on.
Types ==
    /\ invites \in [Invites -> {"none", "open", "used"}]
    /\ claims \subseteq Invites \X Joiners
    /\ pending \subseteq Joiners /\ trusted \subseteq Joiners /\ shown \subseteq Joiners
    /\ agent \in [Joiners -> Agents]
    /\ procs \in [Slots -> Procedures \union {None}]
    /\ call \in [Joiners -> Requests \union {None}]

\* A join request of the browser has a card.
JoinsHaveCards ==
    \A j \in Joiners : call[j] # None /\ call[j].kind = "join" => call[j].card \in Cards

\* A token that was claimed is used, and it was claimed once.
ClaimsOK ==
    /\ \A c \in claims : invites[c[1]] = "used"
    /\ \A c, d \in claims : c[1] = d[1] => c = d

\* A procedure adopts the pool's configuration only for an approved device.
AdoptersTrusted ==
    \A s \in Slots : procs[s] # None /\ procs[s].step = "adopting" => procs[s].node \in trusted

\* The pool is in no configuration, in memory or on disk, of a device that was not approved.
PoolTrusted ==
    \A j \in Joiners : agent[j].memory.pool = "pool" \/ agent[j].disk.pool = "pool" => j \in trusted

PoolInv ==
    /\ Types /\ JoinsHaveCards /\ ClaimsOK /\ AdoptersTrusted /\ PoolTrusted
    /\ trusted \union pending \subseteq presented

-----------------------------------------------------------------------------
(* Operators *)

\* A procedure that begins is one, and adopts nothing yet.
LEMMA BeginIsProcedure ==
    ASSUME NEW j \in Joiners, NEW card \in Cards
    PROVE  /\ Begin(j, card) \in Procedures
           /\ Begin(j, card).step = "asking"
           /\ [Begin(j, card) EXCEPT !.boot = TRUE] \in Procedures
           /\ [Begin(j, card) EXCEPT !.boot = TRUE].step = "asking"
<1>1. 0 \in 0 .. MaxPolls
  BY PoolEntryAssumption
<1> QED
  BY <1>1 DEF Begin, Procedures

\* The end of a procedure touches no other one, and makes no adopter.
LEMMA EndedKeeps ==
    ASSUME procs \in [Slots -> Procedures \union {None}],
           NEW s \in Slots, procs[s] # None, NEW how \in {"done", "failed"}
    PROVE  /\ Ended(s, how) \in [Slots -> Procedures \union {None}]
           /\ \A r \in Slots : Ended(s, how)[r] # None /\ Ended(s, how)[r].step = "adopting" =>
                 procs[r] # None /\ Ended(s, how)[r] = procs[r]
<1>1. procs[s] \in Procedures
  OBVIOUS
<1>2. /\ [procs[s] EXCEPT !.step = "fatal"] \in Procedures
      /\ [procs[s] EXCEPT !.step = "fatal"].step = "fatal"
      /\ [procs[s] EXCEPT !.step = how] \in Procedures
      /\ [procs[s] EXCEPT !.step = how].step = how
  BY <1>1 DEF Procedures
<1>3. Ended(s, how)[s] \in Procedures \union {None}
      /\ (Ended(s, how)[s] # None => Ended(s, how)[s].step # "adopting")
  BY <1>2 DEF Ended
<1>4. \A r \in Slots \ {s} : Ended(s, how)[r] = procs[r]
  BY DEF Ended
<1>5. Ended(s, how) \in [Slots -> Procedures \union {None}]
  BY <1>2 DEF Ended
<1> QED
  BY <1>3, <1>4, <1>5

\* A poll is counted, or it was the last one.
LEMMA PolledKeeps ==
    ASSUME procs \in [Slots -> Procedures \union {None}],
           NEW s \in Slots, procs[s] # None, procs[s].step = "asking"
    PROVE  /\ Polled(s) \in [Slots -> Procedures \union {None}]
           /\ \A r \in Slots : Polled(s)[r] # None /\ Polled(s)[r].step = "adopting" =>
                 procs[r] # None /\ Polled(s)[r] = procs[r]
<1>1. procs[s] \in Procedures
  OBVIOUS
<1>3. CASE procs[s].polls < MaxPolls
  <2>1. Polled(s) = [procs EXCEPT ![s] = [procs[s] EXCEPT !.polls = procs[s].polls + 1]]
    BY <1>3 DEF Polled
  <2>2. procs[s].polls + 1 \in 0 .. MaxPolls
    BY <1>1, <1>3, PoolEntryAssumption DEF Procedures
  <2>3. /\ [procs[s] EXCEPT !.polls = procs[s].polls + 1] \in Procedures
        /\ [procs[s] EXCEPT !.polls = procs[s].polls + 1].step = "asking"
    BY <1>1, <2>2 DEF Procedures
  <2> QED
    BY <2>1, <2>3
<1>4. CASE ~(procs[s].polls < MaxPolls)
  BY <1>4, EndedKeeps DEF Polled
<1> QED
  BY <1>3, <1>4

\* A request that is answered is still a request.
LEMMA AnswerKeeps ==
    ASSUME Types, JoinsHaveCards, NEW j \in Joiners, call[j] # None,
           NEW a \in {"credentials", "none", "refused", "ok", "lost"}, Answer(j, a)
    PROVE  /\ call' \in [Joiners -> Requests \union {None}]
           /\ JoinsHaveCards'
<1>1. call[j] \in Requests
  BY DEF Types
<1>2. call' = [call EXCEPT ![j] = [call[j] EXCEPT !.answer = a, !.proc = None]]
  BY DEF Answer
<1>3. /\ [call[j] EXCEPT !.answer = a, !.proc = None] \in Requests
      /\ [call[j] EXCEPT !.answer = a, !.proc = None].kind = call[j].kind
      /\ [call[j] EXCEPT !.answer = a, !.proc = None].card = call[j].card
  BY <1>1 DEF Requests
<1> QED
  BY <1>2, <1>3 DEF Types, JoinsHaveCards
-----------------------------------------------------------------------------
(* The invariant *)

\* Initially nobody has asked, and every device is on its own.
LEMMA PoolInit == Init => PoolInv
<1> SUFFICES ASSUME Init PROVE PoolInv
  OBVIOUS
<1>1. Types
  <2>1. call \in [Joiners -> Requests \union {None}]
    BY DEF Init, Call, Requests
  <2>2. agent \in [Joiners -> Agents]
    BY DEF Init, Alone, Configurations, Agents
  <2> QED
    BY <2>1, <2>2 DEF Init, Types
<1>2. JoinsHaveCards
  BY DEF Init, Call, JoinsHaveCards
<1>3. PoolTrusted
  BY PoolEntryAssumption DEF Init, Alone, PoolTrusted
<1> QED
  BY <1>1, <1>2, <1>3 DEF Init, PoolInv, ClaimsOK, AdoptersTrusted

\* The user at the member.
LEMMA MemberStep ==
    ASSUME PoolInv,
           \/ \E t \in Invites : CreateInvite(t) \/ ExpireInvite(t)
           \/ LoadPending
           \/ \E j \in Joiners : ApproveJoin(j) \/ ExpirePendingJoin(j)
    PROVE  PoolInv'
<1> USE DEF PoolInv
<1>1. ASSUME NEW t \in Invites, CreateInvite(t) \/ ExpireInvite(t) PROVE PoolInv'
  <2>1. \A c \in claims : invites[c[1]] = "used" /\ invites'[c[1]] = "used"
    BY <1>1 DEF ClaimsOK, Types, CreateInvite, ExpireInvite
  <2> QED
    BY <1>1, <2>1 DEF CreateInvite, ExpireInvite, Act, Fault, browser, history, budgets, Types,
       JoinsHaveCards, ClaimsOK, AdoptersTrusted, PoolTrusted
<1>2. ASSUME LoadPending PROVE PoolInv'
  BY <1>2 DEF LoadPending, browser, history, budgets, Types, JoinsHaveCards, ClaimsOK,
     AdoptersTrusted, PoolTrusted
<1>3. ASSUME NEW j \in Joiners, ApproveJoin(j) \/ ExpirePendingJoin(j) PROVE PoolInv'
  <2>1. trusted \subseteq trusted' /\ trusted' \union pending' \subseteq trusted \union pending
    BY <1>3 DEF ApproveJoin, ExpirePendingJoin
  <2>2. shown' \subseteq Joiners
    BY <1>3 DEF ApproveJoin, ExpirePendingJoin, Types
  <2> QED
    BY <1>3, <2>1, <2>2 DEF ApproveJoin, ExpirePendingJoin, Act, Fault, browser, history, budgets,
       Types, JoinsHaveCards, ClaimsOK, AdoptersTrusted, PoolTrusted
<1> QED
  BY <1>1, <1>2, <1>3

\* A card that is accepted for its token finds it open, and the token is used from then on.
LEMMA AdmitKeeps ==
    ASSUME PoolInv, NEW j \in Joiners, NEW card \in Cards, Accepts(card), Admit(j, card),
           UNCHANGED trusted
    PROVE  /\ invites' \in [Invites -> {"none", "open", "used"}]
           /\ claims' \subseteq Invites \X Joiners
           /\ pending' \subseteq Joiners
           /\ ClaimsOK'
           /\ trusted' \union pending' \subseteq presented'
<1> USE DEF PoolInv
<1>1. CASE card.pass # None
  BY <1>1 DEF Admit, Types, ClaimsOK
<1>2. CASE card.pass = None
  <2>1. card.token \in Invites /\ invites[card.token] = "open"
    BY <1>2 DEF Accepts, Cards
  <2>2. /\ invites' = [invites EXCEPT ![card.token] = "used"]
        /\ claims' = claims \union {<<card.token, j>>}
        /\ pending' = pending \union {j} /\ presented' = presented \union {j}
    BY <1>2 DEF Admit, UseInvite
  <2>3. \A c \in claims : c[1] \in Invites /\ c[1] # card.token
    BY <2>1 DEF ClaimsOK, Types
  <2>4. ClaimsOK'
    <3>1. \A c \in claims' : invites'[c[1]] = "used"
      BY <2>1, <2>2, <2>3 DEF ClaimsOK, Types
    <3>2. \A c, d \in claims' : c[1] = d[1] => c = d
      BY <2>2, <2>3 DEF ClaimsOK
    <3> QED
      BY <3>1, <3>2 DEF ClaimsOK
  <2> QED
    BY <2>1, <2>2, <2>4 DEF Types
<1> QED
  BY <1>1, <1>2

\* A request of a procedure to the member.
LEMMA AskStep ==
    ASSUME PoolInv, NEW s \in Slots, Ask(s) \/ AskInVain(s)
    PROVE  PoolInv'
<1> USE DEF PoolInv
<1> DEFINE j == procs[s].node
           card == procs[s].card
<1>0. /\ procs[s] # None /\ procs[s].step = "asking"
      /\ UNCHANGED <<trusted, shown, agent, browser>>
  BY DEF Ask, AskInVain
<1>1. procs[s] \in Procedures /\ j \in Joiners /\ card \in Cards
  BY <1>0 DEF Types, Procedures
<1>2. \/ UNCHANGED <<invites, pending, claims, presented>>
      \/ Accepts(card) /\ Admit(j, card)
  BY DEF Ask, AskInVain
<1>3. /\ invites' \in [Invites -> {"none", "open", "used"}]
      /\ claims' \subseteq Invites \X Joiners
      /\ pending' \subseteq Joiners
      /\ ClaimsOK'
      /\ trusted' \union pending' \subseteq presented'
  BY <1>0, <1>1, <1>2, AdmitKeeps DEF Types, ClaimsOK
<1>4. /\ procs' \in [Slots -> Procedures \union {None}]
      /\ \A r \in Slots : procs'[r] # None /\ procs'[r].step = "adopting" => procs'[r].node \in trusted
  <2>1. CASE procs' = Ended(s, "failed")
    BY <2>1, <1>0, EndedKeeps DEF Types, AdoptersTrusted
  <2>2. CASE procs' = Polled(s)
    BY <2>2, <1>0, PolledKeeps DEF Types, AdoptersTrusted
  <2>3. CASE Approved(j) /\ procs' = [procs EXCEPT ![s].step = "adopting"]
    <3>1. /\ [procs[s] EXCEPT !.step = "adopting"] \in Procedures
          /\ [procs[s] EXCEPT !.step = "adopting"].node = j
      BY <1>1 DEF Procedures
    <3>2. procs' = [procs EXCEPT ![s] = [procs[s] EXCEPT !.step = "adopting"]]
      BY <2>3
    <3> QED
      BY <2>3, <3>1, <3>2 DEF Types, AdoptersTrusted, Approved
  <2> QED
    BY <2>1, <2>2, <2>3 DEF Ask, AskInVain
<1> QED
  BY <1>0, <1>3, <1>4 DEF browser, Types, JoinsHaveCards, AdoptersTrusted, PoolTrusted

\* A device whose configuration changes has the pool's only when it was approved.
LEMMA AgentKeeps ==
    ASSUME Types, PoolTrusted, UNCHANGED trusted,
           NEW j \in Joiners, NEW a \in Agents,
           a.memory.pool = "pool" \/ a.disk.pool = "pool" => j \in trusted,
           agent' = [agent EXCEPT ![j] = a]
    PROVE  /\ agent' \in [Joiners -> Agents]
           /\ PoolTrusted'
  BY DEF Types, PoolTrusted

\* The end of a procedure that was told of an approval.
LEMMA AdoptStep ==
    ASSUME PoolInv, NEW s \in Slots, Adopt(s)
    PROVE  PoolInv'
<1> USE DEF PoolInv
<1> DEFINE j == procs[s].node
           a == agent[j]
<1>0. /\ procs[s] # None /\ procs[s].step = "adopting"
      /\ UNCHANGED <<member, browser, history>>
  BY DEF Adopt
<1>1. j \in Joiners /\ j \in trusted
  BY <1>0 DEF Types, Procedures, AdoptersTrusted
<1>2. a \in Agents
  BY <1>1 DEF Types
<1>3. procs' = Ended(s, "done") \/ procs' = Ended(s, "failed")
  BY DEF Adopt
<1>4. /\ procs' \in [Slots -> Procedures \union {None}]
      /\ \A r \in Slots : procs'[r] # None /\ procs'[r].step = "adopting" => procs'[r].node \in trusted
  BY <1>0, <1>3, EndedKeeps DEF Types, AdoptersTrusted
<1>5. PICK b \in Agents : agent' = [agent EXCEPT ![j] = b]
  <2>1. CASE agent' = [agent EXCEPT ![j].memory = Member, ![j].disk = Member]
    <3>1. [a EXCEPT !.memory = Member, !.disk = Member] \in Agents
      BY <1>2 DEF Member, Configurations, Agents
    <3>2. agent' = [agent EXCEPT ![j] = [a EXCEPT !.memory = Member, !.disk = Member]]
      BY <2>1, <1>1 DEF Types
    <3> QED
      BY <3>1, <3>2
  <2>2. ASSUME NEW hashed \in BOOLEAN, NEW saved \in BOOLEAN,
               agent' = [agent EXCEPT ![j].memory = [Member EXCEPT !.creds = hashed \/ agent[j].memory.creds],
                                      ![j].disk = IF saved THEN Member ELSE @]
        PROVE  \E b \in Agents : agent' = [agent EXCEPT ![j] = b]
    <3> DEFINE m == [Member EXCEPT !.creds = hashed \/ a.memory.creds]
               d == IF saved THEN Member ELSE a.disk
    <3>1. m \in Configurations /\ d \in Configurations
      BY <1>2 DEF Member, Configurations, Agents
    <3>2. agent' = [agent EXCEPT ![j] = [a EXCEPT !.memory = m, !.disk = d]]
      BY <2>2, <1>1 DEF Types
    <3> HIDE DEF m, d
    <3>3. [a EXCEPT !.memory = m, !.disk = d] \in Agents
      BY <1>2, <3>1 DEF Agents
    <3> QED
      BY <3>2, <3>3
  <2> QED
    BY <2>1, <2>2 DEF Adopt
<1>6. /\ agent' \in [Joiners -> Agents]
      /\ PoolTrusted'
  BY <1>0, <1>1, <1>2, <1>5, AgentKeeps DEF member
<1> QED
  BY <1>0, <1>4, <1>6 DEF member, browser, history, Types, JoinsHaveCards, ClaimsOK, AdoptersTrusted

\* An agent that starts again has what was on its disk; its procedures are gone.
LEMMA StartedKeeps ==
    ASSUME PoolInv, NEW j \in Joiners, Started(j), UNCHANGED trusted
    PROVE  /\ agent' \in [Joiners -> Agents]
           /\ PoolTrusted'
           /\ call' \in [Joiners -> Requests \union {None}]
           /\ JoinsHaveCards'
           /\ Left(j) \in [Slots -> Procedures \union {None}]
           /\ \A s \in Slots : Left(j)[s] # None => procs[s] # None /\ Left(j)[s] = procs[s]
<1> USE DEF PoolInv
<1>1. agent[j] \in Agents
  BY DEF Types
<1>2. agent' = [agent EXCEPT ![j] = [agent[j] EXCEPT !.memory = agent[j].disk, !.session = FALSE]]
  BY DEF Started, Types
<1>3. agent' \in [Joiners -> Agents] /\ PoolTrusted'
  <2> DEFINE a == [agent[j] EXCEPT !.memory = agent[j].disk, !.session = FALSE]
  <2>1. a \in Agents /\ a.memory = agent[j].disk /\ a.disk = agent[j].disk
    BY <1>1 DEF Agents
  <2> HIDE DEF a
  <2>2. a.memory.pool = "pool" \/ a.disk.pool = "pool" => j \in trusted
    BY <2>1 DEF PoolTrusted
  <2> QED
    BY <1>2, <2>1, <2>2, AgentKeeps DEF a
<1>4. CASE call[j] = None
  <2>1. call' = [call EXCEPT ![j] = None]
    BY <1>4 DEF Started, Types
  <2> QED
    BY <1>3, <2>1 DEF Left, Types, JoinsHaveCards
<1>5. CASE call[j] # None
  <2> DEFINE c == [call[j] EXCEPT !.answer = "lost", !.proc = None]
  <2>1. call[j] \in Requests
    BY <1>5 DEF Types
  <2>2. c \in Requests /\ c.kind = call[j].kind /\ c.card = call[j].card
    BY <2>1 DEF Requests
  <2>3. call' = [call EXCEPT ![j] = c]
    BY <1>5 DEF Started, Types
  <2> QED
    BY <1>3, <1>5, <2>2, <2>3 DEF Left, Types, JoinsHaveCards
<1> QED
  BY <1>4, <1>5

\* The agent begins a procedure by itself, or starts again.
LEMMA AgentStep ==
    ASSUME PoolInv,
           \/ \E j \in Joiners : AutoJoin(j) \/ Restart(j)
           \/ \E j \in Joiners, t \in Invites, s \in Procs : JoinAtStart(j, t, s)
           \/ \E s \in Slots : Exit(s)
    PROVE  PoolInv'
<1> USE DEF PoolInv
<1>1. ASSUME NEW j \in Joiners, AutoJoin(j) PROVE PoolInv'
  <2>1. EmptyHanded \in Cards
    BY DEF EmptyHanded, Cards
  <2>2. j \in Slots /\ procs' = [procs EXCEPT ![j] = Begin(j, EmptyHanded)]
    BY <1>1 DEF AutoJoin, Slots
  <2>3. procs' \in [Slots -> Procedures \union {None}] /\ AdoptersTrusted'
    BY <1>1, <2>1, <2>2, BeginIsProcedure DEF Types, AdoptersTrusted, AutoJoin, member
  <2> QED
    BY <1>1, <2>3 DEF AutoJoin, member, browser, history, Types, JoinsHaveCards, ClaimsOK, PoolTrusted
<1>2. ASSUME NEW j \in Joiners, Started(j), procs' = Left(j), UNCHANGED <<member, history>> PROVE PoolInv'
  <2>1. UNCHANGED trusted
    BY <1>2 DEF member
  <2> QED
    BY <1>2, <2>1, StartedKeeps DEF member, history, Types, ClaimsOK, AdoptersTrusted
<1>3. ASSUME NEW j \in Joiners, NEW t \in Invites, NEW s \in Procs, JoinAtStart(j, t, s) PROVE PoolInv'
  <2> DEFINE p == [Begin(j, [pass |-> None, token |-> t]) EXCEPT !.boot = TRUE]
  <2>1. [pass |-> None, token |-> t] \in Cards
    BY DEF Cards
  <2>2. p \in Procedures /\ p.step = "asking"
    BY <2>1, BeginIsProcedure
  <2>3. s \in Slots /\ Started(j) /\ procs' = [Left(j) EXCEPT ![s] = p] /\ UNCHANGED <<member, history>>
    BY <1>3 DEF JoinAtStart, Slots
  <2>4. UNCHANGED trusted
    BY <2>3 DEF member
  <2> HIDE DEF p
  <2>5. procs' \in [Slots -> Procedures \union {None}] /\ AdoptersTrusted'
    BY <2>2, <2>3, <2>4, StartedKeeps DEF AdoptersTrusted
  <2> QED
    BY <2>3, <2>4, <2>5, StartedKeeps DEF member, history, Types, ClaimsOK
<1>4. ASSUME NEW s \in Slots, Exit(s) PROVE PoolInv'
  <2>1. procs[s].node \in Joiners
    BY <1>4 DEF Exit, Types, Procedures
  <2> QED
    BY <1>2, <1>4, <2>1 DEF Exit
<1> QED
  BY <1>1, <1>2, <1>3, <1>4 DEF Restart

\* The agent answers its browser.  Only the form for a new pool changes its configuration, and makes
\* it the pool's only where it was.
LEMMA ServeStep ==
    ASSUME PoolInv, NEW j \in Joiners, Serve(j)
    PROVE  PoolInv'
<1> USE DEF PoolInv
<1>0. ASSUME NEW a \in {"credentials", "none", "refused", "ok", "lost"},
             call[j] # None, Answer(j, a), UNCHANGED <<member, agent, procs, history>>
      PROVE  PoolInv'
  BY <1>0, AnswerKeeps DEF member, history, Types, ClaimsOK, AdoptersTrusted, PoolTrusted
<1>1. ASSUME ServeStatus(j) \/ ServeInfo(j) \/ ServeLogin(j) PROVE PoolInv'
  <2>1. call[j] # None /\ UNCHANGED <<member, agent, procs, history>>
    BY <1>1 DEF ServeStatus, ServeInfo, ServeLogin, Waits
  <2>2. \E a \in {"credentials", "none", "refused", "ok", "lost"} : Answer(j, a)
    BY <1>1 DEF ServeStatus, ServeInfo, ServeLogin
  <2> QED
    BY <1>0, <2>1, <2>2
<1>2. ASSUME ServeCreate(j) PROVE PoolInv'
  <2> DEFINE m == agent[j].memory
             own == IF m.pool = None THEN "own" ELSE m.pool
  <2>1. /\ call[j] # None /\ UNCHANGED <<member, procs, history>>
        /\ Answer(j, "ok") \/ Answer(j, "refused")
    BY <1>2 DEF ServeCreate, Waits
  <2>2. agent[j] \in Agents
    BY DEF Types
  <2>3. /\ agent' \in [Joiners -> Agents]
        /\ PoolTrusted'
    <3>0. UNCHANGED trusted
      BY <2>1 DEF member
    <3>1. CASE UNCHANGED agent
      BY <3>0, <3>1 DEF Types, PoolTrusted
    <3>2. ASSUME NEW b \in Agents, b.memory.pool = own, b.disk.pool \in {own, agent[j].disk.pool},
                 agent' = [agent EXCEPT ![j] = b]
          PROVE  agent' \in [Joiners -> Agents] /\ PoolTrusted'
      <4>1. b.memory.pool = "pool" \/ b.disk.pool = "pool" => j \in trusted
        BY <3>2 DEF PoolTrusted
      <4> QED
        BY <3>0, <3>2, <4>1, AgentKeeps
    <3>3. ASSUME agent' = [agent EXCEPT ![j].memory = [pool |-> own, creds |-> TRUE],
                                        ![j].disk = [pool |-> own, creds |-> TRUE]]
          PROVE  agent' \in [Joiners -> Agents] /\ PoolTrusted'
      <4> DEFINE n == [pool |-> own, creds |-> TRUE]
                 b == [agent[j] EXCEPT !.memory = n, !.disk = n]
      <4>1. n \in Configurations /\ n.pool = own
        BY <2>2 DEF Configurations, Agents
      <4>2. agent' = [agent EXCEPT ![j] = b]
        BY <3>3 DEF Types
      <4> HIDE DEF n
      <4>3. b \in Agents /\ b.memory = n /\ b.disk = n
        BY <2>2, <4>1 DEF Agents
      <4> QED
        BY <3>2, <4>1, <4>2, <4>3
    <3>4. ASSUME NEW hashed \in BOOLEAN,
                 agent' = [agent EXCEPT ![j].memory = [pool |-> own, creds |-> m.creds \/ hashed]]
          PROVE  agent' \in [Joiners -> Agents] /\ PoolTrusted'
      <4> DEFINE n == [pool |-> own, creds |-> m.creds \/ hashed]
                 b == [agent[j] EXCEPT !.memory = n]
      <4>1. n \in Configurations /\ n.pool = own
        BY <2>2 DEF Configurations, Agents
      <4>2. agent' = [agent EXCEPT ![j] = b]
        BY <3>4 DEF Types
      <4> HIDE DEF n
      <4>3. b \in Agents /\ b.memory = n /\ b.disk = agent[j].disk
        BY <2>2, <4>1 DEF Agents
      <4> QED
        BY <3>2, <4>1, <4>2, <4>3
    <3> QED
      BY <1>2, <3>1, <3>3, <3>4 DEF ServeCreate
  <2> QED
    BY <2>1, <2>3, AnswerKeeps DEF member, history, Types, ClaimsOK, AdoptersTrusted
<1>3. ASSUME ServeJoin(j) PROVE PoolInv'
  <2>1. CASE Answer(j, "refused") /\ UNCHANGED procs
    BY <1>0, <1>3, <2>1 DEF ServeJoin, Waits
  <2>2. ASSUME NEW s \in Procs, procs' = [procs EXCEPT ![s] = Begin(j, call[j].card)],
               call' = [call EXCEPT ![j].proc = s]
        PROVE  PoolInv'
    <3>1. s \in Slots /\ call[j] \in Requests /\ call[j].kind = "join" /\ call[j] # None
      BY <1>3 DEF ServeJoin, Waits, Slots, Types
    <3>2. call[j].card \in Cards
      BY <3>1 DEF JoinsHaveCards
    <3> DEFINE c == [call[j] EXCEPT !.proc = s]
    <3>3. c \in Requests /\ c.card = call[j].card
      BY <3>1 DEF Requests
    <3>4. call' = [call EXCEPT ![j] = c]
      BY <2>2
    <3>5. call' \in [Joiners -> Requests \union {None}] /\ JoinsHaveCards'
      BY <3>2, <3>3, <3>4 DEF Types, JoinsHaveCards
    <3>6. procs' \in [Slots -> Procedures \union {None}]
          /\ \A r \in Slots : procs'[r] # None /\ procs'[r].step = "adopting" => procs'[r].node \in trusted
      BY <2>2, <3>1, <3>2, BeginIsProcedure DEF Types, AdoptersTrusted
    <3> QED
      BY <1>3, <3>5, <3>6 DEF ServeJoin, member, history, Types, ClaimsOK, AdoptersTrusted, PoolTrusted
  <2> QED
    BY <1>3, <2>1, <2>2 DEF ServeJoin
<1>4. ASSUME JoinEnds(j) PROVE PoolInv'
  <2>1. /\ call[j] # None /\ UNCHANGED <<member, agent, history>>
        /\ procs' = [procs EXCEPT ![call[j].proc] = None]
        /\ Answer(j, "ok") \/ Answer(j, "refused")
    BY <1>4 DEF JoinEnds, Waits
  <2>2. procs' \in [Slots -> Procedures \union {None}]
        /\ \A r \in Slots : procs'[r] # None => procs'[r] = procs[r]
    BY <2>1 DEF Types
  <2> QED
    BY <2>1, <2>2, AnswerKeeps DEF member, history, Types, ClaimsOK, AdoptersTrusted, PoolTrusted
<1> QED
  BY <1>1, <1>2, <1>3, <1>4 DEF Serve

\* What the browser and its user do, and an answer that is lost.
LEMMA BrowserStep ==
    ASSUME PoolInv, NEW j \in Joiners,
           \/ Reload(j) \/ LoseAnswer(j) \/ SubmitLogin(j) \/ SubmitCreate(j) \/ SubmitJoin(j)
           \/ Arrive(j)
    PROVE  PoolInv'
<1> USE DEF PoolInv
<1>1. /\ Released(j) \in [Slots -> Procedures \union {None}]
      /\ \A s \in Slots : Released(j)[s] # None => Released(j)[s] = procs[s]
  BY DEF Released, Types
<1>2. ASSUME NEW c \in Requests \union {None}, c # None /\ c.kind = "join" => c.card \in Cards,
             call' = [call EXCEPT ![j] = c], procs' \in {procs, Released(j)},
             UNCHANGED <<member, agent, history>>
      PROVE  PoolInv'
  <2>1. call' \in [Joiners -> Requests \union {None}] /\ JoinsHaveCards'
    BY <1>2 DEF Types, JoinsHaveCards
  <2>2. procs' \in [Slots -> Procedures \union {None}]
        /\ \A s \in Slots : procs'[s] # None => procs'[s] = procs[s]
    BY <1>1, <1>2 DEF Types
  <2> QED
    BY <1>2, <2>1, <2>2 DEF member, history, Types, ClaimsOK, AdoptersTrusted, PoolTrusted
<1>3. /\ \A k \in {"status", "info", "create"} : Call(k) \in Requests /\ Call(k).kind = k
      /\ \A p \in {"right", "wrong"} : [Call("login") EXCEPT !.card = p] \in Requests
                                       /\ [Call("login") EXCEPT !.card = p].kind = "login"
      /\ \A card \in Cards : [Call("join") EXCEPT !.card = card] \in Requests
                             /\ [Call("join") EXCEPT !.card = card].card = card
  BY DEF Call, Requests
<1>4. ASSUME Reload(j) PROVE PoolInv'
  BY <1>2, <1>3, <1>4 DEF Reload, Reloaded
<1>5. ASSUME LoseAnswer(j) PROVE PoolInv'
  <2>1. /\ call[j] # None /\ Answer(j, "lost") /\ procs' = Released(j)
        /\ UNCHANGED <<member, agent, history>>
    BY <1>5 DEF LoseAnswer
  <2> QED
    BY <1>1, <2>1, AnswerKeeps DEF member, history, Types, ClaimsOK, AdoptersTrusted, PoolTrusted
<1>6. ASSUME SubmitLogin(j) \/ SubmitCreate(j) PROVE PoolInv'
  BY <1>2, <1>3, <1>6 DEF SubmitLogin, SubmitCreate, Submit
<1>7. ASSUME SubmitJoin(j) PROVE PoolInv'
  BY <1>2, <1>3, <1>7 DEF SubmitJoin, Submit
<1>8. ASSUME StatusArrives(j) \/ InfoArrives(j) PROVE PoolInv'
  <2>1. call' = [call EXCEPT ![j] = None] \/ call' = [call EXCEPT ![j] = Call("info")]
    BY <1>8 DEF StatusArrives, InfoArrives, Show
  <2> QED
    BY <1>2, <1>3, <1>8, <2>1 DEF StatusArrives, InfoArrives
<1>9. ASSUME FormArrives(j) PROVE PoolInv'
  <2>1. CASE call[j].answer = "ok"
    <3>1. /\ call' = [call EXCEPT ![j] = Call("status")]
          /\ agent' = [agent EXCEPT ![j].session = TRUE]
          /\ UNCHANGED <<member, procs, history>>
      BY <1>9, <2>1 DEF FormArrives, Reloaded
    <3>2. agent[j] \in Agents
      BY DEF Types
    <3> DEFINE a == [agent[j] EXCEPT !.session = TRUE]
    <3>3. a \in Agents /\ a.memory = agent[j].memory /\ a.disk = agent[j].disk
      BY <3>2 DEF Agents
    <3>4. agent' \in [Joiners -> Agents] /\ PoolTrusted'
      <4>1. UNCHANGED trusted /\ agent' = [agent EXCEPT ![j] = a]
        BY <3>1 DEF member
      <4> HIDE DEF a
      <4>2. a.memory.pool = "pool" \/ a.disk.pool = "pool" => j \in trusted
        BY <3>3 DEF PoolTrusted
      <4> QED
        BY <3>3, <4>1, <4>2, AgentKeeps
    <3>5. call' \in [Joiners -> Requests \union {None}] /\ JoinsHaveCards'
      BY <1>3, <3>1 DEF Types, JoinsHaveCards
    <3> QED
      BY <3>1, <3>4, <3>5 DEF member, history, Types, ClaimsOK, AdoptersTrusted
  <2>2. CASE call[j].answer # "ok"
    BY <1>2, <1>9, <2>2 DEF FormArrives, Show
  <2> QED
    BY <2>1, <2>2
<1> QED
  BY <1>4, <1>5, <1>6, <1>7, <1>8, <1>9 DEF Arrive

-----------------------------------------------------------------------------
(* The theorems *)

\* Every step keeps the invariant.
LEMMA PoolStep == PoolInv /\ [Next]_vars => PoolInv'
<1> SUFFICES ASSUME PoolInv, [Next]_vars PROVE PoolInv'
  OBVIOUS
<1>1. CASE UNCHANGED vars
  BY <1>1 DEF vars, member, browser, history, PoolInv, Types, JoinsHaveCards, ClaimsOK,
     AdoptersTrusted, PoolTrusted
<1>2. CASE Next
  <2>1. CASE \E t \in Invites : CreateInvite(t) \/ ExpireInvite(t)
    BY <2>1, MemberStep
  <2>2. CASE LoadPending
    BY <2>2, MemberStep
  <2>3. ASSUME NEW s \in Slots, Ask(s) \/ AskInVain(s) \/ Adopt(s) \/ Exit(s) PROVE PoolInv'
    BY <2>3, AskStep, AdoptStep, AgentStep
  <2>4. ASSUME NEW j \in Joiners, Users(j) PROVE PoolInv'
    BY <2>4, MemberStep, AgentStep, BrowserStep DEF Users
  <2>5. ASSUME NEW j \in Joiners, Serve(j) \/ Arrive(j) \/ LoseAnswer(j) PROVE PoolInv'
    BY <2>5, ServeStep, BrowserStep
  <2>6. ASSUME NEW j \in Joiners, ExpirePendingJoin(j) \/ Restart(j) \/ AutoJoin(j) PROVE PoolInv'
    BY <2>6, MemberStep, AgentStep
  <2> QED
    BY <1>2, <2>1, <2>2, <2>3, <2>4, <2>5, <2>6 DEF Next
<1> QED
  BY <1>1, <1>2

\* Every state keeps the invariant: tokens, approvals and configurations fit together, whatever
\* fails, restarts or is asked again.
THEOREM PoolInvariant == Spec => []PoolInv
  BY PoolInit, PoolStep, PTL DEF Spec

\* A token lets at most one device ask to be let in.
THEOREM InviteOnceHolds == Spec => []InviteOnce
<1>1. PoolInv => InviteOnce
  <2> SUFFICES ASSUME PoolInv, NEW t \in Invites
               PROVE  Cardinality({c \in claims : c[1] = t}) <= 1
    BY DEF InviteOnce
  <2>1. CASE {c \in claims : c[1] = t} = {}
    BY <2>1, FS_EmptySet
  <2>2. CASE {c \in claims : c[1] = t} # {}
    <3>1. PICK d \in claims : d[1] = t
      BY <2>2
    <3>2. {c \in claims : c[1] = t} = {d}
      BY <3>1 DEF PoolInv, ClaimsOK
    <3> QED
      <4>1. Cardinality({d}) = 1
        BY FS_Singleton
      <4> QED
        BY <3>2, <4>1
  <2> QED
    BY <2>1, <2>2
<1> QED
  BY <1>1, PoolInvariant, PTL

\* Whoever is configured for the pool was approved, and whoever was approved or waits had shown a
\* password or an open token.
THEOREM MembersApprovedHolds == Spec => []MembersApproved
<1>1. PoolInv => MembersApproved
  BY DEF PoolInv, PoolTrusted, MembersApproved
<1> QED
  BY <1>1, PoolInvariant, PTL

-----------------------------------------------------------------------------
(* Requests, procedures and sessions: a second invariant, on top of PoolInv *)

Screens == {"loading", "error", "login", "join", "main"}
Disks == {Alone} \union [pool: {"own", "pool"}, creds: {TRUE}]
Forms == {"login", "create", "join"}

\* The file of an agent is complete; a session needs credentials.
AgentOK(a) == a.disk \in Disks /\ (a.session => a.memory.creds)

\* A procedure that is done left credentials.
ProcOK(p, a) == p.step = "done" => a.memory.creds

\* A form that succeeded left credentials; a request waits for a procedure of its own device.
CallOK(j, c, p, a) ==
    /\ c.kind \in Forms /\ c.answer = "ok" => a.memory.creds
    /\ c.proc # None => p[c.proc] # None /\ p[c.proc].node = j

Entered ==
    /\ screen \in [Joiners -> Screens]
    /\ \A j \in Joiners : AgentOK(agent[j])
    /\ \A s \in Slots : procs[s] # None => ProcOK(procs[s], agent[procs[s].node])
    /\ \A j \in Joiners : call[j] # None => CallOK(j, call[j], procs, agent[j])

EntryInv == PoolInv /\ Entered

\* A procedure ends as it should, for its own device, and stays while a request waits for it.
LEMMA EndedStays ==
    ASSUME Types, NEW s \in Slots, procs[s] # None, NEW how \in {"done", "failed"}
    PROVE  \A r \in Slots :
              /\ r # s => Ended(s, how)[r] = procs[r]
              /\ Awaited(s) => Ended(s, how)[s] # None
              /\ Ended(s, how)[s] # None =>
                    /\ Ended(s, how)[s].node = procs[s].node
                    /\ Ended(s, how)[s].polls = procs[s].polls
                    /\ Ended(s, how)[s].step \in {how, "fatal"}
<1>1. procs[s] \in Procedures
  BY DEF Types
<1>2. procs \in [Slots -> Procedures \union {None}]
  BY DEF Types
<1> DEFINE p(step) == [procs[s] EXCEPT !.step = step]
<1>3. \A step \in {"done", "failed", "fatal"} :
         /\ p(step) \in Procedures /\ p(step).node = procs[s].node /\ p(step).polls = procs[s].polls
         /\ p(step).step = step
  BY <1>1 DEF Procedures
<1>4. \A r \in Slots : r # s => Ended(s, how)[r] = procs[r]
  BY <1>2 DEF Ended
<1>5. Ended(s, how)[s] = IF procs[s].boot /\ how = "failed" THEN p("fatal")
                         ELSE IF Awaited(s) THEN p(how) ELSE None
  BY <1>2 DEF Ended
<1>6. Awaited(s) => Ended(s, how)[s] # None
  <2>1. p("fatal") # None /\ p(how) # None
    BY <1>3, ProceduresAssumption
  <2> QED
    BY <1>5, <2>1
<1> HIDE DEF p
<1>7. Ended(s, how)[s] # None => Ended(s, how)[s] \in {p("fatal"), p(how)}
  BY <1>5
<1> QED
  BY <1>3, <1>4, <1>6, <1>7

\* At first every agent is alone, and its browser asks for the status.
LEMMA EntryInit == Init => EntryInv
<1> SUFFICES ASSUME Init PROVE Entered
  BY PoolInit DEF EntryInv
<1>1. screen \in [Joiners -> Screens]
  BY DEF Init, Screens
<1>2. \A j \in Joiners : AgentOK(agent[j])
  BY DEF Init, AgentOK, Disks
<1>3. \A j \in Joiners : call[j].kind = "status" /\ call[j].proc = None
  BY DEF Init, Call
<1> QED
  BY <1>1, <1>2, <1>3 DEF Init, Entered, CallOK, Forms

\* A procedure goes on, ends or begins, and configurations only gain credentials.
LEMMA ProcStep ==
    ASSUME EntryInv, PoolInv', UNCHANGED browser, NEW s \in Slots,
           \A j \in Joiners : AgentOK(agent'[j]) /\ (agent[j].memory.creds => agent'[j].memory.creds),
           \A r \in Slots \ {s} : procs'[r] = procs[r],
           procs[s] # None /\ Awaited(s) => procs'[s] # None /\ procs'[s].node = procs[s].node,
           procs'[s] # None => ProcOK(procs'[s], agent'[procs'[s].node])
    PROVE  Entered'
<1>1. call' = call /\ screen' = screen
  BY DEF browser
<1>2. \A r \in Slots : procs[r] # None => procs[r].node \in Joiners
  BY DEF EntryInv, PoolInv, Types, Procedures
<1>3. \A r \in Slots : procs'[r] # None => ProcOK(procs'[r], agent'[procs'[r].node])
  BY <1>2 DEF EntryInv, Entered, ProcOK
<1>4. ASSUME NEW j \in Joiners, call[j] # None PROVE CallOK(j, call[j], procs', agent'[j])
  <2>1. CallOK(j, call[j], procs, agent[j])
    BY <1>4 DEF EntryInv, Entered
  <2>2. call[j].proc \in Slots \union {None}
    BY <1>4 DEF EntryInv, PoolInv, Types, Requests
  <2>3. call[j].proc = s => Awaited(s)
    BY <1>4 DEF Awaited
  <2> QED
    BY <2>1, <2>2, <2>3 DEF CallOK
<1> QED
  BY <1>1, <1>3, <1>4 DEF EntryInv, Entered

\* The browser of a device, or its agent, takes a step; the other devices notice nothing.
LEMMA CallStep ==
    ASSUME EntryInv, PoolInv', screen' \in [Joiners -> Screens], NEW j \in Joiners, NEW c,
           \A k \in Joiners \ {j} : agent'[k] = agent[k],
           AgentOK(agent'[j]),
           \A s \in Slots : procs'[s] # None => ProcOK(procs'[s], agent'[procs'[s].node]),
           \A s \in Slots : procs'[s] = procs[s] \/ procs[s] = None \/ procs[s].node = j,
           call' = [call EXCEPT ![j] = c],
           c # None => CallOK(j, c, procs', agent'[j])
    PROVE  Entered'
<1>1. \A k \in Joiners : AgentOK(agent'[k])
  BY DEF EntryInv, Entered
<1>2. call \in [Joiners -> Requests \union {None}]
  BY DEF EntryInv, PoolInv, Types
<1>3. ASSUME NEW k \in Joiners, call'[k] # None PROVE CallOK(k, call'[k], procs', agent'[k])
  <2>1. CASE k = j
    BY <1>2, <1>3, <2>1
  <2>2. CASE k # j
    <3>1. call'[k] = call[k] /\ agent'[k] = agent[k]
      BY <1>2, <2>2
    <3>2. CallOK(k, call[k], procs, agent[k])
      BY <1>3, <3>1 DEF EntryInv, Entered
    <3>3. call[k].proc \in Slots \union {None}
      BY <1>2, <1>3, <3>1 DEF Requests
    <3> QED
      BY <2>2, <3>1, <3>2, <3>3 DEF CallOK
  <2> QED
    BY <2>1, <2>2
<1> QED
  BY <1>1, <1>3 DEF Entered

\* A procedure of the browser's own device that it stops waiting for.
LEMMA ReleasedStep ==
    ASSUME EntryInv, NEW j \in Joiners
    PROVE  \A s \in Slots : \/ Released(j)[s] = procs[s]
                            \/ Released(j)[s] = None /\ procs[s] # None /\ procs[s].node = j
<1> SUFFICES ASSUME NEW s \in Slots, Released(j)[s] # procs[s]
             PROVE  Released(j)[s] = None /\ procs[s] # None /\ procs[s].node = j
  OBVIOUS
<1>1. call[j] # None /\ call[j].proc = s /\ Released(j)[s] = None
  BY DEF Released
<1>2. CallOK(j, call[j], procs, agent[j])
  BY <1>1 DEF EntryInv, Entered
<1>3. procs[s] # None
  BY <1>1
<1>4. s # None
  BY PoolEntryAssumption DEF Slots
<1> QED
  BY <1>1, <1>2, <1>3, <1>4 DEF CallOK

\* What the invariants say of one device, one procedure and one request.
LEMMA EntryTypes ==
    ASSUME EntryInv
    PROVE  /\ \A j \in Joiners : /\ agent[j] \in Agents /\ AgentOK(agent[j])
                                 /\ call[j] \in Requests \union {None}
           /\ agent \in [Joiners -> Agents] /\ call \in [Joiners -> Requests \union {None}]
           /\ procs \in [Slots -> Procedures \union {None}]
           /\ \A s \in Slots : procs[s] # None =>
                 /\ procs[s] \in Procedures /\ procs[s].node \in Joiners
                 /\ ProcOK(procs[s], agent[procs[s].node])
           /\ \A j \in Joiners : call[j] # None => CallOK(j, call[j], procs, agent[j])
           /\ screen \in [Joiners -> Screens]
           /\ Types
<1>1. Types /\ Entered
  BY DEF EntryInv, PoolInv
<1>2. procs \in [Slots -> Procedures \union {None}] /\ agent \in [Joiners -> Agents]
      /\ call \in [Joiners -> Requests \union {None}]
  BY <1>1 DEF Types
<1>3. \A s \in Slots : procs[s] # None => procs[s] \in Procedures /\ procs[s].node \in Joiners
  BY <1>2 DEF Procedures
<1> QED
  BY <1>1, <1>2, <1>3 DEF Entered

\* A request of a procedure: it goes on, is told of an approval, or fails.
LEMMA AskEnters ==
    ASSUME EntryInv, PoolInv', NEW s \in Slots, Ask(s) \/ AskInVain(s)
    PROVE  Entered'
<1>1. /\ procs[s] # None /\ procs[s].step = "asking" /\ UNCHANGED <<agent, browser>>
      /\ procs[s] \in Procedures
  BY EntryTypes DEF Ask, AskInVain
<1>2. \A j \in Joiners : AgentOK(agent'[j]) /\ (agent[j].memory.creds => agent'[j].memory.creds)
  BY <1>1, EntryTypes
<1>3. CASE procs' = Ended(s, "failed")
  BY <1>1, <1>2, <1>3, EndedStays, EntryTypes, ProcStep DEF ProcOK
<1>4. ASSUME NEW p \in Procedures, p.node = procs[s].node, p.step # "done",
             procs' = [procs EXCEPT ![s] = p]
      PROVE  Entered'
  <2>1. procs'[s] = p /\ \A r \in Slots \ {s} : procs'[r] = procs[r]
    BY <1>4, EntryTypes
  <2>2. p # None
    BY <1>4, ProceduresAssumption
  <2> QED
    BY <1>1, <1>2, <1>4, <2>1, <2>2, ProcStep DEF ProcOK
<1>5. CASE procs' = [procs EXCEPT ![s].step = "adopting"]
  <2>1. /\ [procs[s] EXCEPT !.step = "adopting"] \in Procedures
        /\ [procs[s] EXCEPT !.step = "adopting"].node = procs[s].node
        /\ [procs[s] EXCEPT !.step = "adopting"].step = "adopting"
    BY <1>1 DEF Procedures
  <2> QED
    BY <1>4, <1>5, <2>1
<1>6. CASE procs[s].polls < MaxPolls /\ procs' = [procs EXCEPT ![s].polls = @ + 1]
  <2>1. procs[s].polls + 1 \in 0 .. MaxPolls
    BY <1>1, <1>6, PoolEntryAssumption DEF Procedures
  <2>2. /\ [procs[s] EXCEPT !.polls = procs[s].polls + 1] \in Procedures
        /\ [procs[s] EXCEPT !.polls = procs[s].polls + 1].node = procs[s].node
        /\ [procs[s] EXCEPT !.polls = procs[s].polls + 1].step = "asking"
    BY <1>1, <2>1 DEF Procedures
  <2>3. procs' = [procs EXCEPT ![s] = [procs[s] EXCEPT !.polls = procs[s].polls + 1]]
    BY <1>6
  <2> QED
    BY <1>4, <2>2, <2>3
<1> QED
  BY <1>3, <1>5, <1>6 DEF Ask, AskInVain, Polled

\* An adoption brings credentials, or keeps those that there were.
LEMMA AdoptEnters ==
    ASSUME EntryInv, PoolInv', NEW s \in Slots, Adopt(s)
    PROVE  Entered'
<1> DEFINE j == procs[s].node
<1>1. procs[s] # None /\ UNCHANGED browser /\ procs[s] \in Procedures /\ j \in Joiners
  BY EntryTypes DEF Adopt
<1>2. agent[j] \in Agents /\ AgentOK(agent[j]) /\ agent \in [Joiners -> Agents]
  BY <1>1, EntryTypes
<1>3. Member \in Configurations /\ Member \in Disks /\ Member.creds
  BY DEF Member, Configurations, Disks
<1> DEFINE Grown == \A k \in Joiners : AgentOK(agent'[k]) /\ (agent[k].memory.creds => agent'[k].memory.creds)
<1>4. CASE /\ agent' = [agent EXCEPT ![j].memory = Member, ![j].disk = Member]
           /\ procs' = Ended(s, "done")
  <2>1. agent'[j].memory = Member /\ agent'[j].disk = Member
    BY <1>1, <1>2, <1>4 DEF Agents
  <2>2. \A k \in Joiners \ {j} : agent'[k] = agent[k]
    BY <1>2, <1>4
  <2>3. Grown
    BY <1>3, <2>1, <2>2, EntryTypes DEF AgentOK
  <2>4. agent'[j].memory.creds
    BY <1>3, <2>1
  <2> HIDE DEF Grown
  <2>5. procs'[s] # None => procs'[s].node = j
    BY <1>1, <1>4, EndedStays, EntryTypes
  <2> QED
    BY <1>1, <1>4, <2>3, <2>4, <2>5, EndedStays, EntryTypes, ProcStep DEF ProcOK, Grown
<1>5. ASSUME NEW hashed \in BOOLEAN, NEW saved \in BOOLEAN,
             agent' = [agent EXCEPT ![j].memory = [Member EXCEPT !.creds = hashed \/ agent[j].memory.creds],
                                    ![j].disk = IF saved THEN Member ELSE @],
             procs' = Ended(s, "failed")
      PROVE  Entered'
  <2> DEFINE m == [Member EXCEPT !.creds = hashed \/ agent[j].memory.creds]
  <2>1. agent[j].memory.creds => m.creds
    BY DEF Member
  <2>2. agent' = [agent EXCEPT ![j] = [agent[j] EXCEPT !.memory = m,
                                                       !.disk = IF saved THEN Member ELSE agent[j].disk]]
    BY <1>1, <1>2, <1>5
  <2> HIDE DEF m
  <2>3. /\ agent'[j].memory = m /\ agent'[j].disk = IF saved THEN Member ELSE agent[j].disk
        /\ agent'[j].session = agent[j].session
    BY <1>1, <1>2, <2>2 DEF Agents
  <2>4. \A k \in Joiners \ {j} : agent'[k] = agent[k]
    BY <1>2, <2>2
  <2>5. Grown
    <3>1. agent'[j].disk \in Disks
      BY <1>2, <1>3, <2>3 DEF AgentOK
    <3>2. agent'[j].session => agent'[j].memory.creds
      BY <1>2, <2>1, <2>3 DEF AgentOK
    <3>3. agent[j].memory.creds => agent'[j].memory.creds
      BY <2>1, <2>3
    <3>4. AgentOK(agent'[j])
      BY <3>1, <3>2 DEF AgentOK
    <3>5. \A k \in Joiners \ {j} : AgentOK(agent'[k]) /\ (agent[k].memory.creds => agent'[k].memory.creds)
      BY <2>4, EntryTypes
    <3> QED
      BY <3>3, <3>4, <3>5
  <2>6. /\ \A r \in Slots \ {s} : procs'[r] = procs[r]
        /\ Awaited(s) => procs'[s] # None
        /\ procs'[s] # None => procs'[s].node = j /\ procs'[s].step # "done"
    BY <1>1, <1>5, EndedStays, EntryTypes
  <2> QED
    BY <1>1, <2>5, <2>6, ProcStep DEF ProcOK
<1> QED
  BY <1>4, <1>5 DEF Adopt

\* The agent begins a procedure of its own.
LEMMA AutoJoinEnters ==
    ASSUME EntryInv, PoolInv', NEW j \in Joiners, AutoJoin(j)
    PROVE  Entered'
<1>1. /\ j \in Slots /\ procs[j] = None /\ procs' = [procs EXCEPT ![j] = Begin(j, EmptyHanded)]
      /\ UNCHANGED <<agent, browser>>
  BY DEF AutoJoin, Slots
<1>2. procs'[j].step = "asking" /\ \A r \in Slots \ {j} : procs'[r] = procs[r]
  BY <1>1, EntryTypes DEF Begin
<1>3. \A k \in Joiners : AgentOK(agent'[k]) /\ (agent[k].memory.creds => agent'[k].memory.creds)
  BY <1>1, EntryTypes
<1> QED
  BY <1>1, <1>2, <1>3, ProcStep DEF ProcOK

\* A restart leaves what was on disk, no session, no procedure of the device but a new one, and an
\* answer that is lost.
LEMMA StartedEnters ==
    ASSUME EntryInv, PoolInv', NEW j \in Joiners, Started(j), UNCHANGED screen,
           \A s \in Slots : \/ procs'[s] = Left(j)[s]
                            \/ procs[s] = None /\ procs'[s].step = "asking"
    PROVE  Entered'
<1>1. agent[j] \in Agents /\ AgentOK(agent[j]) /\ agent \in [Joiners -> Agents]
  BY EntryTypes
<1>2. agent' = [agent EXCEPT ![j] = [agent[j] EXCEPT !.memory = agent[j].disk, !.session = FALSE]]
  BY <1>1 DEF Started
<1>3. agent'[j].disk = agent[j].disk /\ ~agent'[j].session /\ \A k \in Joiners \ {j} : agent'[k] = agent[k]
  BY <1>1, <1>2 DEF Agents
<1>4. AgentOK(agent'[j])
  BY <1>1, <1>3 DEF AgentOK
<1>5. \A s \in Slots : Left(j)[s] = IF procs[s] # None /\ procs[s].node = j THEN None ELSE procs[s]
  BY DEF Left
<1>6. ASSUME NEW s \in Slots, procs'[s] # None PROVE ProcOK(procs'[s], agent'[procs'[s].node])
  <2>1. CASE procs'[s].step = "asking"
    BY <2>1 DEF ProcOK
  <2>2. CASE procs'[s] = Left(j)[s]
    BY <1>3, <1>5, <1>6, <2>2, EntryTypes
  <2> QED
    BY <1>6, <2>1, <2>2
<1>7. \A s \in Slots : procs'[s] = procs[s] \/ procs[s] = None \/ procs[s].node = j
  BY <1>5
<1> DEFINE c == IF call[j] = None THEN None ELSE [call[j] EXCEPT !.answer = "lost", !.proc = None]
<1>8. call' = [call EXCEPT ![j] = c]
  BY DEF Started
<1>9. c # None => CallOK(j, c, procs', agent'[j])
  <2>1. CASE call[j] = None
    BY <2>1
  <2>2. CASE call[j] # None
    <3>1. call[j] \in Requests
      BY <2>2, EntryTypes
    <3>2. c.answer = "lost" /\ c.proc = None
      BY <2>2, <3>1 DEF Requests
    <3> QED
      BY <3>2 DEF CallOK
  <2> QED
    BY <2>1, <2>2
<1> HIDE DEF c
<1>10. screen' \in [Joiners -> Screens]
  BY EntryTypes
<1> QED
  BY <1>3, <1>4, <1>6, <1>7, <1>8, <1>9, <1>10, CallStep

\* An answered request waits for no procedure; an answer to a form is a success only with
\* credentials.
LEMMA AnsweredEnters ==
    ASSUME EntryInv, PoolInv', UNCHANGED screen, NEW j \in Joiners, call[j] # None, NEW a, Answer(j, a),
           a = "ok" /\ call[j].kind \in Forms => agent'[j].memory.creds,
           \A k \in Joiners \ {j} : agent'[k] = agent[k],
           AgentOK(agent'[j]), agent[j].memory.creds => agent'[j].memory.creds,
           \A s \in Slots : \/ procs'[s] = procs[s]
                            \/ procs'[s] = None /\ procs[s] # None /\ procs[s].node = j
    PROVE  Entered'
<1> DEFINE c == [call[j] EXCEPT !.answer = a, !.proc = None]
<1>1. call[j] \in Requests
  BY EntryTypes
<1>2. c.answer = a /\ c.proc = None /\ c.kind = call[j].kind
  BY <1>1 DEF Requests
<1>3. call' = [call EXCEPT ![j] = c]
  BY DEF Answer
<1> HIDE DEF c
<1>4. CallOK(j, c, procs', agent'[j])
  BY <1>2 DEF CallOK
<1>5. \A s \in Slots : procs'[s] # None => ProcOK(procs'[s], agent'[procs'[s].node])
  BY EntryTypes DEF ProcOK
<1>6. screen' \in [Joiners -> Screens]
  BY EntryTypes
<1> QED
  BY <1>3, <1>4, <1>5, <1>6, CallStep

\* What the agent answers at once, and the form for a new pool.
LEMMA ServeEnters ==
    ASSUME EntryInv, PoolInv', NEW j \in Joiners,
           ServeStatus(j) \/ ServeInfo(j) \/ ServeLogin(j) \/ ServeCreate(j)
    PROVE  Entered'
<1>0. /\ call[j] # None /\ UNCHANGED <<screen, procs>>
      /\ agent[j] \in Agents /\ AgentOK(agent[j]) /\ agent \in [Joiners -> Agents]
  BY EntryTypes DEF ServeStatus, ServeInfo, ServeLogin, ServeCreate, Waits
<1>1. ASSUME NEW a, Answer(j, a), UNCHANGED agent,
             a = "ok" /\ call[j].kind \in Forms => agent[j].memory.creds
      PROVE  Entered'
  BY <1>0, <1>1, AnsweredEnters
<1>2. CASE ServeStatus(j)
  <2>1. \E a \in {"credentials", "none"} : Answer(j, a)
    BY <1>2 DEF ServeStatus
  <2> QED
    BY <1>1, <1>2, <2>1 DEF ServeStatus
<1>3. CASE ServeInfo(j)
  <2>1. call[j].kind \notin Forms
    BY <1>3 DEF ServeInfo, Waits, Forms
  <2>2. \E a \in {"refused", "none", "ok"} : Answer(j, a)
    BY <1>3 DEF ServeInfo
  <2> QED
    BY <1>1, <1>3, <2>1, <2>2 DEF ServeInfo
<1>4. CASE ServeLogin(j)
  <2>1. CASE agent[j].memory.creds /\ call[j].card = "right"
    BY <1>1, <1>4, <2>1 DEF ServeLogin
  <2>2. CASE ~(agent[j].memory.creds /\ call[j].card = "right")
    BY <1>1, <1>4, <2>2 DEF ServeLogin
  <2> QED
    BY <2>1, <2>2
<1>5. CASE ServeCreate(j)
  <2> DEFINE m == agent[j].memory
             own == IF m.pool = None THEN "own" ELSE m.pool
  <2>1. CASE Answer(j, "refused") /\ UNCHANGED agent
    BY <1>1, <2>1
  <2>2. CASE /\ agent' = [agent EXCEPT ![j].memory = [pool |-> own, creds |-> TRUE],
                                       ![j].disk = [pool |-> own, creds |-> TRUE]]
             /\ Answer(j, "ok")
    <3> DEFINE n == [pool |-> own, creds |-> TRUE]
    <3>1. m.pool \in {None, "own", "pool"}
      BY <1>0 DEF Agents, Configurations
    <3>2. n \in Disks /\ n.creds
      BY <3>1 DEF Disks
    <3>3. agent' = [agent EXCEPT ![j] = [agent[j] EXCEPT !.memory = n, !.disk = n]]
      BY <1>0, <2>2
    <3> HIDE DEF n
    <3>4. agent'[j].memory = n /\ agent'[j].disk = n /\ \A k \in Joiners \ {j} : agent'[k] = agent[k]
      BY <1>0, <3>3 DEF Agents
    <3>5. AgentOK(agent'[j]) /\ agent'[j].memory.creds
      BY <3>2, <3>4 DEF AgentOK
    <3> QED
      BY <1>0, <2>2, <3>4, <3>5, AnsweredEnters
  <2>3. ASSUME NEW hashed \in BOOLEAN,
               agent' = [agent EXCEPT ![j].memory = [pool |-> own, creds |-> m.creds \/ hashed]],
               Answer(j, "refused")
        PROVE  Entered'
    <3> DEFINE n == [pool |-> own, creds |-> m.creds \/ hashed]
    <3>1. m.creds => n.creds
      OBVIOUS
    <3>2. agent' = [agent EXCEPT ![j] = [agent[j] EXCEPT !.memory = n]]
      BY <1>0, <2>3
    <3> HIDE DEF n
    <3>3. /\ agent'[j].memory = n /\ agent'[j].disk = agent[j].disk
          /\ agent'[j].session = agent[j].session
          /\ \A k \in Joiners \ {j} : agent'[k] = agent[k]
      BY <1>0, <3>2 DEF Agents
    <3>4. AgentOK(agent'[j])
      BY <1>0, <3>1, <3>3 DEF AgentOK
    <3>5. agent[j].memory.creds => agent'[j].memory.creds
      BY <3>1, <3>3
    <3> QED
      BY <1>0, <2>3, <3>3, <3>4, <3>5, AnsweredEnters
  <2> QED
    BY <1>5, <2>1, <2>2, <2>3 DEF ServeCreate
<1> QED
  BY <1>2, <1>3, <1>4, <1>5

\* The join form: its procedure begins in free room, and its end answers the form.
LEMMA ServeJoinEnters ==
    ASSUME EntryInv, PoolInv', NEW j \in Joiners, ServeJoin(j) \/ JoinEnds(j)
    PROVE  Entered'
<1>0. /\ call[j] # None /\ call[j] \in Requests /\ CallOK(j, call[j], procs, agent[j])
      /\ UNCHANGED <<agent, screen>> /\ call[j].kind = "join"
  BY EntryTypes DEF ServeJoin, JoinEnds, Waits
<1>1. CASE Answer(j, "refused") /\ UNCHANGED procs
  BY <1>0, <1>1, EntryTypes, AnsweredEnters
<1>2. ASSUME NEW s \in Procs, procs[s] = None, procs' = [procs EXCEPT ![s] = Begin(j, call[j].card)],
             call' = [call EXCEPT ![j].proc = s]
      PROVE  Entered'
  <2> DEFINE c == [call[j] EXCEPT !.proc = s]
             p == Begin(j, call[j].card)
  <2>1. c.proc = s /\ c.kind = call[j].kind /\ c.answer = call[j].answer
    BY <1>0 DEF Requests
  <2>2. call' = [call EXCEPT ![j] = c]
    BY <1>2
  <2>3. p.node = j /\ p.step = "asking" /\ s \in Slots
    BY DEF Begin, Slots
  <2>4. procs'[s] = p /\ \A r \in Slots \ {s} : procs'[r] = procs[r]
    BY <1>2, <2>3, EntryTypes
  <2>5. p # None
    <3>1. call[j].card \in Cards
      BY <1>0 DEF EntryInv, PoolInv, JoinsHaveCards
    <3> QED
      BY <3>1, BeginIsProcedure, ProceduresAssumption
  <2> HIDE DEF c, p
  <2>6. CallOK(j, c, procs', agent'[j])
    BY <1>0, <2>1, <2>3, <2>4, <2>5 DEF CallOK
  <2>7. \A r \in Slots : procs'[r] # None => ProcOK(procs'[r], agent'[procs'[r].node])
    BY <1>0, <2>3, <2>4, EntryTypes DEF ProcOK
  <2>8. \A r \in Slots : procs'[r] = procs[r] \/ procs[r] = None \/ procs[r].node = j
    BY <1>2, <2>4
  <2> QED
    BY <1>0, <2>2, <2>6, <2>7, <2>8, EntryTypes, CallStep
<1>3. CASE JoinEnds(j)
  <2> DEFINE s == call[j].proc
  <2>1. s \in Slots /\ procs[s] # None /\ procs[s].node = j
    BY <1>0, <1>3 DEF JoinEnds, CallOK, Requests
  <2>2. ProcOK(procs[s], agent[j])
    BY <2>1, EntryTypes
  <2>3. PICK a : Answer(j, a) /\ (a = "ok" => procs[s].step = "done")
    BY <1>3 DEF JoinEnds
  <2>4. \A r \in Slots : \/ procs'[r] = procs[r]
                         \/ procs'[r] = None /\ procs[r] # None /\ procs[r].node = j
    BY <1>3, <2>1, EntryTypes DEF JoinEnds
  <2> HIDE DEF s
  <2>5. a = "ok" /\ call[j].kind \in Forms => agent'[j].memory.creds
    BY <1>0, <2>2, <2>3 DEF ProcOK
  <2> QED
    BY <1>0, <2>3, <2>4, <2>5, EntryTypes, AnsweredEnters
<1> QED
  BY <1>0, <1>1, <1>2, <1>3 DEF ServeJoin, FreeProc

\* What the browser and its user do, and an answer that is lost.
LEMMA BrowserEnters ==
    ASSUME EntryInv, PoolInv', NEW j \in Joiners,
           \/ Reload(j) \/ LoseAnswer(j) \/ SubmitLogin(j) \/ SubmitCreate(j) \/ SubmitJoin(j)
           \/ Arrive(j)
    PROVE  Entered'
<1>1. ASSUME NEW c, c # None => c.proc = None /\ (c.kind \in Forms => c.answer # "ok"),
             call' = [call EXCEPT ![j] = c], NEW v \in Screens, screen' = [screen EXCEPT ![j] = v],
             procs' = procs \/ procs' = Released(j),
             \/ UNCHANGED agent
             \/ agent[j].memory.creds /\ agent' = [agent EXCEPT ![j].session = TRUE]
      PROVE  Entered'
  <2>1. screen' \in [Joiners -> Screens]
    BY <1>1, EntryTypes
  <2>2. \A s \in Slots : \/ procs'[s] = procs[s]
                         \/ procs'[s] = None /\ procs[s] # None /\ procs[s].node = j
    BY <1>1, ReleasedStep
  <2>3. /\ AgentOK(agent'[j]) /\ (agent[j].memory.creds => agent'[j].memory.creds)
        /\ \A k \in Joiners \ {j} : agent'[k] = agent[k]
    <3>1. CASE UNCHANGED agent
      BY <3>1, EntryTypes
    <3>2. CASE agent[j].memory.creds /\ agent' = [agent EXCEPT ![j].session = TRUE]
      <4>1. agent[j] \in Agents /\ AgentOK(agent[j]) /\ agent \in [Joiners -> Agents]
        BY EntryTypes
      <4>2. agent'[j].memory = agent[j].memory /\ agent'[j].disk = agent[j].disk
            /\ \A k \in Joiners \ {j} : agent'[k] = agent[k]
        BY <3>2, <4>1 DEF Agents
      <4> QED
        BY <3>2, <4>1, <4>2 DEF AgentOK
    <3> QED
      BY <1>1, <3>1, <3>2
  <2>4. \A s \in Slots : procs'[s] # None => ProcOK(procs'[s], agent'[procs'[s].node])
    BY <2>2, <2>3, EntryTypes DEF ProcOK
  <2>5. c # None => CallOK(j, c, procs', agent'[j])
    BY <1>1 DEF CallOK
  <2> QED
    BY <1>1, <2>1, <2>2, <2>3, <2>4, <2>5, CallStep
<1>2. /\ \A k \in {"status", "info", "create"} : Call(k).proc = None /\ Call(k).answer = None
      /\ \A p : [Call("login") EXCEPT !.card = p].proc = None /\ [Call("login") EXCEPT !.card = p].answer = None
      /\ \A p : [Call("join") EXCEPT !.card = p].proc = None /\ [Call("join") EXCEPT !.card = p].answer = None
  BY DEF Call
<1>3. None # "ok"
  BY PoolEntryAssumption
<1>4. screen[j] \in Screens /\ screen = [screen EXCEPT ![j] = screen[j]]
  BY EntryTypes
<1>5. CASE Reload(j)
  BY <1>1, <1>2, <1>3, <1>5 DEF Reload, Reloaded, Screens
<1>6. CASE LoseAnswer(j)
  <2>1. /\ call[j] # None /\ Answer(j, "lost") /\ procs' = Released(j) /\ UNCHANGED <<agent, screen>>
    BY <1>6 DEF LoseAnswer
  <2>2. \A s \in Slots : \/ procs'[s] = procs[s]
                         \/ procs'[s] = None /\ procs[s] # None /\ procs[s].node = j
    BY <2>1, ReleasedStep
  <2> QED
    BY <2>1, <2>2, EntryTypes, AnsweredEnters
<1>7. ASSUME NEW c, Submit(j, c), c.proc = None, c.answer = None PROVE Entered'
  <2>1. screen' = [screen EXCEPT ![j] = screen[j]] /\ procs' = procs /\ UNCHANGED agent
        /\ call' = [call EXCEPT ![j] = c]
    BY <1>4, <1>7 DEF Submit
  <2> QED
    BY <1>1, <1>3, <1>4, <1>7, <2>1
<1>8. CASE SubmitLogin(j) \/ SubmitCreate(j) \/ SubmitJoin(j)
  BY <1>2, <1>7, <1>8 DEF SubmitLogin, SubmitCreate, SubmitJoin
<1>9. ASSUME NEW v \in Screens, Show(j, v), UNCHANGED <<procs, agent>> PROVE Entered'
  BY <1>1, <1>9 DEF Show
<1>10. CASE StatusArrives(j)
  <2>1. CASE call' = [call EXCEPT ![j] = Call("info")] /\ UNCHANGED screen
    <3>1. screen' = [screen EXCEPT ![j] = screen[j]] /\ UNCHANGED <<procs, agent>>
      BY <1>4, <1>10, <2>1 DEF StatusArrives
    <3> QED
      BY <1>1, <1>2, <1>3, <1>4, <2>1, <3>1
  <2>2. CASE Show(j, "error") \/ Show(j, "join")
    BY <1>9, <1>10, <2>2 DEF StatusArrives, Screens
  <2> QED
    BY <1>10, <2>1, <2>2 DEF StatusArrives
<1>11. CASE InfoArrives(j)
  <2>1. \E v \in Screens : Show(j, v)
    BY <1>11 DEF InfoArrives, Screens
  <2> QED
    BY <1>9, <1>11, <2>1 DEF InfoArrives
<1>12. CASE FormArrives(j)
  <2>1. CASE call[j].answer = "ok"
    <3>1. CallOK(j, call[j], procs, agent[j]) /\ call[j].kind \in Forms
      BY <1>12, EntryTypes DEF FormArrives, Came, Forms
    <3>2. agent[j].memory.creds
      BY <2>1, <3>1 DEF CallOK
    <3>3. /\ screen' = [screen EXCEPT ![j] = "loading"] /\ call' = [call EXCEPT ![j] = Call("status")]
          /\ procs' = procs /\ agent' = [agent EXCEPT ![j].session = TRUE]
      BY <1>12, <2>1 DEF FormArrives, Reloaded
    <3>4. "loading" \in Screens
      BY DEF Screens
    <3> QED
      BY <1>1, <1>2, <1>3, <3>2, <3>3, <3>4
  <2>2. CASE call[j].answer # "ok"
    BY <1>4, <1>9, <1>12, <2>2 DEF FormArrives
  <2> QED
    BY <2>1, <2>2
<1> QED
  BY <1>5, <1>6, <1>8, <1>10, <1>11, <1>12 DEF Arrive

\* Every step keeps it, given that it keeps PoolInv.
LEMMA EntryStep == EntryInv /\ PoolInv' /\ [Next]_vars => Entered'
<1> SUFFICES ASSUME EntryInv, PoolInv', [Next]_vars PROVE Entered'
  OBVIOUS
<1>1. CASE UNCHANGED <<agent, procs, browser>>
  <2>1. agent' = agent /\ procs' = procs /\ call' = call /\ screen' = screen
    BY <1>1 DEF browser
  <2> QED
    BY <2>1 DEF EntryInv, Entered
<1>2. ASSUME NEW s \in Slots, Ask(s) \/ AskInVain(s) \/ Adopt(s) PROVE Entered'
  BY <1>2, AskEnters, AdoptEnters
<1>3. ASSUME NEW j \in Joiners, NEW s \in Procs, NEW p, FreeProc(s), Started(j), UNCHANGED screen,
             procs' = [Left(j) EXCEPT ![s] = p], p.step = "asking"
      PROVE  Entered'
  <2>1. \A r \in Slots : procs'[r] = Left(j)[r] \/ (procs[r] = None /\ procs'[r].step = "asking")
    BY <1>3 DEF FreeProc, Left, Slots
  <2> QED
    BY <1>3, <2>1, StartedEnters
<1>4. ASSUME NEW j \in Joiners, NEW t \in Invites, NEW s \in Procs, JoinAtStart(j, t, s) PROVE Entered'
  <2>1. [Begin(j, [pass |-> None, token |-> t]) EXCEPT !.boot = TRUE].step = "asking"
    BY DEF Begin
  <2> QED
    BY <1>3, <1>4, <2>1 DEF JoinAtStart
<1>5. ASSUME NEW j \in Joiners, Started(j), procs' = Left(j), UNCHANGED screen PROVE Entered'
  BY <1>5, StartedEnters
<1>6. ASSUME NEW s \in Slots, Exit(s) PROVE Entered'
  <2>1. procs[s].node \in Joiners
    BY <1>6, EntryTypes DEF Exit
  <2> QED
    BY <1>5, <1>6, <2>1 DEF Exit
<1>7. ASSUME NEW j \in Joiners, Restart(j) \/ AutoJoin(j) PROVE Entered'
  BY <1>5, <1>7, AutoJoinEnters DEF Restart
<1>8. ASSUME NEW j \in Joiners, Serve(j) \/ Arrive(j) \/ LoseAnswer(j) PROVE Entered'
  BY <1>8, ServeEnters, ServeJoinEnters, BrowserEnters DEF Serve
<1>9. ASSUME NEW j \in Joiners, Users(j) PROVE Entered'
  <2>1. CASE ApproveJoin(j)
    BY <1>1, <2>1 DEF ApproveJoin
  <2>2. CASE \E t \in Invites, s \in Procs : JoinAtStart(j, t, s)
    BY <1>4, <2>2
  <2>3. CASE Reload(j) \/ SubmitLogin(j) \/ SubmitCreate(j) \/ SubmitJoin(j)
    BY <2>3, BrowserEnters
  <2> QED
    BY <1>9, <2>1, <2>2, <2>3 DEF Users
<1>10. CASE (\E t \in Invites : CreateInvite(t) \/ ExpireInvite(t)) \/ LoadPending
            \/ \E j \in Joiners : ExpirePendingJoin(j)
  BY <1>1, <1>10 DEF CreateInvite, ExpireInvite, LoadPending, ExpirePendingJoin
<1>11. CASE UNCHANGED vars
  BY <1>1, <1>11 DEF vars
<1> QED
  <2>1. CASE \E s \in Slots : Ask(s) \/ AskInVain(s) \/ Adopt(s) \/ Exit(s)
    BY <1>2, <1>6, <2>1
  <2>2. CASE \E j \in Joiners : \/ Users(j) \/ Serve(j) \/ Arrive(j) \/ Restart(j) \/ LoseAnswer(j)
                                \/ AutoJoin(j)
    BY <1>7, <1>8, <1>9, <2>2
  <2> QED
    BY <1>10, <1>11, <2>1, <2>2 DEF Next

\* Requests, procedures and sessions fit together in every state: what a request waits for is there
\* and is its own, and a session or a success comes with credentials.
THEOREM EntryInvariant == Spec => []EntryInv
<1>1. EntryInv /\ [Next]_vars => EntryInv'
  BY PoolStep, EntryStep DEF EntryInv
<1> QED
  BY <1>1, EntryInit, PTL DEF Spec

\* Everything that is stored has its type: in particular a session needs credentials, a file is
\* complete, and a request waits for a procedure of its own device.
THEOREM PoolEntryTyped == Spec => []TypeOK
<1>1. EntryInv => TypeOK
  <2> SUFFICES ASSUME EntryInv PROVE TypeOK
    OBVIOUS
  <2>1. \A j \in Joiners : agent[j].memory.pool \in {None, "own", "pool"}
    BY EntryTypes DEF Agents, Configurations
  <2>2. \A j \in Joiners : call[j] # None /\ call[j].proc # None =>
           procs[call[j].proc] # None /\ procs[call[j].proc].node = j
    BY EntryTypes DEF CallOK
  <2> QED
    BY <2>1, <2>2, EntryTypes DEF Types, TypeOK, AgentOK, Disks, Screens
<1> QED
  BY <1>1, EntryInvariant, PTL

=============================================================================
