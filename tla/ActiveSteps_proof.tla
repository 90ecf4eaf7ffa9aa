------------------------- MODULE ActiveSteps_proof --------------------------
(***************************************************************************)
(* The inductive invariant of QmgrActive, and one lemma for every action   *)
(* or group of actions that keeps it.                                      *)
(***************************************************************************)
EXTENDS ActiveFacts_proof

-----------------------------------------------------------------------------
(* The inductive invariant                                                   *)

\* Where a file is that has not been disposed of.
Live == {"incoming", "active", "deferred"}

\* The queue manager has the message in hand.
InHand == {"deliver", "done", "done2", "wait", "done25", "done3"}

\* An agent that may still change the file or the logs, and one that works for
\* the queue manager of today.
Writer(a) == agent[a].st \in {"req", "open", "sent", "logged"}

Asked(a) == agent[a].st \notin {"idle", "closing"} /\ ~agent[a].orphan

\* Agents of today work for entries that are busy, each on its own; those of an
\* earlier queue manager are done before the file is read again.  What an agent
\* knows is on disk before it says so.
AgentInv(a) ==
    /\ Asked(a) => msg.st = "deliver" /\ agent[a].rcpt \in msg.busy
    /\ Writer(a) /\ agent[a].orphan =>
         /\ msg.st \in {"down", "none", "feed"}
         /\ file.dir \in Live
         /\ agent[a].st = "req" => msg.st = "down"
    /\ agent[a].st = "sent" => delivered[agent[a].rcpt] > 0
    /\ agent[a].st = "logged" => Accounted(agent[a].rcpt)
    /\ Asked(a) /\ agent[a].st = "ok" => agent[a].rcpt \notin file.todo
    /\ Asked(a) /\ agent[a].st = "defer" =>
         agent[a].rcpt \in log.defer \/ ~file.mode_ok
    /\ Asked(a) /\ agent[a].st = "refused" => ~file.mode_ok

AgentsInv ==
    /\ \A a \in Agents : AgentInv(a)
    /\ \A a, b \in Agents : Asked(a) /\ Asked(b) /\ a # b => agent[a].rcpt # agent[b].rcpt

\* The in-core message: its recipients are in one place each, and all before the
\* offset to continue from.
MsgInv ==
    /\ msg.st \in InHand \union {"feed"} => file.dir = "active"
    /\ msg.st = "down" => file.dir \in Live
    /\ msg.st \in {"none", "feed", "down"} => ~msg.flags /\ msg.offset = 0
    /\ msg.st # "deliver" => InCore(msg) = {}
    /\ msg.todo \intersect msg.retry = {} /\ msg.todo \intersect msg.busy = {}
    /\ msg.retry \intersect msg.busy = {}
    /\ msg.offset > 0 => \A r \in InCore(msg) : r < msg.offset

\* A recipient that is not done is in core, or ahead in the file, or the sender
\* knows, or the message will be tried again and the defer log says why.
Covered(r) == r \in reported \/ (msg.flags /\ (r \in log.defer \/ ~file.mode_ok))

CoverInv ==
    msg.st \in InHand =>
        \A r \in file.todo \ InCore(msg) :
            (msg.offset > 0 /\ r >= msg.offset) \/ Covered(r)

\* After the last batch of a file that is not corrupt.
AllLogged ==
    /\ msg.offset = 0
    /\ \A r \in file.todo : r \in reported \/ (msg.flags /\ r \in log.defer)

EndInv == msg.st \in {"done25", "done3"} => AllLogged

\* One notification at a time, and nobody writes to the log meanwhile.
DaemonInv(d) ==
    /\ daemon[d].log # "removed"
    /\ daemon[d].st = "idle" => daemon[d].log = "none"
    /\ daemon[d].st # "idle" =>
         /\ msg.st \in {"wait", "down"}
         /\ daemon[d].orphan = (msg.st = "down")
         /\ \A a \in Agents : ~Writer(a)
         /\ ~daemon[d].orphan /\ daemon[d].cmd # "bounce" => AllLogged
    /\ daemon[d].st \in {"open", "posted"} /\ daemon[d].log = "none" =>
         log[LogName(daemon[d].cmd)] = {}
    /\ daemon[d].st = "posted" => daemon[d].cmd # "warn"
    /\ daemon[d].st = "posted" /\ daemon[d].cmd = "bounce" => log.bounce \subseteq reported
    /\ daemon[d].st = "posted" /\ daemon[d].cmd = "flush" => log.defer \subseteq reported
    /\ daemon[d].st \in {"posted", "ok"} /\ daemon[d].cmd = "flush" /\ ~daemon[d].orphan =>
         file.todo \subseteq reported

DaemonsInv ==
    /\ \A d \in Daemons : DaemonInv(d)
    /\ \A d, e \in Daemons : daemon[d].st # "idle" /\ daemon[e].st # "idle" => d = e

ActiveInv ==
    /\ TypeOK /\ AgentsInv /\ MsgInv /\ CoverInv /\ EndInv /\ DaemonsInv /\ NoSilentLoss

-----------------------------------------------------------------------------
(* Delivery agents                                                           *)

\* An agent changes state; what is on disk only grows.
AgentChange(a, q) ==
    /\ agent' = [agent EXCEPT ![a] = q] /\ q \in AgentType
    /\ \/ q.st \in {"idle"}
       \/ q.rcpt = agent[a].rcpt /\ q.orphan = agent[a].orphan /\ Writer(a)
       \/ q.rcpt = agent[a].rcpt /\ q.orphan = agent[a].orphan /\ q.st = "dead" /\ Asked(a)
    /\ UNCHANGED <<cf, msg, daemon, age, crashes, reported>> /\ faults' \in 0..MaxFaults
    /\ file' \in FileType /\ file'.dir = file.dir /\ file'.todo \subseteq file.todo
    /\ file'.mode_ok => file.mode_ok
    /\ log' \in LogType /\ log.bounce \subseteq log'.bounce /\ log.defer \subseteq log'.defer
    /\ delivered' \in [Rcpts -> Nat] /\ \A r \in Rcpts : delivered[r] > 0 => delivered'[r] > 0
    /\ \A r \in file.todo \ file'.todo : Accounted(r)'
    /\ Writer(a) \/ UNCHANGED <<file, log, delivered>>

\* It is enough to look at the agent that changes state.
LEMMA AgentChangeStep ==
    ASSUME ActiveInv, NEW a \in Agents, NEW q, AgentChange(a, q), AgentInv(a)'
    PROVE  ActiveInv'
<1>1. TypeOK'
  BY TypeFrom DEF AgentChange, ActiveInv, TypeOK
<1>2. /\ agent'[a] = q /\ \A b \in Agents \ {a} : agent'[b] = agent[b]
      /\ UNCHANGED <<cf, msg, daemon, reported>>
      /\ file'.dir = file.dir /\ file'.todo \subseteq file.todo /\ (file'.mode_ok => file.mode_ok)
      /\ log.bounce \subseteq log'.bounce /\ log.defer \subseteq log'.defer
      /\ \A r \in Rcpts : delivered[r] > 0 => delivered'[r] > 0
  BY DEF AgentChange, ActiveInv, TypeOK
<1>3. \A r \in Rcpts : Accounted(r) => Accounted(r)'
  BY <1>2 DEF Accounted
<1>4. ASSUME NEW b \in Agents \ {a} PROVE AgentInv(b)'
  <2>1. AgentInv(b) /\ agent[b].rcpt \in Rcpts
    BY DEF ActiveInv, AgentsInv, TypeOK, AgentType
  <2> QED BY <1>2, <1>3, <2>1 DEF AgentInv, Asked, Writer
<1>5. Asked(a)' => Asked(a) /\ q.rcpt = agent[a].rcpt
  BY <1>2 DEF AgentChange, Asked, Writer
<1>6. AgentsInv'
  <2>1. \A b, c \in Agents : Asked(b)' /\ Asked(c)' /\ b # c => agent'[b].rcpt # agent'[c].rcpt
    BY <1>2, <1>5 DEF ActiveInv, AgentsInv, Asked
  <2> QED BY <1>4, <2>1 DEF AgentsInv
<1>7. MsgInv'
  BY <1>2 DEF ActiveInv, MsgInv, InCore
<1>8. CoverInv'
  BY <1>2 DEF ActiveInv, CoverInv, Covered, InCore
<1>9. AllLogged => AllLogged'
  BY <1>2 DEF AllLogged
<1>10. EndInv'
  BY <1>2, <1>9 DEF ActiveInv, EndInv
<1>11. DaemonsInv'
  <2>1. CASE \A d \in Daemons : daemon[d].st = "idle"
    BY <1>2, <2>1 DEF ActiveInv, DaemonsInv, DaemonInv
  <2>2. CASE \E d \in Daemons : daemon[d].st # "idle"
    <3>1. \A b \in Agents : ~Writer(b)
      BY <2>2 DEF ActiveInv, DaemonsInv, DaemonInv
    <3>2. UNCHANGED <<file, log>> /\ \A b \in Agents : ~Writer(b)'
      BY <1>2, <3>1 DEF AgentChange, Writer
    <3>3. ASSUME NEW d \in Daemons PROVE DaemonInv(d)'
      BY <1>2, <1>9, <3>2 DEF ActiveInv, DaemonsInv, DaemonInv
    <3> QED BY <1>2, <3>3 DEF ActiveInv, DaemonsInv
  <2> QED BY <2>1, <2>2
<1>12. NoSilentLoss'
  <2>1. \A r \in Rcpts : r \notin file'.todo => Accounted(r)'
    BY <1>2, <1>3 DEF AgentChange, ActiveInv, NoSilentLoss
  <2> QED BY <1>2, <1>3, <2>1 DEF ActiveInv, NoSilentLoss, Rcpts, NRcpt
<1> QED BY <1>1, <1>6, <1>7, <1>8, <1>10, <1>11, <1>12, <1>4 DEF ActiveInv

\* What is known about an agent.
LEMMA AgentFacts ==
    ASSUME ActiveInv, NEW a \in Agents
    PROVE  /\ agent[a] \in AgentType /\ agent \in [Agents -> AgentType]
           /\ agent[a].rcpt \in Rcpts /\ agent[a].orphan \in BOOLEAN
           /\ AgentInv(a)
           /\ file \in FileType /\ log \in LogType /\ delivered \in [Rcpts -> Nat]
           /\ faults \in 0..MaxFaults
BY DEF ActiveInv, TypeOK, AgentType, AgentsInv

\* The state changes, and nothing else of the agent.
LEMMA AgentTo ==
    ASSUME ActiveInv, NEW a \in Agents, NEW to \in AgentStates, NEW q, q = [agent[a] EXCEPT !.st = to]
    PROVE  q \in AgentType /\ q.st = to /\ q.rcpt = agent[a].rcpt /\ q.orphan = agent[a].orphan
BY AgentFacts DEF AgentType

\* An agent may go away at any time.
LEMMA AgentToIdle ==
    ASSUME ActiveInv, NEW a \in Agents, agent' = [agent EXCEPT ![a] = IdleAgent],
           faults' \in 0..MaxFaults,
           UNCHANGED <<cf, file, log, msg, daemon, age, crashes, delivered, reported>>
    PROVE  ActiveInv'
<1>1. AgentChange(a, IdleAgent)
  BY AgentFacts, IdleTypes DEF AgentChange, ActiveInv, IdleAgent
<1>2. AgentInv(a)'
  BY AgentFacts DEF AgentInv, Asked, Writer, IdleAgent
<1> QED BY <1>1, <1>2, AgentChangeStep

\* One lemma for each step of an agent: deliver_request_get, ...
LEMMA AgentOpenStep ==
    ASSUME ActiveInv, NEW a \in Agents, AgentOpen(a)
    PROVE  ActiveInv'
<1>1. agent[a].st = "req" /\ UNCHANGED <<cf, file, log, msg, daemon, age, faults, crashes, delivered, reported>>
  BY DEF AgentOpen
<1>2. CASE file.dir = "active" /\ file.mode_ok
  <2> DEFINE q == [agent[a] EXCEPT !.st = "open"]
  <2>1. agent' = [agent EXCEPT ![a] = q]
    BY <1>2 DEF AgentOpen
  <2>2. q \in AgentType /\ q.st = "open" /\ q.rcpt = agent[a].rcpt /\ q.orphan = agent[a].orphan
    BY AgentTo DEF AgentStates
  <2> HIDE DEF q
  <2>3. AgentChange(a, q)
    BY <1>1, <2>1, <2>2, AgentFacts DEF AgentChange, Writer
  <2>4. AgentInv(a)'
    BY <1>1, <2>1, <2>2, AgentFacts DEF AgentInv, Asked, Writer
  <2> QED BY <2>3, <2>4, AgentChangeStep
<1>3. CASE ~(file.dir = "active" /\ file.mode_ok) /\ ~agent[a].orphan
  <2> DEFINE q == [agent[a] EXCEPT !.st = "refused"]
  <2>1. agent' = [agent EXCEPT ![a] = q]
    BY <1>3, Zenon DEF AgentOpen, Gone
  <2>2. q \in AgentType /\ q.st = "refused" /\ q.rcpt = agent[a].rcpt /\ q.orphan = agent[a].orphan
    BY AgentTo DEF AgentStates
  <2> HIDE DEF q
  <2>3. AgentChange(a, q)
    BY <1>1, <2>1, <2>2, AgentFacts DEF AgentChange, Writer
  <2>4. ~file.mode_ok
    BY <1>1, <1>3, AgentFacts DEF AgentInv, Asked, ActiveInv, MsgInv, InHand
  <2>5. AgentInv(a)'
    BY <1>1, <1>3, <2>1, <2>2, <2>4, AgentFacts DEF AgentInv, Asked, Writer
  <2> QED BY <2>3, <2>5, AgentChangeStep
<1>4. CASE ~(file.dir = "active" /\ file.mode_ok) /\ agent[a].orphan
  <2>1. agent' = [agent EXCEPT ![a] = IdleAgent]
    BY <1>4, Zenon DEF AgentOpen, Gone
  <2> QED BY <1>1, <2>1, AgentToIdle, AgentFacts, Zenon
<1> QED BY <1>2, <1>3, <1>4, AgentFacts

\* ... delivery, ...
LEMMA AgentDeliverStep ==
    ASSUME ActiveInv, NEW a \in Agents, AgentDeliver(a)
    PROVE  ActiveInv'
<1> DEFINE q == [agent[a] EXCEPT !.st = "sent"]
           r == agent[a].rcpt
<1>1. /\ agent[a].st = "open" /\ agent' = [agent EXCEPT ![a] = q]
      /\ delivered' = [delivered EXCEPT ![r] = @ + 1]
      /\ UNCHANGED <<cf, file, log, msg, daemon, age, crashes, faults, reported>>
  BY DEF AgentDeliver, AgentStep
<1>2. q \in AgentType /\ q.st = "sent" /\ q.rcpt = r /\ q.orphan = agent[a].orphan
  BY AgentTo DEF AgentStates
<1>3. /\ delivered' \in [Rcpts -> Nat] /\ delivered'[r] > 0
      /\ \A s \in Rcpts : delivered[s] > 0 => delivered'[s] > 0
  BY <1>1, AgentFacts
<1> HIDE DEF q
<1>4. AgentChange(a, q)
  BY <1>1, <1>2, <1>3, AgentFacts DEF AgentChange, Writer
<1>5. AgentInv(a)'
  BY <1>1, <1>2, <1>3, AgentFacts DEF AgentInv, Asked, Writer
<1> QED BY <1>4, <1>5, AgentChangeStep

\* ... deliver_completed after sent() or bounce_append(), ...
LEMMA AgentMarkStep ==
    ASSUME ActiveInv, NEW a \in Agents, AgentSent(a) \/ AgentBounced(a)
    PROVE  ActiveInv'
<1> DEFINE q == [agent[a] EXCEPT !.st = "ok"]
           r == agent[a].rcpt
<1>1. /\ agent[a].st \in {"sent", "logged"} /\ agent' = [agent EXCEPT ![a] = q]
      /\ log' = log \/ log' = [log EXCEPT !.trace = @ \union {r}]
      /\ file' = [file EXCEPT !.todo = @ \ {r}]
      /\ UNCHANGED <<cf, msg, daemon, age, faults, crashes, delivered, reported>>
  BY DEF AgentSent, AgentBounced, AgentStep, Traced, Completed
<1>2. q \in AgentType /\ q.st = "ok" /\ q.rcpt = r /\ q.orphan = agent[a].orphan
  BY AgentTo DEF AgentStates
<1>3. /\ file' \in FileType /\ file'.dir = file.dir /\ file'.todo = file.todo \ {r}
      /\ file'.mode_ok = file.mode_ok
  BY <1>1, AgentFacts DEF FileType
<1>4. log' \in LogType /\ log'.bounce = log.bounce /\ log'.defer = log.defer
  BY <1>1, AgentFacts DEF LogType
<1>5. Accounted(r) /\ Accounted(r)'
  BY <1>1, <1>4, AgentFacts DEF AgentInv, Accounted
<1> HIDE DEF q
<1>6. AgentChange(a, q)
  BY <1>1, <1>2, <1>3, <1>4, <1>5, AgentFacts DEF AgentChange, Writer
<1>7. AgentInv(a)'
  BY <1>1, <1>2, <1>3, <1>5, AgentFacts DEF AgentInv, Asked, Writer
<1> QED BY <1>6, <1>7, AgentChangeStep

\* ... bounce_append, ...
LEMMA AgentBounceStep ==
    ASSUME ActiveInv, NEW a \in Agents, AgentBounce(a)
    PROVE  ActiveInv'
<1> DEFINE q == [agent[a] EXCEPT !.st = "logged"]
           r == agent[a].rcpt
<1>1. /\ agent[a].st = "open" /\ agent' = [agent EXCEPT ![a] = q]
      /\ \/ log' = [log EXCEPT !.bounce = @ \union {r}]
         \/ log' = [[log EXCEPT !.bounce = @ \union {r}] EXCEPT !.trace = @ \union {r}]
      /\ UNCHANGED <<cf, file, msg, daemon, age, faults, crashes, delivered, reported>>
  BY DEF AgentBounce, AgentStep, Traced
<1>2. q \in AgentType /\ q.st = "logged" /\ q.rcpt = r /\ q.orphan = agent[a].orphan
  BY AgentTo DEF AgentStates
<1>3. log' \in LogType /\ log'.bounce = log.bounce \union {r} /\ log'.defer = log.defer
  <2>1. log \in LogType /\ r \in Rcpts
    BY AgentFacts
  <2> DEFINE b == [log EXCEPT !.bounce = @ \union {r}]
  <2>2. b \in LogType /\ b.bounce = log.bounce \union {r} /\ b.defer = log.defer
    BY <2>1 DEF LogType
  <2>3. log' = b \/ log' = [b EXCEPT !.trace = @ \union {r}]
    BY <1>1
  <2> HIDE DEF b, r
  <2> QED BY <2>1, <2>2, <2>3 DEF LogType
<1> HIDE DEF q
<1>4. AgentChange(a, q)
  BY <1>1, <1>2, <1>3, AgentFacts DEF AgentChange, Writer
<1>5. AgentInv(a)'
  BY <1>1, <1>2, <1>3, AgentFacts DEF AgentInv, Asked, Writer, Accounted
<1> QED BY <1>4, <1>5, AgentChangeStep

\* ... defer_append, ...
LEMMA AgentDeferStep ==
    ASSUME ActiveInv, Reliable, NEW a \in Agents, NEW fails \in BOOLEAN, AgentDefer(a, fails)
    PROVE  ActiveInv'
<1> DEFINE q == [agent[a] EXCEPT !.st = "defer"]
           r == agent[a].rcpt
<1>1. /\ agent[a].st = "open" /\ agent' = [agent EXCEPT ![a] = q]
      /\ UNCHANGED <<cf, file, msg, daemon, age, crashes, delivered, reported>>
  BY DEF AgentDefer, AgentStep
<1>2. ~fails /\ faults' = faults
  BY ReliableFacts DEF AgentDefer, AppendOutcome, ActiveInv
<1>3. q \in AgentType /\ q.st = "defer" /\ q.rcpt = r /\ q.orphan = agent[a].orphan
  BY AgentTo DEF AgentStates
<1>4. \/ log' = [log EXCEPT !.defer = @ \union {r}]
      \/ log' = [[log EXCEPT !.defer = @ \union {r}] EXCEPT !.trace = @ \union {r}]
  BY <1>2 DEF AgentDefer, Deferred, Traced
<1>5. log' \in LogType /\ log'.bounce = log.bounce /\ log'.defer = log.defer \union {r}
  <2>1. log \in LogType /\ r \in Rcpts
    BY AgentFacts
  <2> HIDE DEF r
  <2>2. CASE log' = [log EXCEPT !.defer = @ \union {r}]
    BY <2>1, <2>2 DEF LogType
  <2>3. CASE log' = [[log EXCEPT !.defer = @ \union {r}] EXCEPT !.trace = @ \union {r}]
    BY <2>1, <2>3, Zenon DEF LogType
  <2> QED BY <1>4, <2>2, <2>3
<1> HIDE DEF q
<1>6. AgentChange(a, q)
  BY <1>1, <1>2, <1>3, <1>5, AgentFacts DEF AgentChange, Writer
<1>7. AgentInv(a)'
  BY <1>1, <1>3, <1>5, AgentFacts DEF AgentInv, Asked, Writer
<1> QED BY <1>6, <1>7, AgentChangeStep

\* ... mark_corrupt, ...
LEMMA AgentCorruptStep ==
    ASSUME ActiveInv, NEW a \in Agents, AgentCorrupt(a)
    PROVE  ActiveInv'
<1> DEFINE q == [agent[a] EXCEPT !.st = "defer"]
<1>1. /\ agent[a].st = "open" /\ agent' = [agent EXCEPT ![a] = q]
      /\ file' = [file EXCEPT !.mode_ok = FALSE]
      /\ UNCHANGED <<cf, log, msg, daemon, age, faults, crashes, delivered, reported>>
  BY DEF AgentCorrupt, AgentStep
<1>2. q \in AgentType /\ q.st = "defer" /\ q.rcpt = agent[a].rcpt /\ q.orphan = agent[a].orphan
  BY AgentTo DEF AgentStates
<1>3. /\ file' \in FileType /\ file'.dir = file.dir /\ file'.todo = file.todo
      /\ ~file'.mode_ok
  BY <1>1, AgentFacts, Zenon DEF FileType
<1> HIDE DEF q
<1>4. AgentChange(a, q)
  BY <1>1, <1>2, <1>3, AgentFacts DEF AgentChange, Writer
<1>5. AgentInv(a)'
  BY <1>1, <1>2, <1>3, AgentFacts DEF AgentInv, Asked, Writer
<1> QED BY <1>4, <1>5, AgentChangeStep

\* ... and its end.
LEMMA AgentEndStep ==
    ASSUME ActiveInv, NEW a \in Agents, AgentClose(a) \/ AgentDies(a)
    PROVE  ActiveInv'
<1>1. /\ UNCHANGED <<cf, file, log, msg, daemon, age, crashes, delivered, reported>>
      /\ faults' \in 0..MaxFaults
  BY AgentFacts, CfFacts DEF AgentClose, AgentDies, Fault, ActiveInv
<1>2. CASE agent' = [agent EXCEPT ![a] = IdleAgent]
  BY <1>1, <1>2, AgentToIdle, Zenon
<1>3. CASE AgentDies(a) /\ ~agent[a].orphan
  <2> DEFINE q == [agent[a] EXCEPT !.st = "dead"]
  <2>1. agent' = [agent EXCEPT ![a] = q] /\ Asked(a)
    BY <1>3 DEF AgentDies, Gone, Asked
  <2>2. q \in AgentType /\ q.st = "dead" /\ q.rcpt = agent[a].rcpt /\ q.orphan = agent[a].orphan
    BY AgentTo DEF AgentStates
  <2> HIDE DEF q
  <2>3. AgentChange(a, q)
    BY <1>1, <2>1, <2>2, AgentFacts DEF AgentChange
  <2>4. AgentInv(a)'
    BY <1>1, <2>1, <2>2, AgentFacts DEF AgentInv, Asked, Writer
  <2> QED BY <2>3, <2>4, AgentChangeStep
<1> QED BY <1>2, <1>3, AgentFacts DEF AgentClose, AgentDies, Gone

-----------------------------------------------------------------------------
(* Notification daemons                                                      *)

\* A daemon that answered, and closed its files.
Ended(p, st, f) ==
    /\ f \in DaemonType /\ f.log = "none"
    /\ p.orphan => f.st = "idle"
    /\ ~p.orphan => f.st = st /\ f.cmd = p.cmd /\ f.orphan = FALSE

\* What Finish leaves of a daemon.
LEMMA FinishFacts ==
    ASSUME TypeOK, NEW p \in DaemonType, NEW st \in {"ok", "fail", "dead"}
    PROVE  Ended(p, st, Finish(p, st))
<1>1. CASE p.orphan
  BY <1>1, IdleTypes DEF Ended, Finish, IdleDaemon
<1>2. CASE ~p.orphan
  BY <1>2, Zenon DEF Ended, Finish, IdleDaemon, DaemonType
<1> QED BY <1>1, <1>2

\* While a daemon works, it is the only one, and no agent is at work.
LEMMA OneDaemon ==
    ASSUME ActiveInv, NEW d \in Daemons, daemon[d].st # "idle"
    PROVE  /\ \A e \in Daemons \ {d} : daemon[e].st = "idle" /\ daemon[e].log = "none"
           /\ daemon[d] \in DaemonType /\ daemon \in [Daemons -> DaemonType]
           /\ DaemonInv(d)
           /\ \A a \in Agents : ~Writer(a) /\ ~Asked(a)
BY DEF ActiveInv, TypeOK, DaemonsInv, DaemonInv, AgentsInv, AgentInv

\* A daemon gives up.
LEMMA DaemonEnds ==
    ASSUME ActiveInv, NEW d \in Daemons, NEW st \in {"fail", "dead"}, daemon[d].st # "idle",
           daemon' = [daemon EXCEPT ![d] = Finish(@, st)],
           UNCHANGED <<file, log, msg, agent, reported>>
    PROVE  DaemonsInv'
<1> DEFINE f == Finish(daemon[d], st)
<1>1. TypeOK /\ daemon[d] \in DaemonType /\ st \in {"ok", "fail", "dead"}
  BY OneDaemon DEF ActiveInv
<1>2. Ended(daemon[d], st, f)
  BY <1>1, FinishFacts, Zenon
<1> HIDE DEF f
<1>3. daemon'[d] = f /\ \A e \in Daemons \ {d} : daemon'[e] = daemon[e]
  BY OneDaemon DEF f
<1>4. (\A a \in Agents : ~Writer(a))' /\ (AllLogged => AllLogged')
  BY OneDaemon DEF Writer, AllLogged
<1>5. \A e \in Daemons \ {d} : DaemonInv(e)'
  BY <1>3, OneDaemon DEF DaemonInv
<1>6. daemon[d].orphan = FALSE \/ daemon[d].orphan = TRUE
  BY OneDaemon DEF DaemonType
<1>7. DaemonInv(d)'
  BY <1>2, <1>3, <1>4, <1>6, OneDaemon, Zenon DEF DaemonInv, Ended
<1> QED BY <1>3, <1>5, <1>7, OneDaemon DEF DaemonsInv

\* A daemon that fails or dies keeps the invariant.
LEMMA DaemonEndSteps ==
    ASSUME ActiveInv, NEW d \in Daemons, DaemonPostFails(d) \/ DaemonDies(d)
    PROVE  ActiveInv'
<1>1. PICK st \in {"fail", "dead"} : daemon' = [daemon EXCEPT ![d] = Finish(@, st)]
  BY DEF DaemonPostFails, DaemonDies
<1>2. /\ daemon[d].st # "idle"
      /\ UNCHANGED <<cf, file, log, msg, agent, age, crashes, delivered, reported>>
      /\ faults' \in 0..MaxFaults
  BY CfFacts DEF DaemonPostFails, DaemonDies, Fault, ActiveInv, TypeOK
<1>3. TypeOK'
  <2>1. TypeOK /\ daemon[d] \in DaemonType /\ daemon \in [Daemons -> DaemonType]
    BY DEF ActiveInv, TypeOK
  <2>2. Ended(daemon[d], st, Finish(daemon[d], st))
    <3>1. st \in {"ok", "fail", "dead"}
      OBVIOUS
    <3> QED BY <2>1, <3>1, FinishFacts, Zenon
  <2>3. daemon' \in [Daemons -> DaemonType]
    BY <1>1, <2>1, <2>2 DEF Ended
  <2> QED BY <1>2, <2>3, TypeFrom DEF ActiveInv, TypeOK
<1>4. AgentsInv' /\ MsgInv' /\ CoverInv' /\ EndInv' /\ NoSilentLoss'
  BY <1>2 DEF ActiveInv, AgentsInv, AgentInv, Asked, Writer, Accounted, MsgInv, InCore, CoverInv,
    Covered, EndInv, AllLogged, NoSilentLoss, Rcpts, NRcpt
<1>5. DaemonsInv'
  BY <1>1, <1>2, DaemonEnds, Zenon
<1> QED BY <1>3, <1>4, <1>5 DEF ActiveInv

\* The types after bounce_mail_init.
LEMMA DaemonOpenType ==
    ASSUME ActiveInv, NEW d \in Daemons, DaemonOpen(d)
    PROVE  daemon' \in [Daemons -> DaemonType]
<1>1. daemon[d] \in DaemonType /\ daemon \in [Daemons -> DaemonType]
  BY DEF ActiveInv, TypeOK
<1>2. PICK l \in {"none", "live"}, k \in BOOLEAN :
        daemon' = [daemon EXCEPT ![d].st = "open", ![d].locks = k, ![d].log = l]
  BY Zenon DEF DaemonOpen
<1> QED BY <1>1, <1>2, ZenonT(30) DEF DaemonType

\* bounce_mail_init keeps the invariant.
LEMMA DaemonOpenStep ==
    ASSUME ActiveInv, NEW d \in Daemons, DaemonOpen(d)
    PROVE  ActiveInv'
<1>1. /\ daemon[d].st = "req"
      /\ UNCHANGED <<cf, file, log, msg, agent, age, faults, crashes, delivered, reported>>
  BY DEF DaemonOpen
<1>2. TypeOK'
  BY <1>1, DaemonOpenType, TypeFrom DEF ActiveInv, TypeOK
<1>3. AgentsInv' /\ MsgInv' /\ CoverInv' /\ EndInv' /\ NoSilentLoss'
  BY <1>1 DEF ActiveInv, AgentsInv, AgentInv, Asked, Writer, Accounted, MsgInv, InCore, CoverInv,
    Covered, EndInv, AllLogged, NoSilentLoss, Rcpts, NRcpt
<1>4. DaemonsInv'
  <2> DEFINE p == daemon[d]
             q == daemon'[d]
  <2>1. /\ \A e \in Daemons \ {d} : daemon'[e] = daemon[e]
        /\ q.st = "open" /\ q.cmd = p.cmd /\ q.orphan = p.orphan
        /\ q.log = IF log[LogName(p.cmd)] = {} THEN "none" ELSE "live"
    <3>1. daemon[d] \in DaemonType /\ daemon \in [Daemons -> DaemonType]
      BY <1>1, OneDaemon
    <3>2. PICK k \in BOOLEAN, l \in {"none", "live"} :
            /\ daemon' = [daemon EXCEPT ![d].st = "open", ![d].locks = k, ![d].log = l]
            /\ l = IF log[LogName(p.cmd)] = {} THEN "none" ELSE "live"
      BY Zenon DEF DaemonOpen
    <3> QED BY <3>1, <3>2 DEF DaemonType
  <2>2. (\A a \in Agents : ~Writer(a))' /\ (AllLogged => AllLogged')
    BY <1>1, OneDaemon DEF Writer, AllLogged
  <2>3. \A e \in Daemons \ {d} : DaemonInv(e)'
    BY <1>1, <2>1, OneDaemon DEF DaemonInv
  <2>4. DaemonInv(d)'
    BY <1>1, <2>1, <2>2, OneDaemon DEF DaemonInv
  <2> QED BY <1>1, <2>1, <2>3, <2>4, OneDaemon DEF DaemonsInv
<1> QED BY <1>2, <1>3, <1>4 DEF ActiveInv

\* When the notification is posted, the sender knows what is in the log, or,
\* without a log, about every recipient that is left.
LEMMA DaemonPostDaemons ==
    ASSUME ActiveInv, NEW d \in Daemons, DaemonPost(d)
    PROVE  DaemonsInv'
<1> DEFINE p == daemon[d]
           q == daemon'[d]
<1>1. p.st = "open" /\ UNCHANGED <<file, log, msg, agent>>
  BY DEF DaemonPost
<1>2. \A e \in Daemons \ {d} : daemon'[e] = daemon[e]
  BY <1>1, OneDaemon DEF DaemonPost
<1>3. \A e \in Daemons \ {d} : DaemonInv(e)'
  BY <1>1, <1>2, OneDaemon DEF DaemonInv
<1>4. (\A a \in Agents : ~Writer(a))' /\ reported \subseteq reported' /\ (AllLogged => AllLogged')
  BY <1>1, OneDaemon DEF Writer, AllLogged, DaemonPost
<1>5. CASE p.cmd = "warn" \/ (p.cmd = "trace" /\ p.log = "none")
  <2>1. q = Finish(p, "ok")
    BY <1>5, <1>1, OneDaemon DEF DaemonPost
  <2>2. Ended(p, "ok", q)
    <3>1. TypeOK /\ p \in DaemonType
      BY <1>1, OneDaemon DEF ActiveInv
    <3> HIDE DEF p
    <3> QED BY <2>1, <3>1, FinishFacts, Zenon
  <2>3. p.orphan = FALSE \/ p.orphan = TRUE
    BY <1>1, OneDaemon DEF DaemonType
  <2>4. DaemonInv(d)'
    BY <1>1, <1>4, <1>5, <2>2, <2>3, OneDaemon, ZenonT(30) DEF DaemonInv, Ended
  <2> QED BY <1>1, <1>2, <1>3, <2>4, OneDaemon DEF DaemonsInv
<1>6. CASE ~(p.cmd = "warn" \/ (p.cmd = "trace" /\ p.log = "none"))
  <2>1. q.st = "posted" /\ q.cmd = p.cmd /\ q.orphan = p.orphan /\ q.log = p.log
    BY <1>6, <1>1, OneDaemon DEF DaemonPost, DaemonType
  <2>2. p.log \in {"none", "live"} /\ p.cmd \in {"bounce", "trace", "flush"}
    BY <1>1, <1>6, OneDaemon DEF DaemonInv, DaemonType
  <2>6. DaemonInv(d)'
    <3>1. CASE p.cmd = "trace"
      BY <1>1, <1>4, <2>1, <2>2, <3>1, OneDaemon DEF DaemonInv
    <3>2. CASE p.cmd # "trace" /\ p.log = "none"
      <4>1. reported' = reported \union file.todo
        BY <2>2, <3>2 DEF DaemonPost
      <4> QED BY <1>1, <1>4, <2>1, <2>2, <3>2, <4>1, OneDaemon DEF DaemonInv, LogName
    <3>3. CASE p.cmd # "trace" /\ p.log = "live"
      <4>1. reported' = reported \union log[LogName(p.cmd)]
        BY <2>2, <3>3 DEF DaemonPost, Records
      <4> QED BY <1>1, <1>4, <2>1, <2>2, <3>3, <4>1, OneDaemon DEF DaemonInv, LogName, AllLogged
    <3> QED BY <2>2, <3>1, <3>2, <3>3
  <2> QED BY <1>1, <1>2, <1>3, <2>6, OneDaemon DEF DaemonsInv
<1> QED BY <1>5, <1>6

\* Posting a notification keeps the invariant.
LEMMA DaemonPostStep ==
    ASSUME ActiveInv, NEW d \in Daemons, DaemonPost(d)
    PROVE  ActiveInv'
<1>1. /\ daemon[d].st = "open"
      /\ UNCHANGED <<cf, file, log, msg, agent, age, crashes, faults, delivered>>
  BY DEF DaemonPost
<1>2. /\ TypeOK /\ daemon[d] \in DaemonType /\ daemon \in [Daemons -> DaemonType]
      /\ \A a \in Agents : ~Writer(a) /\ ~Asked(a)
      /\ daemon[d].log \in {"none", "live"}
  BY <1>1, OneDaemon DEF ActiveInv, DaemonInv, DaemonType
<1>3. reported \subseteq reported' /\ reported' \in SUBSET Rcpts
  <2>1. \A name \in {"bounce", "defer", "trace"} : log[name] \subseteq Rcpts
    BY <1>2 DEF TypeOK, LogType
  <2>2. LogName(daemon[d].cmd) \in {"bounce", "defer", "trace"}
    BY DEF LogName
  <2>3. Records(daemon[d]) \subseteq Rcpts
    BY <1>2, <2>1, <2>2 DEF Records
  <2> QED BY <1>2, <2>3 DEF DaemonPost, TypeOK, FileType
<1>4. daemon' \in [Daemons -> DaemonType]
  <2>1. Ended(daemon[d], "ok", Finish(daemon[d], "ok"))
    BY <1>2, FinishFacts, Zenon
  <2>2. [daemon[d] EXCEPT !.st = "posted"] \in DaemonType
    BY <1>2 DEF DaemonType
  <2> QED BY <1>2, <2>1, <2>2 DEF DaemonPost, Ended
<1>5. TypeOK'
  BY <1>1, <1>3, <1>4, TypeFrom DEF ActiveInv, TypeOK
<1>6. AgentsInv'
  BY <1>1, <1>2 DEF AgentsInv, AgentInv, Asked, Writer
<1>7. MsgInv' /\ CoverInv' /\ EndInv'
  BY <1>1, <1>3 DEF ActiveInv, MsgInv, InCore, CoverInv, Covered, EndInv, AllLogged
<1>8. NoSilentLoss'
  BY <1>1, <1>3 DEF ActiveInv, NoSilentLoss, Accounted, Rcpts, NRcpt
<1> QED BY <1>5, <1>6, <1>7, <1>8, DaemonPostDaemons DEF ActiveInv

\* The records that a daemon removes are all in a notification.
LEMMA DaemonCleanStep ==
    ASSUME ActiveInv, NEW d \in Daemons, DaemonClean(d)
    PROVE  ActiveInv'
<1> DEFINE p == daemon[d]
           q == Finish(p, "ok")
<1>1. p.st = "posted" /\ UNCHANGED <<cf, msg, agent, age, faults, crashes, delivered, reported>>
  BY DEF DaemonClean
<1>2. /\ TypeOK /\ p \in DaemonType /\ daemon \in [Daemons -> DaemonType] /\ DaemonInv(d)
      /\ \A e \in Daemons \ {d} : daemon[e].st = "idle" /\ daemon[e].log = "none"
      /\ \A a \in Agents : ~Writer(a) /\ ~Asked(a)
  BY <1>1, OneDaemon DEF ActiveInv
<1>3. Ended(p, "ok", q)
  <2> HIDE DEF p
  <2> QED BY <1>2, FinishFacts, Zenon
<1>4. p.log \in {"none", "live"} /\ p.cmd \in {"bounce", "trace", "flush"} /\ p.orphan \in BOOLEAN
  BY <1>1, <1>2 DEF DaemonInv, DaemonType
<1>5. /\ log' \in LogType
      /\ p.cmd = "bounce" => log'.bounce = {} /\ log'.defer = log.defer
      /\ p.cmd = "trace" => log'.bounce = log.bounce /\ log'.defer = log.defer
      /\ p.cmd = "flush" => log'.bounce = log.bounce /\ log'.defer = {}
  BY <1>2, <1>4 DEF DaemonClean, LogName, TypeOK, LogType
<1>6. Records(p) \subseteq log[LogName(p.cmd)]
  BY <1>4 DEF Records
<1>7. /\ file' \in FileType /\ file'.dir = file.dir /\ file'.mode_ok = file.mode_ok
      /\ file'.todo \subseteq file.todo
      /\ p.cmd # "flush" => file'.todo = file.todo
      /\ file.todo \ file'.todo \subseteq reported
  <2>1. p.cmd = "flush" => Records(p) \subseteq reported
    BY <1>1, <1>2, <1>6 DEF DaemonInv, LogName
  <2>2. file' = file \/ (p.cmd = "flush" /\ file' = [file EXCEPT !.todo = @ \ Records(p)])
    BY DEF DaemonClean, Completed
  <2> HIDE DEF p
  <2> QED BY <1>2, <2>1, <2>2 DEF TypeOK, FileType
<1>8. daemon' = [Unlinked(daemon, LogName(p.cmd)) EXCEPT ![d] = q]
  BY DEF DaemonClean
<1>9. /\ daemon' \in [Daemons -> DaemonType] /\ daemon'[d] = q
      /\ \A e \in Daemons \ {d} : daemon'[e] = daemon[e]
  <2> DEFINE u == Unlinked(daemon, LogName(p.cmd))
  <2>1. DOMAIN u = Daemons /\ \A e \in Daemons \ {d} : u[e] = daemon[e]
    BY <1>2, Zenon DEF Unlinked
  <2>2. u = [e \in Daemons |-> u[e]]
    BY DEF Unlinked
  <2> HIDE DEF u, p, q
  <2>3. daemon' = [u EXCEPT ![d] = q]
    BY <1>8 DEF u
  <2>4. daemon' = [e \in Daemons |-> IF e = d THEN q ELSE daemon[e]]
    BY <2>1, <2>2, <2>3
  <2> QED BY <2>4, <1>2, <1>3 DEF Ended
<1> HIDE DEF p, q
<1>10. TypeOK'
  BY <1>1, <1>2, <1>5, <1>7, <1>9, TypeFrom DEF TypeOK
<1>11. AgentsInv'
  BY <1>1, <1>2 DEF AgentsInv, AgentInv, Asked, Writer
<1>12. MsgInv'
  BY <1>1, <1>7 DEF ActiveInv, MsgInv, InCore
<1>13. p.cmd = "flush" /\ ~p.orphan => file.todo \subseteq reported
  BY <1>1, <1>2 DEF DaemonInv, p
<1>14. p.orphan = (msg.st = "down") /\ msg.st \in {"wait", "down"}
  BY <1>1, <1>2 DEF DaemonInv, p
<1>15. CoverInv'
  BY <1>1, <1>4, <1>5, <1>7, <1>13, <1>14, ZenonT(30) DEF ActiveInv, CoverInv, Covered, InCore, InHand
<1>16. EndInv'
  BY <1>1, <1>14 DEF EndInv
<1>17. ~p.orphan /\ p.cmd # "bounce" => AllLogged'
  <2>1. ~p.orphan /\ p.cmd # "bounce" => AllLogged
    BY <1>1, <1>2 DEF DaemonInv, p
  <2> QED BY <2>1, <1>1, <1>4, <1>5, <1>7, <1>13 DEF AllLogged
<1>18. DaemonInv(d)'
  BY <1>1, <1>2, <1>3, <1>4, <1>7, <1>9, <1>13, <1>14, <1>17, Zenon DEF DaemonInv, Ended, Writer
<1>19. \A e \in Daemons \ {d} : DaemonInv(e)'
  BY <1>2, <1>9 DEF DaemonInv
<1>20. DaemonsInv'
  BY <1>2, <1>9, <1>18, <1>19 DEF DaemonsInv
<1>21. log.bounce \ log'.bounce \subseteq reported
  BY <1>1, <1>2, <1>4, <1>5 DEF DaemonInv, p
<1>22. NoSilentLoss'
  BY <1>1, <1>7, <1>21 DEF ActiveInv, NoSilentLoss, Accounted, Rcpts, NRcpt
<1> QED BY <1>10, <1>11, <1>12, <1>15, <1>16, <1>20, <1>22 DEF ActiveInv

-----------------------------------------------------------------------------
(* Queue manager: reading and delivering                                     *)

\* qmgr_message_read skips no record that is not marked as done.
LEMMA ReadEffectStep ==
    ASSUME ActiveInv, NEW l \in LogType, NEW n \in 1..RcptLimit, NEW B, B = Batch(msg.offset, n),
           ReadEffect(l, n, B), l.bounce = log.bounce,
           \/ msg.st \in {"deliver", "done2"} /\ l = log /\ msg.offset > 0
           \/ msg.st = "feed" /\ \A a \in Agents : ~Writer(a),
           UNCHANGED <<cf, agent, daemon, age, crashes, reported>>
    PROVE  ActiveInv'
<1> DEFINE o == msg'.offset
<1>1. TypeOK'
  BY TypeFrom DEF ActiveInv, TypeOK, ReadEffect
<1>2. /\ o \in Nat /\ msg.offset \in Nat
      /\ \A r \in B : r >= msg.offset
      /\ \A r \in file.todo \ B : r >= msg.offset => o > 0 /\ r >= o
      /\ o > 0 => msg.offset < o /\ \A r \in B : r < o
  <2>1. TypeOK /\ o = NextOffset(msg.offset, n)
    BY DEF ActiveInv, ReadEffect
  <2> HIDE DEF o
  <2> QED BY <2>1, OffsetFacts DEF TypeOK, MsgType
<1>3. file.todo \subseteq Rcpts /\ Rcpts \subseteq Nat /\ InCore(msg) \subseteq Rcpts
  BY CfFacts DEF ActiveInv, TypeOK, FileType, MsgType, InCore
<1>4. PICK T \in SUBSET B, R \in SUBSET B :
         /\ T \intersect R = {}
         /\ msg'.todo = msg.todo \union T /\ msg'.retry = msg.retry \union R
         /\ \A r \in B \ (T \union R) :
              r \notin file'.todo \/ (msg'.flags /\ r \in log'.defer)
  BY DEF ReadEffect
<1>5. /\ B \subseteq file.todo /\ msg'.busy = msg.busy
      /\ msg'.st = IF InCore(msg') = {} THEN "done" ELSE "deliver"
      /\ file'.dir = file.dir /\ file'.mode_ok = file.mode_ok /\ file'.todo \subseteq file.todo
      /\ (msg.flags => msg'.flags) /\ log'.bounce = log.bounce /\ l.defer \subseteq log'.defer
      /\ \A r \in Rcpts : delivered'[r] >= delivered[r]
      /\ \A r \in file.todo \ file'.todo : delivered'[r] > 0
  BY DEF ReadEffect
<1>6. InCore(msg') = InCore(msg) \union T \union R
  BY <1>4, <1>5 DEF InCore
<1>7. file.dir = "active" /\ (msg.offset = 0 => InCore(msg) = {} /\ msg.st = "feed")
      /\ \A r \in InCore(msg) : r < msg.offset
  BY <1>2 DEF ActiveInv, MsgInv, InHand
<1> HIDE DEF o
<1>8. ASSUME NEW a \in Agents PROVE AgentInv(a)'
  <2>1. AgentInv(a) /\ delivered \in [Rcpts -> Nat] /\ delivered' \in [Rcpts -> Nat] /\ agent[a].rcpt \in Rcpts
    BY DEF ActiveInv, AgentsInv, ReadEffect, TypeOK, AgentType
  <2>2. CASE msg.st = "feed"
    BY <2>1, <2>2 DEF AgentInv, Asked, Writer
  <2>3. CASE msg.st \in {"deliver", "done2"} /\ l = log
    <3>1. Asked(a) => msg'.st = "deliver" /\ agent[a].rcpt \in msg'.busy
      BY <2>1, <2>3, <1>5 DEF AgentInv, InCore
    <3>2. ~(Writer(a) /\ agent[a].orphan)
      BY <2>1, <2>3 DEF AgentInv
    <3>3. delivered'[agent[a].rcpt] >= delivered[agent[a].rcpt]
      BY <1>5, <2>1, Zenon
    <3>4. delivered[agent[a].rcpt] > 0 => delivered'[agent[a].rcpt] > 0
      BY <3>3, <2>1
    <3> QED BY <1>5, <2>1, <2>3, <3>1, <3>2, <3>4 DEF AgentInv, Asked, Writer, Accounted
  <2> QED BY <2>2, <2>3
<1>9. AgentsInv'
  BY <1>8 DEF ActiveInv, AgentsInv, Asked
<1>10. MsgInv'
  <2>1. \A r \in B : r \notin InCore(msg)
    <3> SUFFICES ASSUME NEW r \in B, r \in InCore(msg) PROVE FALSE
      OBVIOUS
    <3>1. r \in Nat /\ msg.offset \in Nat /\ r >= msg.offset /\ r < msg.offset
      BY <1>2, <1>3, <1>7, Zenon
    <3> QED BY <3>1
  <2>2. /\ msg'.todo \intersect msg'.retry = {} /\ msg'.todo \intersect msg'.busy = {}
        /\ msg'.retry \intersect msg'.busy = {}
    BY <1>4, <1>5, <2>1, Zenon DEF ActiveInv, MsgInv, InCore
  <2>3. o > 0 => \A r \in InCore(msg') : r < o
    <3> SUFFICES ASSUME o > 0, NEW r \in InCore(msg') PROVE r < o
      OBVIOUS
    <3>1. CASE r \in B
      BY <1>2, <3>1
    <3>2. CASE r \in InCore(msg)
      <4>1. r \in Nat /\ r < msg.offset /\ msg.offset < o /\ msg.offset \in Nat /\ o \in Nat
        BY <1>2, <1>3, <1>7, <3>2, Zenon
      <4> QED BY <4>1
    <3> QED BY <1>6, <3>1, <3>2
  <2> QED BY <1>5, <1>7, <2>2, <2>3 DEF MsgInv, o, InHand
<1>11. CoverInv'
  <2> SUFFICES ASSUME NEW r \in file'.todo \ InCore(msg')
               PROVE (o > 0 /\ r >= o) \/ Covered(r)'
    BY DEF CoverInv, o
  <2>4. r \in Nat /\ msg.offset \in Nat
    BY <1>2, <1>3, <1>5, ZenonT(30)
  <2>1. CASE r \in B
    BY <2>1, <1>4, <1>6 DEF Covered
  <2>2. CASE r \notin B /\ r >= msg.offset
    BY <2>2, <1>2, <1>5
  <2>3. CASE r < msg.offset
    <3>0. msg.offset # 0
      BY <2>3, <2>4
    <3>1. msg.st \in {"deliver", "done2"} /\ l = log
      BY <3>0 DEF ActiveInv, MsgInv
    <3>2. ~(r >= msg.offset) /\ r \in file.todo \ InCore(msg)
      BY <2>3, <2>4, <1>5, <1>6
    <3>3. Covered(r)
      BY <3>1, <3>2 DEF ActiveInv, CoverInv, InHand
    <3> QED BY <3>1, <3>3, <1>5 DEF Covered
  <2> QED BY <2>1, <2>2, <2>3, <2>4
<1>12. EndInv'
  BY <1>5 DEF EndInv
<1>13. DaemonsInv'
  <2>1. \A e \in Daemons : daemon[e].st = "idle" /\ daemon[e].log = "none"
    BY DEF ActiveInv, DaemonsInv, DaemonInv
  <2> QED BY <2>1 DEF DaemonsInv, DaemonInv
<1>14. NoSilentLoss'
  <2>1. ASSUME NEW r \in Rcpts, r \notin file'.todo PROVE Accounted(r)'
    <3>1. CASE r \in file.todo
      BY <2>1, <3>1, <1>5 DEF Accounted
    <3>2. CASE r \notin file.todo
      <4>1. Accounted(r) /\ delivered[r] \in Nat /\ delivered'[r] \in Nat
        BY <3>2, Zenon DEF ActiveInv, NoSilentLoss, ReadEffect, TypeOK
      <4> QED BY <4>1, <1>5 DEF Accounted
    <3> QED BY <3>1, <3>2
  <2> QED BY <1>5, <1>7, <2>1 DEF NoSilentLoss, Rcpts, NRcpt
<1> QED BY <1>1, <1>9, <1>10, <1>11, <1>12, <1>13, <1>14 DEF ActiveInv

\* The three callers of qmgr_message_read.
LEMMA ReadSteps ==
    ASSUME ActiveInv, Reliable, NEW n \in 1..RcptLimit, NEW fails \in BOOLEAN,
           NEW how \in Resolutions(n),
           Alloc(n, how, fails) \/ Refill(n, how, fails) \/ Done2Realloc(n, how, fails)
    PROVE  ActiveInv'
<1> DEFINE B == Batch(msg.offset, n)
<1>0. TypeOK /\ ~AppendFails /\ log \in LogType
  BY ReliableFacts DEF ActiveInv, TypeOK
<1>1. CASE Alloc(n, how, fails)
  <2> DEFINE l == [log EXCEPT !.defer = {}]
  <2>1. /\ ReadRecipients(l, n, how, fails) /\ msg.st = "feed" /\ ~Locked
        /\ daemon' = Unlinked(daemon, "defer") /\ UNCHANGED <<cf, agent, age, crashes, reported>>
    BY <1>1 DEF Alloc
  <2>2. l \in LogType /\ l.bounce = log.bounce
    BY DEF ActiveInv, TypeOK, LogType
  <2>3. \A d \in Daemons : daemon[d].log = "none"
    BY <2>1 DEF ActiveInv, DaemonsInv, DaemonInv
  <2>4. daemon' = daemon
    BY <2>1, <2>3, Zenon DEF Unlinked, ActiveInv, TypeOK
  <2>5. \A a \in Agents : ~Writer(a)
    BY <2>1 DEF Locked, Writer, ActiveInv, AgentsInv, AgentInv, Asked
  <2> HIDE DEF l
  <2>6. ReadEffect(l, n, B)
    BY <1>0, <2>1, <2>2, ReadFacts, Zenon
  <2> HIDE DEF B
  <2> QED BY <2>1, <2>2, <2>4, <2>5, <2>6, ReadEffectStep DEF B
<1>2. CASE Refill(n, how, fails) \/ Done2Realloc(n, how, fails)
  <2>1. /\ ReadRecipients(log, n, how, fails) /\ msg.st \in {"deliver", "done2"} /\ msg.offset > 0
        /\ UNCHANGED <<cf, agent, daemon, age, crashes, reported>>
    BY <1>2 DEF Refill, Done2Realloc
  <2>2. ReadEffect(log, n, B)
    BY <1>0, <2>1, ReadFacts, Zenon
  <2> QED BY <1>0, <2>1, <2>2, ReadEffectStep
<1> QED BY <1>1, <1>2

\* qmgr_deliver picks an entry that no other agent works on.
LEMMA SendRequestAgents ==
    ASSUME ActiveInv, NEW a \in Agents, NEW r \in Rcpts, SendRequest(a, r)
    PROVE  agent' \in [Agents -> AgentType] /\ AgentsInv'
<1> DEFINE p == [st |-> "req", rcpt |-> r, retry |-> r \in msg.retry,
                 trace |-> file.trace, orphan |-> FALSE]
<1>1. /\ p \in AgentType /\ p.st = "req" /\ ~p.orphan /\ p.rcpt = r
      /\ agent' = [agent EXCEPT ![a] = p]
  BY CfFacts DEF ActiveInv, SendRequest, AgentType, AgentStates
<1> HIDE DEF p
<1>2. agent' \in [Agents -> AgentType]
  BY <1>1 DEF ActiveInv, TypeOK
<1>3. /\ msg'.st = "deliver" /\ r \notin msg.busy
      /\ msg'.busy = msg.busy \union {r}
      /\ UNCHANGED <<file, log, delivered, reported>>
  BY DEF SendRequest, ActiveInv, TypeOK, MsgType, MsgInv
<1>4. agent'[a] = p /\ \A b \in Agents \ {a} : agent'[b] = agent[b]
  BY <1>1 DEF ActiveInv, TypeOK
<1>5. msg.st = "deliver"
  BY DEF SendRequest
<1>6. ASSUME NEW b \in Agents PROVE AgentInv(b)'
  <2>1. CASE b = a
    BY <1>1, <1>3, <1>4, <2>1 DEF AgentInv, Asked, Writer
  <2>2. CASE b # a
    BY <1>3, <1>4, <1>5, <2>2 DEF ActiveInv, AgentsInv, AgentInv, Asked, Writer, Accounted
  <2> QED BY <2>1, <2>2
<1>7. ASSUME NEW b \in Agents, NEW c \in Agents, Asked(b)', Asked(c)', b # c
      PROVE  agent'[b].rcpt # agent'[c].rcpt
  <2>1. ASSUME NEW e \in Agents, e # a, Asked(e)' PROVE agent'[e].rcpt # r
    BY <1>3, <1>4, <2>1 DEF ActiveInv, AgentsInv, AgentInv, Asked
  <2>2. CASE b = a
    BY <1>1, <1>4, <1>7, <2>1, <2>2
  <2>3. CASE c = a
    BY <1>1, <1>4, <1>7, <2>1, <2>3
  <2>4. CASE b # a /\ c # a
    BY <1>4, <1>7, <2>4 DEF ActiveInv, AgentsInv, Asked
  <2> QED BY <2>2, <2>3, <2>4
<1>8. AgentsInv'
  BY <1>6, <1>7 DEF AgentsInv
<1> QED BY <1>2, <1>8

\* qmgr_deliver keeps the invariant.
LEMMA SendRequestStep ==
    ASSUME ActiveInv, NEW a \in Agents, NEW r \in Rcpts, SendRequest(a, r)
    PROVE  ActiveInv'
<1>1. /\ msg.st = "deliver" /\ r \in msg.todo \union msg.retry
      /\ UNCHANGED <<cf, file, log, daemon, age, faults, crashes, delivered, reported>>
  BY DEF SendRequest
<1>2. /\ msg' \in MsgType /\ msg'.st = "deliver" /\ msg'.flags = msg.flags
      /\ msg'.offset = msg.offset
      /\ msg'.todo = msg.todo \ {r} /\ msg'.retry = msg.retry \ {r}
      /\ msg'.busy = msg.busy \union {r}
  BY ZenonT(30) DEF SendRequest, ActiveInv, TypeOK, MsgType
<1>3. InCore(msg') = InCore(msg)
  BY <1>1, <1>2 DEF InCore
<1>4. agent' \in [Agents -> AgentType] /\ AgentsInv'
  BY SendRequestAgents
<1>5. TypeOK'
  BY <1>1, <1>2, <1>4, TypeFrom, Zenon DEF ActiveInv, TypeOK
<1>6. MsgInv'
  BY <1>1, <1>2, <1>3 DEF ActiveInv, MsgInv, InHand
<1>7. CoverInv' /\ EndInv'
  BY <1>1, <1>2, <1>3 DEF ActiveInv, CoverInv, Covered, EndInv, InHand
<1>8. DaemonsInv'
  <2>1. \A e \in Daemons : daemon[e].st = "idle" /\ daemon[e].log = "none"
    BY <1>1 DEF ActiveInv, DaemonsInv, DaemonInv
  <2> QED BY <1>1, <2>1 DEF DaemonsInv, DaemonInv
<1>9. NoSilentLoss'
  BY <1>1 DEF ActiveInv, NoSilentLoss, Accounted, Rcpts, NRcpt
<1> QED BY <1>4, <1>5, <1>6, <1>7, <1>8, <1>9 DEF ActiveInv

\* Entries leave the core only when the recipient is done, or the message is
\* flagged and the reason is in the log or in the file mode.
LEMMA DisposalStep ==
    ASSUME ActiveInv, msg.st = "deliver",
           NEW D \in SUBSET Rcpts, NEW B \in SUBSET Rcpts, Disposal(D, B),
           D \subseteq InCore(msg), B \subseteq msg.busy,
           D \intersect msg.busy \subseteq B,
           \A r \in B \ D : r \notin file.todo \/ (msg'.flags /\ (r \in log'.defer \/ ~file.mode_ok)),
           UNCHANGED <<cf, file, daemon, age, crashes, delivered, reported>>,
           agent' \in [Agents -> AgentType],
           \A a \in Agents :
              /\ Asked(a) /\ agent[a].rcpt \notin B => agent'[a] = agent[a]
              /\ Asked(a) /\ agent[a].rcpt \in B => ~Asked(a)' /\ ~Writer(a)'
              /\ ~Asked(a) => agent'[a] = agent[a]
    PROVE  ActiveInv'
<1>1. TypeOK'
  BY TypeFrom, ZenonT(30) DEF ActiveInv, TypeOK, Disposal
<1>2. msg'.busy = msg.busy \ B
  BY DEF Disposal, ActiveInv, MsgInv, InCore
<1>3. ASSUME NEW a \in Agents PROVE AgentInv(a)'
  <2>1. CASE Asked(a) /\ agent[a].rcpt \in B
    BY <2>1, ZenonT(30) DEF AgentInv, Asked, Writer
  <2>2. CASE agent'[a] = agent[a] /\ (Asked(a) => agent[a].rcpt \notin B)
    <3>1. AgentInv(a)
      BY DEF ActiveInv, AgentsInv
    <3>2. Asked(a) => msg'.st = "deliver" /\ agent[a].rcpt \in msg'.busy
      BY <1>2, <2>2, <3>1, ZenonT(30) DEF AgentInv, Disposal, InCore
    <3>3. ~(Writer(a) /\ agent[a].orphan)
      BY <3>1 DEF AgentInv
    <3> QED BY <2>2, <3>1, <3>2, <3>3, ZenonT(30) DEF AgentInv, Asked, Writer, Accounted, Disposal
  <2> QED BY <2>1, <2>2
<1>4. AgentsInv'
  BY <1>3 DEF ActiveInv, AgentsInv, Asked, Writer
<1>5. MsgInv'
  BY <1>2 DEF ActiveInv, MsgInv, Disposal, InHand, InCore
<1>6. CoverInv'
  <2> SUFFICES ASSUME NEW r \in file.todo \ InCore(msg')
               PROVE (msg'.offset > 0 /\ r >= msg'.offset) \/ Covered(r)'
    BY DEF CoverInv
  <2>1. CASE r \notin InCore(msg)
    BY <2>1 DEF ActiveInv, CoverInv, Covered, Disposal, InHand
  <2>2. CASE r \in D
    BY <2>2 DEF Disposal, Covered, InCore
  <2>3. CASE r \in B \ D
    BY <2>3 DEF Covered
  <2>4. CASE r \in InCore(msg) /\ r \notin D /\ r \notin B
    BY <2>4 DEF Disposal, InCore
  <2> QED BY <2>1, <2>2, <2>3, <2>4
<1>7. EndInv'
  BY DEF EndInv, Disposal
<1>8. DaemonsInv'
  <2>1. \A e \in Daemons : daemon[e].st = "idle" /\ daemon[e].log = "none"
    BY DEF ActiveInv, DaemonsInv, DaemonInv
  <2> QED BY <2>1 DEF DaemonsInv, DaemonInv
<1>9. NoSilentLoss'
  BY DEF ActiveInv, NoSilentLoss, Accounted, Rcpts, NRcpt, Disposal
<1> QED BY <1>1, <1>4, <1>5, <1>6, <1>7, <1>8, <1>9 DEF ActiveInv

\* The queue manager's handlers that dispose of entries.
LEMMA DestinationDiesStep ==
    ASSUME ActiveInv, Reliable, NEW S \in SUBSET Rcpts, NEW async \in BOOLEAN,
           NEW fails \in BOOLEAN, DestinationDies(S, async, fails)
    PROVE  ActiveInv'
<1>1. Disposal(S, {}) /\ S \subseteq msg.todo \union msg.retry
  BY DiesFacts, Zenon DEF ActiveInv
<1>2. msg.st = "deliver" /\ UNCHANGED <<cf, file, agent, daemon, age, crashes, delivered, reported>>
  BY DEF DestinationDies
<1>3. S \subseteq InCore(msg) /\ S \intersect msg.busy = {} /\ agent \in [Agents -> AgentType]
  BY <1>1 DEF ActiveInv, TypeOK, MsgInv, InCore
<1> QED BY <1>1, <1>2, <1>3, DisposalStep

\* DELIVER_STAT_CRASH keeps the invariant.
LEMMA DeliverCrashStep ==
    ASSUME ActiveInv, Reliable, NEW a \in Agents, NEW S \in SUBSET Rcpts, NEW async \in BOOLEAN,
           NEW fails \in BOOLEAN, DeliverCrash(a, S, async, fails)
    PROVE  ActiveInv'
<1> DEFINE r == agent[a].rcpt
           D == S \union {r}
<1>1. Disposal(D, {}) /\ S \subseteq msg.todo \union msg.retry
  BY CrashFacts, Zenon DEF ActiveInv
<1>2. /\ msg.st = "deliver" /\ UNCHANGED <<cf, file, daemon, age, crashes, delivered, reported>>
      /\ Asked(a) /\ agent' = [agent EXCEPT ![a] = IdleAgent]
  BY DEF DeliverCrash, Asked
<1>3. r \in msg.busy /\ r \in Rcpts
  BY <1>2 DEF ActiveInv, TypeOK, AgentType, AgentsInv, AgentInv
<1>4. D \subseteq InCore(msg) /\ D \intersect msg.busy = {r} /\ D \in SUBSET Rcpts
  BY <1>1, <1>3 DEF ActiveInv, MsgInv, InCore
<1>5. Disposal(D, {r})
  BY <1>1 DEF Disposal
<1>6. agent' \in [Agents -> AgentType] /\ agent'[a] = IdleAgent
      /\ \A b \in Agents \ {a} : agent'[b] = agent[b]
  BY <1>2, IdleTypes DEF ActiveInv, TypeOK
<1>7. ~Asked(a)' /\ ~Writer(a)'
  BY <1>6 DEF Asked, Writer, IdleAgent
<1>8. \A b \in Agents \ {a} : Asked(b) => agent[b].rcpt # r
  BY <1>2 DEF ActiveInv, AgentsInv
<1> HIDE DEF r, D
<1>9. \A b \in Agents :
        /\ Asked(b) /\ agent[b].rcpt \notin {r} => agent'[b] = agent[b]
        /\ Asked(b) /\ agent[b].rcpt \in {r} => ~Asked(b)' /\ ~Writer(b)'
        /\ ~Asked(b) => agent'[b] = agent[b]
  <2> TAKE b \in Agents
  <2>1. CASE b = a
    BY <1>2, <1>7, <2>1 DEF r
  <2>2. CASE b # a
    BY <1>6, <1>8, <2>2
  <2> QED BY <2>1, <2>2
<1>10. r \in D /\ {r} \in SUBSET Rcpts /\ {r} \subseteq msg.busy
  BY <1>3 DEF D
<1> QED BY <1>2, <1>4, <1>5, <1>6, <1>9, <1>10, DisposalStep

\* So does any other delivery report.
LEMMA DeliverUpdateStep ==
    ASSUME ActiveInv, Reliable, NEW a \in Agents, NEW S \in SUBSET Rcpts, NEW async \in BOOLEAN,
           NEW fails \in BOOLEAN, DeliverUpdate(a, S, async, fails)
    PROVE  ActiveInv'
<1> DEFINE r == agent[a].rcpt
<1>1. /\ Disposal(S, {r}) /\ S \subseteq msg.todo \union msg.retry
      /\ agent[a].st # "ok" => msg'.flags
  BY UpdateFacts, Zenon DEF ActiveInv
<1>2. /\ msg.st = "deliver" /\ UNCHANGED <<cf, file, daemon, age, crashes, delivered, reported>>
      /\ Asked(a) /\ agent[a].st \in {"ok", "defer", "refused"}
      /\ \/ agent' = [agent EXCEPT ![a] = IdleAgent]
         \/ agent' = [agent EXCEPT ![a].st = "closing", ![a].orphan = TRUE]
  BY DEF DeliverUpdate, Asked, Release
<1>3. r \in msg.busy /\ r \in Rcpts /\ AgentInv(a)
  BY <1>2 DEF ActiveInv, TypeOK, AgentType, AgentsInv, AgentInv
<1>4. S \subseteq InCore(msg) /\ S \intersect msg.busy = {}
  BY <1>1 DEF ActiveInv, MsgInv, InCore
<1>5. r \notin file.todo \/ (msg'.flags /\ (r \in log'.defer \/ ~file.mode_ok))
  BY <1>1, <1>2, <1>3 DEF AgentInv, Disposal
<1>6. /\ agent' \in [Agents -> AgentType] /\ agent'[a].st \in {"idle", "closing"}
      /\ \A b \in Agents \ {a} : agent'[b] = agent[b]
  <2>1. CASE agent' = [agent EXCEPT ![a] = IdleAgent]
    BY <2>1, IdleTypes DEF ActiveInv, TypeOK, IdleAgent
  <2>2. CASE agent' = [agent EXCEPT ![a].st = "closing", ![a].orphan = TRUE]
    BY <2>2, ZenonT(30) DEF ActiveInv, TypeOK, AgentType, AgentStates
  <2> QED BY <1>2, <2>1, <2>2
<1>7. ~Asked(a)' /\ ~Writer(a)'
  BY <1>6 DEF Asked, Writer
<1>8. \A b \in Agents \ {a} : Asked(b) => agent[b].rcpt # r
  BY <1>2 DEF ActiveInv, AgentsInv
<1> HIDE DEF r
<1>9. \A b \in Agents :
        /\ Asked(b) /\ agent[b].rcpt \notin {r} => agent'[b] = agent[b]
        /\ Asked(b) /\ agent[b].rcpt \in {r} => ~Asked(b)' /\ ~Writer(b)'
        /\ ~Asked(b) => agent'[b] = agent[b]
  <2> TAKE b \in Agents
  <2>1. CASE b = a
    BY <1>2, <1>7, <2>1 DEF r
  <2>2. CASE b # a
    BY <1>6, <1>8, <2>2
  <2> QED BY <2>1, <2>2
<1>10. {r} \in SUBSET Rcpts /\ {r} \subseteq msg.busy
  BY <1>3
<1> QED BY <1>1, <1>2, <1>4, <1>5, <1>6, <1>9, <1>10, DisposalStep

-----------------------------------------------------------------------------
(* Queue manager: the done chain, exit and restart                           *)

\* A notification is requested only when nobody writes to the logs any more.
LEMMA RequestStep ==
    ASSUME ActiveInv, NEW cmd \in {"bounce", "trace", "flush", "warn"},
           msg.st \in {"done", "done2", "done25"}, cmd # "bounce" => AllLogged, Request(cmd)
    PROVE  ActiveInv'
<1> DEFINE p == [IdleDaemon EXCEPT !.st = "req", !.cmd = cmd]
<1>1. PICK d \in Daemons : /\ daemon[d].st = "idle"
                           /\ daemon' = [daemon EXCEPT ![d] = p]
  BY Zenon DEF Request
<1>2. p \in DaemonType /\ p.st = "req" /\ p.cmd = cmd /\ p.orphan = FALSE /\ p.log = "none"
  BY Zenon DEF IdleDaemon, DaemonType
<1> HIDE DEF p
<1>3. UNCHANGED <<cf, file, log, agent, age, faults, crashes, delivered, reported>>
  BY DEF Request
<1>4. /\ msg' \in MsgType /\ msg'.st = "wait" /\ msg'.flags = msg.flags
      /\ msg'.offset = msg.offset
      /\ msg'.todo = msg.todo /\ msg'.retry = msg.retry /\ msg'.busy = msg.busy
  BY DEF Request, ActiveInv, TypeOK, MsgType, MsgStates
<1>5. TypeOK'
  <2>1. daemon' \in [Daemons -> DaemonType]
    BY <1>1, <1>2 DEF ActiveInv, TypeOK
  <2> QED BY <2>1, <1>3, <1>4, TypeFrom DEF ActiveInv, TypeOK
<1>6. AgentsInv'
  BY <1>3, <1>4, ZenonT(30) DEF ActiveInv, AgentsInv, AgentInv, Asked, Writer, Accounted
<1>7. MsgInv'
  BY <1>3, <1>4 DEF ActiveInv, MsgInv, InHand, InCore
<1>8. CoverInv'
  BY <1>3, <1>4 DEF ActiveInv, CoverInv, Covered, InHand, InCore
<1>9. EndInv'
  BY <1>4 DEF EndInv
<1>10. DaemonsInv'
  <2>1. \A a \in Agents : ~Writer(a)
    BY DEF ActiveInv, AgentsInv, AgentInv, Asked, Writer
  <2>2. \A e \in Daemons : daemon[e].st = "idle" /\ daemon[e].log = "none"
    BY Zenon DEF ActiveInv, DaemonsInv, DaemonInv
  <2>3. cmd # "bounce" => AllLogged'
    BY <1>3, <1>4 DEF AllLogged
  <2>4. (\A a \in Agents : ~Writer(a))'
    BY <1>3, <2>1 DEF Writer
  <2>5. daemon \in [Daemons -> DaemonType]
    BY DEF ActiveInv, TypeOK
  <2> QED BY <1>1, <1>2, <1>4, <2>2, <2>3, <2>4, <2>5, ZenonT(30) DEF DaemonsInv, DaemonInv
<1>11. NoSilentLoss'
  BY <1>3 DEF ActiveInv, NoSilentLoss, Accounted, Rcpts, NRcpt
<1> QED BY <1>5, <1>6, <1>7, <1>8, <1>9, <1>10, <1>11 DEF ActiveInv

\* The same when there is nothing to request.
LEMMA GotoStep ==
    ASSUME ActiveInv, NEW st \in {"done2", "done25", "done3"},
           msg.st \in {"done", "done2", "done25"}, st # "done2" => AllLogged, Goto(st)
    PROVE  ActiveInv'
<1>1. UNCHANGED <<cf, file, log, agent, daemon, age, faults, crashes, delivered, reported>>
  BY DEF Goto
<1>2. /\ msg' \in MsgType /\ msg'.st = st /\ msg'.flags = msg.flags
      /\ msg'.offset = msg.offset
      /\ msg'.todo = msg.todo /\ msg'.retry = msg.retry /\ msg'.busy = msg.busy
  BY DEF Goto, ActiveInv, TypeOK, MsgType, MsgStates
<1>3. TypeOK'
  BY <1>1, <1>2, TypeFrom DEF ActiveInv, TypeOK
<1>4. AgentsInv'
  BY <1>1, <1>2, ZenonT(30) DEF ActiveInv, AgentsInv, AgentInv, Asked, Writer, Accounted
<1>5. MsgInv'
  BY <1>1, <1>2, ZenonT(30) DEF ActiveInv, MsgInv, InHand, InCore
<1>6. CoverInv'
  BY <1>1, <1>2, ZenonT(30) DEF ActiveInv, CoverInv, Covered, InHand, InCore
<1>7. EndInv'
  BY <1>1, <1>2 DEF EndInv, AllLogged
<1>8. DaemonsInv'
  <2>1. \A e \in Daemons : daemon[e].st = "idle" /\ daemon[e].log = "none"
    BY DEF ActiveInv, DaemonsInv, DaemonInv
  <2> QED BY <1>1, <2>1 DEF DaemonsInv, DaemonInv
<1>9. NoSilentLoss'
  BY <1>1 DEF ActiveInv, NoSilentLoss, Accounted, Rcpts, NRcpt
<1> QED BY <1>3, <1>4, <1>5, <1>6, <1>7, <1>8, <1>9 DEF ActiveInv

\* The done chain: after the last batch, the defer log explains every recipient.
LEMMA DoneSteps ==
    ASSUME ActiveInv, ActiveDone \/ Done2 \/ Done25
    PROVE  ActiveInv'
<1>1. CASE ActiveDone
  BY <1>1, RequestStep, GotoStep DEF ActiveDone
<1>2. CASE Done2
  <2>1. AllLogged
    BY <1>2 DEF Done2, ActiveInv, MsgInv, CoverInv, Covered, InHand, AllLogged
  <2> QED BY <1>2, <2>1, RequestStep, GotoStep DEF Done2
<1>3. CASE Done25
  BY <1>3, RequestStep, GotoStep DEF Done25, ActiveInv, EndInv
<1> QED BY <1>1, <1>2, <1>3

\* abounce_event, for each of the four callbacks.
LEMMA AnswerStep ==
    ASSUME ActiveInv, NEW d \in Daemons, Answer(d)
    PROVE  ActiveInv'
<1> DEFINE cmd == daemon[d].cmd
           ok == daemon[d].st = "ok"
<1>1. /\ msg.st = "wait" /\ daemon[d].st # "idle" /\ daemon[d].orphan = FALSE
      /\ daemon' = [daemon EXCEPT ![d] = IdleDaemon] /\ Callback(cmd, ok)
      /\ UNCHANGED <<cf, log, agent, age, faults, crashes, delivered, reported>>
  BY OneDaemon DEF Answer, DaemonType
<1>2. /\ TypeOK /\ daemon \in [Daemons -> DaemonType] /\ DaemonInv(d)
      /\ \A e \in Daemons \ {d} : daemon[e].st = "idle" /\ daemon[e].log = "none"
      /\ \A a \in Agents : ~Writer(a) /\ ~Asked(a)
  BY <1>1, OneDaemon DEF ActiveInv
<1>3. cmd \in {"bounce", "trace", "flush", "warn"} /\ ok \in BOOLEAN
  BY <1>2 DEF DaemonType
<1>4. /\ file' \in FileType /\ file'.todo = file.todo /\ file'.mode_ok = file.mode_ok
      /\ file'.dir = file.dir
  BY <1>1, <1>2, Zenon DEF Callback, TypeOK, FileType
<1>5. /\ msg' \in MsgType /\ msg'.offset = msg.offset
      /\ msg'.todo = msg.todo /\ msg'.retry = msg.retry /\ msg'.busy = msg.busy
      /\ msg'.st = IF cmd = "bounce" THEN "done2" ELSE IF cmd = "trace" THEN "done25" ELSE "done3"
      /\ cmd = "flush" => msg'.flags = ~ok
      /\ cmd # "flush" => (msg.flags => msg'.flags)
  BY <1>1, <1>2, <1>3, ZenonT(30) DEF Callback, TypeOK, MsgType, MsgStates
<1>6. /\ cmd # "bounce" => AllLogged
      /\ cmd = "flush" /\ ok => file.todo \subseteq reported
  BY <1>1, <1>2, Zenon DEF DaemonInv
<1>7. /\ daemon' \in [Daemons -> DaemonType]
      /\ \A e \in Daemons : daemon'[e].st = "idle" /\ daemon'[e].log = "none"
  BY <1>1, <1>2, IdleTypes DEF IdleDaemon
<1> HIDE DEF cmd, ok
<1>8. TypeOK'
  BY <1>1, <1>2, <1>4, <1>5, <1>7, TypeFrom DEF TypeOK
<1>9. AgentsInv'
  BY <1>1, <1>2 DEF AgentsInv, AgentInv, Asked, Writer
<1>10. MsgInv'
  BY <1>1, <1>3, <1>4, <1>5 DEF ActiveInv, MsgInv, InCore, InHand
<1>11. EndInv'
  BY <1>1, <1>3, <1>4, <1>5, <1>6, ZenonT(30) DEF EndInv, AllLogged
<1>12. CoverInv'
  <2>1. CASE cmd = "bounce"
    BY <1>1, <1>4, <1>5, <2>1 DEF ActiveInv, CoverInv, Covered, InHand, InCore
  <2>2. CASE cmd # "bounce"
    BY <1>3, <1>5, <1>11, <2>2 DEF EndInv, AllLogged, CoverInv, Covered
  <2> QED BY <2>1, <2>2
<1>13. DaemonsInv'
  BY <1>7 DEF DaemonsInv, DaemonInv
<1>14. NoSilentLoss'
  BY <1>1, <1>4 DEF ActiveInv, NoSilentLoss, Accounted, Rcpts, NRcpt
<1> QED BY <1>8, <1>9, <1>10, <1>11, <1>12, <1>13, <1>14 DEF ActiveInv

\* The file moves between queues, and the message leaves the core.
LEMMA QueueSteps ==
    ASSUME ActiveInv, Feed \/ FeedLocked \/ Done2Corrupt \/ Done3
    PROVE  ActiveInv'
<1>1. /\ UNCHANGED <<cf, log, agent, daemon, age, faults, crashes, delivered, reported>>
      /\ msg' = NoMessage \/ (msg' = [msg EXCEPT !.st = "feed"] /\ msg.st = "none")
      /\ msg.st \in {"none", "feed", "done2", "done3"}
  BY DEF Feed, FeedLocked, Done2Corrupt, Done3
<1>2. /\ msg' \in MsgType /\ msg'.st \in {"none", "feed"} /\ ~msg'.flags /\ msg'.offset = 0
      /\ InCore(msg') = {} /\ msg'.todo = {} /\ msg'.retry = {} /\ msg'.busy = {}
  <2>1. CASE msg' = NoMessage
    BY <2>1, IdleTypes DEF ActiveInv, NoMessage, InCore
  <2>2. CASE msg' = [msg EXCEPT !.st = "feed"] /\ msg.st = "none"
    BY <2>2 DEF ActiveInv, TypeOK, MsgType, MsgStates, MsgInv, InCore
  <2> QED BY <1>1, <2>1, <2>2
<1>3. /\ file' \in FileType /\ file'.todo = file.todo /\ file'.mode_ok = file.mode_ok
      /\ msg'.st = "feed" => file'.dir = "active"
      /\ Feed \/ FeedLocked => file'.dir \in Live
      /\ file'.dir = "gone" => Done3 /\ ~msg.flags
  BY DEF Feed, FeedLocked, Done2Corrupt, Done3, NoMessage, ActiveInv, TypeOK, FileType, Live
<1>4. TypeOK'
  BY <1>1, <1>2, <1>3, TypeFrom DEF ActiveInv, TypeOK
<1>5. ASSUME NEW a \in Agents PROVE AgentInv(a)'
  <2>1. AgentInv(a)
    BY DEF ActiveInv, AgentsInv
  <2>2. ~Asked(a) /\ (Writer(a) => msg.st \in {"none", "feed"} /\ agent[a].st # "req")
    BY <1>1, <2>1 DEF AgentInv, Asked, Writer
  <2>3. msg.st \in {"none", "feed"} => file'.dir \in Live
    BY <1>3 DEF Feed, FeedLocked, Done2Corrupt, Done3
  <2> QED BY <1>1, <1>2, <1>3, <2>1, <2>2, <2>3 DEF AgentInv, Asked, Writer, Accounted
<1>6. AgentsInv'
  BY <1>1, <1>5 DEF ActiveInv, AgentsInv, Asked
<1>7. MsgInv' /\ CoverInv' /\ EndInv'
  BY <1>2, <1>3 DEF MsgInv, CoverInv, EndInv, InHand
<1>8. DaemonsInv'
  <2>1. \A e \in Daemons : daemon[e].st = "idle" /\ daemon[e].log = "none"
    BY <1>1 DEF ActiveInv, DaemonsInv, DaemonInv
  <2> QED BY <1>1, <2>1 DEF DaemonsInv, DaemonInv
<1>9. NoSilentLoss'
  <2>1. file'.dir = "gone" => \A r \in file.todo : r \in reported
    BY <1>3 DEF Done3, ActiveInv, EndInv, AllLogged
  <2> QED BY <1>1, <1>3, <2>1 DEF ActiveInv, NoSilentLoss, Accounted, Rcpts, NRcpt
<1> QED BY <1>4, <1>6, <1>7, <1>8, <1>9 DEF ActiveInv

\* The queue manager goes away in the middle of anything, ...
LEMMA QmgrExitStep ==
    ASSUME ActiveInv, QmgrExit
    PROVE  ActiveInv'
<1>1. /\ UNCHANGED <<cf, file, log, age, faults, delivered, reported>>
      /\ crashes' = crashes + 1 /\ crashes < MaxCrashes
      /\ file.dir \in Live /\ msg.st # "down"
      /\ msg' = [NoMessage EXCEPT !.st = "down"]
  BY Zenon DEF QmgrExit, Live
<1>2. /\ msg' \in MsgType /\ msg'.st = "down" /\ ~msg'.flags /\ msg'.offset = 0
      /\ InCore(msg') = {} /\ msg'.todo = {} /\ msg'.retry = {} /\ msg'.busy = {}
  BY <1>1, ZenonT(30) DEF NoMessage, MsgType, MsgStates, InCore
<1>3. ASSUME NEW a \in Agents
      PROVE  /\ agent'[a] \in AgentType /\ ~Asked(a)'
             /\ agent'[a].st \in {"ok", "defer", "refused"} => FALSE
             /\ Writer(a)' => agent'[a].rcpt = agent[a].rcpt /\ agent'[a].st = agent[a].st
  <2>1. agent[a] \in AgentType
    BY DEF ActiveInv, TypeOK
  <2>2. CASE agent[a].st \in {"idle", "dead", "refused"}
    BY <2>2, IdleTypes, ZenonT(30) DEF QmgrExit, ActiveInv, IdleAgent, Asked, Writer
  <2>3. CASE agent[a].st \in {"ok", "defer"}
    BY <2>1, <2>3, ZenonT(30) DEF QmgrExit, AgentType, AgentStates, Asked, Writer
  <2>4. CASE agent[a].st \in {"req", "open", "sent", "logged", "closing"}
    BY <2>1, <2>4, ZenonT(30) DEF QmgrExit, AgentType, AgentStates, Asked, Writer
  <2> QED BY <2>1, <2>2, <2>3, <2>4 DEF AgentType, AgentStates
<1>4. ASSUME NEW d \in Daemons
      PROVE  /\ daemon'[d] \in DaemonType
             /\ daemon'[d].st # "idle" =>
                  /\ daemon[d].st = daemon'[d].st /\ daemon'[d].cmd = daemon[d].cmd
                  /\ daemon'[d].log = daemon[d].log /\ daemon'[d].orphan = TRUE
             /\ daemon'[d].st = "idle" => daemon'[d].log = "none"
             /\ daemon'[d].st \in {"idle", "req", "open", "posted"}
  <2>1. daemon[d] \in DaemonType
    BY DEF ActiveInv, TypeOK
  <2>2. CASE daemon[d].st \in {"req", "open", "posted"}
    BY <2>1, <2>2, ZenonT(30) DEF QmgrExit, DaemonType
  <2>3. CASE ~(daemon[d].st \in {"req", "open", "posted"})
    BY <2>3, IdleTypes, Zenon DEF QmgrExit, ActiveInv, IdleDaemon
  <2> QED BY <2>2, <2>3, Zenon
<1>5. TypeOK'
  <2>1. agent' \in [Agents -> AgentType]
    BY <1>3, ZenonT(30) DEF QmgrExit
  <2>2. daemon' \in [Daemons -> DaemonType]
    BY <1>4, Zenon DEF QmgrExit
  <2>3. crashes' \in 0..MaxCrashes
    BY <1>1, CfFacts DEF ActiveInv, TypeOK
  <2> QED BY <1>1, <1>2, <2>1, <2>2, <2>3, TypeFrom DEF ActiveInv, TypeOK
<1>6. ASSUME NEW a \in Agents PROVE AgentInv(a)'
  BY <1>1, <1>2, <1>3 DEF ActiveInv, AgentsInv, AgentInv, Writer, Accounted
<1>7. AgentsInv'
  BY <1>3, <1>6 DEF AgentsInv
<1>8. MsgInv' /\ CoverInv' /\ EndInv'
  BY <1>1, <1>2 DEF MsgInv, CoverInv, EndInv, InHand
<1>9. ASSUME NEW d \in Daemons PROVE DaemonInv(d)'
  <2>1. DaemonInv(d)
    BY DEF ActiveInv, DaemonsInv
  <2>2. daemon'[d].st # "idle" => \A a \in Agents : ~Writer(a)'
    BY <1>3, <1>4, <2>1, Zenon DEF DaemonInv, Writer
  <2> QED BY <1>1, <1>2, <1>4, <2>1, <2>2, Zenon DEF DaemonInv
<1>10. DaemonsInv'
  BY <1>4, <1>9, ZenonT(30) DEF ActiveInv, DaemonsInv
<1>11. NoSilentLoss'
  BY <1>1 DEF ActiveInv, NoSilentLoss, Accounted, Rcpts, NRcpt
<1> QED BY <1>5, <1>7, <1>8, <1>10, <1>11 DEF ActiveInv

\* ... and is restarted after those who worked for it have noticed.
LEMMA QmgrStartStep ==
    ASSUME ActiveInv, Reliable, QmgrStart
    PROVE  ActiveInv'
<1>1. /\ UNCHANGED <<cf, log, agent, daemon, age, faults, crashes, delivered, reported>>
      /\ msg.st = "down" /\ msg' = NoMessage
      /\ \A d \in Daemons : daemon[d].st = "idle"
      /\ \A a \in Agents : agent[a].st # "req"
  BY ReliableFacts DEF QmgrStart, ActiveInv
<1>2. /\ msg' \in MsgType /\ msg'.st = "none" /\ ~msg'.flags /\ msg'.offset = 0
      /\ InCore(msg') = {} /\ msg'.todo = {} /\ msg'.retry = {} /\ msg'.busy = {}
  BY <1>1, IdleTypes DEF ActiveInv, NoMessage, InCore
<1>3. /\ file' \in FileType /\ file'.todo = file.todo /\ file'.mode_ok = file.mode_ok
      /\ file'.dir \in Live /\ file.dir \in Live
  BY <1>1 DEF QmgrStart, ActiveInv, TypeOK, FileType, Live, MsgInv
<1>4. TypeOK'
  BY <1>1, <1>2, <1>3, TypeFrom DEF ActiveInv, TypeOK
<1>5. AgentsInv'
  BY <1>1, <1>2, <1>3, ZenonT(30) DEF ActiveInv, AgentsInv, AgentInv, Asked, Writer, Accounted
<1>6. MsgInv' /\ CoverInv' /\ EndInv'
  BY <1>2, ZenonT(30) DEF MsgInv, CoverInv, EndInv, InHand
<1>7. DaemonsInv'
  BY <1>1, ZenonT(30) DEF ActiveInv, DaemonsInv, DaemonInv
<1>8. NoSilentLoss'
  BY <1>1, <1>3 DEF ActiveInv, NoSilentLoss, Accounted, Rcpts, NRcpt, Live
<1> QED BY <1>4, <1>5, <1>6, <1>7, <1>8 DEF ActiveInv

=============================================================================
