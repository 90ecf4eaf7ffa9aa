------------------------- MODULE ActiveFacts_proof --------------------------
(***************************************************************************)
(* What the operators of QmgrActive do, field by field, when no log        *)
(* service refuses a record.                                               *)
(***************************************************************************)
EXTENDS QmgrActive, TLAPS, FiniteSetTheorems, WellFoundedInduction

-----------------------------------------------------------------------------
(* Configuration and types                                                   *)

\* No log service refuses a record, and nobody goes on without the queue manager.
Reliable == \A c \in Configs : ~c.appendFails /\ ~c.stragglers

\* Facts about the configuration.
LEMMA CfFacts ==
    ASSUME TypeOK
    PROVE  /\ NRcpt \in Nat \ {0} /\ 1 \in Rcpts
           /\ RcptLimit \in Nat \ {0}
           /\ MaxFaults \in Nat /\ MaxCrashes \in Nat
           /\ \A r \in Rcpts : r \in Nat
           /\ file.trace \in BOOLEAN
BY ActiveAssumption DEF TypeOK, ConfigType, NRcpt, RcptLimit, MaxFaults, MaxCrashes, Rcpts, FileType

\* A Reliable configuration.
LEMMA ReliableFacts ==
    ASSUME TypeOK, Reliable
    PROVE  ~AppendFails /\ ~Stragglers
BY DEF TypeOK, Reliable, AppendFails, Stragglers

\* The configuration is constant.
LEMMA CfStep ==
    ASSUME Next PROVE cf' = cf
<1>1. ASSUME Feed \/ FeedLocked \/ QmgrExit \/ QmgrStart \/ GrowOld PROVE cf' = cf
  BY <1>1 DEF Feed, FeedLocked, QmgrExit, QmgrStart, GrowOld
<1>2. ASSUME ReadStep PROVE cf' = cf
  BY <1>2 DEF ReadStep, Alloc, Refill, Done2Realloc
<1>3. ASSUME QmgrDeliver PROVE cf' = cf
  <2>1. ASSUME NEW a, NEW r, SendRequest(a, r) PROVE cf' = cf
    BY <2>1 DEF SendRequest
  <2>2. ASSUME NEW a, NEW S, NEW async, NEW fails,
               DeliverUpdate(a, S, async, fails) \/ DeliverCrash(a, S, async, fails)
        PROVE  cf' = cf
    BY <2>2 DEF DeliverUpdate, DeliverCrash
  <2> QED BY <1>3, <2>1, <2>2, Zenon DEF QmgrDeliver
<1>4. ASSUME NEW S, NEW async, NEW fails, DestinationDies(S, async, fails) PROVE cf' = cf
  BY <1>4 DEF DestinationDies
<1>5. ASSUME DoneStep PROVE cf' = cf
  BY <1>5 DEF DoneStep, ActiveDone, Done2Corrupt, Done2, Done25, Done3, Request, Goto
<1>6. ASSUME NEW a, AgentWork(a) \/ AgentDies(a) PROVE cf' = cf
  BY <1>6 DEF AgentWork, AgentOpen, AgentDeliver, AgentSent, AgentBounce, AgentBounced,
    AgentUntraced, AgentDefer, AgentCorrupt, AgentClose, AgentDies
<1>7. ASSUME NEW d, DaemonWork(d) \/ DaemonDies(d) \/ Answer(d) \/ AnswerTimeout(d) PROVE cf' = cf
  BY <1>7 DEF DaemonWork, DaemonOpen, DaemonPost, DaemonPostFails, DaemonClean, DaemonDies,
    Answer, AnswerTimeout
<1> QED BY <1>1, <1>2, <1>3, <1>4, <1>5, <1>6, <1>7 DEF Next

\* The initial values have their types.
LEMMA IdleTypes ==
    ASSUME TypeOK PROVE IdleAgent \in AgentType /\ IdleDaemon \in DaemonType /\ NoMessage \in MsgType
BY CfFacts DEF IdleAgent, AgentType, AgentStates, IdleDaemon, DaemonType, NoMessage, MsgType, MsgStates

\* The types again, one variable at a time.
LEMMA TypeFrom ==
    ASSUME TypeOK, cf' = cf, file' \in FileType, log' \in LogType, msg' \in MsgType,
           agent' \in [Agents -> AgentType], daemon' \in [Daemons -> DaemonType],
           age' \in 0..2, faults' \in 0..MaxFaults, crashes' \in 0..MaxCrashes,
           delivered' \in [Rcpts -> Nat], reported' \in SUBSET Rcpts
    PROVE  TypeOK'
BY DEF TypeOK, FileType, LogType, MsgType, AgentType, DaemonType, Rcpts, NRcpt, MaxFaults, MaxCrashes

-----------------------------------------------------------------------------
(* Reading recipient records                                                 *)

\* A nonempty set of numbers up to N has a greatest element.
LEMMA Greatest ==
    ASSUME NEW N \in Nat, NEW S \in SUBSET (1..N), S # {}
    PROVE  \E m \in S : \A s \in S : s <= m
<1> DEFINE R == OpToRel(<, Nat)
           T == {n \in Nat : N - n \in S}
<1>1. T \subseteq Nat /\ T # {}
  <2>1. PICK s \in S : TRUE
    OBVIOUS
  <2>2. N - s \in Nat /\ N - (N - s) = s
    BY <2>1
  <2> QED BY <2>1, <2>2
<1>2. \E x \in T : \A y \in T : <<y, x>> \notin R
  <2> HIDE DEF T
  <2> QED BY <1>1, NatLessThanWellFounded, WFMin
<1>3. PICK x \in T : \A y \in T : <<y, x>> \notin R
  BY <1>2
<1>4. \A y \in T : ~(y < x)
  BY <1>3 DEF OpToRel
<1>5. ASSUME NEW s \in S PROVE s <= N - x
  <2>1. N - s \in T
    <3>1. N - s \in Nat /\ N - (N - s) = s
      OBVIOUS
    <3> QED BY <3>1
  <2>2. ~(N - s < x)
    BY <1>4, <2>1
  <2> QED BY <2>2
<1> QED BY <1>3, <1>5

\* So does one have a least.
LEMMA Least ==
    ASSUME NEW S \in SUBSET Nat, S # {}
    PROVE  \E m \in S : \A s \in S : m <= s
<1> DEFINE R == OpToRel(<, Nat)
<1>1. PICK x \in S : \A y \in S : <<y, x>> \notin R
  BY NatLessThanWellFounded, WFMin
<1>2. \A y \in S : ~(y < x)
  BY <1>1 DEF OpToRel
<1> QED BY <1>2

\* qmgr_message_read() takes the records from the offset on in order: what it
\* does not take is at the next offset or behind it, and there is nothing left
\* when the next offset is 0.
LEMMA BatchFacts ==
    ASSUME NEW N \in Nat, file.todo \subseteq 1..N, NEW from \in Nat, NEW n \in Nat \ {0}
    PROVE  /\ Batch(from, n) \subseteq Unread(from)
           /\ NextOffset(from, n) \in Nat
           /\ NextOffset(from, n) = 0 => Unread(from) \subseteq Batch(from, n)
           /\ NextOffset(from, n) # 0 =>
                /\ from < NextOffset(from, n)
                /\ \A r \in Batch(from, n) : r < NextOffset(from, n)
                /\ \A r \in Unread(from) \ Batch(from, n) : r >= NextOffset(from, n)
<1> DEFINE U == Unread(from)
           C(r) == {s \in U : s <= r}
           B == Batch(from, n)
<1>1. U \subseteq 1..N /\ B = {r \in U : Cardinality(C(r)) <= n}
  BY DEF Unread, Batch
<1>2. IsFiniteSet(U) /\ Cardinality(U) \in Nat
  <2>1. IsFiniteSet(1..N)
    BY FS_Interval
  <2>2. IsFiniteSet(U)
    BY <2>1, <1>1, FS_Subset
  <2> QED BY <2>2, FS_CardinalityType
<1>3. \A r \in U : /\ IsFiniteSet(C(r))
                   /\ Cardinality(C(r)) \in Nat
                   /\ Cardinality(C(r)) <= Cardinality(U)
  <2> TAKE r \in U
  <2>1. C(r) \in SUBSET U
    OBVIOUS
  <2> QED BY <2>1, <1>2, FS_Subset, FS_CardinalityType
<1>4. B \subseteq U
  BY <1>1
<1>5. CASE Cardinality(U) < n
  <2>1. NextOffset(from, n) = 0
    BY <1>5, <1>2 DEF NextOffset
  <2>2. U \subseteq B
    <3> SUFFICES ASSUME NEW r \in U PROVE r \in B
      OBVIOUS
    <3>1. Cardinality(C(r)) <= n
      <4> HIDE DEF C, U
      <4> QED BY <1>2, <1>3, <1>5
    <3> QED BY <3>1, <1>1
  <2> QED BY <2>1, <2>2, <1>4
<1>6. CASE Cardinality(U) >= n
  <2>1. U # {}
    BY <1>6, FS_EmptySet
  <2>2. PICK l \in U : \A s \in U : l <= s
    BY <2>1, <1>1, Least
  <2>3. C(l) = {l}
    BY <2>2, <1>1
  <2>4. l \in B
    BY <2>3, <1>1, FS_Singleton
  <2>5. PICK g \in B : \A s \in B : s <= g
    BY <2>4, <1>1, <1>4, Greatest
  <2> DEFINE m == CHOOSE r \in B : \A s \in B : s <= r
  <2>6. m \in B /\ \A s \in B : s <= m
    BY <2>5
  <2>7. NextOffset(from, n) = 1 + m
    BY <1>6, <1>2 DEF NextOffset
  <2>8. m \in Nat /\ 1 + m # 0
    BY <2>6, <1>4, <1>1
  <2>9. ASSUME NEW r \in U \ B PROVE r >= 1 + m
    <3> HIDE DEF m
    <3>1. CASE r <= m
      <4>1. C(r) \in SUBSET C(m)
        BY <3>1, <2>8, <1>1
      <4>2. m \in U
        BY <2>6, <1>4
      <4>3. Cardinality(C(r)) <= Cardinality(C(m))
        BY <4>1, <4>2, <1>3, FS_Subset
      <4>4. Cardinality(C(m)) <= n
        BY <2>6, <1>1
      <4>5. Cardinality(C(r)) <= n
        BY <4>3, <4>4, <4>2, <1>3
      <4> QED BY <4>5, <1>1
    <3> QED BY <3>1, <2>8, <1>1
  <2>10. \A r \in B : r < 1 + m
    <3> HIDE DEF m
    <3> QED BY <2>6, <2>8, <1>1, <1>4
  <2>11. from < 1 + m
    <3>1. m \in Nat /\ m >= from
      BY <2>6, <2>8, <1>4 DEF Unread
    <3> HIDE DEF m
    <3> QED BY <3>1
  <2> HIDE DEF m
  <2> QED BY <1>4, <2>7, <2>8, <2>9, <2>10, <2>11
<1> QED BY <1>2, <1>5, <1>6

\* Where the reading stops.
LEMMA OffsetFacts ==
    ASSUME TypeOK, NEW n \in 1..RcptLimit, NEW B, B = Batch(msg.offset, n),
           NEW o, o = NextOffset(msg.offset, n)
    PROVE  /\ o \in Nat
           /\ \A r \in B : r >= msg.offset
           /\ \A r \in file.todo \ B : r >= msg.offset => o > 0 /\ r >= o
           /\ o > 0 => msg.offset < o /\ \A r \in B : r < o
<1>1. NRcpt \in Nat /\ file.todo \subseteq 1..NRcpt /\ msg.offset \in Nat
  BY CfFacts DEF TypeOK, FileType, MsgType, Rcpts
<1>2. n \in Nat \ {0}
  BY CfFacts
<1>3. /\ B \subseteq Unread(msg.offset)
      /\ o \in Nat
      /\ o = 0 => Unread(msg.offset) \subseteq B
      /\ o # 0 => /\ msg.offset < o
                  /\ \A r \in B : r < o
                  /\ \A r \in Unread(msg.offset) \ B : r >= o
  BY <1>1, <1>2, BatchFacts
<1> QED BY <1>1, <1>3 DEF Unread

\* DoneIfUnused changes the state only.
LEMMA UnusedFacts ==
    ASSUME NEW m \in MsgType, NEW u, u = DoneIfUnused(m)
    PROVE  /\ u \in MsgType
           /\ u.flags = m.flags /\ u.offset = m.offset
           /\ u.todo = m.todo /\ u.retry = m.retry /\ u.busy = m.busy
           /\ u.st = IF InCore(u) = {} THEN "done" ELSE m.st
BY DEF DoneIfUnused, InCore, MsgType, MsgStates

\* What ReadRecipients does with the records B that it reads.
ReadEffect(l, n, B) ==
    /\ msg' \in MsgType /\ log' \in LogType /\ file' \in FileType
    /\ delivered' \in [Rcpts -> Nat]
    /\ faults' = faults
    /\ msg'.offset = NextOffset(msg.offset, n)
    /\ msg'.st = IF InCore(msg') = {} THEN "done" ELSE "deliver"
    /\ msg'.busy = msg.busy
    /\ msg.flags => msg'.flags
    /\ log'.bounce = l.bounce /\ l.defer \subseteq log'.defer
    /\ file'.dir = file.dir /\ file'.mode_ok = file.mode_ok
    /\ file'.todo \subseteq file.todo
    /\ \A r \in Rcpts : delivered'[r] >= delivered[r]
    /\ \A r \in file.todo \ file'.todo : delivered'[r] > 0
    /\ \E T, R \in SUBSET B :
         /\ T \intersect R = {}
         /\ msg'.todo = msg.todo \union T /\ msg'.retry = msg.retry \union R
         /\ \A r \in B \ (T \union R) :
              r \notin file'.todo \/ (msg'.flags /\ r \in log'.defer)
    /\ B \subseteq file.todo

\* ReadRecipients has this effect.
LEMMA ReadFacts ==
    ASSUME TypeOK, NEW l \in LogType, NEW n \in 1..RcptLimit, NEW how \in Resolutions(n),
           NEW fails \in BOOLEAN, ReadRecipients(l, n, how, fails), ~AppendFails
    PROVE  ReadEffect(l, n, Batch(msg.offset, n))
<1> DEFINE B == Batch(msg.offset, n)
<1> DEFINE Bd(h) == {r \in B : how[r] = h}
           m == [msg EXCEPT !.st = "deliver", !.offset = NextOffset(msg.offset, n),
                            !.flags = @ \/ Bd("deferred") # {},
                            !.todo = @ \union Bd("todo"), !.retry = @ \union Bd("retry")]
<1>1. /\ msg' = DoneIfUnused(m) /\ log' = Deferred(l, Bd("deferred"), file.trace, fails)
      /\ file' = Completed(file, Bd("discarded"))
      /\ delivered' = [r \in Rcpts |-> IF r \in Bd("discarded") THEN delivered[r] + 1
                                       ELSE delivered[r]]
      /\ AppendOutcome(fails)
  BY DEF ReadRecipients
<1>2. ~fails /\ faults' = faults
  BY <1>1 DEF AppendOutcome
<1>3. B \subseteq file.todo /\ B \subseteq Rcpts
  BY DEF Batch, Unread, TypeOK, FileType
<1>4. NextOffset(msg.offset, n) \in Nat
  <2>1. NRcpt \in Nat /\ file.todo \subseteq 1..NRcpt /\ msg.offset \in Nat
    BY CfFacts DEF TypeOK, FileType, MsgType, Rcpts
  <2>2. n \in Nat \ {0}
    BY CfFacts
  <2> QED BY <2>1, <2>2, BatchFacts
<1>5. /\ m \in MsgType
      /\ m.st = "deliver" /\ m.offset = NextOffset(msg.offset, n)
      /\ m.flags = (msg.flags \/ Bd("deferred") # {})
      /\ m.todo = msg.todo \union Bd("todo") /\ m.retry = msg.retry \union Bd("retry")
      /\ m.busy = msg.busy
  BY <1>3, <1>4 DEF TypeOK, MsgType, MsgStates
<1>6. /\ msg' \in MsgType
      /\ msg'.offset = NextOffset(msg.offset, n)
      /\ msg'.st = IF InCore(msg') = {} THEN "done" ELSE "deliver"
      /\ msg'.busy = msg.busy
      /\ msg'.flags = (msg.flags \/ Bd("deferred") # {})
      /\ msg'.todo = msg.todo \union Bd("todo") /\ msg'.retry = msg.retry \union Bd("retry")
  <2>1. msg' = DoneIfUnused(m)
    BY <1>1
  <2> HIDE DEF m, Bd
  <2> QED BY <1>5, <2>1, UnusedFacts
<1>7. log' \in LogType /\ log'.bounce = l.bounce /\ log'.defer = l.defer \union Bd("deferred")
  <2>1. log' = Deferred(l, Bd("deferred"), file.trace, FALSE) /\ Bd("deferred") \subseteq Rcpts
    BY <1>1, <1>2, <1>3
  <2> HIDE DEF Bd
  <2> QED BY <2>1 DEF Deferred, Traced, LogType
<1>8. /\ file' \in FileType /\ file'.dir = file.dir /\ file'.mode_ok = file.mode_ok
      /\ file'.todo = file.todo \ Bd("discarded")
  BY <1>1 DEF Completed, TypeOK, FileType
<1>9. /\ delivered' \in [Rcpts -> Nat]
      /\ \A r \in Rcpts : delivered'[r] >= delivered[r]
      /\ \A r \in Bd("discarded") : delivered'[r] > 0
  <2>1. Bd("discarded") \subseteq Rcpts /\ delivered \in [Rcpts -> Nat]
    BY <1>3 DEF TypeOK
  <2>2. delivered' = [r \in Rcpts |-> IF r \in Bd("discarded") THEN delivered[r] + 1
                                       ELSE delivered[r]]
    BY <1>1
  <2> HIDE DEF Bd
  <2> QED BY <2>1, <2>2
<1>10. /\ Bd("todo") \subseteq B /\ Bd("retry") \subseteq B
       /\ Bd("todo") \intersect Bd("retry") = {}
       /\ \A r \in B \ (Bd("todo") \union Bd("retry")) : r \in Bd("deferred") \/ r \in Bd("discarded")
  BY DEF Resolutions
<1> HIDE DEF Bd, m
<1>11. \A r \in B \ (Bd("todo") \union Bd("retry")) :
           r \notin file'.todo \/ (msg'.flags /\ r \in log'.defer)
  BY <1>6, <1>7, <1>8, <1>10
<1>12. \E T, R \in SUBSET B :
         /\ T \intersect R = {}
         /\ msg'.todo = msg.todo \union T /\ msg'.retry = msg.retry \union R
         /\ \A r \in B \ (T \union R) :
              r \notin file'.todo \/ (msg'.flags /\ r \in log'.defer)
  <2>1. Bd("todo") \in SUBSET B /\ Bd("retry") \in SUBSET B
    BY <1>10
  <2> QED BY <1>6, <1>10, <1>11, <2>1
<1> HIDE DEF B
<1>13. ReadEffect(l, n, B)
  BY <1>2, <1>3, <1>6, <1>7, <1>8, <1>9, <1>12 DEF ReadEffect
<1> QED BY <1>13 DEF B

-----------------------------------------------------------------------------
(* Disposing of entries                                                      *)

\* What DeferRecipients does: hand S to retry(8), or log it.
DeferEffect(m, S) ==
    /\ msg' \in MsgType /\ log' \in LogType
    /\ faults' = faults
    /\ msg'.offset = m.offset
    /\ msg'.todo = m.todo \ S /\ msg'.busy = m.busy \ S
    /\ \/ /\ msg'.retry = (m.retry \ S) \union S
          /\ msg'.st = m.st /\ msg'.flags = m.flags
          /\ log' = log
       \/ /\ msg'.retry = m.retry \ S
          /\ msg'.st = IF InCore(msg') = {} THEN "done" ELSE m.st
          /\ msg'.flags
          /\ log'.bounce = log.bounce /\ log'.defer = log.defer \union S

\* DeferRecipients has this effect.
LEMMA DeferFacts ==
    ASSUME TypeOK, NEW m \in MsgType, NEW S \in SUBSET Rcpts, NEW async \in BOOLEAN,
           NEW fails \in BOOLEAN, DeferRecipients(m, S, async, fails), ~AppendFails
    PROVE  DeferEffect(m, S)
<1> DEFINE rest == [m EXCEPT !.todo = @ \ S, !.retry = @ \ S, !.busy = @ \ S]
<1>1. rest \in MsgType
  BY DEF MsgType
<1>2. CASE async
  <2>1. msg' = [rest EXCEPT !.retry = @ \union S] /\ log' = log /\ faults' = faults
    BY <1>2 DEF DeferRecipients
  <2> QED BY <2>1 DEF DeferEffect, MsgType, TypeOK
<1>3. CASE ~async
  <2> DEFINE last == [rest EXCEPT !.flags = TRUE]
  <2>1. /\ last \in MsgType /\ last.flags /\ last.st = m.st /\ last.offset = m.offset
        /\ last.todo = m.todo \ S /\ last.retry = m.retry \ S /\ last.busy = m.busy \ S
    BY <1>1 DEF MsgType
  <2>2. msg' = DoneIfUnused(last) /\ log' = Deferred(log, S, file.trace, fails) /\ AppendOutcome(fails)
    BY <1>3 DEF DeferRecipients
  <2>3. ~fails /\ faults' = faults
    BY <2>2 DEF AppendOutcome
  <2>4. log' \in LogType /\ log'.bounce = log.bounce /\ log'.defer = log.defer \union S
    <3>1. log \in LogType /\ log' = Deferred(log, S, file.trace, FALSE)
      BY <2>2, <2>3 DEF TypeOK
    <3> QED BY <3>1 DEF Deferred, Traced, LogType
  <2> HIDE DEF last
  <2> QED BY <2>1, <2>2, <2>3, <2>4, UnusedFacts DEF DeferEffect
<1> QED BY <1>2, <1>3

\* What the queue manager does with entries: those of D are logged or handed to
\* retry(8), those of B are done with.
Disposal(D, B) ==
    /\ msg' \in MsgType /\ log' \in LogType /\ faults' = faults
    /\ msg'.offset = msg.offset
    /\ msg'.todo = msg.todo \ D /\ msg'.busy = msg.busy \ (D \union B)
    /\ msg'.retry = msg.retry \ D \/ msg'.retry = msg.retry \union D
    /\ msg'.st \in {"deliver", "done"} /\ (msg'.st = "done" => InCore(msg') = {})
    /\ msg.flags => msg'.flags
    /\ log'.bounce = log.bounce /\ log.defer \subseteq log'.defer
    /\ \A r \in D : r \in msg'.retry \/ (msg'.flags /\ r \in log'.defer)

\* A site or transport dies: what waits for it is disposed of.
LEMMA DiesFacts ==
    ASSUME TypeOK, Reliable, NEW S \in SUBSET Rcpts, NEW async \in BOOLEAN,
           NEW fails \in BOOLEAN, DestinationDies(S, async, fails)
    PROVE  Disposal(S, {}) /\ S \subseteq msg.todo \union msg.retry
<1>1. msg \in MsgType /\ msg.st = "deliver" /\ DeferRecipients(msg, S, async, fails)
  BY DEF DestinationDies, TypeOK
<1>2. S \subseteq msg.todo \union msg.retry
  BY DEF DestinationDies
<1>3. DeferEffect(msg, S)
  BY <1>1, DeferFacts, ReliableFacts, Zenon
<1> QED BY <1>1, <1>2, <1>3 DEF DeferEffect, Disposal

\* An agent dies: its entry, and what waits for the transport, is disposed of.
LEMMA CrashFacts ==
    ASSUME TypeOK, Reliable, NEW a \in Agents, NEW S \in SUBSET Rcpts, NEW async \in BOOLEAN,
           NEW fails \in BOOLEAN, DeliverCrash(a, S, async, fails)
    PROVE  Disposal(S \union {agent[a].rcpt}, {}) /\ S \subseteq msg.todo \union msg.retry
<1> DEFINE m == [msg EXCEPT !.flags = TRUE]
           D == S \union {agent[a].rcpt}
<1>1. DeferRecipients(m, D, async, fails) /\ msg.st = "deliver"
  BY DEF DeliverCrash
<1>2. /\ m \in MsgType /\ m.flags /\ m.st = msg.st /\ m.offset = msg.offset
      /\ m.todo = msg.todo /\ m.retry = msg.retry /\ m.busy = msg.busy
  BY DEF TypeOK, MsgType
<1>3. D \in SUBSET Rcpts
  BY DEF TypeOK, AgentType
<1>4. S \subseteq msg.todo \union msg.retry
  BY DEF DeliverCrash, Alongside
<1> HIDE DEF m, D
<1>5. Disposal(D, {})
  <2>1. DeferEffect(m, D)
    BY <1>1, <1>2, <1>3, DeferFacts, ReliableFacts, Zenon
  <2> QED BY <1>1, <1>2, <2>1 DEF DeferEffect, Disposal
<1> QED BY <1>4, <1>5 DEF D

\* An agent reports: its entry is done, and what waits for a dead site goes along.
LEMMA UpdateFacts ==
    ASSUME TypeOK, Reliable, NEW a \in Agents, NEW S \in SUBSET Rcpts, NEW async \in BOOLEAN,
           NEW fails \in BOOLEAN, DeliverUpdate(a, S, async, fails)
    PROVE  /\ Disposal(S, {agent[a].rcpt}) /\ S \subseteq msg.todo \union msg.retry
           /\ agent[a].st # "ok" => msg'.flags
<1> DEFINE m == [msg EXCEPT !.busy  = @ \ {agent[a].rcpt},
                            !.flags = @ \/ agent[a].st # "ok"]
<1>1. msg.st = "deliver" /\ S \subseteq msg.todo \union msg.retry
  BY DEF DeliverUpdate, Alongside
<1>2. /\ m \in MsgType /\ m.flags = (msg.flags \/ agent[a].st # "ok")
      /\ m.st = msg.st /\ m.offset = msg.offset /\ m.todo = msg.todo /\ m.retry = msg.retry
      /\ m.busy = msg.busy \ {agent[a].rcpt}
  BY DEF TypeOK, MsgType
<1>3. CASE S = {}
  <2>1. msg' = DoneIfUnused(m) /\ log' = log /\ faults' = faults
    BY <1>3 DEF DeliverUpdate
  <2> HIDE DEF m
  <2> QED BY <1>1, <1>2, <1>3, <2>1, UnusedFacts DEF Disposal, TypeOK
<1>4. CASE S # {}
  <2>1. DeferRecipients(m, S, async, fails) /\ agent[a].st = "defer"
    BY <1>4 DEF DeliverUpdate
  <2> HIDE DEF m
  <2>2. DeferEffect(m, S)
    BY <1>2, <2>1, DeferFacts, ReliableFacts, Zenon
  <2> QED BY <1>1, <1>2, <2>1, <2>2 DEF DeferEffect, Disposal
<1> QED BY <1>3, <1>4

=============================================================================
