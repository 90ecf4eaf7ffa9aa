------------------------- MODULE QmgrDeliver_proof --------------------------
(***************************************************************************)
(* The theorems about QmgrDeliver: timers and the resolver keep the        *)
(* invariant of the scheduler, so every step does; the properties follow.  *)
(***************************************************************************)
EXTENDS QmgrAgents_proof

\* Disarming the transport timer twice is the same as once.
LEMMA TimerOffTwice ==
  ASSUME NEW x \in TransportType, NEW a, NEW b
  PROVE  [[x EXCEPT !.timer = b] EXCEPT !.panic = a, !.dead = b, !.dsn = NoDsn,
                                        !.timer = b, !.rate_lock = b]
         = [x EXCEPT !.panic = a, !.dead = b, !.dsn = NoDsn, !.timer = b, !.rate_lock = b]
  BY Zenon DEF TransportType

\* The retry timer of a dead transport.
LEMMA TransportTimerOK ==
  ASSUME SchedInv, NEW t \in Transports, TransportTimer(t)
  PROVE  SchedInv'
<1> DEFINE x  == xport[t]
           no == FALSE
           x1 == [x EXCEPT !.timer = no]
           y  == TransportUnthrottle(x)
           xp == [xport EXCEPT ![t] = y]
<1>1. /\ TransportsOK(xport) /\ QueuesOK(queue) /\ Quiet(queue, xport) /\ OnePlace(queue)
      /\ TransportOK(x) /\ x \in TransportType
  BY DEF SchedInv, TransportsOK, TransportOK
<1>2. x.timer /\ x.dead
  BY <1>1 DEF TransportTimer, TransportOK
<1>3. TransportUnthrottle(x1) = y
  <2> DEFINE a == x.panic \/ x.dsn = NoDsn
  <2>1. x1.dead = x.dead /\ x1.dsn = x.dsn /\ x1.panic = x.panic
    BY <1>1 DEF TransportType
  <2>2. TransportUnthrottle(x1) = [x1 EXCEPT !.panic = a, !.dead = no, !.dsn = NoDsn,
                                             !.timer = no, !.rate_lock = no]
    BY <1>2, <2>1 DEF TransportUnthrottle
  <2>3. y = [x EXCEPT !.panic = a, !.dead = no, !.dsn = NoDsn, !.timer = no, !.rate_lock = no]
    BY <1>2 DEF TransportUnthrottle
  <2> HIDE DEF no, a
  <2> QED
    BY <1>1, <2>2, <2>3, TimerOffTwice, Zenon
<1>4. /\ Handler /\ QueueListsFollow /\ queue' = queue
      /\ xport' = [xport EXCEPT ![t] = TransportUnthrottle(x1)]
  BY DEF TransportTimer
<1>5. TransportOK(y) /\ ~y.dead
  BY <1>1, TransportUnthrottleOK
<1>6. xport' = xp
  BY <1>3, <1>4, Zenon
<1> HIDE DEF y
<1>7. TransportsOK(xp) /\ xp[t] = y /\ \A u \in Transports : u # t => xp[u] = xport[u]
  BY <1>1, <1>5, UpdateTransport
<1> HIDE DEF xp
<1>8. Quiet(queue, xp)
  BY <1>1, <1>5, <1>7, QueueIdsFacts DEF Quiet
<1> QED
  BY <1>1, <1>4, <1>6, <1>7, <1>8, HandlerStep, Zenon

\* The timers of a dead or suspended queue.
LEMMA QueueTimerOK ==
  ASSUME SchedInv, NEW k \in QueueIds, QueueTimer(k)
  PROVE  SchedInv'
<1>1. /\ TransportsOK(xport) /\ QueuesOK(queue) /\ Quiet(queue, xport) /\ OnePlace(queue)
      /\ Cfg(k[1]) \in CfgSet
  BY QueueIdsFacts DEF SchedInv
<1>2. QueueOK(Cfg(k[1]), queue[k])
  BY <1>1 DEF QueuesOK
<1>3. PICK q : /\ QueueOK(Cfg(k[1]), q) /\ q.todo = queue[k].todo /\ q.busy = queue[k].busy
               /\ q.exists => Ready(q) /\ queue[k].exists
               /\ queue' = [queue EXCEPT ![k] = q]
  <2>1. CASE "resume" \in queue[k].timers /\ queue' = [queue EXCEPT ![k] = QueueResume(@)]
    <3>1. queue[k].exists
      BY <1>2, <2>1 DEF QueueOK
    <3> QED
      BY <1>1, <1>2, <2>1, <3>1, ResumeOK, Zenon
  <2>2. CASE /\ "unthrottle" \in queue[k].timers
             /\ queue' = [queue EXCEPT ![k] = QueueUnthrottleWrapper(Cfg(k[1]), @)]
    <3>1. queue[k].exists
      BY <1>2, <2>2 DEF QueueOK
    <3> QED
      BY <1>1, <1>2, <2>2, <3>1, WrapperOK, Zenon
  <2> QED
    BY <2>1, <2>2 DEF QueueTimer
<1> DEFINE qs == [queue EXCEPT ![k] = q]
<1>4. QueuesOK(qs) /\ qs[k] = q /\ \A l \in QueueIds : l # k => qs[l] = queue[l]
  <2>1. queue \in [QueueIds -> QueueType] /\ q \in QueueType
    BY <1>1, <1>3, Zenon DEF QueuesOK, QueueOK
  <2>2. /\ qs \in [QueueIds -> QueueType] /\ qs[k] = q
        /\ \A l \in QueueIds : l # k => qs[l] = queue[l]
    BY <2>1
  <2> QED
    BY <1>1, <1>3, <2>2 DEF QueuesOK
<1>5. queue' = qs /\ xport' = xport /\ Handler /\ QueueListsFollow
  BY <1>3 DEF QueueTimer
<1> HIDE DEF qs
<1>6. OnePlace(qs)
  BY <1>1, <1>3, <1>4 DEF OnePlace
<1>7. Quiet(qs, xport)
  BY <1>1, <1>3, <1>4 DEF Quiet, Throttled, Ready, THROTTLED
<1> QED
  BY <1>1, <1>4, <1>5, <1>6, <1>7, HandlerStep

\* qmgr_enable_all, on a flush request.
LEMMA EnableAllOK ==
  ASSUME SchedInv, EnableAll
  PROVE  SchedInv'
<1> DEFINE xp == [t \in Transports |->
                    IF xport[t].dead THEN TransportUnthrottle(xport[t]) ELSE xport[t]]
           qs == [k \in QueueIds |->
                    IF queue[k].exists THEN EnableQueue(Cfg(k[1]), queue[k]) ELSE queue[k]]
<1>1. TransportsOK(xport) /\ QueuesOK(queue) /\ Quiet(queue, xport) /\ OnePlace(queue)
  BY DEF SchedInv
<1>2. xport' = xp /\ queue' = qs /\ Handler /\ QueueListsFollow
  BY DEF EnableAll
<1>3. \A t \in Transports : TransportOK(xp[t]) /\ ~xp[t].dead
  BY <1>1, TransportUnthrottleOK DEF TransportsOK
<1>4. \A k \in QueueIds : /\ QueueOK(Cfg(k[1]), qs[k])
                          /\ qs[k].todo = queue[k].todo /\ qs[k].busy = queue[k].busy
                          /\ qs[k].exists => ~Throttled(qs[k])
  <2> TAKE k \in QueueIds
  <2>1. QueueOK(Cfg(k[1]), queue[k]) /\ Cfg(k[1]) \in CfgSet
    BY <1>1, QueueIdsFacts DEF QueuesOK
  <2>2. CASE queue[k].exists
    <3>1. qs[k] = EnableQueue(Cfg(k[1]), queue[k])
      BY <2>2
    <3> QED
      BY <2>1, <2>2, <3>1, EnableQueueOK
  <2>3. CASE ~queue[k].exists
    <3>1. qs[k] = queue[k]
      BY <2>3
    <3> QED
      BY <2>1, <2>3, <3>1
  <2> QED
    BY <2>2, <2>3, Zenon
<1>5. TransportsOK(xp)
  <2>1. \A t \in Transports : xp[t] \in TransportType
    BY <1>3 DEF TransportOK
  <2>2. xp = [t \in Transports |-> xp[t]]
    OBVIOUS
  <2> HIDE DEF xp
  <2>3. xp \in [Transports -> TransportType]
    BY <2>1, <2>2
  <2> QED
    BY <1>3, <2>3 DEF TransportsOK
<1>6. QueuesOK(qs)
  <2>1. \A k \in QueueIds : qs[k] \in QueueType
    BY <1>4, Zenon DEF QueueOK
  <2>2. qs = [k \in QueueIds |-> qs[k]]
    OBVIOUS
  <2> HIDE DEF qs
  <2>3. qs \in [QueueIds -> QueueType]
    BY <2>1, <2>2
  <2> QED
    BY <1>4, <2>3 DEF QueuesOK
<1> HIDE DEF xp, qs
<1>7. OnePlace(qs)
  BY <1>1, <1>4 DEF OnePlace
<1>8. Quiet(qs, xp)
  BY <1>3, <1>4, QueueIdsFacts DEF Quiet
<1> QED
  BY <1>2, <1>5, <1>6, <1>7, <1>8, HandlerStep

\* qmgr_queue_find and qmgr_queue_create for a resolved recipient.
LEMMA FindOrCreateOK ==
  ASSUME QueuesOK(queue), NEW k \in QueueIds
  PROVE  /\ QueueOK(Cfg(k[1]), FindOrCreate(k)) /\ FindOrCreate(k).exists
         /\ FindOrCreate(k).todo = queue[k].todo /\ FindOrCreate(k).busy = queue[k].busy
<1>1. QueueOK(Cfg(k[1]), queue[k]) /\ Cfg(k[1]) \in CfgSet
  BY QueueIdsFacts DEF QueuesOK
<1>2. CASE queue[k].exists
  BY <1>1, <1>2 DEF FindOrCreate
<1>3. CASE ~queue[k].exists
  <2>1. FindOrCreate(k) = QueueCreate(Cfg(k[1]))
    BY <1>3 DEF FindOrCreate
  <2>2. queue[k].todo = {} /\ queue[k].busy = {}
    BY <1>1, <1>3 DEF QueueOK
  <2> QED
    BY <1>1, <2>1, <2>2, CreateOK DEF Empty
<1> QED
  BY <1>2, <1>3

\* A new entry goes to a queue that is neither dead nor behind a dead transport.
Bound(xp, e, qs) ==
    \E m \in QueueIds, q \in QueueType :
        /\ QueueOK(Cfg(m[1]), q) /\ ~Throttled(q) /\ ~xp[m[1]].dead
        /\ q.todo = queue[m].todo \union {e} /\ q.busy = queue[m].busy
        /\ qs = [queue EXCEPT ![m] = q]

\* The queue that qmgr_message_resolve binds a recipient to, with its diversion to retry(8).
LEMMA BindQueueOK ==
  ASSUME SchedInv, NEW k \in QueueIds, NEW flush \in BOOLEAN, NEW xp, NEW e \in Entries,
         ~xp[k[1]].dead
  PROVE  \/ BindQueue(k, flush, xp, e) = queue
         \/ Bound(xp, e, BindQueue(k, flush, xp, e))
<1> DEFINE q0 == FindOrCreate(k)
           q  == IF flush /\ Throttled(q0) THEN QueueUnthrottle(Cfg(k[1]), q0) ELSE q0
<1>1. QueuesOK(queue) /\ Cfg(k[1]) \in CfgSet
  BY QueueIdsFacts DEF SchedInv
<1>2. /\ QueueOK(Cfg(k[1]), q0) /\ q0.exists
      /\ q0.todo = queue[k].todo /\ q0.busy = queue[k].busy
  BY <1>1, FindOrCreateOK
<1> HIDE DEF q0
<1>3. /\ QueueOK(Cfg(k[1]), q) /\ q.exists
      /\ q.todo = queue[k].todo /\ q.busy = queue[k].busy
  <2>1. CASE flush /\ Throttled(q0)
    <3>1. ~Suspended(q0)
      BY <2>1 DEF Throttled, Suspended, THROTTLED, SUSPENDED
    <3>2. QueueOK(Cfg(k[1]), q) /\ SameEntries(q0, q)
      BY <1>1, <1>2, <2>1, <3>1, UnthrottleOK
    <3> QED
      BY <1>2, <3>2, Zenon DEF SameEntries
  <2>2. CASE ~(flush /\ Throttled(q0))
    BY <1>2, <2>2
  <2> QED
    BY <2>1, <2>2
<1>4. BindQueue(k, flush, xp, e) =
        IF ~Throttled(q) THEN [queue EXCEPT ![k] = EntryCreate(q, e)]
        ELSE IF RetryUsable(queue, xp, q.dsn)
        THEN [queue EXCEPT ![<<Retry, q.dsn>>] = EntryCreate(RetryQueue(queue, q.dsn), e)]
        ELSE queue
  BY DEF BindQueue, q0
<1> HIDE DEF q
<1>5. CASE ~Throttled(q)
  <2>1. /\ QueueOK(Cfg(k[1]), EntryCreate(q, e)) /\ EntryCreate(q, e).window = q.window
        /\ EntryCreate(q, e).busy = queue[k].busy
        /\ EntryCreate(q, e).todo = queue[k].todo \union {e}
    <3>1. Cfg(k[1]) \in CfgSet /\ QueueOK(Cfg(k[1]), q) /\ q.exists /\ ~Throttled(q)
      BY <1>1, <1>3, <1>5
    <3>2. /\ QueueOK(Cfg(k[1]), EntryCreate(q, e)) /\ EntryCreate(q, e).window = q.window
          /\ EntryCreate(q, e).busy = q.busy
          /\ EntryCreate(q, e).todo = q.todo \union {e}
      BY <3>1, EntryCreateOK
    <3> QED
      BY <1>3, <3>2
  <2>2. ~Throttled(EntryCreate(q, e))
    BY <1>5, <2>1 DEF Throttled
  <2>3. BindQueue(k, flush, xp, e) = [queue EXCEPT ![k] = EntryCreate(q, e)]
    BY <1>4, <1>5
  <2>4. EntryCreate(q, e) \in QueueType
    BY <2>1 DEF QueueOK
  <2> QED
    BY <2>1, <2>2, <2>3, <2>4, Zenon DEF Bound
<1>6. CASE Throttled(q) /\ RetryUsable(queue, xp, q.dsn)
  <2> DEFINE m == <<Retry, q.dsn>>
             r == RetryQueue(queue, q.dsn)
  <2>1. q.dsn \in Dsns /\ m \in QueueIds /\ m[1] = Retry
    BY <1>3, <1>6, QueueIdsFacts, Zenon DEF QueueOK, QueueType
  <2>2. ~Throttled(r) /\ ~xp[Retry].dead
    BY <1>6 DEF RetryUsable
  <2>3. /\ QueueOK(Cfg(Retry), r) /\ r.exists /\ Cfg(Retry) \in CfgSet
        /\ r.todo = queue[m].todo /\ r.busy = queue[m].busy
    BY <1>1, <2>1, RetryQueueOK, CfgType, DeliverAssumption
  <2>4. BindQueue(k, flush, xp, e) = [queue EXCEPT ![m] = EntryCreate(r, e)]
    BY <1>4, <1>6
  <2> HIDE DEF m, r
  <2>5. /\ QueueOK(Cfg(Retry), EntryCreate(r, e)) /\ EntryCreate(r, e).window = r.window
        /\ EntryCreate(r, e).busy = queue[m].busy
        /\ EntryCreate(r, e).todo = queue[m].todo \union {e}
    <3>1. /\ QueueOK(Cfg(Retry), EntryCreate(r, e)) /\ EntryCreate(r, e).window = r.window
          /\ EntryCreate(r, e).busy = r.busy
          /\ EntryCreate(r, e).todo = r.todo \union {e}
      BY <2>2, <2>3, EntryCreateOK
    <3> QED
      BY <2>3, <3>1
  <2>6. ~Throttled(EntryCreate(r, e))
    BY <2>2, <2>5 DEF Throttled
  <2>7. EntryCreate(r, e) \in QueueType
    BY <2>5 DEF QueueOK
  <2> QED
    BY <2>1, <2>2, <2>4, <2>5, <2>6, <2>7, Zenon DEF Bound
<1>7. CASE Throttled(q) /\ ~RetryUsable(queue, xp, q.dsn)
  BY <1>4, <1>7
<1> QED
  BY <1>5, <1>6, <1>7

\* qmgr_message_resolve and qmgr_message_assign add an entry or defer the recipient.
LEMMA ResolveOK ==
  ASSUME SchedInv, NEW t \in Transports, NEW n \in Names(t), NEW flush \in BOOLEAN,
         NEW e \in Entries, Resolve(t, n, flush, e)
  PROVE  SchedInv'
<1> DEFINE xp == ResolveTransport(t, flush)
           qs == IF ~xp[t].dead THEN BindQueue(<<t, n>>, flush, xp, e)
                 ELSE IF ~xp[Retry].dead THEN BindQueue(<<Retry, xp[t].dsn>>, flush, xp, e)
                 ELSE queue
<1>1. /\ TransportsOK(xport) /\ QueuesOK(queue) /\ Quiet(queue, xport) /\ OnePlace(queue)
      /\ TransportOK(xport[t])
  BY DEF SchedInv, TransportsOK
<1>2. /\ Handler /\ QueueListsFollow /\ xport' = xp /\ queue' = qs
      /\ e \in FreeEntries
  BY DEF Resolve
<1>3. TransportsOK(xp) /\ \A u \in Transports : xp[u].dead => xport[u].dead
  <2> DEFINE y == TransportUnthrottle(xport[t])
             x1 == [xport EXCEPT ![t] = y]
  <2>1. CASE flush /\ xport[t].dead
    <3>1. xp = x1
      BY <2>1 DEF ResolveTransport
    <3>2. TransportOK(y) /\ ~y.dead
      BY <1>1, TransportUnthrottleOK
    <3> HIDE DEF y
    <3>3. TransportsOK(x1) /\ x1[t] = y /\ \A u \in Transports : u # t => x1[u] = xport[u]
      BY <1>1, <3>2, UpdateTransport
    <3> HIDE DEF x1
    <3> QED
      BY <3>1, <3>2, <3>3
  <2>2. CASE ~(flush /\ xport[t].dead)
    BY <1>1, <2>2 DEF ResolveTransport
  <2> QED
    BY <2>1, <2>2
<1>4. \A k \in QueueIds : e \notin queue[k].todo \union queue[k].busy
  BY <1>2 DEF FreeEntries, InCore
<1> HIDE DEF xp
<1>5. qs = queue \/ Bound(xp, e, qs)
  <2>1. CASE ~xp[t].dead
    <3> DEFINE k == <<t, n>>
    <3>1. k \in QueueIds /\ k[1] = t
      BY QueueIdsFacts
    <3>2. qs = BindQueue(k, flush, xp, e) /\ ~xp[k[1]].dead
      BY <2>1, <3>1
    <3> HIDE DEF k, qs
    <3> QED
      BY <3>1, <3>2, BindQueueOK
  <2>2. CASE xp[t].dead /\ ~xp[Retry].dead
    <3> DEFINE k == <<Retry, xp[t].dsn>>
    <3>1. xp[t].dsn \in Dsns
      BY <1>3, <2>2 DEF TransportsOK, TransportOK, TransportType
    <3>2. k \in QueueIds /\ k[1] = Retry
      BY <3>1, QueueIdsFacts
    <3>3. qs = BindQueue(k, flush, xp, e) /\ ~xp[k[1]].dead
      BY <2>2, <3>2
    <3> HIDE DEF k, qs
    <3> QED
      BY <3>2, <3>3, BindQueueOK
  <2>3. CASE xp[t].dead /\ xp[Retry].dead
    BY <2>3
  <2> QED
    BY <2>1, <2>2, <2>3
<1> HIDE DEF qs
<1>6. CASE qs = queue
  <2>1. Quiet(queue, xp)
    BY <1>1, <1>3, QueueIdsFacts DEF Quiet
  <2> QED
    BY <1>1, <1>2, <1>3, <1>6, <2>1, HandlerStep
<1>7. CASE qs # queue
  <2>1. PICK m \in QueueIds, q \in QueueType :
               /\ QueueOK(Cfg(m[1]), q) /\ ~Throttled(q) /\ ~xp[m[1]].dead
               /\ q.todo = queue[m].todo \union {e} /\ q.busy = queue[m].busy
               /\ qs = [queue EXCEPT ![m] = q]
    BY <1>5, <1>7 DEF Bound
  <2>2. QueuesOK(qs) /\ qs[m] = q /\ \A l \in QueueIds : l # m => qs[l] = queue[l]
    <3>1. queue \in [QueueIds -> QueueType] /\ q \in QueueType
      BY <1>1, <2>1, Zenon DEF QueuesOK, QueueOK
    <3>2. /\ qs \in [QueueIds -> QueueType] /\ qs[m] = q
          /\ \A l \in QueueIds : l # m => qs[l] = queue[l]
      BY <2>1, <3>1, Zenon
    <3> QED
      BY <1>1, <2>1, <3>2, Zenon DEF QueuesOK
  <2>3. OnePlace(qs)
    BY <1>1, <1>4, <2>1, <2>2, OnePlaceGrows, Zenon
  <2>4. Quiet(qs, xp)
    BY <1>1, <1>3, <2>1, <2>2, QueueIdsFacts DEF Quiet
  <2> QED
    BY <1>2, <1>3, <2>2, <2>3, <2>4, HandlerStep, Zenon
<1> QED
  BY <1>6, <1>7

\* Every step of the queue manager preserves the invariant.
LEMMA NextOK ==
  ASSUME SchedInv, [Next]_vars
  PROVE  SchedInv'
<1>1. ASSUME NEW t \in Transports, NEW connected \in BOOLEAN, Drain(t, connected)
      PROVE  SchedInv'
  BY <1>1, DrainOK
<1>2. ASSUME DrainStop \/ Loop
      PROVE  SchedInv'
  BY <1>2, LoopOK
<1>3. ASSUME NEW t \in Transports, AgentEvent(t)
      PROVE  SchedInv'
  BY <1>3, AgentEventOK
<1>4. ASSUME NEW t \in Transports, TransportTimer(t)
      PROVE  SchedInv'
  BY <1>4, TransportTimerOK
<1>5. ASSUME NEW k \in QueueIds, QueueTimer(k)
      PROVE  SchedInv'
  BY <1>5, QueueTimerOK
<1>6. ASSUME NEW k \in QueueIds, NEW e \in Entries, AgentReport(k, e)
      PROVE  SchedInv'
  BY <1>6, DeliverUpdateOK, DeliverCrashOK DEF AgentReport
<1>7. ASSUME EnableAll
      PROVE  SchedInv'
  BY <1>7, EnableAllOK
<1>8. ASSUME NEW t \in Transports, NEW n \in Names(t), NEW flush \in BOOLEAN, NEW e \in Entries,
             Resolve(t, n, flush, e)
      PROVE  SchedInv'
  BY <1>8, ResolveOK
<1>9. ASSUME Abort
      PROVE  SchedInv'
  BY <1>9, AbortOK
<1>10. CASE UNCHANGED vars
  BY <1>10 DEF vars, SchedInv, ListsOK
<1> QED
  BY <1>1, <1>2, <1>3, <1>4, <1>5, <1>6, <1>7, <1>8, <1>9, <1>10 DEF Next

\* The inductive invariant holds in every reachable state of the scheduler, for
\* any transports, sites, entries and configuration main.cf can express.
THEOREM SchedulerInvariant == Spec => []SchedInv
<1>1. Init => SchedInv
  BY InitOK
<1>2. SchedInv /\ [Next]_vars => SchedInv'
  BY NextOK
<1> QED
  BY <1>1, <1>2, PTL DEF Spec

\* Type correctness of the scheduler state; in particular the pending count of
\* qmgr_transport.c never becomes negative.
THEOREM TypeCorrect == Spec => []TypeOK
<1>1. SchedInv => TypeOK
  BY DEF SchedInv, ListsOK, TransportsOK, QueuesOK, TypeOK
<1> QED
  BY <1>1, SchedulerInvariant, PTL

\* No dangling timer event and no dead queue without a wakeup call
\* (qmgr_queue.c), whatever order feedback, timers and flush requests come in.
THEOREM TimersCorrect == Spec => []TimersMatchStatus
<1>1. SchedInv => TimersMatchStatus
  BY Zenon DEF SchedInv, QueuesOK, QueueOK, TimersMatchStatus
<1> QED
  BY <1>1, SchedulerInvariant, PTL

\* Concurrency limits hold for every limit, window and feedback setting.
THEOREM LimitsHold == Spec => []ConcurrencyLimit
<1>1. SchedInv => ConcurrencyLimit
  BY Zenon DEF SchedInv, QueuesOK, QueueOK, ConcurrencyLimit
<1> QED
  BY <1>1, SchedulerInvariant, PTL

\* Nothing waits behind a dead transport or site (qmgr_defer.c,
\* qmgr_message_resolve).
THEOREM DeadQueuesEmpty == Spec => []NoMailBehindDead
<1>1. SchedInv => NoMailBehindDead
  BY DEF SchedInv, Quiet, NoMailBehindDead
<1> QED
  BY <1>1, SchedulerInvariant, PTL

\* An entry is neither lost between lists nor on two of them (qmgr_entry.c).
THEOREM EntriesUnique == Spec => []EntryInOnePlace
<1>1. SchedInv => EntryInOnePlace
  BY DEF SchedInv, OnePlace, EntryInOnePlace
<1> QED
  BY <1>1, SchedulerInvariant, PTL

=============================================================================
