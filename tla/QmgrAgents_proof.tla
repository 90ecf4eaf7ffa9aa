-------------------------- MODULE QmgrAgents_proof --------------------------
(***************************************************************************)
(* The handlers of delivery agents: answers of the master, connections,    *)
(* delivery reports and agents that die keep the scheduler's invariant.    *)
(***************************************************************************)
EXTENDS QmgrSched_proof

\* qmgr_defer_transport on a transport that was just throttled.
LEMMA DeferTransportOK ==
  ASSUME NEW qs, QueuesOK(qs), OnePlace(qs), NEW xp, NEW t \in Transports, xp[t].dead,
         NEW d \in Dsns, NEW over,
         \A k \in QueueIds : k[1] # t =>
            (qs[k].exists /\ (Throttled(qs[k]) \/ xp[k[1]].dead) => qs[k].todo = {})
  PROVE  LET r == DeferTransport(qs, xp, t, d, over) IN
         /\ QueuesOK(r) /\ Quiet(r, xp) /\ OnePlace(r)
         /\ \A k \in QueueIds : r[k].busy = qs[k].busy
<1> DEFINE S == {k \in QueuesOf(t) : qs[k].exists}
           r == DeferTodo(qs, xp, S, d, over)
<1>1. S \in SUBSET QueueIds /\ \A k \in S : qs[k].exists
  BY QueueIdsFacts
<1>2. <<Retry, d>> \in S => ~RetryUsable(qs, xp, d)
  <2> SUFFICES ASSUME <<Retry, d>> \in S PROVE ~RetryUsable(qs, xp, d)
    OBVIOUS
  <2>1. Retry = t
    BY QueueIdsFacts
  <2> QED
    BY <2>1 DEF RetryUsable
<1>3. \A k \in QueueIds : k \notin S => k[1] # t \/ ~qs[k].exists
  BY QueueIdsFacts
<1> HIDE DEF S
<1>5. QueuesOK(r) /\ DeferEffect(qs, xp, S, d, r)
  BY <1>1, <1>2, DeferTodoOK
<1> HIDE DEF r
<1>6. OnePlace(r)
  BY <1>1, <1>5, DeferTodoOnePlace
<1>7. ASSUME NEW k \in QueueIds, r[k].exists, Throttled(r[k]) \/ xp[k[1]].dead
      PROVE  r[k].todo = {}
  <2>1. CASE k \in S
    BY <1>5, <2>1 DEF DeferEffect
  <2>2. CASE k \notin S /\ r[k] = qs[k]
    BY <1>3, <1>7, <2>2
  <2>3. CASE k \notin S /\ r[k] # qs[k]
    <3>1. k = <<Retry, d>> /\ ~xp[Retry].dead /\ ~Throttled(r[k])
      BY <1>5, <2>3 DEF DeferEffect
    <3>2. k[1] = Retry
      BY <3>1
    <3> QED
      BY <1>7, <3>1, <3>2
  <2> QED
    BY <2>1, <2>2, <2>3
<1>8. Quiet(r, xp)
  BY <1>7 DEF Quiet
<1>9. DeferTransport(qs, xp, t, d, over) = r
  BY DEF r, S, DeferTransport
<1> QED
  BY <1>5, <1>6, <1>8, <1>9 DEF DeferEffect

\* qmgr_deliver, when no agent could be reached.
LEMMA DeliverUnavailableOK ==
  ASSUME SchedInv, Handler, QueueListsFollow, NEW t \in Transports, NEW x, TransportOK(x),
         NEW d \in Dsns, NEW over, DeliverUnavailable(t, x, d, over)
  PROVE  SchedInv'
<1> DEFINE y  == TransportThrottle(x, d)
           xp == [xport EXCEPT ![t] = y]
           qs == DeferTransport(queue, xp, t, d, over)
<1>1. xport' = xp /\ queue' = qs
  BY DEF DeliverUnavailable
<1>2. TransportOK(y) /\ y.dead
  BY TransportThrottleOK
<1>3. TransportsOK(xport) /\ QueuesOK(queue) /\ Quiet(queue, xport) /\ OnePlace(queue)
  BY DEF SchedInv
<1> HIDE DEF y
<1>4. TransportsOK(xp) /\ xp[t] = y /\ \A u \in Transports : u # t => xp[u] = xport[u]
  BY <1>2, <1>3, UpdateTransport
<1> HIDE DEF xp
<1>5. \A k \in QueueIds : k[1] # t =>
        (queue[k].exists /\ (Throttled(queue[k]) \/ xp[k[1]].dead) => queue[k].todo = {})
  BY <1>3, <1>4, QueueIdsFacts DEF Quiet
<1>6. xp[t].dead
  BY <1>2, <1>4
<1>7. QueuesOK(qs) /\ Quiet(qs, xp) /\ OnePlace(qs)
  BY <1>3, <1>5, <1>6, DeferTransportOK
<1> HIDE DEF qs
<1> QED
  BY <1>1, <1>4, <1>7, HandlerStep

\* qmgr_deliver, when an agent is there: an entry is selected, or there is none.
LEMMA DeliverOtherOK ==
  ASSUME SchedInv, Handler, QueueListsFollow, NEW t \in Transports, NEW x, TransportOK(x),
         x.dead = xport[t].dead, NEW stream,
         \/ DeliverNothing(t, x)
         \/ \E k \in QueuesOf(t), e \in Entries : DeliverEntry(t, x, k, e)
         \/ xport' = [xport EXCEPT ![t] = x] /\ UNCHANGED queue
  PROVE  SchedInv'
<1> DEFINE xp == [xport EXCEPT ![t] = x]
<1>1. TransportsOK(xport) /\ QueuesOK(queue) /\ Quiet(queue, xport) /\ OnePlace(queue)
  BY DEF SchedInv
<1>2. TransportsOK(xp) /\ xp[t] = x /\ \A u \in Transports : u # t => xp[u] = xport[u]
  BY <1>1, UpdateTransport
<1>3. \A u \in Transports : xp[u].dead = xport[u].dead
  BY <1>2
<1>4. xport' = xp
  BY DEF DeliverNothing, DeliverEntry
<1> HIDE DEF xp
<1>5. CASE queue' = queue
  <2>1. Quiet(queue, xp)
    BY <1>1, <1>3, QueueIdsFacts DEF Quiet
  <2> QED
    BY <1>1, <1>2, <1>4, <1>5, <2>1, HandlerStep
<1>6. CASE \E k \in QueuesOf(t), e \in Entries : DeliverEntry(t, x, k, e)
  <2>1. PICK k \in QueuesOf(t), e \in Entries : DeliverEntry(t, x, k, e)
    BY <1>6
  <2> DEFINE q  == EntrySelect(queue[k], e)
             qs == [queue EXCEPT ![k] = q]
  <2>2. /\ k \in QueueIds /\ Ready(queue[k]) /\ BusyCount(queue[k]) < queue[k].window
        /\ e \in queue[k].todo /\ queue' = qs
    BY <2>1, QueueIdsFacts DEF DeliverEntry, Selectable
  <2>3. QueueOK(Cfg(k[1]), queue[k]) /\ Cfg(k[1]) \in CfgSet
    BY <1>1, <2>2, QueueIdsFacts DEF QueuesOK
  <2>4. /\ QueueOK(Cfg(k[1]), q) /\ q.exists = queue[k].exists /\ q.window = queue[k].window
        /\ q.busy = queue[k].busy \union {e} /\ q.todo = queue[k].todo \ {e}
    BY <2>2, <2>3, EntrySelectOK
  <2> HIDE DEF q
  <2>5. QueuesOK(qs) /\ qs[k] = q /\ \A l \in QueueIds : l # k => qs[l] = queue[l]
    <3>1. k \in QueueIds /\ QueuesOK(queue) /\ QueueOK(Cfg(k[1]), q)
      BY <1>1, <2>2, <2>4
    <3> QED
      BY <3>1, UpdateQueue
  <2> HIDE DEF qs
  <2>6. OnePlace(qs)
    <3>1. \A l \in QueueIds : queue[l].todo \intersect queue[l].busy = {}
      BY <1>1 DEF OnePlace
    <3>2. \A l \in QueueIds :
            /\ qs[l].todo \union qs[l].busy \subseteq queue[l].todo \union queue[l].busy
            /\ qs[l].todo \intersect qs[l].busy = {}
      BY <2>2, <2>4, <2>5, <3>1
    <3> QED
      BY <1>1, <3>2, OnePlaceShrinks
  <2>7. Quiet(qs, xp)
    BY <1>1, <1>3, <2>2, <2>4, <2>5, QueueIdsFacts DEF Quiet, Throttled, Ready, THROTTLED
  <2> QED
    BY <1>2, <1>4, <2>2, <2>5, <2>6, <2>7, HandlerStep
<1> QED
  BY <1>5, <1>6 DEF DeliverNothing

\* qmgr_deliver, on either path.
LEMMA DeliverOK ==
  ASSUME SchedInv, Handler, QueueListsFollow, NEW t \in Transports, NEW x, TransportOK(x),
         x.dead = xport[t].dead, NEW stream, Deliver(t, x, stream)
  PROVE  SchedInv'
  BY DeliverUnavailableOK, DeliverOtherOK DEF Deliver

\* An agent's announcement, or a failed connect, takes one from the pending count.
LEMMA AnsweredOK ==
  ASSUME NEW x, TransportOK(x), NEW stream \in BOOLEAN,
         IF stream THEN x.connecting > 0 ELSE x.refused > 0
  PROVE  LET y == Answered(x, stream) IN
         /\ TransportOK(y) /\ y.dead = x.dead /\ y.panic = x.panic
         /\ y.rate_lock = x.rate_lock /\ y.pending = x.pending - 1
         /\ y.delayed = x.delayed /\ y.delayed_null = x.delayed_null
         /\ x.pending >= 1
<1> DEFINE y  == Answered(x, stream)
           n1 == x.pending - 1
           n2 == x.connecting - 1
           n3 == x.refused - 1
<1>1. x \in TransportType
  BY DEF TransportOK
<1>2. x.pending \in Nat /\ x.connecting \in Nat /\ x.refused \in Nat
  BY <1>1 DEF TransportType
<1>3. n1 \in Nat /\ (stream => n2 \in Nat) /\ (~stream => n3 \in Nat)
  BY <1>2 DEF TransportOK
<1>4. CASE stream
  <2>1. y = [x EXCEPT !.connecting = n2, !.pending = n1]
    BY <1>4 DEF Answered
  <2>2. n1 = n2 + x.refused /\ n1 = x.pending - 1 /\ x.pending >= 1
    BY <1>2, <1>3 DEF TransportOK
  <2> HIDE DEF y, n1, n2
  <2>3. y \in TransportType
    BY <1>1, <1>3, <1>4, <2>1, Zenon DEF TransportType
  <2>4. /\ y.dead = x.dead /\ y.panic = x.panic /\ y.rate_lock = x.rate_lock /\ y.dsn = x.dsn
        /\ y.timer = x.timer /\ y.pending = n1 /\ y.connecting = n2 /\ y.refused = x.refused
        /\ y.delayed = x.delayed /\ y.delayed_null = x.delayed_null
    BY <1>1, <2>1 DEF TransportType
  <2> QED
    BY <2>2, <2>3, <2>4 DEF y, TransportOK
<1>5. CASE ~stream
  <2>1. y = [x EXCEPT !.refused = n3, !.pending = n1]
    BY <1>5 DEF Answered
  <2>2. n1 = x.connecting + n3 /\ n1 = x.pending - 1 /\ x.pending >= 1
    BY <1>2, <1>3 DEF TransportOK
  <2> HIDE DEF y, n1, n3
  <2>3. y \in TransportType
    BY <1>1, <1>3, <1>5, <2>1, Zenon DEF TransportType
  <2>4. /\ y.dead = x.dead /\ y.panic = x.panic /\ y.rate_lock = x.rate_lock /\ y.dsn = x.dsn
        /\ y.timer = x.timer /\ y.pending = n1 /\ y.connecting = x.connecting /\ y.refused = n3
        /\ y.delayed = x.delayed /\ y.delayed_null = x.delayed_null
    BY <1>1, <2>1 DEF TransportType
  <2> QED
    BY <2>2, <2>3, <2>4 DEF y, TransportOK
<1> QED
  BY <1>4, <1>5

\* A request with a transport rate delay waits for it under the rate lock.
LEMMA DelayedOK ==
  ASSUME NEW x, x.rate_lock \in BOOLEAN, NEW y, TransportOK(y), NEW stream \in BOOLEAN
  PROVE  LET z == Delayed(x, y, stream) IN
         /\ TransportOK(z) /\ z.dead = y.dead
         /\ x.rate_lock => z.panic = y.panic
         /\ z.rate_lock = y.rate_lock /\ z.pending = y.pending
         /\ z.delayed + z.delayed_null = y.delayed + y.delayed_null + 1
<1> DEFINE z  == Delayed(x, y, stream)
           p  == y.panic \/ ~x.rate_lock
           n1 == IF stream THEN y.delayed + 1 ELSE y.delayed
           n2 == IF stream THEN y.delayed_null ELSE y.delayed_null + 1
<1>1. y \in TransportType
  BY DEF TransportOK
<1>2. p \in BOOLEAN /\ (x.rate_lock => p = y.panic)
  BY <1>1 DEF TransportType
<1>3. n1 \in Nat /\ n2 \in Nat /\ n1 + n2 = y.delayed + y.delayed_null + 1
  BY <1>1 DEF TransportType
<1>4. z = [y EXCEPT !.panic = p, !.delayed = n1, !.delayed_null = n2]
  BY DEF Delayed
<1> HIDE DEF z, p, n1, n2
<1>5. z \in TransportType
  BY <1>1, <1>2, <1>3, <1>4, Zenon DEF TransportType
<1>6. /\ z.dead = y.dead /\ z.panic = p /\ z.rate_lock = y.rate_lock /\ z.dsn = y.dsn
      /\ z.timer = y.timer /\ z.pending = y.pending /\ z.connecting = y.connecting
      /\ z.refused = y.refused /\ z.delayed = n1 /\ z.delayed_null = n2
  BY <1>1, <1>4 DEF TransportType
<1> QED
  BY <1>2, <1>3, <1>5, <1>6 DEF z, TransportOK

\* The end of a transport rate delay.
LEMMA ReleasedOK ==
  ASSUME NEW x, TransportOK(x), NEW stream \in BOOLEAN,
         IF stream THEN x.delayed > 0 ELSE x.delayed_null > 0
  PROVE  LET y == Released(x, stream) IN
         /\ TransportOK(y) /\ y.dead = x.dead /\ y.panic = x.panic
         /\ y.rate_lock = x.rate_lock /\ y.pending = x.pending
         /\ y.delayed + y.delayed_null = x.delayed + x.delayed_null - 1
<1> DEFINE y  == Released(x, stream)
           n1 == x.delayed - 1
           n2 == x.delayed_null - 1
<1>1. x \in TransportType /\ x.delayed \in Nat /\ x.delayed_null \in Nat
  BY DEF TransportOK, TransportType
<1>3. (stream => n1 \in Nat) /\ (~stream => n2 \in Nat)
  BY <1>1
<1>4. CASE stream
  <2>1. y = [x EXCEPT !.delayed = n1]
    BY <1>4 DEF Released
  <2>2. n1 + x.delayed_null = x.delayed + x.delayed_null - 1
    BY <1>1
  <2> HIDE DEF y, n1
  <2>3. y \in TransportType
    BY <1>1, <1>3, <1>4, <2>1 DEF TransportType
  <2>4. /\ y.dead = x.dead /\ y.panic = x.panic /\ y.rate_lock = x.rate_lock /\ y.dsn = x.dsn
        /\ y.timer = x.timer /\ y.pending = x.pending /\ y.connecting = x.connecting
        /\ y.refused = x.refused /\ y.delayed = n1 /\ y.delayed_null = x.delayed_null
    BY <1>1, <2>1 DEF TransportType
  <2> QED
    BY <2>2, <2>3, <2>4 DEF y, TransportOK
<1>5. CASE ~stream
  <2>1. y = [x EXCEPT !.delayed_null = n2]
    BY <1>5 DEF Released
  <2>2. x.delayed + n2 = x.delayed + x.delayed_null - 1
    BY <1>1
  <2> HIDE DEF y, n2
  <2>3. y \in TransportType
    BY <1>1, <1>3, <1>5, <2>1 DEF TransportType
  <2>4. /\ y.dead = x.dead /\ y.panic = x.panic /\ y.rate_lock = x.rate_lock /\ y.dsn = x.dsn
        /\ y.timer = x.timer /\ y.pending = x.pending /\ y.connecting = x.connecting
        /\ y.refused = x.refused /\ y.delayed = x.delayed /\ y.delayed_null = n2
    BY <1>1, <2>1 DEF TransportType
  <2> QED
    BY <2>2, <2>3, <2>4 DEF y, TransportOK
<1> QED
  BY <1>4, <1>5

\* An agent announces itself, or its connection fails.
LEMMA AgentEventOK ==
  ASSUME SchedInv, NEW t \in Transports, AgentEvent(t)
  PROVE  SchedInv'
<1> DEFINE x == xport[t]
<1>1. TransportOK(x) /\ x.rate_lock \in BOOLEAN
  BY DEF SchedInv, TransportsOK, TransportOK, TransportType
<1>2. ASSUME NEW stream \in BOOLEAN, TransportEvent(t, stream)
      PROVE  SchedInv'
  <2> DEFINE y == Answered(x, stream)
             z == Delayed(x, y, stream)
  <2>1. /\ Handler /\ QueueListsFollow
        /\ IF stream THEN x.connecting > 0 ELSE x.refused > 0
        /\ IF Cfg(t).xport_rate_delay
           THEN xport' = [xport EXCEPT ![t] = z] /\ UNCHANGED queue
           ELSE Deliver(t, y, stream)
    BY <1>2 DEF TransportEvent
  <2>2. TransportOK(y) /\ y.dead = x.dead
    BY <1>1, <2>1, AnsweredOK
  <2>3. TransportOK(z) /\ z.dead = x.dead
    BY <1>1, <2>2, DelayedOK
  <2> HIDE DEF y, z
  <2>4. CASE Cfg(t).xport_rate_delay
    BY <2>1, <2>3, <2>4, DeliverOtherOK
  <2>5. CASE ~Cfg(t).xport_rate_delay
    BY <2>1, <2>2, <2>5, DeliverOK
  <2> QED
    BY <2>4, <2>5
<1>3. ASSUME NEW stream \in BOOLEAN, TransportRateEvent(t, stream)
      PROVE  SchedInv'
  <2> DEFINE y == Released(x, stream)
  <2>1. /\ Handler /\ QueueListsFollow
        /\ IF stream THEN x.delayed > 0 ELSE x.delayed_null > 0
        /\ Deliver(t, y, stream)
    BY <1>3 DEF TransportRateEvent
  <2>2. TransportOK(y) /\ y.dead = x.dead
    BY <1>1, <2>1, ReleasedOK
  <2> HIDE DEF y
  <2> QED
    BY <2>1, <2>2, DeliverOK
<1> QED
  BY <1>2, <1>3 DEF AgentEvent

\* Deferring the waiting entries of one queue whose site was declared dead.
LEMMA DeferQueueOK ==
  ASSUME NEW qs, QueuesOK(qs), OnePlace(qs), NEW xp, NEW k \in QueueIds,
         qs[k].exists, Throttled(qs[k]), NEW d \in Dsns, NEW over
  PROVE  LET r == DeferTodo(qs, xp, {k}, d, over) IN
         QueuesOK(r) /\ OnePlace(r) /\ DeferEffect(qs, xp, {k}, d, r)
<1> DEFINE S == {k}
           r == DeferTodo(qs, xp, S, d, over)
<1>1. S \in SUBSET QueueIds /\ \A l \in S : qs[l].exists
  OBVIOUS
<1>2. <<Retry, d>> \in S => ~RetryUsable(qs, xp, d)
  BY DEF RetryUsable, RetryQueue
<1> HIDE DEF S
<1>3. QueuesOK(r) /\ DeferEffect(qs, xp, S, d, r)
  BY <1>1, <1>2, DeferTodoOK
<1> HIDE DEF r
<1>4. OnePlace(r)
  BY <1>1, <1>3, DeferTodoOnePlace
<1> QED
  BY <1>3, <1>4 DEF r, S

\* qmgr_deliver_update with a report from the agent.
LEMMA DeliverUpdateOK ==
  ASSUME SchedInv, NEW k \in QueueIds, NEW e \in Entries,
         NEW deferred \in BOOLEAN, NEW site \in BOOLEAN, NEW d \in Dsns, NEW over,
         DeliverUpdate(k, e, deferred, site, d, over)
  PROVE  SchedInv'
<1> DEFINE t    == k[1]
           c    == Cfg(t)
           hit  == deferred /\ site /\ Ready(queue[k])
           q1   == IF hit THEN QueueThrottle(c, queue[k], d) ELSE queue[k]
           qs0  == [queue EXCEPT ![k] = q1]
           qs1  == IF hit /\ Throttled(q1) THEN DeferTodo(qs0, xport, {k}, d, over) ELSE qs0
           q2   == IF site THEN qs1[k] ELSE QueueUnthrottle(c, qs1[k])
           q3   == EntryDoneBusy(c, q2, e, k \in over)
           qs   == [qs1 EXCEPT ![k] = q3]
           y    == TransportUnthrottle(xport[t])
           xp   == [xport EXCEPT ![t] = y]
<1>1. /\ Handler /\ QueueListsFollow /\ e \in queue[k].busy
      /\ xport' = xp /\ queue' = qs
  BY Zenon DEF DeliverUpdate
<1>2. /\ TransportsOK(xport) /\ QueuesOK(queue) /\ Quiet(queue, xport) /\ OnePlace(queue)
      /\ t \in Transports /\ c \in CfgSet
  BY QueueIdsFacts DEF SchedInv
<1>3. QueueOK(c, queue[k]) /\ queue[k].exists /\ ~Suspended(queue[k])
  BY <1>1, <1>2, Zenon DEF QueuesOK, QueueOK
<1>4. TransportOK(y) /\ ~y.dead
  BY <1>2, TransportUnthrottleOK DEF TransportsOK
<1> HIDE DEF y
<1>5. TransportsOK(xp) /\ xp[t] = y /\ \A u \in Transports : u # t => xp[u] = xport[u]
  BY <1>2, <1>4, UpdateTransport
<1> HIDE DEF xp
<1>6. QueueOK(c, q1) /\ SameEntries(queue[k], q1) /\ ~Suspended(q1)
  BY <1>2, <1>3, ThrottleOK, Zenon DEF SameEntries
<1>7. q1.exists /\ q1.busy = queue[k].busy /\ q1.todo = queue[k].todo
  BY <1>3, <1>6, Zenon DEF SameEntries
<1>8. Throttled(q1) => hit \/ q1.todo = {}
  BY <1>2, <1>3 DEF Quiet
<1> HIDE DEF q1
<1>9. QueuesOK(qs0) /\ qs0[k] = q1 /\ \A l \in QueueIds : l # k => qs0[l] = queue[l]
  BY <1>2, <1>6, UpdateQueue
<1> HIDE DEF qs0
<1>10. OnePlace(qs0)
  <2>1. \A l \in QueueIds : queue[l].todo \intersect queue[l].busy = {}
    BY <1>2 DEF OnePlace
  <2>2. \A l \in QueueIds : /\ qs0[l].todo \union qs0[l].busy \subseteq queue[l].todo \union queue[l].busy
                            /\ qs0[l].todo \intersect qs0[l].busy = {}
    BY <1>7, <1>9, <2>1
  <2> QED
    BY <1>2, <2>2, OnePlaceShrinks, Zenon
<1>11. /\ QueuesOK(qs1) /\ OnePlace(qs1)
       /\ qs1[k].busy = queue[k].busy
       /\ Throttled(qs1[k]) => qs1[k].todo = {}
       /\ \A l \in QueueIds : l # k =>
            \/ qs1[l] = queue[l]
            \/ l[1] = Retry /\ ~xport[Retry].dead /\ ~Throttled(qs1[l])
  <2>1. CASE hit /\ Throttled(q1)
    <3>1. qs1 = DeferTodo(qs0, xport, {k}, d, over)
      BY <2>1
    <3>2. QueuesOK(qs1) /\ OnePlace(qs1) /\ DeferEffect(qs0, xport, {k}, d, qs1)
      BY <1>7, <1>9, <1>10, <2>1, <3>1, DeferQueueOK, Zenon
    <3> HIDE DEF qs1
    <3>3. qs1[k].busy = queue[k].busy /\ qs1[k].todo = {}
      BY <1>7, <1>9, <3>2, Zenon DEF DeferEffect
    <3>4. ASSUME NEW l \in QueueIds, l # k
          PROVE  \/ qs1[l] = queue[l]
                 \/ l[1] = Retry /\ ~xport[Retry].dead /\ ~Throttled(qs1[l])
      <4>1. l \in QueueIds \ {k}
        BY <3>4
      <4>2. \/ qs1[l] = qs0[l]
            \/ l = <<Retry, d>> /\ ~xport[Retry].dead /\ ~Throttled(qs1[l])
        BY <3>2, <4>1 DEF DeferEffect
      <4> QED
        BY <1>9, <3>4, <4>2
    <3> QED
      BY <3>2, <3>3, <3>4, Zenon
  <2>2. CASE ~(hit /\ Throttled(q1))
    <3>1. qs1 = qs0
      BY <2>2
    <3> HIDE DEF qs1, hit
    <3> QED
      BY <1>7, <1>8, <1>9, <1>10, <2>2, <3>1
  <2> QED
    BY <2>1, <2>2, Zenon
<1> HIDE DEF qs1
<1>12. QueueOK(c, qs1[k]) /\ qs1[k].exists /\ ~Suspended(qs1[k])
  <2>1. QueueOK(c, qs1[k])
    BY <1>11, Zenon DEF QueuesOK
  <2> QED
    BY <1>1, <1>11, <2>1, Zenon DEF QueueOK
<1>13. QueueOK(c, q2) /\ q2.busy = queue[k].busy /\ q2.todo = qs1[k].todo
       /\ (Throttled(q2) => q2.todo = {})
  <2>1. CASE site
    BY <1>11, <1>12, <2>1, Zenon
  <2>2. CASE ~site
    <3>1. QueueOK(c, q2) /\ SameEntries(qs1[k], q2) /\ Ready(q2)
      BY <1>2, <1>12, <2>2, UnthrottleOK
    <3> HIDE DEF q2
    <3>2. q2.busy = queue[k].busy /\ q2.todo = qs1[k].todo
      BY <1>11, <3>1 DEF SameEntries
    <3>3. ~Throttled(q2)
      BY <3>1 DEF Ready, Throttled, THROTTLED
    <3> QED
      BY <3>1, <3>2, <3>3
  <2> QED
    BY <2>1, <2>2, Zenon
<1> HIDE DEF q2
<1>14. /\ QueueOK(c, q3) /\ q3.todo = qs1[k].todo /\ q3.busy = queue[k].busy \ {e}
       /\ q3.exists /\ Throttled(q3) => q3.todo = {}
  <2>1. e \in q2.busy
    BY <1>1, <1>13
  <2>2. c \in CfgSet /\ QueueOK(c, q2)
    BY <1>2, <1>13
  <2>3. /\ QueueOK(c, q3) /\ q3.todo = q2.todo /\ q3.busy = q2.busy \ {e}
        /\ q3.exists /\ Throttled(q3) => Throttled(q2)
    BY <2>1, <2>2, EntryDoneBusyOK
  <2> HIDE DEF q3
  <2> QED
    BY <1>13, <2>3
<1> HIDE DEF q3
<1>15. QueuesOK(qs) /\ qs[k] = q3 /\ \A l \in QueueIds : l # k => qs[l] = qs1[l]
  BY <1>11, <1>14, UpdateQueue
<1> HIDE DEF qs
<1>16. OnePlace(qs)
  <2>1. \A l \in QueueIds : qs1[l].todo \intersect qs1[l].busy = {}
    BY <1>11 DEF OnePlace
  <2>2. \A l \in QueueIds : /\ qs[l].todo \union qs[l].busy \subseteq qs1[l].todo \union qs1[l].busy
                            /\ qs[l].todo \intersect qs[l].busy = {}
    BY <1>11, <1>14, <1>15, <2>1
  <2> QED
    BY <1>11, <2>2, OnePlaceShrinks
<1>17. ASSUME NEW l \in QueueIds, qs[l].exists, Throttled(qs[l]) \/ xp[l[1]].dead
       PROVE  qs[l].todo = {}
  <2>1. CASE l = k
    BY <1>4, <1>5, <1>14, <1>15, <1>17, <2>1
  <2>2. CASE l # k
    <3>1. qs[l] = qs1[l]
      BY <1>15, <2>2
    <3>2. l[1] \in Transports /\ (xp[l[1]].dead => xport[l[1]].dead)
      BY <1>4, <1>5, QueueIdsFacts
    <3>3. qs1[l] = queue[l]
      BY <1>11, <1>17, <2>2, <3>1, <3>2
    <3> QED
      BY <1>2, <1>17, <3>1, <3>2, <3>3 DEF Quiet
  <2> QED
    BY <2>1, <2>2
<1>18. Quiet(qs, xp)
  BY <1>17 DEF Quiet
<1> QED
  BY <1>1, <1>5, <1>15, <1>16, <1>18, HandlerStep

\* qmgr_deliver_update when the agent died without a report.
LEMMA DeliverCrashOK ==
  ASSUME SchedInv, NEW k \in QueueIds, NEW e \in Entries, NEW d \in Dsns, NEW over,
         DeliverCrash(k, e, d, over)
  PROVE  SchedInv'
<1> DEFINE t  == k[1]
           y  == TransportThrottle(xport[t], d)
           xp == [xport EXCEPT ![t] = y]
           q  == EntryUnselect(queue[k], e)
           q0 == [queue EXCEPT ![k] = q]
           qs == DeferTransport(q0, xp, t, d, over)
<1>1. /\ Handler /\ QueueListsFollow /\ e \in queue[k].busy
      /\ xport' = xp /\ queue' = qs
  BY DEF DeliverCrash
<1>2. /\ TransportsOK(xport) /\ QueuesOK(queue) /\ Quiet(queue, xport) /\ OnePlace(queue)
      /\ t \in Transports /\ Cfg(t) \in CfgSet
  BY QueueIdsFacts DEF SchedInv
<1>3. TransportOK(y) /\ y.dead
  BY <1>2, TransportThrottleOK DEF TransportsOK
<1> HIDE DEF y
<1>4. TransportsOK(xp) /\ xp[t] = y /\ \A u \in Transports : u # t => xp[u] = xport[u]
  BY <1>2, <1>3, UpdateTransport
<1> HIDE DEF xp
<1>5. QueueOK(Cfg(t), queue[k])
  BY <1>2 DEF QueuesOK
<1>6. /\ QueueOK(Cfg(t), q) /\ q.busy = queue[k].busy \ {e}
      /\ q.todo = queue[k].todo \union {e}
  <2>1. e \in queue[k].busy /\ Cfg(t) \in CfgSet
    BY <1>1, <1>2
  <2> QED
    BY <1>5, <2>1, EntryUnselectOK
<1> HIDE DEF q
<1>7. QueuesOK(q0) /\ q0[k] = q /\ \A l \in QueueIds : l # k => q0[l] = queue[l]
  <2>1. queue \in [QueueIds -> QueueType] /\ q \in QueueType
    BY <1>2, <1>6, Zenon DEF QueuesOK, QueueOK
  <2>2. /\ q0 \in [QueueIds -> QueueType] /\ q0[k] = q
        /\ \A l \in QueueIds : l # k => q0[l] = queue[l]
    BY <2>1
  <2> QED
    BY <1>2, <1>6, <2>2 DEF QueuesOK
<1> HIDE DEF q0
<1>8. OnePlace(q0)
  <2>1. \A l \in QueueIds : queue[l].todo \intersect queue[l].busy = {}
    BY <1>2 DEF OnePlace
  <2>2. \A l \in QueueIds : /\ q0[l].todo \union q0[l].busy \subseteq queue[l].todo \union queue[l].busy
                            /\ q0[l].todo \intersect q0[l].busy = {}
    BY <1>1, <1>6, <1>7, <2>1
  <2> QED
    BY <1>2, <2>2, OnePlaceShrinks, Zenon
<1>9. \A l \in QueueIds : l[1] # t =>
        (q0[l].exists /\ (Throttled(q0[l]) \/ xp[l[1]].dead) => q0[l].todo = {})
  <2> SUFFICES ASSUME NEW l \in QueueIds, l[1] # t
               PROVE  q0[l].exists /\ (Throttled(q0[l]) \/ xp[l[1]].dead) => q0[l].todo = {}
    OBVIOUS
  <2>1. q0[l] = queue[l] /\ xp[l[1]] = xport[l[1]]
    BY <1>4, <1>7, QueueIdsFacts
  <2> QED
    BY <1>2, <2>1 DEF Quiet
<1>10. xp[t].dead
  BY <1>3, <1>4
<1>11. QueuesOK(qs) /\ Quiet(qs, xp) /\ OnePlace(qs)
  BY <1>2, <1>7, <1>8, <1>9, <1>10, DeferTransportOK, Zenon
<1> HIDE DEF qs
<1> QED
  BY <1>1, <1>4, <1>11, HandlerStep

=============================================================================
