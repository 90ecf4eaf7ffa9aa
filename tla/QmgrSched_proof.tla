-------------------------- MODULE QmgrSched_proof ---------------------------
(***************************************************************************)
(* The scheduler: the operations on a transport keep the invariant of a    *)
(* transport, deferring and moving entries keeps every entry in one place, *)
(* and the steps of the event loop keep the invariant of the scheduler.    *)
(***************************************************************************)
EXTENDS QmgrQueue_proof

(* One transport *)

\* A transport is dead exactly while it has a reason and an armed timer; the
\* pending count is the number of requests that will be answered.
TransportOK(x) ==
    /\ x \in TransportType
    /\ x.pending = x.connecting + x.refused
    /\ x.dead <=> x.dsn # NoDsn
    /\ x.dead <=> x.timer

SameRequests(x, y) ==
    /\ y.pending = x.pending /\ y.connecting = x.connecting /\ y.refused = x.refused
    /\ y.delayed = x.delayed /\ y.delayed_null = x.delayed_null

\* qmgr_transport_create makes a live transport without outstanding requests.
LEMMA NewTransportOK == TransportOK(NewTransport) /\ ~NewTransport.dead
  BY DEF TransportOK, TransportType, NewTransport

\* qmgr_transport_throttle leaves a dead transport with its timer armed.
LEMMA TransportThrottleOK ==
  ASSUME NEW x, TransportOK(x), NEW dsn \in Dsns
  PROVE  /\ TransportOK(TransportThrottle(x, dsn))
         /\ TransportThrottle(x, dsn).dead
         /\ TransportThrottle(x, dsn).panic = x.panic
         /\ TransportThrottle(x, dsn).rate_lock = x.rate_lock
         /\ SameRequests(x, TransportThrottle(x, dsn))
<1>1. CASE x.dead
  BY <1>1 DEF TransportThrottle, SameRequests
<1>2. CASE ~x.dead
  <2> DEFINE y  == TransportThrottle(x, dsn)
             yes == TRUE
             bad == x.panic \/ x.dsn # NoDsn
  <2>1. x \in TransportType /\ x.dsn = NoDsn /\ dsn # NoDsn
    BY <1>2, DeliverAssumption DEF TransportOK
  <2>2. bad = x.panic
    BY <2>1 DEF TransportType
  <2>3. y = [x EXCEPT !.panic = bad, !.dead = yes, !.dsn = dsn, !.timer = yes]
    BY <1>2 DEF TransportThrottle
  <2>4. yes \in BOOLEAN /\ bad \in BOOLEAN
    BY <2>1, <2>2 DEF TransportType
  <2> HIDE DEF bad, yes, y
  <2>5. y \in TransportType
    BY <2>1, <2>3, <2>4, Zenon DEF TransportType
  <2>6. /\ y.panic = bad /\ y.dead = yes /\ y.dsn = dsn /\ y.timer = yes
        /\ y.rate_lock = x.rate_lock /\ SameRequests(x, y)
    BY <2>1, <2>3 DEF TransportType, SameRequests
  <2> QED
    BY <2>1, <2>2, <2>5, <2>6 DEF y, yes, TransportOK, SameRequests
<1> QED
  BY <1>1, <1>2

\* qmgr_transport_unthrottle leaves a live transport without a rate lock.
LEMMA TransportUnthrottleOK ==
  ASSUME NEW x, TransportOK(x)
  PROVE  /\ TransportOK(TransportUnthrottle(x))
         /\ ~TransportUnthrottle(x).dead
         /\ TransportUnthrottle(x).panic = x.panic
         /\ ~TransportUnthrottle(x).rate_lock
         /\ SameRequests(x, TransportUnthrottle(x))
<1> DEFINE y  == TransportUnthrottle(x)
           no == FALSE
<1>1. x \in TransportType /\ no \in BOOLEAN
  BY DEF TransportOK
<1>2. CASE x.dead
  <2> DEFINE bad == x.panic \/ x.dsn = NoDsn
             nil == NoDsn
  <2>1. x.dsn # NoDsn /\ nil \in Dsns \union {NoDsn}
    BY <1>2 DEF TransportOK
  <2>2. bad = x.panic
    BY <1>1, <2>1 DEF TransportType
  <2>3. y = [x EXCEPT !.panic = bad, !.dead = no, !.dsn = nil, !.timer = no, !.rate_lock = no]
    BY <1>2 DEF TransportUnthrottle
  <2>4. bad \in BOOLEAN
    BY <1>1, <2>2 DEF TransportType
  <2> HIDE DEF bad, no, nil, y
  <2>5. y \in TransportType
    BY <1>1, <2>1, <2>3, <2>4, Zenon DEF TransportType
  <2>6. /\ y.panic = bad /\ y.dead = no /\ y.dsn = nil /\ y.timer = no
        /\ y.rate_lock = no /\ SameRequests(x, y)
    BY <1>1, <2>3 DEF TransportType, SameRequests
  <2> QED
    BY <2>2, <2>5, <2>6 DEF y, no, nil, TransportOK, SameRequests
<1>3. CASE ~x.dead
  <2>1. y = [x EXCEPT !.rate_lock = no]
    BY <1>3 DEF TransportUnthrottle
  <2> HIDE DEF no, y
  <2>2. y \in TransportType
    BY <1>1, <2>1 DEF TransportType
  <2>3. /\ y.panic = x.panic /\ y.dead = x.dead /\ y.dsn = x.dsn /\ y.timer = x.timer
        /\ y.rate_lock = no /\ SameRequests(x, y)
    BY <1>1, <2>1 DEF TransportType, SameRequests
  <2> QED
    BY <1>3, <2>2, <2>3 DEF y, no, TransportOK, SameRequests
<1> QED
  BY <1>2, <1>3

\* qmgr_transport_alloc counts one more outstanding request.
LEMMA TransportAllocOK ==
  ASSUME NEW x, TransportOK(x), NEW c \in CfgSet, NEW connected \in BOOLEAN,
         ~x.dead, ~x.rate_lock, x.pending < MaxPend
  PROVE  LET y == TransportAlloc(x, c, connected) IN
         /\ TransportOK(y)
         /\ ~y.dead
         /\ y.panic = x.panic
         /\ y.rate_lock = c.xport_rate_delay
         /\ y.pending = x.pending + 1
         /\ y.delayed = x.delayed /\ y.delayed_null = x.delayed_null
<1> DEFINE y  == TransportAlloc(x, c, connected)
           p  == x.panic \/ x.dead \/ x.rate_lock \/ x.pending >= MaxPend
           l  == x.rate_lock \/ c.xport_rate_delay
           n1 == x.pending + 1
           n2 == IF connected THEN x.connecting + 1 ELSE x.connecting
           n3 == IF connected THEN x.refused ELSE x.refused + 1
<1>1. x \in TransportType
  BY DEF TransportOK
<1>2. p = x.panic /\ p \in BOOLEAN
  BY <1>1, DeliverAssumption DEF TransportType
<1>3. l = c.xport_rate_delay /\ l \in BOOLEAN
  BY <1>1 DEF TransportType, CfgSet, RawConfig
<1>4. n1 \in Nat /\ n2 \in Nat /\ n3 \in Nat /\ n1 = n2 + n3
  BY <1>1 DEF TransportOK, TransportType
<1>5. y = [x EXCEPT !.panic = p, !.rate_lock = l, !.pending = n1, !.connecting = n2,
                    !.refused = n3]
  BY DEF TransportAlloc
<1> HIDE DEF y, p, l, n1, n2, n3
<1>6. y \in TransportType
  BY <1>1, <1>2, <1>3, <1>4, <1>5, Zenon DEF TransportType
<1>7. /\ y.panic = p /\ y.dead = x.dead /\ y.dsn = x.dsn /\ y.timer = x.timer
      /\ y.rate_lock = l /\ y.pending = n1 /\ y.connecting = n2 /\ y.refused = n3
      /\ y.delayed = x.delayed /\ y.delayed_null = x.delayed_null
  BY <1>1, <1>5 DEF TransportType
<1> QED
  BY <1>2, <1>3, <1>4, <1>6, <1>7 DEF y, n1, TransportOK

-----------------------------------------------------------------------------
(* All queues *)

QueuesOK(qs) ==
    /\ qs \in [QueueIds -> QueueType]
    /\ \A k \in QueueIds : QueueOK(Cfg(k[1]), qs[k])

Quiet(qs, xp) ==
    \A k \in QueueIds :
        qs[k].exists /\ (Throttled(qs[k]) \/ xp[k[1]].dead) => qs[k].todo = {}

OnePlace(qs) ==
    /\ \A k \in QueueIds : qs[k].todo \intersect qs[k].busy = {}
    /\ \A k, l \in QueueIds : k # l =>
          (qs[k].todo \union qs[k].busy) \intersect (qs[l].todo \union qs[l].busy) = {}

\* The waiting entries of the queues in S.
Moved(qs, S) == UNION {qs[l].todo : l \in S}

\* Which queues belong to which transport.
LEMMA QueueIdsFacts ==
  /\ \A k \in QueueIds : k[1] \in Transports /\ Cfg(k[1]) \in CfgSet
  /\ \A d \in Dsns : <<Retry, d>> \in QueueIds
  /\ \A t \in Transports : QueuesOf(t) \subseteq QueueIds
  /\ \A t \in Transports : \A k \in QueuesOf(t) : k[1] = t
  /\ \A t \in Transports : \A k \in QueueIds : k[1] = t => k \in QueuesOf(t)
  /\ \A t \in Transports : \A n \in Names(t) : <<t, n>> \in QueueIds
<1>1. \A k \in QueueIds : k[1] \in Transports
  BY DeliverAssumption DEF QueueIds
<1>2. \A k \in QueueIds : Cfg(k[1]) \in CfgSet
  BY <1>1, CfgType
<1>3. \A d \in Dsns : <<Retry, d>> \in QueueIds
  BY DEF QueueIds
<1>4. \A t \in Transports : QueuesOf(t) \subseteq QueueIds
  BY DEF QueuesOf, Names, QueueIds
<1>5. \A t \in Transports : \A k \in QueuesOf(t) : k[1] = t
  BY DEF QueuesOf
<1>6. \A t \in Transports : \A k \in QueueIds : k[1] = t => k \in QueuesOf(t)
  BY DEF QueuesOf, Names, QueueIds
<1>7. \A t \in Transports : \A n \in Names(t) : <<t, n>> \in QueueIds
  BY DEF Names, QueueIds
<1> QED
  BY <1>1, <1>2, <1>3, <1>4, <1>5, <1>6, <1>7

\* The queue of qmgr_error_queue exists and still holds what it held.
LEMMA RetryQueueOK ==
  ASSUME NEW qs, QueuesOK(qs), NEW d \in Dsns
  PROVE  /\ QueueOK(Cfg(Retry), RetryQueue(qs, d))
         /\ RetryQueue(qs, d).exists
         /\ RetryQueue(qs, d).todo = qs[<<Retry, d>>].todo
         /\ RetryQueue(qs, d).busy = qs[<<Retry, d>>].busy
<1> DEFINE q == qs[<<Retry, d>>]
<1>1. QueueOK(Cfg(Retry), q) /\ Cfg(Retry) \in CfgSet
  BY QueueIdsFacts, CfgType, DeliverAssumption DEF QueuesOK
<1>2. CASE q.exists
  BY <1>1, <1>2 DEF RetryQueue
<1>3. CASE ~q.exists
  <2>1. RetryQueue(qs, d) = QueueCreate(Cfg(Retry))
    BY <1>3 DEF RetryQueue
  <2>2. q.todo = {} /\ q.busy = {}
    BY <1>1, <1>3 DEF QueueOK
  <2> QED
    BY <1>1, <2>1, <2>2, CreateOK DEF Empty
<1> QED
  BY <1>2, <1>3

\* Entries can join any queue that is not throttled.
LEMMA MoveInOK ==
  ASSUME NEW c \in CfgSet, NEW q, QueueOK(c, q), q.exists, ~Throttled(q),
         NEW E \in SUBSET Entries
  PROVE  LET r == [q EXCEPT !.todo = @ \union E] IN
         /\ QueueOK(c, r)
         /\ r.exists /\ r.window = q.window /\ r.busy = q.busy /\ r.todo = q.todo \union E
<1> DEFINE s == q.todo \union E
           r == [q EXCEPT !.todo = s]
<1>1. q \in QueueType
  BY DEF QueueOK
<1>2. s \in SUBSET Entries
  BY <1>1 DEF QueueType
<1> HIDE DEF s
<1>5. /\ r \in QueueType
      /\ r.exists = q.exists /\ r.window = q.window /\ r.busy = q.busy /\ r.timers = q.timers
      /\ r.dsn = q.dsn /\ r.panic = q.panic /\ r.todo = s
  BY <1>1, <1>2, Zenon DEF QueueType
<1> HIDE DEF r
<1>6. BusyCount(r) = BusyCount(q)
  BY <1>5 DEF BusyCount
<1>7. QueueOK(c, r)
  BY <1>5, <1>6 DEF QueueOK, Throttled, Suspended
<1> QED
  BY <1>5, <1>7 DEF r, s

\* qmgr_defer_todo: the queues in S lose their waiting entries, the retry queue
\* gets all of them or none, nothing else changes.
DeferEffect(qs, xp, S, d, r) ==
    /\ \A k \in QueueIds : r[k].busy = qs[k].busy
    /\ \A k \in S : r[k].todo = {} /\ (r[k].exists => r[k].window = qs[k].window)
    /\ \A k \in QueueIds \ S :
          \/ r[k] = qs[k]
          \/ /\ k = <<Retry, d>> /\ ~xp[Retry].dead
             /\ r[k].exists /\ ~Throttled(r[k])
             /\ r[k].todo = qs[k].todo \union Moved(qs, S)

\* qmgr_defer_todo empties the dead queue and keeps every queue well-formed.
LEMMA DeferTodoOK ==
  ASSUME NEW qs, QueuesOK(qs), NEW xp, NEW S \in SUBSET QueueIds,
         \A k \in S : qs[k].exists, NEW d \in Dsns, NEW over,
         <<Retry, d>> \in S => ~RetryUsable(qs, xp, d)
  PROVE  /\ QueuesOK(DeferTodo(qs, xp, S, d, over))
         /\ DeferEffect(qs, xp, S, d, DeferTodo(qs, xp, S, d, over))
<1> DEFINE moved == Moved(qs, S)
           r     == DeferTodo(qs, xp, S, d, over)
           rq    == RetryQueue(qs, d)
           Good(k) == /\ QueueOK(Cfg(k[1]), r[k])
                      /\ r[k].busy = qs[k].busy
                      /\ k \in S => r[k].todo = {} /\ (r[k].exists => r[k].window = qs[k].window)
                      /\ k \notin S =>
                           \/ r[k] = qs[k]
                           \/ /\ k = <<Retry, d>> /\ ~xp[Retry].dead
                              /\ r[k].exists /\ ~Throttled(r[k])
                              /\ r[k].todo = qs[k].todo \union moved
<1>1. moved \in SUBSET Entries
  <2>1. \A l \in S : qs[l] \in QueueType
    BY DEF QueuesOK
  <2>2. \A l \in S : qs[l].todo \subseteq Entries
    BY <2>1 DEF QueueType
  <2> QED
    BY <2>2 DEF Moved
<1> HIDE DEF moved
<1>2. r = [k \in QueueIds |->
            IF k \in S /\ qs[k].todo # {}
            THEN EntriesDoneTodo(Cfg(k[1]), qs[k], k \in over)
            ELSE IF k = <<Retry, d>> /\ S # {} /\ RetryUsable(qs, xp, d)
            THEN [rq EXCEPT !.todo = @ \union moved]
            ELSE qs[k]]
  BY DEF DeferTodo, moved, Moved
<1> HIDE DEF r
<1>3. ASSUME NEW k \in QueueIds
      PROVE  Good(k)
  <2>1. Cfg(k[1]) \in CfgSet /\ QueueOK(Cfg(k[1]), qs[k])
    BY QueueIdsFacts DEF QueuesOK
  <2>2. CASE k \in S /\ qs[k].todo # {}
    <3>1. r[k] = EntriesDoneTodo(Cfg(k[1]), qs[k], k \in over)
      BY <1>2, <2>2
    <3>2. qs[k].exists
      BY <2>2
    <3> QED
      BY <2>1, <2>2, <3>1, <3>2, EntriesDoneTodoOK
  <2>3. CASE ~(k \in S /\ qs[k].todo # {}) /\ k = <<Retry, d>> /\ S # {} /\ RetryUsable(qs, xp, d)
    <3>1. r[k] = [rq EXCEPT !.todo = @ \union moved]
      BY <1>2, <2>3
    <3>2. k \notin S /\ k[1] = Retry
      BY <2>3
    <3>3. ~Throttled(rq) /\ ~xp[Retry].dead
      BY <2>3 DEF RetryUsable
    <3>4. /\ QueueOK(Cfg(Retry), rq) /\ rq.exists
          /\ rq.todo = qs[k].todo /\ rq.busy = qs[k].busy
      BY <2>3, RetryQueueOK
    <3> HIDE DEF rq
    <3>5. /\ QueueOK(Cfg(Retry), r[k])
          /\ r[k].exists /\ r[k].window = rq.window /\ r[k].busy = rq.busy
          /\ r[k].todo = rq.todo \union moved
      BY <1>1, <2>1, <3>1, <3>2, <3>3, <3>4, MoveInOK
    <3> QED
      BY <2>3, <3>2, <3>3, <3>4, <3>5 DEF Throttled
  <2>4. CASE /\ ~(k \in S /\ qs[k].todo # {})
             /\ ~(k = <<Retry, d>> /\ S # {} /\ RetryUsable(qs, xp, d))
    <3>1. r[k] = qs[k]
      BY <1>2, <2>4
    <3> QED
      BY <2>1, <2>4, <3>1
  <2> QED
    BY <2>2, <2>3, <2>4
<1>4. r \in [QueueIds -> QueueType]
  <2>1. \A k \in QueueIds : r[k] \in QueueType
    BY <1>3 DEF QueueOK
  <2> QED
    BY <1>2, <2>1, Zenon
<1>5. QueuesOK(r)
  BY <1>3, <1>4 DEF QueuesOK
<1>6. DeferEffect(qs, xp, S, d, r)
  BY <1>3 DEF DeferEffect, moved
<1> QED
  BY <1>5, <1>6 DEF r

\* Deferring keeps every entry in one place.
LEMMA DeferTodoOnePlace ==
  ASSUME NEW qs, OnePlace(qs), NEW xp, NEW S \in SUBSET QueueIds, NEW d, NEW r,
         DeferEffect(qs, xp, S, d, r)
  PROVE  OnePlace(r)
<1> DEFINE m == <<Retry, d>>
<1>0. /\ \A k \in QueueIds : r[k].busy = qs[k].busy
      /\ \A k \in S : r[k].todo = {}
      /\ \A k \in QueueIds \ S :
            r[k] = qs[k] \/ (k = m /\ r[k].todo = qs[k].todo \union Moved(qs, S))
  BY DEF DeferEffect
<1> HIDE DEF m
<1>1. ASSUME NEW k \in QueueIds, NEW e \in r[k].todo
      PROVE  \/ e \in qs[k].todo
             \/ k = m /\ k \notin S /\ \E l \in S : e \in qs[l].todo
  BY <1>0, <1>1 DEF Moved
<1>2. ASSUME NEW k \in QueueIds, NEW e \in r[k].todo, k \in S
      PROVE  FALSE
  BY <1>0, <1>2
<1>3. ASSUME NEW k \in QueueIds, NEW e \in r[k].todo, e \in r[k].busy
      PROVE  FALSE
  BY <1>0, <1>1, <1>3 DEF OnePlace
<1>4. ASSUME NEW k \in QueueIds, NEW l \in QueueIds, k # l,
             NEW e \in r[k].todo \union r[k].busy, e \in r[l].todo \union r[l].busy
      PROVE  FALSE
  <2>1. CASE e \in r[k].busy /\ e \in r[l].busy
    BY <1>0, <1>4, <2>1 DEF OnePlace
  <2>2. CASE e \in r[k].todo /\ e \in r[l].busy
    BY <1>0, <1>1, <1>4, <2>2 DEF OnePlace
  <2>3. CASE e \in r[k].busy /\ e \in r[l].todo
    BY <1>0, <1>1, <1>4, <2>3 DEF OnePlace
  <2>4. CASE e \in r[k].todo /\ e \in r[l].todo
    BY <1>1, <1>2, <1>4, <2>4 DEF OnePlace
  <2> QED
    BY <1>4, <2>1, <2>2, <2>3, <2>4
<1>5. \A k \in QueueIds : r[k].todo \intersect r[k].busy = {}
  BY <1>3
<1>6. \A k, l \in QueueIds : k # l =>
          (r[k].todo \union r[k].busy) \intersect (r[l].todo \union r[l].busy) = {}
  BY <1>4
<1> QED
  BY <1>5, <1>6 DEF OnePlace

-----------------------------------------------------------------------------
(* The scheduler *)

TransportsOK(xp) ==
    /\ xp \in [Transports -> TransportType]
    /\ \A t \in Transports : TransportOK(xp[t])

ListsOK == queue_list \in [Transports -> SUBSET ((Sites \union Dsns) \X (Sites \union Dsns))]

\* The inductive invariant.  It adds to the properties: a transport is dead
\* exactly while it has a reason and a timer (else its queues could be found
\* dead with nobody to revive them), requests that will be answered are counted
\* (else the count could go below zero), and a suspended queue has nothing busy
\* (else the end of a delivery could unthrottle a suspended queue).
SchedInv ==
    /\ phase \in {"drain", "wait"}
    /\ ListsOK
    /\ TransportsOK(xport)
    /\ QueuesOK(queue)
    /\ Quiet(queue, xport)
    /\ OnePlace(queue)

\* The round-robin lists keep naming queues when some are deleted or created.
LEMMA ListsStep ==
  ASSUME ListsOK, QueueListsFollow
  PROVE  ListsOK'
<1> DEFINE A(t) == {n \in Names(t) : queue'[<<t, n>>].exists}
           N(t) == {n \in A(t) : ~queue[<<t, n>>].exists}
           L(t) == (queue_list[t] \intersect (A(t) \X A(t))) \union (A(t) \X N(t))
<1>1. \A t \in Transports : A(t) \subseteq Sites \union Dsns /\ N(t) \subseteq A(t)
  BY DEF Names
<1>2. queue_list' = [t \in Transports |-> L(t)]
  BY DEF QueueListsFollow
<1>3. \A t \in Transports : L(t) \subseteq A(t) \X A(t)
  BY <1>1
<1> HIDE DEF L, A, N
<1>4. \A t \in Transports : A(t) \X A(t) \subseteq (Sites \union Dsns) \X (Sites \union Dsns)
  BY <1>1
<1> QED
  BY <1>2, <1>3, <1>4 DEF ListsOK

\* Changing one transport affects only what is said of that transport.
LEMMA UpdateTransport ==
  ASSUME NEW xp, TransportsOK(xp), NEW t \in Transports, NEW y, TransportOK(y)
  PROVE  /\ TransportsOK([xp EXCEPT ![t] = y])
         /\ [xp EXCEPT ![t] = y][t] = y
         /\ \A u \in Transports : u # t => [xp EXCEPT ![t] = y][u] = xp[u]
  BY DEF TransportsOK, TransportOK

\* Changing one queue affects only what is said of that queue.
LEMMA UpdateQueue ==
  ASSUME NEW qs, QueuesOK(qs), NEW k \in QueueIds, NEW q, QueueOK(Cfg(k[1]), q)
  PROVE  /\ QueuesOK([qs EXCEPT ![k] = q])
         /\ [qs EXCEPT ![k] = q][k] = q
         /\ \A l \in QueueIds : l # k => [qs EXCEPT ![k] = q][l] = qs[l]
<1>1. q \in QueueType
  BY DEF QueueOK
<1>2. qs \in [QueueIds -> QueueType] /\ \A l \in QueueIds : QueueOK(Cfg(l[1]), qs[l])
  BY DEF QueuesOK
<1> DEFINE r == [qs EXCEPT ![k] = q]
<1>3. r \in [QueueIds -> QueueType] /\ r[k] = q /\ \A l \in QueueIds : l # k => r[l] = qs[l]
  BY <1>1, <1>2
<1> HIDE DEF r
<1>4. \A l \in QueueIds : QueueOK(Cfg(l[1]), r[l])
  BY <1>2, <1>3
<1> QED
  BY <1>3, <1>4 DEF r, QueuesOK

\* Entries that leave, or move inside a queue, stay in one place.
LEMMA OnePlaceShrinks ==
  ASSUME NEW qs, OnePlace(qs), NEW r,
         \A k \in QueueIds : /\ r[k].todo \union r[k].busy \subseteq qs[k].todo \union qs[k].busy
                             /\ r[k].todo \intersect r[k].busy = {}
  PROVE  OnePlace(r)
<1>1. ASSUME NEW k \in QueueIds, NEW l \in QueueIds, k # l
      PROVE  (r[k].todo \union r[k].busy) \intersect (r[l].todo \union r[l].busy) = {}
  <2>1. (qs[k].todo \union qs[k].busy) \intersect (qs[l].todo \union qs[l].busy) = {}
    BY <1>1 DEF OnePlace
  <2> QED
    BY <2>1
<1> QED
  BY <1>1 DEF OnePlace

\* A new entry goes to one queue.
LEMMA OnePlaceGrows ==
  ASSUME NEW qs, OnePlace(qs), NEW r, NEW m \in QueueIds, NEW e,
         \A k \in QueueIds : e \notin qs[k].todo \union qs[k].busy,
         \A k \in QueueIds : k # m => r[k] = qs[k],
         r[m].todo = qs[m].todo \union {e}, r[m].busy = qs[m].busy
  PROVE  OnePlace(r)
<1>1. ASSUME NEW k \in QueueIds
      PROVE  r[k].todo \intersect r[k].busy = {}
  <2>1. qs[k].todo \intersect qs[k].busy = {}
    BY DEF OnePlace
  <2> QED
    BY <2>1
<1>2. ASSUME NEW k \in QueueIds, NEW l \in QueueIds, k # l
      PROVE  (r[k].todo \union r[k].busy) \intersect (r[l].todo \union r[l].busy) = {}
  <2>1. (qs[k].todo \union qs[k].busy) \intersect (qs[l].todo \union qs[l].busy) = {}
    BY <1>2 DEF OnePlace
  <2> QED
    BY <1>2, <2>1
<1> QED
  BY <1>1, <1>2 DEF OnePlace

\* The queue manager starts in a state that satisfies the invariant.
LEMMA InitOK == Init => SchedInv
<1> SUFFICES ASSUME Init PROVE SchedInv
  OBVIOUS
<1>1. TransportsOK(xport) /\ \A t \in Transports : ~xport[t].dead
  BY NewTransportOK DEF Init, TransportsOK, TransportOK
<1>2. QueuesOK(queue)
  BY AbsentOK, AbsentType, QueueIdsFacts DEF Init, QueuesOK
<1>3. \A k \in QueueIds : queue[k].todo = {} /\ queue[k].busy = {}
  BY DEF Init, AbsentQueue
<1>4. ListsOK
  BY DEF Init, ListsOK
<1> QED
  BY <1>1, <1>2, <1>3, <1>4 DEF Init, SchedInv, Quiet, OnePlace

\* A step of qmgr_loop's drain, which allocates an agent or ends the drain.
LEMMA DrainOK ==
  ASSUME SchedInv, NEW t \in Transports, NEW connected \in BOOLEAN, Drain(t, connected)
  PROVE  SchedInv'
<1> DEFINE y == TransportAlloc(xport[t], Cfg(t), connected)
<1>1. ~xport[t].dead /\ ~xport[t].rate_lock /\ xport[t].pending < MaxPend
  BY DEF Drain, TransportEligible
<1>2. TransportOK(xport[t]) /\ Cfg(t) \in CfgSet
  BY CfgType DEF SchedInv, TransportsOK
<1>3. TransportOK(y) /\ ~y.dead
  BY <1>1, <1>2, TransportAllocOK
<1>4. xport' = [xport EXCEPT ![t] = y]
  BY DEF Drain
<1> HIDE DEF y
<1>5. /\ TransportsOK(xport') /\ xport'[t] = y
      /\ \A u \in Transports : u # t => xport'[u] = xport[u]
  <2>1. TransportsOK(xport)
    BY DEF SchedInv
  <2> DEFINE xp == [xport EXCEPT ![t] = y]
  <2>2. TransportsOK(xp) /\ xp[t] = y /\ \A u \in Transports : u # t => xp[u] = xport[u]
    BY <1>3, <2>1, UpdateTransport
  <2> HIDE DEF xp
  <2>3. xport' = xp
    BY <1>4 DEF xp
  <2> QED
    BY <2>2, <2>3
<1>6. queue' = queue /\ phase' = phase /\ queue_list' = queue_list
  BY DEF Drain
<1>7. Quiet(queue', xport')
  BY <1>3, <1>5, <1>6, QueueIdsFacts DEF SchedInv, Quiet
<1>8. ListsOK'
  BY <1>6 DEF SchedInv, ListsOK
<1> QED
  BY <1>5, <1>6, <1>7, <1>8 DEF SchedInv

\* The main loop ends its drain, or starts the next one.
LEMMA LoopOK ==
  ASSUME SchedInv, DrainStop \/ Loop
  PROVE  SchedInv'
<1>1. xport' = xport /\ queue' = queue /\ queue_list' = queue_list /\ phase' \in {"drain", "wait"}
  BY DEF DrainStop, Loop
<1>2. ListsOK'
  BY <1>1 DEF SchedInv, ListsOK
<1> QED
  BY <1>1, <1>2 DEF SchedInv

\* After the watchdog's exit a new process starts with nothing in core.
LEMMA AbortOK ==
  ASSUME SchedInv, Abort
  PROVE  SchedInv'
<1>0. Abort
  OBVIOUS
<1>1. TransportsOK(xport') /\ \A t \in Transports : ~xport'[t].dead
  BY <1>0, NewTransportOK DEF Abort, TransportsOK, TransportOK
<1>2. QueuesOK(queue')
  BY <1>0, AbsentOK, AbsentType, QueueIdsFacts DEF Abort, QueuesOK
<1>3. \A k \in QueueIds : queue'[k].todo = {} /\ queue'[k].busy = {}
  BY <1>0 DEF Abort, AbsentQueue
<1>4. ListsOK'
  BY <1>0 DEF Abort, ListsOK
<1>5. Quiet(queue', xport') /\ OnePlace(queue')
  BY <1>3 DEF Quiet, OnePlace
<1> QED
  BY <1>0, <1>1, <1>2, <1>4, <1>5 DEF Abort, SchedInv

\* What every handler has in common.
LEMMA HandlerStep ==
  ASSUME SchedInv, Handler, QueueListsFollow, NEW xp, NEW qs, xport' = xp, queue' = qs,
         TransportsOK(xp), QueuesOK(qs), Quiet(qs, xp), OnePlace(qs)
  PROVE  SchedInv'
<1>1. ListsOK'
  BY ListsStep DEF SchedInv
<1>2. phase' \in {"drain", "wait"}
  BY DEF Handler
<1> QED
  BY <1>1, <1>2 DEF SchedInv

=============================================================================
