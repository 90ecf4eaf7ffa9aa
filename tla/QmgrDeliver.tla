---------------------------- MODULE QmgrDeliver ----------------------------
(***************************************************************************)
(* Delivery scheduling in the queue manager: transports, destination       *)
(* queues and queue entries, as the event handlers of qmgr_transport.c,    *)
(* qmgr_deliver.c, qmgr_entry.c, qmgr_defer.c, qmgr_error.c, qmgr_enable.c *)
(* and the recipient resolver of qmgr_message.c change them.               *)
(*                                                                         *)
(* The queue manager is single-threaded: it drains (asks for delivery      *)
(* agents) until no transport is eligible, then waits, then runs one or    *)
(* more event handlers to completion.  Each handler is one action.         *)
(*                                                                         *)
(* Which eligible entry the job scheduler picks is left open here.  A      *)
(* message whose last entry is done goes to qmgr_active_done(); what it    *)
(* brings back (more recipients) is a later Resolve step.                  *)
(***************************************************************************)
EXTENDS QmgrQueue, FiniteSetsExt

CONSTANTS
    Transports,      \* message transports; each is a master.cf service
    Retry,           \* the retry(8) service
    Sites,           \* queue names of ordinary transports (nexthops)
    Dsns,            \* failure reasons; they name the queues of retry(8)
    Entries,         \* identities for in-core queue entries
    Config,          \* per transport: limits as configured in main.cf
    MaxPend          \* QMGR_TRANSPORT_MAX_PEND

FeedbackConfig == [base : 0..Unit, by_window : BOOLEAN]

\* What main.cf can say: non-negative limits, an initial concurrency of at
\* least 1, and feedback between 0 and 1 (qmgr_feedback_init).
RawConfig ==
    [limit : Nat, init : Nat \ {0}, rate_delay : BOOLEAN, xport_rate_delay : BOOLEAN,
     cohort_limit : Nat, pos : FeedbackConfig, neg : FeedbackConfig]

ASSUME DeliverAssumption ==
    /\ Retry \in Transports
    /\ NoDsn \notin Dsns
    /\ IsFiniteSet(Sites)
    /\ IsFiniteSet(Dsns)
    /\ IsFiniteSet(Entries)
    /\ MaxPend \in Nat \ {0}

ASSUME ConfigAssumption == \A t \in Transports : Config[t] \in RawConfig

VARIABLES
    phase,       \* "drain" | "wait": where the main loop is
    xport,       \* [Transports -> flags, dsn, timer, pending ...]
    queue,       \* [QueueIds -> queue record]
    queue_list   \* [Transports -> order of its queues]: <<m, n>> when the queue
                 \* named m is the one named n or comes before it in the list

vars == <<phase, xport, queue, queue_list>>

QueueIds == ((Transports \ {Retry}) \X Sites) \union ({Retry} \X Dsns)
Names(t) == IF t = Retry THEN Dsns ELSE Sites
QueuesOf(t) == {t} \X Names(t)

Cfg(t) == TransportConfig(Config[t])

\* Outstanding delivery agent requests of a transport, by what they wait for:
\* the agent's announcement, the zero-delay timer after a failed connect(), or
\* the transport rate delay (with and without a stream).
NewTransport ==
    [dead |-> FALSE, rate_lock |-> FALSE, dsn |-> NoDsn, timer |-> FALSE,
     pending |-> 0, connecting |-> 0, refused |-> 0,
     delayed |-> 0, delayed_null |-> 0, panic |-> FALSE]

Init ==
    /\ phase = "drain"
    /\ xport = [t \in Transports |-> NewTransport]
    /\ queue = [k \in QueueIds |-> AbsentQueue]
    /\ queue_list = [t \in Transports |-> {}]

\* Entry identities that name no live entry.
InCore == UNION {queue[k].todo \union queue[k].busy : k \in QueueIds}
FreeEntries == Entries \ InCore

-----------------------------------------------------------------------------
(* Transports: qmgr_transport.c *)

TransportUnthrottle(x) ==
    IF x.dead
    THEN [x EXCEPT !.panic = @ \/ x.dsn = NoDsn, !.dead = FALSE, !.dsn = NoDsn,
                   !.timer = FALSE, !.rate_lock = FALSE]
    ELSE [x EXCEPT !.rate_lock = FALSE]

TransportThrottle(x, dsn) ==
    IF x.dead THEN x
    ELSE [x EXCEPT !.panic = @ \/ x.dsn # NoDsn, !.dead = TRUE, !.dsn = dsn,
                   !.timer = TRUE]

\* Delivery slots a queue offers minus those it has overrun; a window that
\* shrank below busy_refcount makes this negative.
Room(q) == IF Ready(q) THEN MinOf(q.window - BusyCount(q), Cardinality(q.todo)) ELSE 0

\* The queue loop of qmgr_transport_select: some prefix of the queue list
\* offers more than the requests that are already pending.
PrefixRoom(t, n) ==
    MapThenSumSet(LAMBDA m : Room(queue[<<t, m>>]),
                  {m \in Names(t) : <<m, n>> \in queue_list[t]})

TransportEligible(t) ==
    /\ ~xport[t].dead
    /\ ~xport[t].rate_lock
    /\ xport[t].pending < MaxPend
    /\ \E n \in Names(t) :
          /\ Ready(queue[<<t, n>>])
          /\ PrefixRoom(t, n) >= xport[t].pending + 1

\* Mutants of TransportAlloc: a failed connect() is not counted as pending;
\* no rate lock.
TransportAlloc_Uncounted(x, c, connected) ==
    [x EXCEPT !.rate_lock  = @ \/ c.xport_rate_delay,
              !.pending    = IF connected THEN @ + 1 ELSE @,
              !.connecting = IF connected THEN @ + 1 ELSE @,
              !.refused    = IF connected THEN @ ELSE @ + 1]
TransportAlloc_Unlocked(x, c, connected) ==
    [x EXCEPT !.pending    = @ + 1,
              !.connecting = IF connected THEN @ + 1 ELSE @,
              !.refused    = IF connected THEN @ ELSE @ + 1]

TransportAlloc(x, c, connected) ==
    [x EXCEPT
        !.panic      = @ \/ x.dead \/ x.rate_lock \/ x.pending >= MaxPend,
        !.rate_lock  = @ \/ c.xport_rate_delay,
        !.pending    = @ + 1,
        !.connecting = IF connected THEN @ + 1 ELSE @,
        !.refused    = IF connected THEN @ ELSE @ + 1]

-----------------------------------------------------------------------------
(* Entries: qmgr_entry.c.  "over" stands for the test that the number of     *)
(* in-core queues exceeds twice the recipient limit.                         *)

EntryCreate(q, e) ==
    [Panic(q, Throttled(q)) EXCEPT !.todo = @ \union {e}]

EntrySelect(q, e) == [q EXCEPT !.todo = @ \ {e}, !.busy = @ \union {e}]

\* Mutant of EntryUnselect: the entry stays on the busy list.
EntryUnselect_StaysBusy(q, e) == [q EXCEPT !.todo = @ \union {e}]

EntryUnselect(q, e) == [q EXCEPT !.busy = @ \ {e}, !.todo = @ \union {e}]

\* The tail of qmgr_entry_done: discard an empty queue.
QueueGone(c, q, over) ==
    IF ~Empty(q) THEN q
    ELSE LET q1 == IF Throttled(q) /\ over THEN QueueUnthrottle(c, q) ELSE q
         IN  IF Ready(q1) THEN QueueDone(q1) ELSE q1

\* Rate-limited destinations pause after every delivery.
RateLimit(c, q) ==
    LET q1 == Panic(q, q.window > 1)
        q2 == IF Throttled(q1) THEN QueueUnthrottle(c, q1) ELSE q1
    IN  IF ~c.rate_delay THEN q
        ELSE IF Ready(q2) THEN QueueSuspend(q2) ELSE q2

EntryDoneBusy(c, q, e, over) ==
    QueueGone(c, RateLimit(c, [q EXCEPT !.busy = @ \ {e}]), over)

\* qmgr_entry_done(QMGR_QUEUE_TODO) for every todo entry of a queue.
EntriesDoneTodo(c, q, over) == QueueGone(c, [q EXCEPT !.todo = {}], over)

-----------------------------------------------------------------------------
(* Deferral: qmgr_defer.c, qmgr_error.c *)

\* qmgr_error_queue finds or creates the queue; it is unusable while retry(8)
\* or that queue is throttled.
RetryQueue(qs, dsn) ==
    LET q == qs[<<Retry, dsn>>] IN IF q.exists THEN q ELSE QueueCreate(Cfg(Retry))

RetryUsable(qs, xp, dsn) == ~xp[Retry].dead /\ ~Throttled(RetryQueue(qs, dsn))

\* qmgr_defer_todo for each queue in S: hand the todo entries to retry(8), or
\* log and dispose of them when retry(8) is unusable.  The retry queue comes
\* into existence even if there is nothing to move.
DeferTodo(qs, xp, S, dsn, over) ==
    LET moved == UNION {qs[k].todo : k \in S}
        rq    == RetryQueue(qs, dsn)
    IN  [k \in QueueIds |->
            IF k \in S /\ qs[k].todo # {}
            THEN EntriesDoneTodo(Cfg(k[1]), qs[k], k \in over)
            ELSE IF k = <<Retry, dsn>> /\ S # {} /\ RetryUsable(qs, xp, dsn)
            THEN [rq EXCEPT !.todo = @ \union moved]
            ELSE qs[k]]

\* Mutant of DeferTransport: waiting entries stay where they are.
DeferTransport_None(qs, xp, t, dsn, over) == qs

\* qmgr_defer_transport: all queues in the transport's queue list.
DeferTransport(qs, xp, t, dsn, over) ==
    DeferTodo(qs, xp, {k \in QueuesOf(t) : qs[k].exists}, dsn, over)

\* Queues a handler may find over the memory threshold.
OverChoices == SUBSET {k \in QueueIds : queue[k].exists /\ Throttled(queue[k])}

\* Queues leave the list when they are deleted and join it at the end; no
\* handler creates two queues of one transport.
QueueListsFollow ==
    queue_list' =
        [t \in Transports |->
            LET alive == {n \in Names(t) : queue'[<<t, n>>].exists}
                new   == {n \in alive : ~queue[<<t, n>>].exists}
            IN  (queue_list[t] \intersect (alive \X alive)) \union (alive \X new)]

-----------------------------------------------------------------------------
(* The main loop: qmgr_active_drain() in qmgr_loop() *)

Drain(t, connected) ==
    /\ phase = "drain"
    /\ TransportEligible(t)
    /\ xport' = [xport EXCEPT ![t] = TransportAlloc(@, Cfg(t), connected)]
    /\ UNCHANGED <<phase, queue, queue_list>>

DrainStop ==
    /\ phase = "drain"
    /\ \A t \in Transports : ~TransportEligible(t)
    /\ phase' = "wait"
    /\ UNCHANGED <<xport, queue, queue_list>>

Loop ==
    /\ phase = "wait"
    /\ phase' = "drain"
    /\ UNCHANGED <<xport, queue, queue_list>>

\* Event handlers run between two drains.
Handler == phase = "wait" /\ UNCHANGED phase

(* qmgr_deliver(), called with transport record x after bookkeeping.        *)

\* No stream, a bad initial reply, or a failed write (the selected entry is
\* put back first): back off and wipe the transport's todo queues.
DeliverUnavailable(t, x, dsn, over) ==
    LET xp == [xport EXCEPT ![t] = TransportThrottle(x, dsn)]
    IN  /\ xport' = xp
        /\ queue' = DeferTransport(queue, xp, t, dsn, over)

\* Mutant of Selectable: one delivery too many.
Selectable_OneMore(k) == Ready(queue[k]) /\ BusyCount(queue[k]) <= queue[k].window

Selectable(k) == Ready(queue[k]) /\ BusyCount(queue[k]) < queue[k].window

\* Things changed since the transport was allocated: hang up.
DeliverNothing(t, x) ==
    /\ \A k \in QueuesOf(t) : Selectable(k) => queue[k].todo = {}
    /\ xport' = [xport EXCEPT ![t] = x]
    /\ UNCHANGED queue

DeliverEntry(t, x, k, e) ==
    /\ k[1] = t
    /\ Selectable(k)
    /\ e \in queue[k].todo
    /\ xport' = [xport EXCEPT ![t] = x]
    /\ queue' = [queue EXCEPT ![k] = EntrySelect(@, e)]

Deliver(t, x, stream) ==
    \/ \E dsn \in Dsns, over \in OverChoices : DeliverUnavailable(t, x, dsn, over)
    \/ stream /\ DeliverNothing(t, x)
    \/ stream /\ \E k \in QueuesOf(t), e \in Entries : DeliverEntry(t, x, k, e)

(* qmgr_transport_event(): the agent announced itself, or connect failed.    *)

\* The request leaves the pending count ...
Answered(x, stream) ==
    IF stream THEN [x EXCEPT !.connecting = @ - 1, !.pending = @ - 1]
    ELSE [x EXCEPT !.refused = @ - 1, !.pending = @ - 1]

\* ... and waits for the transport rate delay if there is one.
Delayed(x, y, stream) ==
    [y EXCEPT !.panic = @ \/ ~x.rate_lock,
              !.delayed = IF stream THEN @ + 1 ELSE @,
              !.delayed_null = IF stream THEN @ ELSE @ + 1]

\* Mutant of TransportEvent: the pending count is not decremented.
TransportEvent_LeaksPending(t, stream) ==
    LET x == xport[t]
        y == IF stream THEN [x EXCEPT !.connecting = @ - 1] ELSE [x EXCEPT !.refused = @ - 1]
    IN  /\ Handler
        /\ IF stream THEN x.connecting > 0 ELSE x.refused > 0
        /\ IF Cfg(t).xport_rate_delay
           THEN xport' = [xport EXCEPT ![t] = Delayed(x, y, stream)] /\ UNCHANGED queue
           ELSE Deliver(t, y, stream)
        /\ QueueListsFollow

TransportEvent(t, stream) ==
    LET x == xport[t]
        y == Answered(x, stream)
    IN  /\ Handler
        /\ IF stream THEN x.connecting > 0 ELSE x.refused > 0
        /\ IF Cfg(t).xport_rate_delay
           THEN xport' = [xport EXCEPT ![t] = Delayed(x, y, stream)] /\ UNCHANGED queue
           ELSE Deliver(t, y, stream)
        /\ QueueListsFollow

\* qmgr_transport_rate_event: the transport rate delay is over.
Released(x, stream) ==
    IF stream THEN [x EXCEPT !.delayed = @ - 1] ELSE [x EXCEPT !.delayed_null = @ - 1]

TransportRateEvent(t, stream) ==
    LET x == xport[t]
    IN  /\ Handler
        /\ IF stream THEN x.delayed > 0 ELSE x.delayed_null > 0
        /\ Deliver(t, Released(x, stream), stream)
        /\ QueueListsFollow

\* qmgr_deliver_update: the agent reports.  deferred: try again later;
\* site: the report carries a reason to avoid this site.
DeliverUpdate(k, e, deferred, site, dsn, over) ==
    LET t    == k[1]
        c    == Cfg(t)
        hit  == deferred /\ site /\ Ready(queue[k])
        q1   == IF hit THEN QueueThrottle(c, queue[k], dsn) ELSE queue[k]
        qs0  == [queue EXCEPT ![k] = q1]
        qs1  == IF hit /\ Throttled(q1) THEN DeferTodo(qs0, xport, {k}, dsn, over) ELSE qs0
        q2   == IF site THEN qs1[k] ELSE QueueUnthrottle(c, qs1[k])
    IN  /\ Handler
        /\ e \in queue[k].busy
        /\ xport' = [xport EXCEPT ![t] = TransportUnthrottle(@)]
        /\ queue' = [qs1 EXCEPT ![k] = EntryDoneBusy(c, q2, e, k \in over)]
        /\ QueueListsFollow

\* qmgr_deliver_update with DELIVER_STAT_CRASH.
DeliverCrash(k, e, dsn, over) ==
    LET t  == k[1]
        xp == [xport EXCEPT ![t] = TransportThrottle(@, dsn)]
        qs == [queue EXCEPT ![k] = EntryUnselect(@, e)]
    IN  /\ Handler
        /\ e \in queue[k].busy
        /\ xport' = xp
        /\ queue' = DeferTransport(qs, xp, t, dsn, over)
        /\ QueueListsFollow

(* Timers *)

TransportTimer(t) ==
    /\ Handler
    /\ xport[t].timer
    /\ xport' = [xport EXCEPT ![t] = TransportUnthrottle([@ EXCEPT !.timer = FALSE])]
    /\ UNCHANGED queue
    /\ QueueListsFollow

QueueTimer(k) ==
    /\ Handler
    /\ \/ /\ "resume" \in queue[k].timers
          /\ queue' = [queue EXCEPT ![k] = QueueResume(@)]
       \/ /\ "unthrottle" \in queue[k].timers
          /\ queue' = [queue EXCEPT ![k] = QueueUnthrottleWrapper(Cfg(k[1]), @)]
    /\ UNCHANGED xport
    /\ QueueListsFollow

\* qmgr_enable_all: a flush request reached the trigger socket.
EnableQueue(c, q) == DoneIfIdle(IF Throttled(q) THEN QueueUnthrottle(c, q) ELSE q)

EnableAll ==
    /\ Handler
    /\ xport' = [t \in Transports |->
                    IF xport[t].dead THEN TransportUnthrottle(xport[t]) ELSE xport[t]]
    /\ queue' = [k \in QueueIds |->
                    IF queue[k].exists THEN EnableQueue(Cfg(k[1]), queue[k]) ELSE queue[k]]
    /\ QueueListsFollow

(***************************************************************************)
(* qmgr_message_resolve and qmgr_message_assign for one recipient that     *)
(* resolves to transport t and nexthop n and needs a new entry.  A message *)
(* that is being flushed (QMGR_FLUSH_EACH) first unthrottles what it uses. *)
(* A dead transport or queue diverts the recipient to retry(8), or, when   *)
(* that is unusable, has it deferred on the spot without an entry.         *)
(***************************************************************************)
ResolveTransport(t, flush) ==
    IF flush /\ xport[t].dead THEN [xport EXCEPT ![t] = TransportUnthrottle(@)] ELSE xport

FindOrCreate(k) == IF queue[k].exists THEN queue[k] ELSE QueueCreate(Cfg(k[1]))

\* Mutant of BindQueue: a dead queue does not divert.
BindQueue_Undiverted(k, flush, xp, e) ==
    [queue EXCEPT ![k] = EntryCreate(FindOrCreate(k), e)]

\* Bind to queue k, or to the retry queue when k is dead.
BindQueue(k, flush, xp, e) ==
    LET q0 == FindOrCreate(k)
        q  == IF flush /\ Throttled(q0) THEN QueueUnthrottle(Cfg(k[1]), q0) ELSE q0
    IN  IF ~Throttled(q) THEN [queue EXCEPT ![k] = EntryCreate(q, e)]
        ELSE IF RetryUsable(queue, xp, q.dsn)
        THEN [queue EXCEPT ![<<Retry, q.dsn>>] = EntryCreate(RetryQueue(queue, q.dsn), e)]
        ELSE queue

Resolve(t, n, flush, e) ==
    LET xp == ResolveTransport(t, flush)
    IN  /\ Handler
        /\ e \in FreeEntries
        /\ xport' = xp
        /\ queue' = IF ~xp[t].dead THEN BindQueue(<<t, n>>, flush, xp, e)
                    ELSE IF ~xp[Retry].dead THEN BindQueue(<<Retry, xp[t].dsn>>, flush, xp, e)
                    ELSE queue
        /\ QueueListsFollow

\* qmgr_transport_abort, qmgr_deliver_abort: an agent stays silent for too
\* long, the queue manager exits and master(8) starts a new one.
Abort ==
    /\ phase = "wait"
    /\ \/ \E t \in Transports : xport[t].connecting > 0
       \/ \E k \in QueueIds : queue[k].busy # {}
    /\ phase' = "drain"
    /\ xport' = [t \in Transports |-> NewTransport]
    /\ queue' = [k \in QueueIds |-> AbsentQueue]
    /\ queue_list' = [t \in Transports |-> {}]

-----------------------------------------------------------------------------
AgentEvent(t) ==
    \E stream \in BOOLEAN : TransportEvent(t, stream) \/ TransportRateEvent(t, stream)

AgentReport(k, e) ==
    \E dsn \in Dsns, over \in OverChoices :
        \/ \E deferred, site \in BOOLEAN : DeliverUpdate(k, e, deferred, site, dsn, over)
        \/ DeliverCrash(k, e, dsn, over)

Next ==
    \/ \E t \in Transports, connected \in BOOLEAN : Drain(t, connected)
    \/ DrainStop
    \/ Loop
    \/ \E t \in Transports : AgentEvent(t) \/ TransportTimer(t)
    \/ \E k \in QueueIds : QueueTimer(k) \/ (\E e \in Entries : AgentReport(k, e))
    \/ EnableAll
    \/ \E t \in Transports : \E n \in Names(t), flush \in BOOLEAN, e \in Entries :
          Resolve(t, n, flush, e)
    \/ Abort

Spec == Init /\ [][Next]_vars

(***************************************************************************)
(* The main loop never stops; event_loop() runs every handler whose event  *)
(* is pending; agents announce themselves and report, because the watchdog *)
(* timers abort the queue manager when one does not.                       *)
(***************************************************************************)
Fairness ==
    /\ WF_vars(\E t \in Transports, connected \in BOOLEAN : Drain(t, connected))
    /\ WF_vars(DrainStop)
    /\ WF_vars(Loop)
    /\ \A t \in Transports : SF_vars(AgentEvent(t)) /\ SF_vars(TransportTimer(t))
    /\ \A k \in QueueIds : SF_vars(QueueTimer(k))
    /\ \A k \in QueueIds, e \in Entries : SF_vars(AgentReport(k, e))

FairSpec == Spec /\ Fairness

-----------------------------------------------------------------------------
(* Properties *)

TransportType ==
    [dead : BOOLEAN, rate_lock : BOOLEAN, dsn : Dsns \union {NoDsn}, timer : BOOLEAN,
     pending : Nat, connecting : Nat, refused : Nat,
     delayed : Nat, delayed_null : Nat, panic : BOOLEAN]

QueueType ==
    [exists : BOOLEAN, window : {SUSPENDED} \union Nat, success : Int, failure : Int,
     fail_cohorts : Nat, dsn : Dsns \union {NoDsn},
     timers : SUBSET {"unthrottle", "resume"},
     todo : SUBSET Entries, busy : SUBSET Entries, panic : BOOLEAN]

\* Type invariant of the scheduler state.
TypeOK ==
    /\ phase \in {"drain", "wait"}
    /\ xport \in [Transports -> TransportType]
    /\ queue \in [QueueIds -> QueueType]
    /\ queue_list \in [Transports -> SUBSET ((Sites \union Dsns) \X (Sites \union Dsns))]

\* No sequence of events reaches a msg_panic() sanity check in qmgr_queue.c,
\* qmgr_transport.c or qmgr_entry.c.
NoPanic ==
    /\ \A t \in Transports : ~xport[t].panic
    /\ \A k \in QueueIds : ~queue[k].panic

\* qmgr.h: forbidden status transitions "would result in dangling event
\* handlers".  A wakeup timer is armed exactly while its queue is in the state
\* that the timer ends, and no timer outlives its queue.
TimersMatchStatus ==
    \A k \in QueueIds :
        LET q == queue[k] IN
        /\ "unthrottle" \in q.timers <=> q.exists /\ Throttled(q)
        /\ "resume" \in q.timers <=> q.exists /\ Suspended(q)
        /\ q.dsn # NoDsn <=> q.exists /\ Throttled(q)

\* Nothing waits on a dead destination or on a dead transport: its todo
\* entries were handed to retry(8) or deferred, and new ones are diverted.
NoMailBehindDead ==
    \A k \in QueueIds :
        queue[k].exists /\ (Throttled(queue[k]) \/ xport[k[1]].dead) => queue[k].todo = {}

\* The configured concurrency limit holds for deliveries in progress, however
\* the window moves, the site dies and comes back.
ConcurrencyLimit ==
    \A k \in QueueIds :
        Cfg(k[1]).limit > 0 => /\ BusyCount(queue[k]) <= Cfg(k[1]).limit
                               /\ queue[k].window <= Cfg(k[1]).limit

\* An entry is in one place: one queue, and there either waiting or busy.
EntryInOnePlace ==
    /\ \A k \in QueueIds : queue[k].todo \intersect queue[k].busy = {}
    /\ \A k, l \in QueueIds : k # l =>
          (queue[k].todo \union queue[k].busy) \intersect (queue[l].todo \union queue[l].busy) = {}

\* Requests a transport has outstanding, from alloc to the final report.
Busy(t) == UNION {queue[k].busy : k \in QueuesOf(t)}
Outstanding(t) ==
    xport[t].pending + xport[t].delayed + xport[t].delayed_null + Cardinality(Busy(t))

\* A transport with a rate delay works on one delivery at a time, and holds
\* the rate lock while it does.  A lock that is held has an outstanding request
\* or an armed retry timer that will release it (qmgr_transport.c:171:
\* "Otherwise, transports with non-zero _transport_rate_delay will become
\* stuck").
OneAtATime ==
    \A t \in Transports :
        /\ Cfg(t).xport_rate_delay =>
             Outstanding(t) <= 1 /\ (Outstanding(t) = 1 => xport[t].rate_lock)
        /\ xport[t].rate_lock => Outstanding(t) > 0 \/ xport[t].timer

\* No mail is stuck in the active queue: once no new entries arrive, every
\* entry is delivered, deferred or handed on until none is left, whatever
\* transports and sites do meanwhile (qmgr_transport.c:381 recalls releases
\* where "mail would be stuck in the active queue").
ActiveQueueDrains ==
    <>[][InCore' \subseteq InCore]_vars => <>[](InCore = {})

=============================================================================
