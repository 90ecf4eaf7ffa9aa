----------------------------- MODULE QmgrQueue -----------------------------
(***************************************************************************)
(* The in-core destination queue of the queue manager (qmgr_queue.c) and   *)
(* its concurrency feedback (qmgr_feedback.c), as operators on one queue   *)
(* record.  qmgr.h packs the queue's status into the concurrency window:   *)
(* positive means "ready", 0 "throttled" (the site is dead), -1            *)
(* "suspended" (rate-limited).                                             *)
(*                                                                         *)
(* success, failure and fail_cohorts are C doubles; here they are integers *)
(* in units of 1/Unit, so Unit should be a multiple of every window that   *)
(* can occur.  A sanity check that would call msg_panic() sets the field   *)
(* panic instead.  The cached-connection flags (dflags), last_done and the *)
(* clog warnings are not represented.                                      *)
(***************************************************************************)
EXTENDS Integers, FiniteSets

CONSTANTS Unit,      \* 1.0 in the fixed-point representation of feedback
          NoDsn      \* the null pointer in queue->dsn and transport->dsn

ASSUME UnitAssumption == Unit \in Nat \ {0}

THROTTLED == 0
SUSPENDED == -1

Ready(q) == q.window > 0
Throttled(q) == q.window = THROTTLED
Suspended(q) == q.window = SUSPENDED

\* busy_refcount
BusyCount(q) == Cardinality(q.busy)

\* todo.next == 0 && busy.next == 0
Empty(q) == q.todo = {} /\ q.busy = {}

Panic(q, cond) == [q EXCEPT !.panic = @ \/ cond]

MaxOf(a, b) == IF a >= b THEN a ELSE b
MinOf(a, b) == IF a <= b THEN a ELSE b

(***************************************************************************)
(* QMGR_FEEDBACK_VAL: base, or base / window.                              *)
(***************************************************************************)
FeedbackVal(fb, window) == IF fb.by_window THEN fb.base \div window ELSE fb.base

\* Iterations of "while (success + feedback / 2 >= hysteresis)".
PosSteps(success, feedback) ==
    LET x == 2 * success + feedback
    IN  IF x >= 2 * Unit THEN x \div (2 * Unit) ELSE 0

\* Iterations of "while (failure - feedback / 2 < 0)".
NegSteps(failure, feedback) ==
    LET x == feedback - 2 * failure
    IN  IF x > 0 THEN (x + 2 * Unit - 1) \div (2 * Unit) ELSE 0

-----------------------------------------------------------------------------
(***************************************************************************)
(* qmgr_transport_create() normalises the configured limits: a rate-       *)
(* limited destination has concurrency 1, and the initial concurrency      *)
(* never exceeds a non-zero limit.                                         *)
(***************************************************************************)
TransportConfig(raw) ==
    LET limit == IF raw.rate_delay THEN 1 ELSE raw.limit
        init  == IF limit # 0 /\ limit < raw.init THEN limit ELSE raw.init
    IN  [raw EXCEPT !.limit = limit, !.init = init]

\* A name without an in-core queue.
AbsentQueue ==
    [exists |-> FALSE, window |-> 0, success |-> 0, failure |-> 0,
     fail_cohorts |-> 0, dsn |-> NoDsn, timers |-> {}, todo |-> {},
     busy |-> {}, panic |-> FALSE]

QueueCreate(c) == [AbsentQueue EXCEPT !.exists = TRUE, !.window = c.init]

\* qmgr_queue_done: timers that are still armed now point at freed memory.
QueueDone(q) ==
    [AbsentQueue EXCEPT
        !.timers = q.timers,
        !.panic  = q.panic \/ ~Empty(q) \/ ~Ready(q) \/ q.dsn # NoDsn]

QueueSuspend(q) ==
    [Panic(q, ~Ready(q) \/ BusyCount(q) > 0) EXCEPT
        !.window = SUSPENDED,
        !.timers = @ \union {"resume"}]

\* Mutant of Resurrect: the retry timer is not cancelled.
Resurrect_KeepsTimer(c, q) ==
    [Panic(q, q.dsn = NoDsn) EXCEPT
        !.dsn     = NoDsn,
        !.window  = IF BusyCount(q) > 0 THEN BusyCount(q) ELSE c.init,
        !.success = 0,
        !.failure = 0,
        !.fail_cohorts = 0]

\* The site was dead: best concurrency is anyone's guess.
Resurrect(c, q) ==
    [Panic(q, q.dsn = NoDsn) EXCEPT
        !.timers  = @ \ {"unthrottle"},
        !.dsn     = NoDsn,
        !.window  = IF BusyCount(q) > 0 THEN BusyCount(q) ELSE c.init,
        !.success = 0,
        !.failure = 0,
        !.fail_cohorts = 0]

\* Positive feedback on a live site.
Encourage(c, q) ==
    LET feedback == FeedbackVal(c.pos, q.window)
        success  == q.success + feedback
        steps    == PosSteps(success, feedback)
        window   == q.window + steps
        grow     == /\ c.limit = 0 \/ c.limit > q.window
                    /\ q.window < BusyCount(q) + c.init
        q0       == [q EXCEPT !.fail_cohorts = 0]
    IN  IF ~grow THEN q0
        ELSE [q0 EXCEPT
                !.success = success - steps * Unit,
                !.failure = IF steps > 0 THEN 0 ELSE @,
                !.window  = IF c.limit > 0 THEN MinOf(window, c.limit) ELSE window]

QueueUnthrottle(c, q) ==
    IF Throttled(q) THEN Resurrect(c, q)
    ELSE IF Ready(q) THEN Encourage(c, q) ELSE Panic(q, TRUE)

\* The window after negative feedback never drops below 1.
Discourage(c, q) ==
    LET feedback == FeedbackVal(c.neg, q.window)
        failure  == q.failure - feedback
        steps    == NegSteps(failure, feedback)
    IN  [q EXCEPT
            !.failure = failure + steps * Unit,
            !.success = IF steps > 0 THEN 0 ELSE @,
            !.window  = MaxOf(q.window - steps, 1)]

\* fail_cohorts reached the limit: the site is declared dead.
DeclareDead(q, dsn) ==
    [q EXCEPT !.window = THROTTLED,
              !.dsn    = dsn,
              !.timers = @ \union {"unthrottle"}]

QueueThrottle(c, q, dsn) ==
    LET q0   == Panic(q, ~Ready(q) \/ q.dsn # NoDsn)
        q1   == [q0 EXCEPT !.fail_cohorts = @ + Unit \div q.window]
        dead == c.cohort_limit > 0 /\ q1.fail_cohorts >= c.cohort_limit * Unit
    IN  IF ~Ready(q) THEN q0
        ELSE IF dead THEN DeclareDead(q1, dsn) ELSE Discourage(c, q1)

\* Timer events: the test for an empty ready queue is part of the handler.
DoneIfIdle(q) == IF Ready(q) /\ Empty(q) THEN QueueDone(q) ELSE q

QueueResume(q) ==
    DoneIfIdle([Panic(q, ~Suspended(q)) EXCEPT !.window = 1, !.timers = @ \ {"resume"}])

QueueUnthrottleWrapper(c, q) ==
    DoneIfIdle(QueueUnthrottle(c, [q EXCEPT !.timers = @ \ {"unthrottle"}]))

=============================================================================
