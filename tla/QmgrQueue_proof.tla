-------------------------- MODULE QmgrQueue_proof ---------------------------
(***************************************************************************)
(* One destination queue: every operation of QmgrQueue, and every use that *)
(* QmgrDeliver makes of it, keeps the invariant of a queue.                *)
(***************************************************************************)
EXTENDS QmgrDeliver, FiniteSetTheorems, TLAPS

\* What qmgr_transport_create leaves of a configuration.
CfgSet == {c \in RawConfig : /\ c.limit > 0 => c.init <= c.limit
                             /\ c.rate_delay => c.limit = 1}

\* qmgr_transport_create's normalised settings: the initial concurrency is within the limit.
LEMMA CfgType == \A t \in Transports : Cfg(t) \in CfgSet
<1> TAKE t \in Transports
<1> DEFINE raw == Config[t]
           lim == IF raw.rate_delay THEN 1 ELSE raw.limit
           ini == IF lim # 0 /\ lim < raw.init THEN lim ELSE raw.init
<1>1. raw \in RawConfig
  BY ConfigAssumption
<1>2. lim \in Nat /\ ini \in Nat \ {0}
  BY <1>1 DEF RawConfig
<1>3. lim > 0 => ini <= lim
  BY <1>1 DEF RawConfig
<1>4. Cfg(t) = [raw EXCEPT !.limit = lim, !.init = ini]
  BY DEF Cfg, TransportConfig
<1> HIDE DEF ini
<1>5. Cfg(t) \in RawConfig
  BY <1>1, <1>2, <1>4, Zenon DEF RawConfig
<1>6. /\ Cfg(t).limit = lim
      /\ Cfg(t).init = ini
      /\ Cfg(t).rate_delay = raw.rate_delay
  BY <1>1, <1>4 DEF RawConfig
<1> QED
  BY <1>3, <1>5, <1>6 DEF CfgSet

\* Entry sets are finite, so busy_refcount is a number.
LEMMA BusyCountType ==
  ASSUME NEW q, q.busy \in SUBSET Entries
  PROVE  /\ BusyCount(q) \in Nat
         /\ BusyCount(q) = 0 <=> q.busy = {}
  BY DeliverAssumption, FS_Subset, FS_CardinalityType, FS_EmptySet DEF BusyCount

\* Division of the fixed-point numbers stays in the naturals.
LEMMA DivType == \A a \in Nat, b \in Nat \ {0} : a \div b \in Nat
  OBVIOUS

\* QMGR_FEEDBACK_VAL is never negative while the window is positive.
LEMMA FeedbackType ==
  ASSUME NEW fb \in FeedbackConfig, NEW w \in Nat \ {0}
  PROVE  FeedbackVal(fb, w) \in Nat
  BY DivType, UnitAssumption DEF FeedbackConfig, FeedbackVal

\* The hysteresis loops of qmgr_queue.c run a natural number of times.
LEMMA StepsType ==
  ASSUME NEW x \in Int, NEW f \in Nat
  PROVE  PosSteps(x, f) \in Nat /\ NegSteps(x, f) \in Nat
  BY DivType, UnitAssumption DEF PosSteps, NegSteps

-----------------------------------------------------------------------------
(* One queue *)

\* The invariant of one destination queue of a transport with configuration c:
\* the status in the window, the timers and the reason agree, a suspended
\* queue is rate-limited and has nothing busy, the limits hold, no panic.
QueueOK(c, q) ==
    /\ q \in QueueType
    /\ ~q.panic
    /\ ~q.exists => q.window = 0 /\ q.todo = {} /\ q.busy = {}
    /\ "unthrottle" \in q.timers <=> q.exists /\ Throttled(q)
    /\ "resume" \in q.timers <=> q.exists /\ Suspended(q)
    /\ q.dsn # NoDsn <=> q.exists /\ Throttled(q)
    /\ Suspended(q) => q.busy = {} /\ c.rate_delay
    /\ c.limit > 0 => BusyCount(q) <= c.limit /\ q.window <= c.limit

\* Entries, and whether there is a queue at all, are not touched.
SameEntries(q, r) == r.exists = q.exists /\ r.todo = q.todo /\ r.busy = q.busy

\* The record of a name without an in-core queue has the type of a queue.
LEMMA AbsentType == AbsentQueue \in QueueType
  BY DEF AbsentQueue, QueueType

\* A sanity check that succeeds changes nothing.
LEMMA PanicSame ==
  ASSUME NEW q \in QueueType, NEW cond, ~q.panic, ~cond
  PROVE  Panic(q, cond) = q
<1>1. (q.panic \/ cond) = q.panic
  BY DEF QueueType
<1>2. [q EXCEPT !.panic = q.panic] = q
  BY DEF QueueType
<1> QED
  BY <1>1, <1>2 DEF Panic

\* Setting the feedback counters keeps the type of a queue.
LEMMA CountersType ==
  ASSUME NEW q \in QueueType, NEW s \in Int, NEW f \in Int, NEW n \in Nat
  PROVE  [q EXCEPT !.success = s, !.failure = f, !.fail_cohorts = n] \in QueueType
  BY Zenon DEF QueueType

\* A name without an in-core queue satisfies the queue invariant.
LEMMA AbsentOK ==
  ASSUME NEW c \in CfgSet
  PROVE  QueueOK(c, AbsentQueue)
<1>1. BusyCount(AbsentQueue) = 0
  BY FS_EmptySet DEF BusyCount, AbsentQueue
<1> QED
  BY <1>1 DEF QueueOK, QueueType, AbsentQueue, Throttled, Suspended, THROTTLED,
              SUSPENDED, CfgSet, RawConfig

\* qmgr_queue_create makes a ready, empty queue without timers.
LEMMA CreateOK ==
  ASSUME NEW c \in CfgSet
  PROVE  /\ QueueOK(c, QueueCreate(c))
         /\ QueueCreate(c).exists
         /\ Ready(QueueCreate(c))
         /\ Empty(QueueCreate(c))
<1> DEFINE q == QueueCreate(c)
<1>1. c.init \in Nat \ {0} /\ c.limit \in Nat /\ (c.limit > 0 => c.init <= c.limit)
  BY DEF CfgSet, RawConfig
<1>2. q \in QueueType
  BY <1>1, AbsentType, Zenon DEF QueueCreate, QueueType
<1>5. /\ q.exists /\ q.window = c.init /\ q.dsn = NoDsn /\ q.timers = {}
      /\ q.todo = {} /\ q.busy = {} /\ q.panic = FALSE
  BY DEF QueueCreate, AbsentQueue
<1> HIDE DEF q
<1>3. BusyCount(q) = 0
  BY <1>5, FS_EmptySet DEF BusyCount
<1>4. QueueOK(c, q)
  BY <1>1, <1>2, <1>3, <1>5 DEF QueueOK, Throttled, Suspended, THROTTLED, SUSPENDED
<1> QED
  BY <1>1, <1>4, <1>5 DEF q, Ready, Empty

\* qmgr_queue_done leaves nothing behind.
LEMMA DoneOK ==
  ASSUME NEW c \in CfgSet, NEW q, QueueOK(c, q), Ready(q), Empty(q)
  PROVE  QueueOK(c, QueueDone(q)) /\ ~QueueDone(q).exists
<1> DEFINE r == QueueDone(q)
<1>1. q.timers = {}
  <2>1. q.timers \subseteq {"unthrottle", "resume"}
    BY DEF QueueOK, QueueType
  <2>2. "unthrottle" \notin q.timers /\ "resume" \notin q.timers
    BY DEF QueueOK, QueueType, Ready, Throttled, Suspended, THROTTLED, SUSPENDED
  <2> QED
    BY <2>1, <2>2
<1>2. ~(q.panic \/ ~Empty(q) \/ ~Ready(q) \/ q.dsn # NoDsn)
  BY DEF QueueOK, QueueType, Ready, Throttled, THROTTLED
<1>5. r = [AbsentQueue EXCEPT !.timers = {}, !.panic = FALSE]
  BY <1>1, <1>2, Zenon DEF QueueDone
<1>6. r \in QueueType
  BY <1>5, AbsentType, Zenon DEF QueueType
<1>3. /\ ~r.exists /\ r.window = 0 /\ r.dsn = NoDsn /\ r.timers = {}
      /\ r.todo = {} /\ r.busy = {} /\ r.panic = FALSE
  BY <1>5 DEF AbsentQueue
<1> HIDE DEF r
<1>4. BusyCount(r) = 0
  BY <1>3, FS_EmptySet DEF BusyCount
<1> QED
  BY <1>3, <1>4, <1>6 DEF r, QueueOK, Throttled, Suspended, THROTTLED, SUSPENDED, CfgSet, RawConfig

\* qmgr_queue_suspend on a ready queue without deliveries arms the resume timer.
LEMMA SuspendOK ==
  ASSUME NEW c \in CfgSet, NEW q, QueueOK(c, q), Ready(q), q.exists, q.busy = {},
         c.rate_delay
  PROVE  /\ QueueOK(c, QueueSuspend(q))
         /\ SameEntries(q, QueueSuspend(q))
         /\ Suspended(QueueSuspend(q))
<1> DEFINE r == QueueSuspend(q)
<1>1. BusyCount(q) = 0
  BY FS_EmptySet DEF BusyCount
<1>2. q \in QueueType /\ q.panic = FALSE /\ q.dsn = NoDsn /\ "unthrottle" \notin q.timers
  BY DEF QueueOK, QueueType, Ready, Throttled, THROTTLED
<1>7. Panic(q, ~Ready(q) \/ BusyCount(q) > 0) = q
  <2> DEFINE bad == ~Ready(q) \/ BusyCount(q) > 0
  <2>1. ~bad
    BY <1>1
  <2> HIDE DEF bad
  <2>2. Panic(q, bad) = q
    BY <1>2, <2>1, PanicSame
  <2> QED
    BY <2>2 DEF bad
<1>6. r = [q EXCEPT !.window = SUSPENDED, !.timers = @ \union {"resume"}]
  BY <1>7, Zenon DEF QueueSuspend
<1>3. /\ r \in QueueType
      /\ r.exists = q.exists /\ r.todo = q.todo /\ r.busy = q.busy
      /\ r.window = SUSPENDED /\ r.dsn = q.dsn /\ r.panic = FALSE
      /\ r.timers = q.timers \union {"resume"}
  BY <1>2, <1>6, Zenon DEF QueueType, SUSPENDED
<1> HIDE DEF r
<1>4. BusyCount(r) = 0
  BY <1>3, FS_EmptySet DEF BusyCount
<1>5. QueueOK(c, r)
  BY <1>2, <1>3, <1>4 DEF QueueOK, Throttled, Suspended, THROTTLED, SUSPENDED,
                          CfgSet, RawConfig
<1> QED
  BY <1>3, <1>5 DEF r, SameEntries, Suspended

\* A dead site comes back to life.
LEMMA ResurrectOK ==
  ASSUME NEW c \in CfgSet, NEW q, QueueOK(c, q), q.exists, Throttled(q)
  PROVE  /\ QueueOK(c, Resurrect(c, q))
         /\ SameEntries(q, Resurrect(c, q))
         /\ Ready(Resurrect(c, q))
<1> DEFINE r == Resurrect(c, q)
           w == IF BusyCount(q) > 0 THEN BusyCount(q) ELSE c.init
<1>1. q \in QueueType /\ q.panic = FALSE /\ q.dsn # NoDsn /\ "resume" \notin q.timers
  BY DEF QueueOK, QueueType, Throttled, Suspended, THROTTLED, SUSPENDED
<1>2. BusyCount(q) \in Nat
  BY <1>1, BusyCountType DEF QueueType
<1>3. w \in Nat \ {0} /\ (c.limit > 0 => w <= c.limit)
  BY <1>2 DEF QueueOK, CfgSet, RawConfig
<1>8. Panic(q, q.dsn = NoDsn) = q
  BY <1>1, PanicSame, Zenon
<1>4. r = [q EXCEPT !.timers = @ \ {"unthrottle"}, !.dsn = NoDsn, !.window = w,
                    !.success = 0, !.failure = 0, !.fail_cohorts = 0]
  BY <1>8, Zenon DEF Resurrect
<1> HIDE DEF w, r
<1>9. r \in QueueType
  <2> DEFINE t == q.timers \ {"unthrottle"}
  <2>1. t \in SUBSET {"unthrottle", "resume"}
    BY <1>1 DEF QueueType
  <2> DEFINE r1   == [q EXCEPT !.timers = t, !.dsn = NoDsn, !.window = w]
             zero == 0
  <2>2. r = [r1 EXCEPT !.success = zero, !.failure = zero, !.fail_cohorts = zero]
    BY <1>4
  <2>4. zero \in Nat /\ zero \in Int
    OBVIOUS
  <2> HIDE DEF t, zero
  <2>3. r1 \in QueueType
    BY <1>1, <1>3, <2>1, Zenon DEF QueueType
  <2> HIDE DEF r1
  <2> QED
    BY <2>2, <2>3, <2>4, CountersType, Zenon
<1>5. /\ r.exists = q.exists /\ r.todo = q.todo /\ r.busy = q.busy
      /\ r.window = w /\ r.dsn = NoDsn /\ r.panic = FALSE
      /\ r.timers = q.timers \ {"unthrottle"}
  BY <1>1, <1>4, Zenon DEF QueueType
<1>6. BusyCount(r) = BusyCount(q)
  BY <1>5 DEF BusyCount
<1>7. QueueOK(c, r)
  BY <1>1, <1>2, <1>3, <1>5, <1>6, <1>9 DEF QueueOK, Throttled, Suspended, THROTTLED, SUSPENDED
<1> QED
  BY <1>3, <1>5, <1>7 DEF r, SameEntries, Ready

\* Positive feedback.
LEMMA EncourageOK ==
  ASSUME NEW c \in CfgSet, NEW q, QueueOK(c, q), q.exists, Ready(q)
  PROVE  /\ QueueOK(c, Encourage(c, q))
         /\ SameEntries(q, Encourage(c, q))
         /\ Ready(Encourage(c, q))
<1> DEFINE r        == Encourage(c, q)
           feedback == FeedbackVal(c.pos, q.window)
           success  == q.success + feedback
           steps    == PosSteps(success, feedback)
           window   == q.window + steps
           w        == IF c.limit > 0 THEN MinOf(window, c.limit) ELSE window
           f        == IF steps > 0 THEN 0 ELSE q.failure
           grow     == /\ c.limit = 0 \/ c.limit > q.window
                       /\ q.window < BusyCount(q) + c.init
           q0       == [q EXCEPT !.fail_cohorts = 0]
<1>1. /\ q \in QueueType /\ q.panic = FALSE /\ q.dsn = NoDsn
      /\ q.window \in Nat \ {0} /\ q.timers = {}
  BY DEF QueueOK, QueueType, Ready, Throttled, Suspended, THROTTLED, SUSPENDED
<1>2. /\ c.limit \in Nat /\ c.pos \in FeedbackConfig
      /\ BusyCount(q) \in Nat
      /\ c.limit > 0 => BusyCount(q) <= c.limit /\ q.window <= c.limit
  BY <1>1, BusyCountType DEF QueueOK, CfgSet, RawConfig, QueueType
<1>3. feedback \in Nat
  BY <1>1, <1>2, FeedbackType
<1> HIDE DEF feedback
<1>4. success \in Int
  BY <1>1, <1>3 DEF QueueType
<1> HIDE DEF success
<1>5. steps \in Nat
  BY <1>3, <1>4, StepsType
<1> HIDE DEF steps
<1>6. success - steps * Unit \in Int /\ f \in Int
  BY <1>1, <1>4, <1>5, UnitAssumption DEF QueueType
<1>7. w \in Nat \ {0} /\ (c.limit > 0 => w <= c.limit)
  BY <1>1, <1>2, <1>5 DEF MinOf
<1>8. r = IF ~grow THEN q0
          ELSE [q0 EXCEPT !.success = success - steps * Unit, !.failure = f, !.window = w]
  <2>1. q0.failure = q.failure
    BY <1>1 DEF QueueType
  <2> QED
    BY <2>1 DEF Encourage, feedback, success, steps
<1> HIDE DEF w, f, grow, r
<1>9. /\ q0 \in QueueType
      /\ q0.exists = q.exists /\ q0.todo = q.todo /\ q0.busy = q.busy /\ q0.timers = {}
      /\ q0.dsn = NoDsn /\ q0.panic = FALSE /\ q0.window = q.window
  BY <1>1, Zenon DEF QueueType
<1> HIDE DEF q0
<1>10. /\ r \in QueueType
       /\ r.exists = q.exists /\ r.todo = q.todo /\ r.busy = q.busy /\ r.timers = {}
       /\ r.dsn = NoDsn /\ r.panic = FALSE
       /\ r.window \in {q.window, w}
  <2>1. CASE ~grow
    BY <1>8, <1>9, <2>1, Zenon
  <2>2. CASE grow
    BY <1>6, <1>7, <1>8, <1>9, <2>2, Zenon DEF QueueType
  <2> QED
    BY <2>1, <2>2, Zenon
<1>11. BusyCount(r) = BusyCount(q)
  BY <1>10 DEF BusyCount
<1>12. QueueOK(c, r)
  BY <1>1, <1>2, <1>7, <1>10, <1>11 DEF QueueOK, Throttled, Suspended, THROTTLED, SUSPENDED
<1> QED
  BY <1>1, <1>7, <1>10, <1>12 DEF r, SameEntries, Ready

\* qmgr_queue_unthrottle, on a dead or on a ready queue.
LEMMA UnthrottleOK ==
  ASSUME NEW c \in CfgSet, NEW q, QueueOK(c, q), q.exists, ~Suspended(q)
  PROVE  /\ QueueOK(c, QueueUnthrottle(c, q))
         /\ SameEntries(q, QueueUnthrottle(c, q))
         /\ Ready(QueueUnthrottle(c, q))
<1>1. Throttled(q) \/ Ready(q)
  BY DEF QueueOK, QueueType, Throttled, Ready, Suspended, THROTTLED, SUSPENDED
<1>2. CASE Throttled(q)
  BY <1>2, ResurrectOK DEF QueueUnthrottle
<1>3. CASE ~Throttled(q)
  BY <1>1, <1>3, EncourageOK, Zenon DEF QueueUnthrottle
<1> QED
  BY <1>2, <1>3

\* Negative feedback leaves a ready queue ready, or declares the site dead.
LEMMA ThrottleOK ==
  ASSUME NEW c \in CfgSet, NEW q, QueueOK(c, q), q.exists, Ready(q), NEW dsn \in Dsns
  PROVE  /\ QueueOK(c, QueueThrottle(c, q, dsn))
         /\ SameEntries(q, QueueThrottle(c, q, dsn))
         /\ ~Suspended(QueueThrottle(c, q, dsn))
<1> DEFINE r    == QueueThrottle(c, q, dsn)
           n    == q.fail_cohorts + Unit \div q.window
           q1   == [q EXCEPT !.fail_cohorts = n]
           dead == c.cohort_limit > 0 /\ q1.fail_cohorts >= c.cohort_limit * Unit
<1>1. /\ q \in QueueType /\ q.panic = FALSE /\ q.dsn = NoDsn
      /\ q.window \in Nat \ {0} /\ q.timers = {}
  BY DEF QueueOK, QueueType, Ready, Throttled, Suspended, THROTTLED, SUSPENDED
<1>2. /\ c.limit \in Nat /\ c.neg \in FeedbackConfig
      /\ BusyCount(q) \in Nat
      /\ c.limit > 0 => BusyCount(q) <= c.limit /\ q.window <= c.limit
  BY <1>1, BusyCountType DEF QueueOK, CfgSet, RawConfig, QueueType
<1>3. n \in Nat
  BY <1>1, UnitAssumption, DivType DEF QueueType
<1>4. r = IF dead THEN DeclareDead(q1, dsn) ELSE Discourage(c, q1)
  <2> DEFINE bad == ~Ready(q) \/ q.dsn # NoDsn
  <2>1. ~bad
    BY <1>1
  <2> HIDE DEF bad
  <2>2. Panic(q, bad) = q
    BY <1>1, <2>1, PanicSame
  <2>3. Panic(q, ~Ready(q) \/ q.dsn # NoDsn) = q
    BY <2>2 DEF bad
  <2> QED
    BY <2>3 DEF QueueThrottle
<1> HIDE DEF n, r, dead
<1>5. q1 \in QueueType
  BY <1>1, <1>3 DEF QueueType
<1>6. SameEntries(q, q1) /\ q1.timers = {} /\ q1.dsn = NoDsn /\ q1.panic = FALSE /\ q1.window = q.window
  BY <1>1, Zenon DEF QueueType, SameEntries
<1> HIDE DEF q1
<1>7. BusyCount(q1) = BusyCount(q)
  BY <1>6 DEF SameEntries, BusyCount
<1>8. CASE dead
  <2> DEFINE t == q1.timers \union {"unthrottle"}
  <2>1. t \in SUBSET {"unthrottle", "resume"} /\ "unthrottle" \in t /\ "resume" \notin t
    BY <1>6
  <2>2. r = [q1 EXCEPT !.window = THROTTLED, !.dsn = dsn, !.timers = t]
    BY <1>4, <1>8 DEF DeclareDead
  <2> HIDE DEF t
  <2>3. r \in QueueType
    BY <1>5, <2>1, <2>2, Zenon DEF QueueType, THROTTLED
  <2>4. /\ SameEntries(q1, r) /\ r.window = 0 /\ r.dsn = dsn /\ r.timers = t
        /\ r.panic = FALSE
    BY <1>5, <1>6, <2>2, Zenon DEF QueueType, SameEntries, THROTTLED
  <2>5. BusyCount(r) = BusyCount(q)
    BY <1>7, <2>4 DEF SameEntries, BusyCount
  <2>6. SameEntries(q, r)
    BY <1>6, <2>4 DEF SameEntries
  <2>7. QueueOK(c, r)
    BY <1>2, <2>1, <2>3, <2>4, <2>5, <2>6, DeliverAssumption
       DEF QueueOK, Throttled, Suspended, THROTTLED, SUSPENDED, SameEntries
  <2> QED
    BY <2>4, <2>6, <2>7 DEF r, Suspended, SUSPENDED
<1>9. CASE ~dead
  <2> DEFINE feedback == FeedbackVal(c.neg, q1.window)
             failure  == q1.failure - feedback
             steps    == NegSteps(failure, feedback)
             f        == failure + steps * Unit
             s        == IF steps > 0 THEN 0 ELSE q1.success
             w        == MaxOf(q1.window - steps, 1)
  <2>1. r = [q1 EXCEPT !.failure = f, !.success = s, !.window = w]
    BY <1>4, <1>9 DEF Discourage
  <2>2. feedback \in Nat
    BY <1>1, <1>2, <1>6, FeedbackType
  <2> HIDE DEF feedback
  <2>3. failure \in Int
    BY <1>5, <2>2 DEF QueueType
  <2> HIDE DEF failure
  <2>4. steps \in Nat
    BY <2>2, <2>3, StepsType
  <2> HIDE DEF steps
  <2>5. f \in Int /\ s \in Int
    BY <1>5, <2>3, <2>4, UnitAssumption DEF QueueType
  <2>6. w \in Nat \ {0} /\ w <= q.window
    BY <1>1, <1>6, <2>4 DEF MaxOf
  <2> HIDE DEF f, s, w
  <2>7. r \in QueueType
    BY <1>5, <2>1, <2>5, <2>6, Zenon DEF QueueType
  <2>8. SameEntries(q, r) /\ r.window = w /\ r.dsn = NoDsn /\ r.timers = {} /\ r.panic = FALSE
    BY <1>5, <1>6, <2>1, Zenon DEF QueueType, SameEntries
  <2>9. BusyCount(r) = BusyCount(q)
    BY <2>8 DEF SameEntries, BusyCount
  <2>10. QueueOK(c, r)
    BY <1>1, <1>2, <2>6, <2>7, <2>8, <2>9
       DEF QueueOK, Throttled, Suspended, THROTTLED, SUSPENDED, SameEntries
  <2> QED
    BY <2>6, <2>8, <2>10 DEF r, Suspended, SUSPENDED
<1> QED
  BY <1>8, <1>9

\* Timer events.
LEMMA DoneIfIdleOK ==
  ASSUME NEW c \in CfgSet, NEW q, QueueOK(c, q)
  PROVE  /\ QueueOK(c, DoneIfIdle(q))
         /\ DoneIfIdle(q).todo = q.todo
         /\ DoneIfIdle(q).busy = q.busy
         /\ DoneIfIdle(q).exists => q.exists /\ DoneIfIdle(q) = q
<1>1. CASE Ready(q) /\ Empty(q)
  <2>1. QueueOK(c, QueueDone(q)) /\ ~QueueDone(q).exists
    BY <1>1, DoneOK
  <2>2. QueueDone(q).todo = {} /\ QueueDone(q).busy = {}
    BY <2>1 DEF QueueOK
  <2> QED
    BY <1>1, <2>1, <2>2 DEF DoneIfIdle, Empty
<1>2. CASE ~(Ready(q) /\ Empty(q))
  <2>1. DoneIfIdle(q) = q
    BY <1>2 DEF DoneIfIdle
  <2> QED
    BY <2>1
<1> QED
  BY <1>1, <1>2

\* The resume timer makes the queue ready, or deletes it when it is empty.
LEMMA ResumeOK ==
  ASSUME NEW c \in CfgSet, NEW q, QueueOK(c, q), "resume" \in q.timers
  PROVE  /\ QueueOK(c, QueueResume(q))
         /\ QueueResume(q).todo = q.todo
         /\ QueueResume(q).busy = q.busy
         /\ QueueResume(q).exists => Ready(QueueResume(q))
<1> DEFINE one == 1
           t   == q.timers \ {"resume"}
           r   == [q EXCEPT !.window = one, !.timers = t]
<1>1. /\ q \in QueueType /\ q.panic = FALSE /\ q.exists /\ Suspended(q)
      /\ q.dsn = NoDsn /\ q.busy = {} /\ "unthrottle" \notin q.timers
  BY DEF QueueOK, QueueType, Throttled, Suspended, THROTTLED, SUSPENDED
<1>2. t = {}
  BY <1>1 DEF QueueType
<1>3. QueueResume(q) = DoneIfIdle(r)
  BY <1>1, PanicSame, Zenon DEF QueueResume
<1>4. one \in Nat \ {0} /\ (c.limit > 0 => one <= c.limit) /\ c.limit \in Nat
  BY DEF CfgSet, RawConfig
<1> HIDE DEF one, t
<1>5. r \in QueueType
  BY <1>1, <1>2, <1>4, Zenon DEF QueueType
<1>6. SameEntries(q, r) /\ r.window = one /\ r.timers = {} /\ r.dsn = NoDsn /\ r.panic = FALSE
  BY <1>1, <1>2, Zenon DEF QueueType, SameEntries
<1> HIDE DEF r
<1>7. BusyCount(r) = 0
  BY <1>1, <1>6, FS_EmptySet DEF BusyCount, SameEntries
<1>8. QueueOK(c, r) /\ Ready(r)
  BY <1>1, <1>4, <1>5, <1>6, <1>7
     DEF QueueOK, Throttled, Suspended, THROTTLED, SUSPENDED, SameEntries, Ready
<1> QED
  BY <1>3, <1>6, <1>8, DoneIfIdleOK DEF SameEntries

\* Two updates of the timers in a row: the last one counts.
LEMMA TimersTwice ==
  ASSUME NEW q \in QueueType, NEW t, NEW u, NEW d, NEW w, NEW z
  PROVE  [[q EXCEPT !.timers = t] EXCEPT !.timers = u, !.dsn = d, !.window = w,
                                         !.success = z, !.failure = z, !.fail_cohorts = z]
         = [q EXCEPT !.timers = u, !.dsn = d, !.window = w,
                     !.success = z, !.failure = z, !.fail_cohorts = z]
  BY Zenon DEF QueueType

\* The unthrottle timer revives the site, or deletes the queue when it is empty.
LEMMA WrapperOK ==
  ASSUME NEW c \in CfgSet, NEW q, QueueOK(c, q), "unthrottle" \in q.timers
  PROVE  /\ QueueOK(c, QueueUnthrottleWrapper(c, q))
         /\ QueueUnthrottleWrapper(c, q).todo = q.todo
         /\ QueueUnthrottleWrapper(c, q).busy = q.busy
         /\ QueueUnthrottleWrapper(c, q).exists => Ready(QueueUnthrottleWrapper(c, q))
<1> DEFINE p == [q EXCEPT !.timers = @ \ {"unthrottle"}]
<1>1. q \in QueueType /\ q.panic = FALSE /\ q.exists /\ Throttled(q) /\ q.dsn # NoDsn
  BY DEF QueueOK, QueueType
<1>2. QueueUnthrottle(c, p) = Resurrect(c, q)
  <2>1. p \in QueueType
    <3> DEFINE t == q.timers \ {"unthrottle"}
    <3>1. t \in SUBSET {"unthrottle", "resume"}
      BY <1>1 DEF QueueType
    <3> HIDE DEF t
    <3>2. [q EXCEPT !.timers = t] \in QueueType
      BY <1>1, <3>1 DEF QueueType
    <3> QED
      BY <3>2 DEF t
  <2>2. /\ SameEntries(q, p) /\ p.window = q.window /\ p.dsn = q.dsn /\ p.panic = FALSE
        /\ p.timers = q.timers \ {"unthrottle"}
    BY <1>1, Zenon DEF QueueType, SameEntries
  <2>3. Throttled(p) /\ BusyCount(p) = BusyCount(q)
    BY <1>1, <2>2 DEF Throttled, BusyCount, SameEntries
  <2>4. Panic(p, p.dsn = NoDsn) = p /\ Panic(q, q.dsn = NoDsn) = q
    BY <1>1, <2>1, <2>2, PanicSame, Zenon
  <2>5. p.timers \ {"unthrottle"} = q.timers \ {"unthrottle"}
    BY <2>2
  <2> DEFINE w    == IF BusyCount(q) > 0 THEN BusyCount(q) ELSE c.init
             zero == 0
             u    == q.timers \ {"unthrottle"}
  <2>6. Resurrect(c, p) = [p EXCEPT !.timers = u, !.dsn = NoDsn, !.window = w,
                              !.success = zero, !.failure = zero, !.fail_cohorts = zero]
    BY <2>3, <2>4, <2>5, Zenon DEF Resurrect
  <2>7. Resurrect(c, q) = [q EXCEPT !.timers = u, !.dsn = NoDsn, !.window = w,
                              !.success = zero, !.failure = zero, !.fail_cohorts = zero]
    BY <2>4, Zenon DEF Resurrect
  <2>9. p = [q EXCEPT !.timers = u]
    OBVIOUS
  <2> HIDE DEF w, zero, u, p
  <2>8. Resurrect(c, p) = Resurrect(c, q)
    BY <1>1, <2>6, <2>7, <2>9, TimersTwice, Zenon
  <2> QED
    BY <2>3, <2>8 DEF QueueUnthrottle
<1>3. QueueUnthrottleWrapper(c, q) = DoneIfIdle(Resurrect(c, q))
  BY <1>2 DEF QueueUnthrottleWrapper
<1>4. QueueOK(c, Resurrect(c, q)) /\ SameEntries(q, Resurrect(c, q)) /\ Ready(Resurrect(c, q))
  BY <1>1, ResurrectOK
<1> QED
  BY <1>3, <1>4, DoneIfIdleOK DEF SameEntries

-----------------------------------------------------------------------------
(* Entries of one queue *)

\* qmgr_entry_create adds a waiting entry to a queue that is not dead.
LEMMA EntryCreateOK ==
  ASSUME NEW c \in CfgSet, NEW q, QueueOK(c, q), q.exists, ~Throttled(q), NEW e \in Entries
  PROVE  /\ QueueOK(c, EntryCreate(q, e))
         /\ EntryCreate(q, e).exists
         /\ EntryCreate(q, e).window = q.window
         /\ EntryCreate(q, e).busy = q.busy
         /\ EntryCreate(q, e).todo = q.todo \union {e}
<1> DEFINE r == EntryCreate(q, e)
           s == q.todo \union {e}
<1>1. q \in QueueType /\ q.panic = FALSE
  BY DEF QueueOK, QueueType
<1>2. s \in SUBSET Entries
  BY <1>1 DEF QueueType
<1>3. Panic(q, Throttled(q)) = q
  BY <1>1, PanicSame
<1>4. r = [q EXCEPT !.todo = s]
  BY <1>3 DEF EntryCreate
<1> HIDE DEF r, s
<1>5. /\ r \in QueueType
      /\ r.exists = q.exists /\ r.window = q.window /\ r.busy = q.busy /\ r.timers = q.timers
      /\ r.dsn = q.dsn /\ r.panic = q.panic /\ r.todo = s
  BY <1>1, <1>2, <1>4, Zenon DEF QueueType
<1>6. BusyCount(r) = BusyCount(q)
  BY <1>5 DEF BusyCount
<1>7. QueueOK(c, r)
  BY <1>5, <1>6 DEF QueueOK, Throttled, Suspended
<1> QED
  BY <1>5, <1>7 DEF r, s

\* qmgr_entry_select makes a waiting entry busy while the window has room.
LEMMA EntrySelectOK ==
  ASSUME NEW c \in CfgSet, NEW q, QueueOK(c, q), Ready(q), BusyCount(q) < q.window,
         NEW e \in q.todo
  PROVE  /\ QueueOK(c, EntrySelect(q, e))
         /\ EntrySelect(q, e).exists = q.exists
         /\ EntrySelect(q, e).window = q.window
         /\ EntrySelect(q, e).busy = q.busy \union {e}
         /\ EntrySelect(q, e).todo = q.todo \ {e}
<1> DEFINE r == EntrySelect(q, e)
           s == q.todo \ {e}
           b == q.busy \union {e}
<1>1. q \in QueueType /\ q.panic = FALSE /\ q.exists /\ ~Suspended(q)
  BY DEF QueueOK, QueueType, Ready, Suspended, SUSPENDED
<1>2. s \in SUBSET Entries /\ b \in SUBSET Entries
  BY <1>1 DEF QueueType
<1>4. r = [q EXCEPT !.todo = s, !.busy = b]
  BY DEF EntrySelect
<1>3. Cardinality(b) <= BusyCount(q) + 1
  <2>1. IsFiniteSet(q.busy) /\ Cardinality(q.busy) \in Nat
    BY <1>1, DeliverAssumption, FS_Subset, FS_CardinalityType DEF QueueType
  <2>2. Cardinality(b) = IF e \in q.busy THEN Cardinality(q.busy) ELSE Cardinality(q.busy) + 1
    BY <2>1, FS_AddElement, Zenon
  <2> QED
    BY <2>1, <2>2 DEF BusyCount
<1>8. BusyCount(q) \in Nat /\ q.window \in Nat /\ c.limit \in Nat
  BY <1>1, BusyCountType DEF QueueType, Suspended, SUSPENDED, CfgSet, RawConfig
<1> HIDE DEF r, s, b
<1>5. /\ r \in QueueType
      /\ r.exists = q.exists /\ r.window = q.window /\ r.timers = q.timers
      /\ r.dsn = q.dsn /\ r.panic = q.panic /\ r.todo = s /\ r.busy = b
  BY <1>1, <1>2, <1>4, Zenon DEF QueueType
<1>6. BusyCount(r) <= q.window /\ BusyCount(r) \in Nat
  BY <1>2, <1>3, <1>5, <1>8, BusyCountType DEF BusyCount
<1>7. QueueOK(c, r)
  BY <1>1, <1>5, <1>6, <1>8 DEF QueueOK, Throttled, Suspended
<1> QED
  BY <1>5, <1>7 DEF r, s, b

\* qmgr_entry_unselect returns a busy entry to the waiting ones.
LEMMA EntryUnselectOK ==
  ASSUME NEW c \in CfgSet, NEW q, QueueOK(c, q), NEW e \in q.busy
  PROVE  /\ QueueOK(c, EntryUnselect(q, e))
         /\ EntryUnselect(q, e).exists
         /\ EntryUnselect(q, e).window = q.window
         /\ EntryUnselect(q, e).busy = q.busy \ {e}
         /\ EntryUnselect(q, e).todo = q.todo \union {e}
<1> DEFINE r == EntryUnselect(q, e)
           s == q.todo \union {e}
           b == q.busy \ {e}
<1>1. q \in QueueType /\ q.panic = FALSE /\ q.exists /\ ~Suspended(q)
  BY DEF QueueOK, QueueType
<1>2. s \in SUBSET Entries /\ b \in SUBSET Entries
  BY <1>1 DEF QueueType
<1>4. r = [q EXCEPT !.busy = b, !.todo = s]
  BY DEF EntryUnselect
<1>3. Cardinality(b) <= BusyCount(q) /\ Cardinality(b) \in Nat /\ BusyCount(q) \in Nat
  <2>1. IsFiniteSet(q.busy)
    BY <1>1, DeliverAssumption, FS_Subset DEF QueueType
  <2>2. b \subseteq q.busy
    OBVIOUS
  <2> QED
    BY <2>1, <2>2, FS_Subset, FS_CardinalityType DEF BusyCount
<1>8. c.limit \in Nat
  BY DEF CfgSet, RawConfig
<1> HIDE DEF r, s, b
<1>5. /\ r \in QueueType
      /\ r.exists = q.exists /\ r.window = q.window /\ r.timers = q.timers
      /\ r.dsn = q.dsn /\ r.panic = q.panic /\ r.todo = s /\ r.busy = b
  BY <1>1, <1>2, <1>4, Zenon DEF QueueType
<1>6. BusyCount(r) <= BusyCount(q)
  BY <1>3, <1>5 DEF BusyCount
<1>7. QueueOK(c, r)
  BY <1>1, <1>3, <1>5, <1>6, <1>8 DEF QueueOK, Throttled, Suspended, BusyCount
<1> QED
  BY <1>1, <1>5, <1>7 DEF r, s, b

\* The tail of qmgr_entry_done either leaves the queue alone or deletes it.
LEMMA QueueGoneOK ==
  ASSUME NEW c \in CfgSet, NEW q, QueueOK(c, q), q.exists, NEW over
  PROVE  /\ QueueOK(c, QueueGone(c, q, over))
         /\ QueueGone(c, q, over).todo = q.todo
         /\ QueueGone(c, q, over).busy = q.busy
         /\ QueueGone(c, q, over).exists => QueueGone(c, q, over) = q
<1> DEFINE q1 == IF Throttled(q) /\ over THEN QueueUnthrottle(c, q) ELSE q
<1>1. CASE ~Empty(q)
  <2>1. QueueGone(c, q, over) = q
    BY <1>1 DEF QueueGone
  <2> QED
    BY <2>1
<1>2. CASE Empty(q)
  <2>1. QueueGone(c, q, over) = IF Ready(q1) THEN QueueDone(q1) ELSE q1
    BY <1>2 DEF QueueGone
  <2>2. QueueOK(c, q1) /\ SameEntries(q, q1) /\ (q1 = q \/ Ready(q1))
    <3>1. CASE Throttled(q) /\ over
      <4>1. ~Suspended(q)
        BY <3>1 DEF Throttled, Suspended, THROTTLED, SUSPENDED
      <4> QED
        BY <3>1, <4>1, UnthrottleOK
    <3>2. CASE ~(Throttled(q) /\ over)
      BY <3>2, Zenon DEF SameEntries
    <3> QED
      BY <3>1, <3>2
  <2> HIDE DEF q1
  <2>3. CASE Ready(q1)
    <3>1. QueueOK(c, QueueDone(q1)) /\ ~QueueDone(q1).exists
      BY <1>2, <2>2, <2>3, DoneOK DEF Empty, SameEntries
    <3>2. QueueDone(q1).todo = {} /\ QueueDone(q1).busy = {}
      BY <3>1 DEF QueueOK
    <3> QED
      BY <1>2, <2>1, <2>3, <3>1, <3>2 DEF Empty
  <2>4. CASE ~Ready(q1)
    BY <2>1, <2>2, <2>4
  <2> QED
    BY <2>3, <2>4
<1> QED
  BY <1>1, <1>2

\* A rate-limited queue is suspended, revived first if its site was dead.
LEMMA RateLimitOK ==
  ASSUME NEW c \in CfgSet, NEW q, QueueOK(c, q), q.exists, c.rate_delay => q.busy = {}
  PROVE  /\ QueueOK(c, RateLimit(c, q))
         /\ SameEntries(q, RateLimit(c, q))
         /\ Throttled(RateLimit(c, q)) => RateLimit(c, q) = q
<1>1. CASE ~c.rate_delay
  <2>1. RateLimit(c, q) = q
    BY <1>1 DEF RateLimit
  <2> QED
    BY <2>1, Zenon DEF SameEntries
<1>2. CASE c.rate_delay
  <2> DEFINE q2 == IF Throttled(q) THEN QueueUnthrottle(c, q) ELSE q
  <2>1. q \in QueueType /\ q.panic = FALSE /\ c.limit = 1 /\ q.window <= 1
    BY <1>2 DEF QueueOK, QueueType, CfgSet
  <2>2. ~(q.window > 1)
    BY <2>1 DEF QueueType, SUSPENDED
  <2>3. Panic(q, q.window > 1) = q
    <3> DEFINE bad == q.window > 1
    <3>1. ~bad
      BY <2>2
    <3> HIDE DEF bad
    <3>2. Panic(q, bad) = q
      BY <2>1, <3>1, PanicSame
    <3> QED
      BY <3>2 DEF bad
  <2>4. RateLimit(c, q) = IF Ready(q2) THEN QueueSuspend(q2) ELSE q2
    BY <1>2, <2>3 DEF RateLimit
  <2>5. QueueOK(c, q2) /\ SameEntries(q, q2) /\ ~Throttled(q2)
    <3>1. CASE Throttled(q)
      <4>1. ~Suspended(q)
        BY <3>1 DEF Throttled, Suspended, THROTTLED, SUSPENDED
      <4>2. QueueOK(c, q2) /\ SameEntries(q, q2) /\ Ready(q2)
        BY <3>1, <4>1, UnthrottleOK
      <4> QED
        BY <4>2 DEF Ready, Throttled, THROTTLED
    <3>2. CASE ~Throttled(q)
      BY <3>2, Zenon DEF SameEntries
    <3> QED
      BY <3>1, <3>2
  <2> HIDE DEF q2
  <2>6. CASE Ready(q2)
    <3>1. /\ QueueOK(c, QueueSuspend(q2))
          /\ SameEntries(q2, QueueSuspend(q2))
          /\ Suspended(QueueSuspend(q2))
      BY <1>2, <2>5, <2>6, SuspendOK, Zenon DEF SameEntries
    <3>2. SameEntries(q, QueueSuspend(q2)) /\ ~Throttled(QueueSuspend(q2))
      BY <2>5, <3>1 DEF SameEntries, Throttled, Suspended, THROTTLED, SUSPENDED
    <3> QED
      BY <2>4, <2>6, <3>1, <3>2
  <2>7. CASE ~Ready(q2)
    BY <2>4, <2>5, <2>7
  <2> QED
    BY <2>6, <2>7
<1> QED
  BY <1>1, <1>2

\* qmgr_entry_done for a delivery that finished.
LEMMA EntryDoneBusyOK ==
  ASSUME NEW c \in CfgSet, NEW q, QueueOK(c, q), NEW e \in q.busy, NEW over
  PROVE  /\ QueueOK(c, EntryDoneBusy(c, q, e, over))
         /\ EntryDoneBusy(c, q, e, over).todo = q.todo
         /\ EntryDoneBusy(c, q, e, over).busy = q.busy \ {e}
         /\ EntryDoneBusy(c, q, e, over).exists /\ Throttled(EntryDoneBusy(c, q, e, over))
            => Throttled(q)
<1> DEFINE b == q.busy \ {e}
           p == [q EXCEPT !.busy = b]
           r == RateLimit(c, p)
<1>1. q \in QueueType /\ q.panic = FALSE /\ q.exists /\ ~Suspended(q)
  BY DEF QueueOK, QueueType
<1>2. b \in SUBSET Entries /\ IsFiniteSet(q.busy)
  BY <1>1, DeliverAssumption, FS_Subset DEF QueueType
<1>3. /\ Cardinality(b) = BusyCount(q) - 1 /\ Cardinality(b) \in Nat
      /\ BusyCount(q) \in Nat /\ (Cardinality(b) = 0 => b = {})
  <2>1. Cardinality(b) = Cardinality(q.busy) - 1
    BY <1>2, FS_RemoveElement, Zenon
  <2>2. IsFiniteSet(b)
    BY <1>2, FS_Subset
  <2> QED
    BY <1>2, <2>1, <2>2, FS_CardinalityType, FS_EmptySet DEF BusyCount
<1>4. c.limit \in Nat /\ (c.rate_delay => c.limit = 1)
  BY DEF CfgSet, RawConfig
<1>5. EntryDoneBusy(c, q, e, over) = QueueGone(c, r, over)
  BY DEF EntryDoneBusy
<1> HIDE DEF b
<1>6. /\ p \in QueueType
      /\ p.exists = q.exists /\ p.window = q.window /\ p.timers = q.timers
      /\ p.dsn = q.dsn /\ p.panic = q.panic /\ p.todo = q.todo /\ p.busy = b
  BY <1>1, <1>2, Zenon DEF QueueType
<1> HIDE DEF p
<1>7. BusyCount(p) = BusyCount(q) - 1
  BY <1>3, <1>6 DEF BusyCount
<1>8. QueueOK(c, p)
  BY <1>1, <1>3, <1>4, <1>6, <1>7 DEF QueueOK, Throttled, Suspended
<1>9. c.rate_delay => p.busy = {}
  BY <1>3, <1>4, <1>6 DEF QueueOK
<1>10. QueueOK(c, r) /\ SameEntries(p, r) /\ (Throttled(r) => r = p)
  BY <1>1, <1>6, <1>8, <1>9, RateLimitOK, Zenon
<1> HIDE DEF r
<1>11. /\ QueueOK(c, QueueGone(c, r, over))
       /\ QueueGone(c, r, over).todo = r.todo
       /\ QueueGone(c, r, over).busy = r.busy
       /\ QueueGone(c, r, over).exists => QueueGone(c, r, over) = r
  BY <1>1, <1>6, <1>10, QueueGoneOK, Zenon DEF SameEntries
<1> QED
  BY <1>5, <1>6, <1>10, <1>11 DEF b, SameEntries, Throttled

\* qmgr_entry_done for every waiting entry.
LEMMA EntriesDoneTodoOK ==
  ASSUME NEW c \in CfgSet, NEW q, QueueOK(c, q), q.exists, NEW over
  PROVE  /\ QueueOK(c, EntriesDoneTodo(c, q, over))
         /\ EntriesDoneTodo(c, q, over).todo = {}
         /\ EntriesDoneTodo(c, q, over).busy = q.busy
         /\ EntriesDoneTodo(c, q, over).exists
            => EntriesDoneTodo(c, q, over).window = q.window
<1> DEFINE none == {}
           p    == [q EXCEPT !.todo = none]
<1>1. q \in QueueType /\ q.panic = FALSE
  BY DEF QueueOK, QueueType
<1>2. EntriesDoneTodo(c, q, over) = QueueGone(c, p, over)
  BY DEF EntriesDoneTodo
<1>3. none \in SUBSET Entries
  OBVIOUS
<1> HIDE DEF none
<1>4. /\ p \in QueueType
      /\ p.exists = q.exists /\ p.window = q.window /\ p.timers = q.timers
      /\ p.dsn = q.dsn /\ p.panic = q.panic /\ p.todo = none /\ p.busy = q.busy
  BY <1>1, <1>3, Zenon DEF QueueType
<1> HIDE DEF p
<1>5. BusyCount(p) = BusyCount(q)
  BY <1>4 DEF BusyCount
<1>6. QueueOK(c, p)
  BY <1>4, <1>5 DEF QueueOK, Throttled, Suspended
<1>7. /\ QueueOK(c, QueueGone(c, p, over))
      /\ QueueGone(c, p, over).todo = p.todo
      /\ QueueGone(c, p, over).busy = p.busy
      /\ QueueGone(c, p, over).exists => QueueGone(c, p, over) = p
  BY <1>4, <1>6, QueueGoneOK, Zenon
<1> QED
  BY <1>2, <1>4, <1>7 DEF none

\* A flush request.
LEMMA EnableQueueOK ==
  ASSUME NEW c \in CfgSet, NEW q, QueueOK(c, q), q.exists
  PROVE  /\ QueueOK(c, EnableQueue(c, q))
         /\ EnableQueue(c, q).todo = q.todo
         /\ EnableQueue(c, q).busy = q.busy
         /\ EnableQueue(c, q).exists => ~Throttled(EnableQueue(c, q))
<1> DEFINE p == IF Throttled(q) THEN QueueUnthrottle(c, q) ELSE q
<1>1. EnableQueue(c, q) = DoneIfIdle(p)
  BY DEF EnableQueue
<1>2. QueueOK(c, p) /\ SameEntries(q, p) /\ ~Throttled(p)
  <2>1. CASE Throttled(q)
    <3>1. ~Suspended(q)
      BY <2>1 DEF Throttled, Suspended, THROTTLED, SUSPENDED
    <3>2. QueueOK(c, p) /\ SameEntries(q, p) /\ Ready(p)
      BY <2>1, <3>1, UnthrottleOK
    <3> QED
      BY <3>2 DEF Ready, Throttled, THROTTLED
  <2>2. CASE ~Throttled(q)
    BY <2>2, Zenon DEF SameEntries
  <2> QED
    BY <2>1, <2>2
<1> HIDE DEF p
<1> QED
  BY <1>1, <1>2, DoneIfIdleOK DEF SameEntries

=============================================================================
