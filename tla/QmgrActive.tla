----------------------------- MODULE QmgrActive -----------------------------
(***************************************************************************)
(* The life of one message: its queue file, the in-core message of the     *)
(* queue manager (qmgr_active.c, qmgr_message.c), the delivery agents      *)
(* (deliver_request.c, sent.c, bounce.c, defer.c, deliver_completed.c) and *)
(* the bounce(8), defer(8) and trace(8) daemons that keep the logfiles and *)
(* send the notifications.  All of these are processes of their own; any   *)
(* of them can die between two steps, and what is on disk survives.        *)
(*                                                                         *)
(* Recipients are numbered in queue file order; each is an entry of its    *)
(* own.  The steps of one queue manager handler that touch the file system *)
(* or another process are separate actions (state "done", "done2", ...),   *)
(* because the other processes run between them.  Queue file contents are  *)
(* well-formed; a delivery agent may still find the message text corrupt.  *)
(***************************************************************************)
EXTENDS Integers, FiniteSets

CONSTANTS
    Agents,          \* delivery agent processes
    Daemons,         \* bounce, defer and trace processes
    Configs          \* the configurations to consider, see below

\* What is fixed for one behaviour: the message, and what may go wrong.
ConfigType ==
    [nrcpt : Nat \ {0},       \* number of recipients
     rcptLimit : Nat \ {0},   \* most recipients one qmgr_message_read() brings in core
     ndaemons : Nat \ {0},    \* most notification requests in progress
     trace : BOOLEAN,         \* a trace request (sendmail -v, DSN)
     appendFails : BOOLEAN,   \* the bounce, defer and trace services may refuse a record
     stragglers : BOOLEAN,    \* requests may still be served long after the queue
                              \* manager gave up on them, or was restarted
     maxFaults : Nat,         \* bound on dead agents and daemons, timeouts, refusals
     maxCrashes : Nat]        \* bound on queue manager exits

ASSUME ActiveAssumption == Configs \subseteq ConfigType

VARIABLES
    cf,         \* the configuration
    file,       \* the queue file: directory, recipients not marked done, mode
    log,        \* logfiles: recipients recorded in bounce/, defer/, trace/
    msg,        \* the queue manager's in-core message, or where it is with it
    agent,      \* delivery agents
    daemon,     \* notification daemons
    age,        \* 0 fresh, 1 a delay warning is due, 2 too old
    faults,     \* how many things went wrong so far in agents and daemons
    crashes,    \* how often the queue manager went away
    delivered,  \* how often each recipient got the message
    reported    \* recipients whose failure was reported to the sender

vars == <<cf, file, log, msg, agent, daemon, age, faults, crashes, delivered,
          reported>>

NRcpt == cf.nrcpt
RcptLimit == cf.rcptLimit
TraceRequested == cf.trace
AppendFails == cf.appendFails
Stragglers == cf.stragglers
MaxFaults == cf.maxFaults
MaxCrashes == cf.maxCrashes

Rcpts == 1 .. NRcpt

NoMessage == [st |-> "none", flags |-> FALSE, offset |-> 0,
              todo |-> {}, retry |-> {}, busy |-> {}]

IdleAgent == [st |-> "idle", rcpt |-> 1, retry |-> FALSE, trace |-> FALSE,
              orphan |-> FALSE]

\* The log a daemon has open: none, the one in the queue directory ("live"), or
\* one that was removed since, which still has the records in "kept".
IdleDaemon == [st |-> "idle", cmd |-> "bounce", orphan |-> FALSE,
               locks |-> FALSE, log |-> "none", kept |-> {}]

Init ==
    /\ cf \in Configs
    /\ file = [dir |-> "incoming", todo |-> Rcpts, mode_ok |-> TRUE,
               warn |-> TRUE, trace |-> TraceRequested]
    /\ log = [bounce |-> {}, defer |-> {}, trace |-> {}]
    /\ msg = NoMessage
    /\ agent = [a \in Agents |-> IdleAgent]
    /\ daemon = [d \in Daemons |-> IdleDaemon]
    /\ age = 0
    /\ faults = 0
    /\ crashes = 0
    /\ delivered = [r \in Rcpts |-> 0]
    /\ reported = {}

\* Mark a recipient record as done: deliver_completed().
Completed(f, S) == [f EXCEPT !.todo = @ \ S]

\* Mutant of Locked: the queue manager does not look.
Locked_Never == FALSE

\* Shared locks that agents and daemons hold while they have the file open.
Locked ==
    \/ \E a \in Agents : agent[a].st \in {"open", "sent", "logged", "ok", "defer", "closing"}
    \/ \E d \in Daemons : daemon[d].locks

\* Something fails.
Fault == faults < MaxFaults /\ faults' = faults + 1

-----------------------------------------------------------------------------
(* Queue manager: from the incoming or deferred queue to the active queue    *)

\* qmgr_active_feed: the rename.
Feed ==
    /\ msg.st = "none"
    /\ file.dir \in {"incoming", "deferred"}
    /\ file.mode_ok
    /\ file' = [file EXCEPT !.dir = "active"]
    /\ msg' = [msg EXCEPT !.st = "feed"]
    /\ UNCHANGED <<cf, log, agent, daemon, age, faults, crashes, delivered, reported>>

\* qmgr_active_feed: "the file is still being delivered".
FeedLocked ==
    /\ msg.st = "feed"
    /\ Locked
    /\ file' = [file EXCEPT !.dir = "incoming"]
    /\ msg' = NoMessage
    /\ UNCHANGED <<cf, log, agent, daemon, age, faults, crashes, delivered, reported>>

\* qmgr_message_read: the first n records from the offset on that are not
\* marked done, and the offset to continue from, 0 at the end of the file.
Unread(from) == {r \in file.todo : r >= from}
Batch(from, n) ==
    {r \in Unread(from) : Cardinality({s \in Unread(from) : s <= r}) <= n}
\* Mutant of NextOffset: one record is skipped.
NextOffset_Skips(from, n) ==
    IF Cardinality(Unread(from)) >= n
    THEN 2 + CHOOSE r \in Batch(from, n) : \A s \in Batch(from, n) : s <= r
    ELSE 0
NextOffset(from, n) ==
    IF Cardinality(Unread(from)) >= n
    THEN 1 + CHOOSE r \in Batch(from, n) : \A s \in Batch(from, n) : s <= r
    ELSE 0

InCore(m) == m.todo \union m.retry \union m.busy

\* The last reference is gone: qmgr_active_done() is next.
DoneIfUnused(m) == IF InCore(m) = {} THEN [m EXCEPT !.st = "done"] ELSE m

\* defer_append for S: a service failure is only logged.
Traced(l, S, trace) == IF trace THEN [l EXCEPT !.trace = @ \union S] ELSE l
Deferred(l, S, trace, fails) ==
    Traced(IF fails THEN l ELSE [l EXCEPT !.defer = @ \union S], S, trace)

AppendOutcome(fails) ==
    IF fails THEN AppendFails /\ Fault ELSE UNCHANGED faults

(***************************************************************************)
(* qmgr_message_resolve and qmgr_message_assign: a recipient is bound to a *)
(* queue, diverted to retry(8), deferred on the spot, or, when addressed   *)
(* to the local double-bounce address, discarded.                          *)
(***************************************************************************)
ReadRecipients(l, n, how, fails) ==
    LET batch == Batch(msg.offset, n)
        Bound(h) == {r \in batch : how[r] = h}
    IN  /\ fails => Bound("deferred") # {}
        /\ msg' = DoneIfUnused(
                    [msg EXCEPT !.st     = "deliver",
                                !.offset = NextOffset(msg.offset, n),
                                !.flags  = @ \/ Bound("deferred") # {},
                                !.todo   = @ \union Bound("todo"),
                                !.retry  = @ \union Bound("retry")])
        /\ log' = Deferred(l, Bound("deferred"), file.trace, fails)
        /\ file' = Completed(file, Bound("discarded"))
        /\ delivered' = [r \in Rcpts |-> IF r \in Bound("discarded") THEN delivered[r] + 1
                                         ELSE delivered[r]]
        /\ AppendOutcome(fails)

\* What may become of the recipients that are read.
Resolutions(n) ==
    [Batch(msg.offset, n) -> {"todo", "retry", "deferred", "discarded"}]

\* The log that a request is about, and its removal: whoever has it open still
\* sees the old records, and none of the later ones.
LogName(cmd) == CASE cmd = "bounce" -> "bounce" [] cmd = "trace" -> "trace" [] OTHER -> "defer"
Unlinked(dm, name) ==
    [d \in Daemons |-> IF LogName(dm[d].cmd) = name /\ dm[d].log = "live"
                       THEN [dm[d] EXCEPT !.log = "removed", !.kept = log[name]]
                       ELSE dm[d]]

\* Mutant of Alloc: the defer log of the previous run is left alone.
Alloc_KeepsLog(n, how, fails) ==
    /\ msg.st = "feed"
    /\ ~Locked
    /\ ReadRecipients(log, n, how, fails)
    /\ UNCHANGED <<cf, agent, daemon, age, crashes, reported>>

\* qmgr_message_alloc with the exclusive lock: the defer log of the previous
\* run is removed before recipients are resolved.
Alloc(n, how, fails) ==
    /\ msg.st = "feed"
    /\ ~Locked
    /\ ReadRecipients([log EXCEPT !.defer = {}], n, how, fails)
    /\ daemon' = Unlinked(daemon, "defer")
    /\ UNCHANGED <<cf, agent, age, crashes, reported>>

\* qmgr_message_realloc from the job scheduler, with deliveries in progress.
Refill(n, how, fails) ==
    /\ msg.st = "deliver"
    /\ msg.offset > 0
    /\ ReadRecipients(log, n, how, fails)
    /\ UNCHANGED <<cf, agent, daemon, age, crashes, reported>>

-----------------------------------------------------------------------------
(* Queue manager: deliveries                                                 *)

\* qmgr_deliver: hand an entry to a delivery agent.
SendRequest(a, r) ==
    /\ msg.st = "deliver"
    /\ agent[a].st = "idle"
    /\ r \in msg.todo \union msg.retry
    /\ agent' = [agent EXCEPT ![a] = [st |-> "req", rcpt |-> r, retry |-> r \in msg.retry,
                                      trace |-> file.trace, orphan |-> FALSE]]
    /\ msg' = [msg EXCEPT !.todo = @ \ {r}, !.retry = @ \ {r}, !.busy = @ \union {r}]
    /\ UNCHANGED <<cf, file, log, daemon, age, faults, crashes, delivered, reported>>

\* qmgr_defer_todo, from message m: hand the recipients to retry(8), or, when
\* that is not available, log them and dispose of their entries.
DeferRecipients(m, S, async, fails) ==
    LET rest == [m EXCEPT !.todo = @ \ S, !.retry = @ \ S, !.busy = @ \ S]
    IN  IF async
        THEN /\ ~fails
             /\ msg' = [rest EXCEPT !.retry = @ \union S]
             /\ UNCHANGED <<log, faults>>
        ELSE /\ msg' = DoneIfUnused([rest EXCEPT !.flags = TRUE])
             /\ log' = Deferred(log, S, file.trace, fails)
             /\ AppendOutcome(fails)

\* A site or transport dies, in a handler that works for some other message.
DestinationDies(S, async, fails) ==
    /\ msg.st = "deliver"
    /\ S # {}
    /\ S \subseteq msg.todo \/ (~async /\ S \subseteq msg.retry)
    /\ DeferRecipients(msg, S, async, fails)
    /\ UNCHANGED <<cf, file, agent, daemon, age, crashes, delivered, reported>>

\* The agent may still have to close the queue file.
Release(a) == [agent EXCEPT ![a].st = "closing", ![a].orphan = TRUE]

\* Entries that wait for the same destination as agent a's.
Alongside(a, S) == S \subseteq (IF agent[a].retry THEN msg.retry ELSE msg.todo)

\* Mutant of DeliverUpdate: a deferred delivery does not set the flag.
DeliverUpdate_NoFlag(a, S, async, fails) ==
    /\ msg.st = "deliver"
    /\ ~agent[a].orphan
    /\ agent[a].st \in {"ok", "defer", "refused"}
    /\ S = {} /\ ~async /\ ~fails
    /\ msg' = DoneIfUnused([msg EXCEPT !.busy = @ \ {agent[a].rcpt}])
    /\ agent' = Release(a)
    /\ UNCHANGED <<cf, file, log, daemon, age, faults, crashes, delivered, reported>>

\* qmgr_deliver_update and qmgr_entry_done.  When the agent says that the site
\* is unreachable, what waits for the same site is deferred, too.
DeliverUpdate(a, S, async, fails) ==
    LET m == [msg EXCEPT !.busy  = @ \ {agent[a].rcpt},
                         !.flags = @ \/ agent[a].st # "ok"]
    IN  /\ msg.st = "deliver"
        /\ ~agent[a].orphan
        /\ agent[a].st \in {"ok", "defer", "refused"}
        /\ Alongside(a, S)
        /\ IF S = {}
           THEN /\ ~async /\ ~fails
                /\ msg' = DoneIfUnused(m)
                /\ UNCHANGED <<log, faults>>
           ELSE /\ agent[a].st = "defer"
                /\ agent[a].retry => ~async
                /\ DeferRecipients(m, S, async, fails)
        /\ agent' = IF agent[a].st = "refused" THEN [agent EXCEPT ![a] = IdleAgent]
                    ELSE Release(a)
        /\ UNCHANGED <<cf, file, daemon, age, crashes, delivered, reported>>

\* qmgr_deliver_update with DELIVER_STAT_CRASH: assume the worst and have a
\* defer log record written; what waits for the same transport goes along.
DeliverCrash(a, S, async, fails) ==
    /\ msg.st = "deliver"
    /\ ~agent[a].orphan
    /\ agent[a].st = "dead"
    /\ Alongside(a, S)
    /\ agent[a].retry => ~async
    /\ DeferRecipients([msg EXCEPT !.flags = TRUE], S \union {agent[a].rcpt}, async, fails)
    /\ agent' = [agent EXCEPT ![a] = IdleAgent]
    /\ UNCHANGED <<cf, file, daemon, age, crashes, delivered, reported>>

-----------------------------------------------------------------------------
(* Queue manager: after all recipients in core were tried                    *)

\* Ask a daemon for a notification and wait for its answer.
Request(cmd) ==
    \E d \in Daemons :
        /\ daemon[d].st = "idle"
        /\ Cardinality({x \in Daemons : daemon[x].st # "idle"}) < cf.ndaemons
        /\ daemon' = [daemon EXCEPT ![d] = [IdleDaemon EXCEPT !.st = "req", !.cmd = cmd]]
        /\ msg' = [msg EXCEPT !.st = "wait"]
        /\ UNCHANGED <<cf, file, log, agent, age, faults, crashes, delivered, reported>>

Goto(st) ==
    /\ msg' = [msg EXCEPT !.st = st]
    /\ UNCHANGED <<cf, file, log, agent, daemon, age, faults, crashes, delivered, reported>>

\* qmgr_active_done: send what is in the bounce log.
ActiveDone ==
    /\ msg.st = "done"
    /\ IF log.bounce # {} THEN Request("bounce") ELSE Goto("done2")

\* qmgr_active_done_2_generic: set a corrupt file aside, ...
Done2Corrupt ==
    /\ msg.st = "done2"
    /\ msg.flags /\ ~file.mode_ok
    /\ file' = [file EXCEPT !.dir = "corrupt"]
    /\ msg' = NoMessage
    /\ UNCHANGED <<cf, log, agent, daemon, age, faults, crashes, delivered, reported>>

\* ... read more recipients, ...
Done2Realloc(n, how, fails) ==
    /\ msg.st = "done2"
    /\ ~(msg.flags /\ ~file.mode_ok)
    /\ msg.offset > 0
    /\ ReadRecipients(log, n, how, fails)
    /\ UNCHANGED <<cf, agent, daemon, age, crashes, reported>>

\* ... or go on with the trace log.
Done2 ==
    /\ msg.st = "done2"
    /\ ~(msg.flags /\ ~file.mode_ok)
    /\ msg.offset = 0
    /\ IF file.trace THEN Request("trace") ELSE Goto("done25")

\* Mutant of Done25: mail does not get too old.
Done25_NeverOld ==
    /\ msg.st = "done25"
    /\ IF msg.flags /\ age > 0 /\ file.warn THEN Request("warn") ELSE Goto("done3")

\* qmgr_active_done_25_generic: return mail that is too old, or warn.
Done25 ==
    /\ msg.st = "done25"
    /\ IF msg.flags /\ age = 2 THEN Request("flush")
       ELSE IF msg.flags /\ age = 1 /\ file.warn THEN Request("warn")
       ELSE Goto("done3")

\* qmgr_active_done_3_generic: defer or remove, then forget the message.
Done3 ==
    /\ msg.st = "done3"
    /\ file' = [file EXCEPT !.dir = IF msg.flags THEN "deferred" ELSE "gone"]
    /\ msg' = NoMessage
    /\ UNCHANGED <<cf, log, agent, daemon, age, faults, crashes, delivered, reported>>

\* The callback of each request, with the daemon's status.
Callback(cmd, ok) ==
    /\ msg' = [msg EXCEPT
                 !.st    = CASE cmd = "bounce" -> "done2"
                             [] cmd = "trace"  -> "done25"
                             [] OTHER          -> "done3",
                 !.flags = CASE cmd = "flush"  -> ~ok
                             [] cmd = "warn"   -> @
                             [] OTHER          -> @ \/ ~ok]
    /\ file' = CASE ok /\ cmd = "trace" -> [file EXCEPT !.trace = FALSE]
                 [] ok /\ cmd = "warn"  -> [file EXCEPT !.warn = FALSE]
                 [] OTHER               -> file

\* abounce_event: the daemon answered, or hung up without an answer.
Answer(d) ==
    /\ msg.st = "wait"
    /\ daemon[d].st \in {"ok", "fail", "dead"}
    /\ ~daemon[d].orphan
    /\ Callback(daemon[d].cmd, daemon[d].st = "ok")
    /\ daemon' = [daemon EXCEPT ![d] = IdleDaemon]
    /\ UNCHANGED <<cf, log, agent, age, faults, crashes, delivered, reported>>

\* abounce_event with EVENT_TIME: give up on a daemon that may still be busy.
AnswerTimeout(d) ==
    /\ Stragglers
    /\ msg.st = "wait"
    /\ daemon[d].st \in {"req", "open", "posted"}
    /\ ~daemon[d].orphan
    /\ Callback(daemon[d].cmd, FALSE)
    /\ daemon' = [daemon EXCEPT ![d].orphan = TRUE]
    /\ Fault
    /\ UNCHANGED <<cf, log, agent, age, crashes, delivered, reported>>

-----------------------------------------------------------------------------
(* Queue manager: exit and restart                                           *)

\* Any fatal error, watchdog or "postfix reload".  Whoever worked for the
\* queue manager goes on without it.
QmgrExit ==
    /\ msg.st # "down"
    /\ file.dir \in {"incoming", "active", "deferred"}
    /\ crashes < MaxCrashes
    /\ crashes' = crashes + 1
    /\ msg' = [NoMessage EXCEPT !.st = "down"]
    /\ agent' = [a \in Agents |->
                    IF agent[a].st \in {"idle", "dead", "refused"} THEN IdleAgent
                    ELSE IF agent[a].st \in {"ok", "defer"}
                    THEN [agent[a] EXCEPT !.st = "closing", !.orphan = TRUE]
                    ELSE [agent[a] EXCEPT !.orphan = TRUE]]
    /\ daemon' = [d \in Daemons |->
                    IF daemon[d].st \in {"req", "open", "posted"}
                    THEN [daemon[d] EXCEPT !.orphan = TRUE] ELSE IdleDaemon]
    /\ UNCHANGED <<cf, file, log, age, faults, delivered, reported>>

\* qmgr_post_init: qmgr_move(active -> incoming).
QmgrStart ==
    /\ msg.st = "down"
    /\ \/ Stragglers
       \/ /\ \A d \in Daemons : daemon[d].st = "idle"
          /\ \A a \in Agents : agent[a].st # "req"
    /\ file' = [file EXCEPT !.dir = IF @ = "active" THEN "incoming" ELSE @]
    /\ msg' = NoMessage
    /\ UNCHANGED <<cf, log, agent, daemon, age, faults, crashes, delivered, reported>>

-----------------------------------------------------------------------------
(* Delivery agents                                                           *)

AgentStep(a, from, to) ==
    /\ agent[a].st = from
    /\ agent' = [agent EXCEPT ![a].st = to]

\* An agent that works for nobody just goes away.
Gone(p, st) == IF p.orphan THEN IdleAgent ELSE [p EXCEPT !.st = st]

\* deliver_request_get: open and lock the queue file in the active queue.
AgentOpen(a) ==
    /\ agent[a].st = "req"
    /\ agent' = [agent EXCEPT ![a] =
                    IF file.dir = "active" /\ file.mode_ok THEN [@ EXCEPT !.st = "open"]
                    ELSE Gone(@, "refused")]
    /\ UNCHANGED <<cf, file, log, msg, daemon, age, faults, crashes, delivered, reported>>

\* The message is delivered ...
AgentDeliver(a) ==
    /\ AgentStep(a, "open", "sent")
    /\ ~agent[a].retry
    /\ delivered' = [delivered EXCEPT ![agent[a].rcpt] = @ + 1]
    /\ UNCHANGED <<cf, file, log, msg, daemon, age, crashes, faults, reported>>

\* Mutant of AgentSent: the status that sent() returns is read the wrong way.
AgentSent_Inverted(a) ==
    /\ AgentStep(a, "sent", "defer")
    /\ log' = Traced(log, {agent[a].rcpt}, agent[a].trace)
    /\ UNCHANGED <<cf, file, msg, daemon, age, faults, crashes, delivered, reported>>

\* ... and then sent() and deliver_completed() say so on disk.
AgentSent(a) ==
    /\ AgentStep(a, "sent", "ok")
    /\ log' = Traced(log, {agent[a].rcpt}, agent[a].trace)
    /\ file' = Completed(file, {agent[a].rcpt})
    /\ UNCHANGED <<cf, msg, daemon, age, faults, crashes, delivered, reported>>

\* Mutant of AgentBounce: the result of the bounce service is ignored.
AgentBounce_Unlogged(a) ==
    /\ AgentStep(a, "open", "logged")
    /\ ~agent[a].retry
    /\ UNCHANGED <<cf, file, log, msg, daemon, age, faults, crashes, delivered, reported>>

\* bounce_append takes responsibility ...
AgentBounce(a) ==
    /\ AgentStep(a, "open", "logged")
    /\ ~agent[a].retry
    /\ log' = Traced([log EXCEPT !.bounce = @ \union {agent[a].rcpt}],
                     {agent[a].rcpt}, agent[a].trace)
    /\ UNCHANGED <<cf, file, msg, daemon, age, faults, crashes, delivered, reported>>

\* ... and then the recipient is marked as done.
AgentBounced(a) ==
    /\ AgentStep(a, "logged", "ok")
    /\ file' = Completed(file, {agent[a].rcpt})
    /\ UNCHANGED <<cf, log, msg, daemon, age, faults, crashes, delivered, reported>>

\* defer_append, also when bounce_append() finds no bounce service.
AgentDefer(a, fails) ==
    /\ AgentStep(a, "open", "defer")
    /\ log' = Deferred(log, {agent[a].rcpt}, agent[a].trace, fails)
    /\ AppendOutcome(fails)
    /\ UNCHANGED <<cf, file, msg, daemon, age, crashes, delivered, reported>>

\* sent, bounce_append: the trace service fails when the message is delivered,
\* or the bounce logged.  The recipient is deferred and will be tried again.
AgentUntraced(a) ==
    /\ agent[a].trace
    /\ AgentStep(a, "sent", "defer") \/ (AgentStep(a, "open", "defer") /\ ~agent[a].retry)
    /\ log' = [log EXCEPT !.defer  = @ \union {agent[a].rcpt},
                          !.bounce = IF agent[a].st = "open" THEN @ \union {agent[a].rcpt}
                                     ELSE @]
    /\ AppendFails /\ Fault
    /\ UNCHANGED <<cf, file, msg, daemon, age, crashes, delivered, reported>>

\* Mutant of AgentCorrupt: delivery is not pretended to be deferred.
AgentCorrupt_NotDeferred(a) ==
    /\ AgentStep(a, "open", "ok")
    /\ ~agent[a].retry
    /\ file' = [file EXCEPT !.mode_ok = FALSE]
    /\ UNCHANGED <<cf, log, msg, daemon, age, faults, crashes, delivered, reported>>

\* mark_corrupt: change the mode and pretend that delivery was deferred.
AgentCorrupt(a) ==
    /\ AgentStep(a, "open", "defer")
    /\ ~agent[a].retry
    /\ file' = [file EXCEPT !.mode_ok = FALSE]
    /\ UNCHANGED <<cf, log, msg, daemon, age, faults, crashes, delivered, reported>>

\* deliver_request_done without a queue manager, or after it hung up.
AgentClose(a) ==
    /\ \/ agent[a].st = "closing"
       \/ agent[a].orphan /\ agent[a].st \in {"ok", "defer"}
    /\ agent' = [agent EXCEPT ![a] = IdleAgent]
    /\ UNCHANGED <<cf, file, log, msg, daemon, age, faults, crashes, delivered, reported>>

AgentDies(a) ==
    /\ agent[a].st \in {"req", "open", "sent", "logged", "ok", "defer"}
    /\ agent' = [agent EXCEPT ![a] = Gone(@, "dead")]
    /\ Fault
    /\ UNCHANGED <<cf, file, log, msg, daemon, age, crashes, delivered, reported>>

-----------------------------------------------------------------------------
(* Notification daemons                                                      *)

\* bounce_mail_init: open the log, open and lock the queue file if it is there.
DaemonOpen(d) ==
    /\ daemon[d].st = "req"
    /\ daemon' = [daemon EXCEPT
                    ![d].st    = "open",
                    ![d].locks = file.dir = "active",
                    ![d].log   = IF log[LogName(daemon[d].cmd)] = {} THEN "none" ELSE "live"]
    /\ UNCHANGED <<cf, file, log, msg, agent, age, faults, crashes, delivered, reported>>

\* What the daemon reads from the log that it opened.
Records(p) == CASE p.log = "live"    -> log[LogName(p.cmd)]
                [] p.log = "removed" -> p.kept
                [] OTHER             -> {}

\* Answer the queue manager and let go of the files.
Finish(p, st) ==
    IF p.orphan THEN IdleDaemon ELSE [IdleDaemon EXCEPT !.st = st, !.cmd = p.cmd]

\* The notification is handed to cleanup(8).  Without a log it says "Delivery
\* report unavailable", and stands for every recipient that is left.  There
\* is no trace report without a log, and a delay warning keeps the log.
DaemonPost(d) ==
    LET p == daemon[d]
    IN  /\ p.st = "open"
        /\ daemon' = [daemon EXCEPT ![d] =
                        IF p.cmd = "warn" \/ (p.cmd = "trace" /\ p.log = "none")
                        THEN Finish(p, "ok") ELSE [p EXCEPT !.st = "posted"]]
        /\ reported' = CASE p.cmd \in {"trace", "warn"} -> reported
                         [] p.log = "none"              -> reported \union file.todo
                         [] OTHER                       -> reported \union Records(p)
        /\ UNCHANGED <<cf, file, log, msg, agent, age, crashes, faults, delivered>>

DaemonPostFails(d) ==
    /\ daemon[d].st = "open"
    /\ daemon' = [daemon EXCEPT ![d] = Finish(@, "fail")]
    /\ UNCHANGED <<cf, file, log, msg, agent, age, faults, crashes, delivered, reported>>

\* bounce_delrcpt (for mail that is too old), then remove the log by its name.
DaemonClean(d) ==
    LET p == daemon[d]
    IN  /\ p.st = "posted"
        /\ file' = IF p.cmd = "flush" /\ p.locks THEN Completed(file, Records(p)) ELSE file
        /\ log' = [log EXCEPT ![LogName(p.cmd)] = {}]
        /\ daemon' = [Unlinked(daemon, LogName(p.cmd)) EXCEPT ![d] = Finish(p, "ok")]
        /\ UNCHANGED <<cf, msg, agent, age, faults, crashes, delivered, reported>>

DaemonDies(d) ==
    /\ daemon[d].st \in {"req", "open", "posted"}
    /\ daemon' = [daemon EXCEPT ![d] = Finish(@, "dead")]
    /\ Fault
    /\ UNCHANGED <<cf, file, log, msg, agent, age, crashes, delivered, reported>>

\* Time passes.
GrowOld ==
    /\ age < 2
    /\ age' = age + 1
    /\ UNCHANGED <<cf, file, log, msg, agent, daemon, faults, crashes, delivered, reported>>

-----------------------------------------------------------------------------
ReadStep ==
    \E n \in 1..RcptLimit, fails \in BOOLEAN : \E how \in Resolutions(n) :
        Alloc(n, how, fails) \/ Refill(n, how, fails) \/ Done2Realloc(n, how, fails)

DoneStep == ActiveDone \/ Done2Corrupt \/ Done2 \/ Done25 \/ Done3

AgentWork(a) ==
    \/ AgentOpen(a)
    \/ AgentDeliver(a) \/ AgentSent(a)
    \/ AgentBounce(a) \/ AgentBounced(a)
    \/ AgentUntraced(a)
    \/ \E fails \in BOOLEAN : AgentDefer(a, fails)
    \/ AgentCorrupt(a)
    \/ AgentClose(a)

DaemonWork(d) == DaemonOpen(d) \/ DaemonPost(d) \/ DaemonPostFails(d) \/ DaemonClean(d)

QmgrDeliver ==
    \/ \E a \in Agents, r \in Rcpts : SendRequest(a, r)
    \/ \E a \in Agents, S \in SUBSET Rcpts, async, fails \in BOOLEAN :
          DeliverUpdate(a, S, async, fails) \/ DeliverCrash(a, S, async, fails)

Next ==
    \/ Feed \/ FeedLocked \/ ReadStep
    \/ QmgrDeliver
    \/ \E S \in SUBSET Rcpts, async, fails \in BOOLEAN : DestinationDies(S, async, fails)
    \/ DoneStep
    \/ \E d \in Daemons : Answer(d) \/ AnswerTimeout(d)
    \/ QmgrExit \/ QmgrStart
    \/ \E a \in Agents : AgentWork(a) \/ AgentDies(a)
    \/ \E d \in Daemons : DaemonWork(d) \/ DaemonDies(d)
    \/ GrowOld

Spec == Init /\ [][Next]_vars

(***************************************************************************)
(* Every process keeps running, time passes, the queue manager is          *)
(* restarted by master(8), and a notification that is tried over and over  *)
(* is accepted by cleanup(8) in the end.                                   *)
(***************************************************************************)
Notify(cmd) == \E d \in Daemons : daemon[d].cmd = cmd /\ DaemonPost(d)

Fairness ==
    /\ WF_vars(Feed) /\ WF_vars(FeedLocked) /\ WF_vars(ReadStep)
    /\ WF_vars(QmgrDeliver) /\ WF_vars(DoneStep)
    /\ WF_vars(\E d \in Daemons : Answer(d))
    /\ WF_vars(QmgrStart)
    /\ \A a \in Agents : WF_vars(AgentWork(a))
    /\ \A d \in Daemons : WF_vars(DaemonWork(d))
    /\ \A cmd \in {"bounce", "trace", "flush"} : SF_vars(Notify(cmd))
    /\ WF_vars(GrowOld)

FairSpec == Spec /\ Fairness

-----------------------------------------------------------------------------
(* Properties                                                                *)

FileType == [dir : {"incoming", "active", "deferred", "corrupt", "gone"},
             todo : SUBSET Rcpts, mode_ok : BOOLEAN, warn : BOOLEAN, trace : BOOLEAN]
LogType == [bounce : SUBSET Rcpts, defer : SUBSET Rcpts, trace : SUBSET Rcpts]
MsgStates == {"none", "feed", "deliver", "done", "done2", "done25", "done3", "wait", "down"}
MsgType == [st : MsgStates, flags : BOOLEAN, offset : Nat,
            todo : SUBSET Rcpts, retry : SUBSET Rcpts, busy : SUBSET Rcpts]
AgentStates == {"idle", "req", "open", "sent", "logged", "ok", "defer", "refused",
                "dead", "closing"}
AgentType == [st : AgentStates, rcpt : Rcpts, retry : BOOLEAN, trace : BOOLEAN,
              orphan : BOOLEAN]
DaemonType == [st : {"idle", "req", "open", "posted", "ok", "fail", "dead"},
               cmd : {"bounce", "trace", "flush", "warn"}, orphan : BOOLEAN,
               locks : BOOLEAN, log : {"none", "live", "removed"}, kept : SUBSET Rcpts]

\* The variables have the types of the data structures that they stand for.
TypeOK ==
    /\ cf \in Configs
    /\ file \in FileType
    /\ log \in LogType
    /\ msg \in MsgType
    /\ agent \in [Agents -> AgentType]
    /\ daemon \in [Daemons -> DaemonType]
    /\ age \in 0..2
    /\ faults \in 0..MaxFaults
    /\ crashes \in 0..MaxCrashes
    /\ delivered \in [Rcpts -> Nat]
    /\ reported \in SUBSET Rcpts

\* The sender or the recipient knows, or the bounce log will tell.
Accounted(r) == delivered[r] > 0 \/ r \in reported \/ r \in log.bounce

\* A recipient record is marked as done (deliver_completed), and the queue file
\* is removed (qmgr_active_done_3_generic), only after the message was
\* delivered, or its failure was reported to the sender or is in the bounce
\* log: wherever a process dies, no recipient is skipped.
NoSilentLoss ==
    \A r \in Rcpts : r \notin file.todo \/ file.dir = "gone" => Accounted(r)

\* The message as its sender sees it.
Owed == {r \in Rcpts : ~Accounted(r)}
Fate == CASE file.dir = "gone"    -> "removed"
          [] file.dir = "corrupt" -> "aside"
          [] OTHER                -> "queued"
Contract == INSTANCE MailContract WITH addressees <- Rcpts, owed <- Owed, fate <- Fate

\* All of this implements the contract of MailContract, as long as the log
\* services refuse no record and no process outlives the patience of the queue
\* manager: whoever dies and restarts, a debt never comes back (a bounce log
\* record goes away only after the notification that contains it was posted),
\* and qmgr_active_done_3_generic removes the file only when nothing is owed.
KeepsContract == Contract!Spec

\* The shared lock of deliver_request_get and the recipient marks deliver no
\* recipient twice, whatever the queue manager does, except once for every
\* process that died or was refused a record in between, and, when agents may
\* open the file late, for every queue manager that went away.
AtMostOnce ==
    \A r \in Rcpts : delivered[r] <= 1 + faults + (IF Stragglers THEN crashes ELSE 0)

\* While agents and daemons live, and none goes on long after the queue manager
\* gave up on it, no recipient gets the mail while the sender is told that it
\* did not: a late retry does not race the notification.
DeliveredOrReported ==
    faults = 0 /\ ~Stragglers => \A r \in Rcpts : ~(delivered[r] > 0 /\ r \in reported)

\* A queue file that a delivery agent marked as corrupt (mark_corrupt) is never
\* removed or deferred, whatever other agents report about it and whoever dies,
\* as long as no agent of an earlier queue manager is at work.
CorruptKept ==
    crashes = 0 /\ ~file.mode_ok => file.dir \notin {"gone", "deferred"}

\* A recipient that is not in core and not marked as done will be read again:
\* it is still ahead in the file, or the message is flagged for another try,
\* unless the sender was told that the mail is too old.
NothingForgotten ==
    /\ TypeOK
    /\ msg.st \in {"deliver", "done", "done2", "wait", "done25", "done3"} =>
         \A r \in file.todo \ InCore(msg) :
             (msg.offset > 0 /\ r >= msg.offset) \/ msg.flags \/ r \in reported

\* A message does not stay in the mail system forever: it is removed, or set
\* aside as corrupt (qmgr_active_done_25_generic, bounce_queue_lifetime).
Settled == file.dir \in {"gone", "corrupt"} \/ ~file.mode_ok
EventuallySettled == <>Settled

=============================================================================
