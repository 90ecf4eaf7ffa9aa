------------------------------- MODULE Master -------------------------------
(***************************************************************************)
(* master(8) and the server processes it supervises.                       *)
(*                                                                         *)
(* master is one thread: its event loop takes the set of readable          *)
(* descriptors from select(), calls their handlers one by one, and looks   *)
(* at the SIGHUP and SIGCHLD flags only when all handlers returned.  The   *)
(* servers of a service share its listen socket and the pipe on which they *)
(* report to master whether they are available; a reload closes that pipe, *)
(* by which the servers learn that they are to go away.                    *)
(*                                                                         *)
(* The servers follow the single_server.c skeleton.  A pid is reused as    *)
(* soon as the process that had it has been reaped.  master_generation is  *)
(* only ever compared for equality, so a new process takes any generation  *)
(* that no process and no unread report carries.  The 1000 second window   *)
(* of stress mode is either over or not when it is looked at.              *)
(***************************************************************************)
EXTENDS Integers, Sequences, FiniteSets

CONSTANTS Services, Pids,
          Configs,       \* the contents master.cf may have
          NoConf,        \* a service that master.cf does not mention
          None,
          MaxGen,        \* generations told apart
          MaxBacklog,    \* connections that wait on a listen socket
          PipeSize,      \* reports a status pipe holds before a writer blocks
          MaxReloads,    \* SIGHUPs in a behaviour
          MaxFaults      \* crashes and failed forks in a behaviour

VARIABLES serv,          \* MASTER_SERV, with its listen socket and status pipe
          child,         \* master_child_table
          os,            \* the processes as the kernel has them
          conf,          \* master.cf
          gotsighup, gotsigchld,
          pc,            \* where the main loop is
          ready,         \* readable descriptors select() reported, not yet handled
          reading,       \* the service whose status pipe master is blocked on
          stopping,      \* the service that master_stop_service is about
          reloads, faults

vars == <<serv, child, os, conf, gotsighup, gotsigchld, pc, ready, reading,
          stopping, reloads, faults>>

Gens == 1..MaxGen
AVAIL == "avail"
TAKEN == "taken"

LIMIT_OK(limit, count) == limit = 0 \/ count < limit

NoProc == [serv |-> None, gen |-> 0, used |-> FALSE, avail |-> TAKEN]
NoProcess == [state |-> "none", serv |-> None, gen |-> 0, conn |-> FALSE,
              alone |-> FALSE, normal |-> TRUE]
NoServ == [on |-> FALSE, mark |-> FALSE, max_proc |-> 0, wakeup_time |-> FALSE, condwake |-> FALSE,
           stress |-> FALSE, listen |-> FALSE, throttled |-> FALSE,
           unthrottle_timer |-> FALSE, wakeup_timer |-> FALSE, avail_proc |-> 0,
           total_proc |-> 0, backlog |-> 0, status_fd |-> FALSE, pipe |-> <<>>,
           panic |-> FALSE]

Panic(v, cond) == [v EXCEPT !.panic = @ \/ cond]

Alive(p) == os[p].state \in {"lock", "select", "serve"}
Zombies == {p \in Pids : os[p].state = "zombie"}

-----------------------------------------------------------------------------
(* What the master_XXX modules do to one service record. *)

\* master_avail_listen: master watches the socket when no server does.
AvailListen(v) ==
    [v EXCEPT !.listen = ~v.throttled /\ v.avail_proc = 0
                         /\ LIMIT_OK(v.max_proc, v.total_proc)]

AvailMore(v, avail) ==
    AvailListen(Panic([v EXCEPT !.avail_proc = @ + 1], avail = AVAIL))

AvailLess(v, avail) ==
    AvailListen(Panic([v EXCEPT !.avail_proc = @ - 1], avail # AVAIL))

\* Mutant of Unthrottle: the listen socket is left alone.
Unthrottle_NoListen(v) ==
    IF v.throttled THEN [v EXCEPT !.throttled = FALSE, !.unthrottle_timer = FALSE] ELSE v

Unthrottle(v) ==
    IF v.throttled
    THEN AvailListen([v EXCEPT !.throttled = FALSE, !.unthrottle_timer = FALSE])
    ELSE v

Throttle(v) ==
    IF v.throttled THEN v
    ELSE AvailListen([v EXCEPT !.throttled = TRUE, !.unthrottle_timer = TRUE])

\* A client, or a trigger, connects to the listen socket.
Connect(v) == [v EXCEPT !.backlog = IF @ < MaxBacklog THEN @ + 1 ELSE @]

WakeupTimerEvent(v) ==
    IF ~v.wakeup_time THEN v
    ELSE [(IF v.throttled THEN v ELSE Connect(v)) EXCEPT !.wakeup_timer = TRUE]

WakeupInit(v) ==
    IF ~v.wakeup_time \/ v.condwake THEN v ELSE WakeupTimerEvent(v)

WakeupCleanup(v) == [v EXCEPT !.wakeup_timer = FALSE]

StatusInit(v) == Panic([v EXCEPT !.status_fd = TRUE, !.pipe = <<>>], v.status_fd)

\* Reports that master has not read are lost with the pipe.
StatusCleanup(v) == Panic([v EXCEPT !.status_fd = FALSE, !.pipe = <<>>], ~v.status_fd)

StartService(v) == WakeupInit(StatusInit(AvailListen(v)))

RestartService(v, conf_reload) ==
    LET w == WakeupInit(StatusInit(StatusCleanup(WakeupCleanup(v))))
    IN  IF conf_reload THEN AvailListen(w) ELSE w

\* The fields master_config takes from a master.cf entry.
Entry(v, c) == [v EXCEPT !.on = TRUE, !.max_proc = c.max_proc,
                         !.wakeup_time = c.wakeup_time,
                         !.condwake = c.condwake, !.stress = c.stress]

\* master_config: a service it has not seen is started, others restarted.
ConfigService(v, c) ==
    IF v.on THEN RestartService(Entry(v, c), TRUE)
    ELSE StartService(Entry(NoServ, c))

\* The processes of s no longer hold the peer of master's status pipe.
Disconnect(o, s) ==
    [p \in Pids |-> IF o[p].serv = s THEN [o[p] EXCEPT !.conn = FALSE] ELSE o[p]]

-----------------------------------------------------------------------------
(* master_delete_child, and what one turn of the waitpid() loop does. *)

\* Mutants of DeleteChild: an available child stays counted; the socket is
\* not looked at again.
DeleteChild_StaysAvail(v, avail) == AvailListen([v EXCEPT !.total_proc = @ - 1])
DeleteChild_NoListen(v, avail) ==
    LET w == [v EXCEPT !.total_proc = @ - 1]
    IN  IF avail = AVAIL THEN AvailLess(w, avail) ELSE w

DeleteChild(v, avail) ==
    LET w == [v EXCEPT !.total_proc = @ - 1]
    IN  IF avail = AVAIL THEN AvailLess(w, avail) ELSE AvailListen(w)

ReapStatus(v, proc, normal) ==
    DeleteChild(IF ~normal /\ ~proc.used THEN Throttle(v) ELSE v, proc.avail)

-----------------------------------------------------------------------------
(* master_spawn, after the sanity checks: fork() fails, or the child       *)
(* becomes process p and enters the child table.                           *)

SpawnChecks(v) ==
    Panic(v, ~LIMIT_OK(v.max_proc, v.total_proc) \/ v.avail_proc > 0 \/ v.throttled)

SpawnParent(v) ==
    LET w == AvailMore([v EXCEPT !.total_proc = @ + 1], TAKEN)
    IN  IF w.condwake THEN WakeupInit([w EXCEPT !.condwake = FALSE]) ELSE w

GensInUse ==
    {child[p].gen : p \in Pids} \cup {os[p].gen : p \in Pids}
        \cup UNION {{serv[s].pipe[i].gen : i \in DOMAIN serv[s].pipe} : s \in Services}

\* All servers of a stress-adaptive service are about to be busy, and have
\* not been so in the last 1000 seconds.
StressRestart(v, expired) ==
    v.stress /\ ~LIMIT_OK(v.max_proc, v.total_proc + 1) /\ expired

Spawn(v, s, o) ==
    \/ /\ faults < MaxFaults
       /\ faults' = faults + 1
       /\ serv' = [serv EXCEPT ![s] = Throttle(SpawnChecks(v))]
       /\ os' = o
       /\ UNCHANGED child
    \/ \E p \in Pids, g \in Gens :
         /\ o[p].state = "none"
         /\ g \notin GensInUse /\ \A h \in 1..(g - 1) : h \in GensInUse
         /\ child' = [child EXCEPT ![p] =
                        [serv |-> s, gen |-> g, used |-> FALSE, avail |-> AVAIL]]
         /\ os' = [o EXCEPT ![p] =
                     [NoProcess EXCEPT !.state = "lock", !.serv = s, !.gen = g,
                                       !.conn = TRUE, !.alone = v.max_proc = 1]]
         /\ serv' = [serv EXCEPT ![s] = SpawnParent(SpawnChecks(v))]
         /\ UNCHANGED faults

-----------------------------------------------------------------------------
(* The main loop. *)

Running == pc = "loop" /\ reading = None

\* event_loop: select() returns the enabled descriptors that are readable.
EventLoop ==
    LET readable == {<<"listen", s>> : s \in {x \in Services : serv[x].listen /\ serv[x].backlog > 0}}
                    \cup {<<"status", s>> : s \in {x \in Services : serv[x].pipe # <<>>}}
    IN  /\ Running /\ ready = {} /\ ~gotsighup /\ ~gotsigchld
        /\ readable # {}
        /\ ready' = readable
        /\ UNCHANGED <<serv, child, os, conf, gotsighup, gotsigchld, pc, reading,
                       stopping, reloads, faults>>

\* Mutant of AvailEvent: a handler that was disabled is called all the same.
AvailEvent_Stale(s) ==
    /\ Running /\ <<"listen", s>> \in ready
    /\ ready' = ready \ {<<"listen", s>>}
    /\ Spawn(serv[s], s, os)
    /\ UNCHANGED <<conf, gotsighup, gotsigchld, pc, reading, stopping, reloads>>

\* master_avail_event.  The event loop skips a descriptor that an earlier
\* handler disabled; it does not know that a server took the connection.
AvailEvent(s) ==
    /\ Running /\ <<"listen", s>> \in ready
    /\ ready' = ready \ {<<"listen", s>>}
    /\ IF serv[s].listen
       THEN \E expired \in BOOLEAN :
              IF StressRestart(serv[s], expired)
              THEN Spawn(RestartService(serv[s], FALSE), s, Disconnect(os, s))
              ELSE Spawn(serv[s], s, os)
       ELSE UNCHANGED <<serv, child, os, faults>>
    /\ UNCHANGED <<conf, gotsighup, gotsigchld, pc, reading, stopping, reloads>>

\* Mutant of StatusUpdate: the generation is not compared.
StatusUpdate_NoGen(s, r) ==
    LET v == [serv[s] EXCEPT !.pipe = Tail(@)]
    IN  IF child[r.pid].serv # s \/ child[r.pid].avail = r.avail
        THEN serv' = [serv EXCEPT ![s] = v] /\ UNCHANGED child
        ELSE /\ child' = [child EXCEPT ![r.pid].avail = r.avail]
             /\ serv' = [serv EXCEPT ![s] = IF r.avail = AVAIL
                                            THEN AvailMore(v, child[r.pid].avail)
                                            ELSE AvailLess(v, child[r.pid].avail)]

\* The part of master_status_event after the read: r is gossip.
StatusUpdate(s, r) ==
    LET v == [serv[s] EXCEPT !.pipe = Tail(@)]
        known == child[r.pid].serv # None /\ child[r.pid].gen = r.gen
    IN  IF known /\ child[r.pid].serv # s
        THEN serv' = [serv EXCEPT ![s] = Panic(v, TRUE)] /\ UNCHANGED child
        ELSE IF ~known \/ child[r.pid].avail = r.avail
        THEN serv' = [serv EXCEPT ![s] = v] /\ UNCHANGED child
        ELSE /\ child' = [child EXCEPT ![r.pid].avail = r.avail,
                                       ![r.pid].used = @ \/ r.avail = AVAIL]
             /\ serv' = [serv EXCEPT ![s] = IF r.avail = AVAIL
                                            THEN AvailMore(v, child[r.pid].avail)
                                            ELSE AvailLess(v, child[r.pid].avail)]

\* master_status_event.  The descriptor is in blocking mode: when it was
\* readable only before a restart replaced the pipe, the read waits.
StatusEvent(s) ==
    /\ Running /\ <<"status", s>> \in ready
    /\ ready' = ready \ {<<"status", s>>}
    /\ IF serv[s].pipe # <<>>
       THEN StatusUpdate(s, Head(serv[s].pipe)) /\ UNCHANGED reading
       ELSE reading' = s /\ UNCHANGED <<serv, child>>
    /\ UNCHANGED <<os, conf, gotsighup, gotsigchld, pc, stopping, reloads, faults>>

\* The blocked read returns.
StatusRead(s) ==
    /\ reading = s /\ serv[s].pipe # <<>>
    /\ reading' = None
    /\ StatusUpdate(s, Head(serv[s].pipe))
    /\ UNCHANGED <<os, conf, gotsighup, gotsigchld, pc, ready, stopping, reloads, faults>>

\* Timers go off in event_loop, before any descriptor is handled.
UnthrottleWrapper(s) ==
    /\ Running /\ ready = {} /\ serv[s].unthrottle_timer
    /\ serv' = [serv EXCEPT ![s] = Unthrottle([@ EXCEPT !.unthrottle_timer = FALSE])]
    /\ UNCHANGED <<child, os, conf, gotsighup, gotsigchld, pc, ready, reading,
                   stopping, reloads, faults>>

WakeupTimer(s) ==
    /\ Running /\ ready = {} /\ serv[s].wakeup_timer
    /\ serv' = [serv EXCEPT ![s] = WakeupTimerEvent([@ EXCEPT !.wakeup_timer = FALSE])]
    /\ UNCHANGED <<child, os, conf, gotsighup, gotsigchld, pc, ready, reading,
                   stopping, reloads, faults>>

\* "this first": the flag is cleared before master.cf is read.
TakeSighup ==
    /\ Running /\ ready = {} /\ gotsighup
    /\ gotsighup' = FALSE
    /\ pc' = "refresh"
    /\ UNCHANGED <<serv, child, os, conf, gotsigchld, ready, reading, stopping,
                   reloads, faults>>

\* master_refresh up to the loop that deletes services: master_config, and
\* the mark on what master.cf no longer mentions.
Refresh ==
    /\ pc = "refresh"
    /\ pc' = "sweep"
    /\ serv' = [s \in Services |->
                  IF conf[s] # NoConf THEN ConfigService(serv[s], conf[s])
                  ELSE [serv[s] EXCEPT !.mark = @ \/ serv[s].on]]
    /\ os' = [p \in Pids |->
                IF os[p].serv # None /\ conf[os[p].serv] # NoConf
                THEN [os[p] EXCEPT !.conn = FALSE] ELSE os[p]]
    /\ UNCHANGED <<child, conf, gotsighup, gotsigchld, ready, reading, stopping,
                   reloads, faults>>

\* master_stop_service up to the reaping: the service is throttled so that
\* the deaths it causes are not taken for bad startups.
StopService(s) ==
    /\ pc = "sweep" /\ serv[s].mark
    /\ pc' = IF serv[s].total_proc > 0 THEN "delete" ELSE "stopped"
    /\ stopping' = s
    /\ serv' = [serv EXCEPT ![s] = Throttle(StatusCleanup(WakeupCleanup(@)))]
    /\ os' = [p \in Pids |->
                IF child[p].serv = s /\ Alive(p)
                THEN [os[p] EXCEPT !.state = "zombie", !.normal = FALSE] ELSE os[p]]
    /\ gotsigchld' = (gotsigchld \/ os' # os)
    /\ UNCHANGED <<child, conf, gotsighup, ready, reading, reloads, faults>>

\* The rest of master_delete_children, master_avail_cleanup and
\* master_listen_cleanup; clients that still wait are disconnected.
StopDone(s) ==
    /\ stopping = s
    /\ \/ pc = "stopped"
       \/ pc = "delete" /\ serv[s].total_proc = 0 /\ Zombies = {}
    /\ pc' = "sweep"
    /\ stopping' = None
    /\ serv' = [serv EXCEPT ![s] = [NoServ EXCEPT !.panic = Unthrottle(serv[s]).panic]]
    /\ UNCHANGED <<child, os, conf, gotsighup, gotsigchld, ready, reading, reloads, faults>>

RefreshDone ==
    /\ pc = "sweep" /\ \A s \in Services : ~serv[s].mark
    /\ pc' = "loop"
    /\ UNCHANGED <<serv, child, os, conf, gotsighup, gotsigchld, ready, reading,
                   stopping, reloads, faults>>

TakeSigchld ==
    /\ Running /\ ready = {} /\ gotsigchld
    /\ gotsigchld' = FALSE
    /\ pc' = "reap"
    /\ UNCHANGED <<serv, child, os, conf, gotsighup, ready, reading, stopping,
                   reloads, faults>>

\* One turn of the waitpid() loop in master_reap_child.
ReapChild(p) ==
    /\ pc \in {"reap", "delete"} /\ os[p].state = "zombie"
    /\ os' = [os EXCEPT ![p] = NoProcess]
    /\ child' = [child EXCEPT ![p] = NoProc]
    /\ IF child[p].serv = None
       THEN serv' = [s \in Services |-> Panic(serv[s], TRUE)]
       ELSE serv' = [serv EXCEPT ![child[p].serv] =
                       ReapStatus(@, child[p], os[p].normal)]
    /\ UNCHANGED <<conf, gotsighup, gotsigchld, pc, ready, reading, stopping,
                   reloads, faults>>

\* Mutant of ReapDone: one waitpid() per signal, not a loop.
ReapDone_NoLoop ==
    /\ pc = "reap"
    /\ pc' = "loop"
    /\ UNCHANGED <<serv, child, os, conf, gotsighup, gotsigchld, ready, reading,
                   stopping, reloads, faults>>

ReapDone ==
    /\ pc = "reap" /\ Zombies = {}
    /\ pc' = "loop"
    /\ UNCHANGED <<serv, child, os, conf, gotsighup, gotsigchld, ready, reading,
                   stopping, reloads, faults>>

-----------------------------------------------------------------------------
(* A server process (single_server.c). *)

\* master_notify: a server that lost the pipe writes nothing.
Notify(p, avail) ==
    IF os[p].conn
    THEN Append(serv[os[p].serv].pipe, [pid |-> p, gen |-> os[p].gen, avail |-> avail])
    ELSE serv[os[p].serv].pipe

CanNotify(p) == os[p].conn => Len(serv[os[p].serv].pipe) < PipeSize

Exit(p, normal) == [os EXCEPT ![p].state = "zombie", ![p].normal = normal]

\* The select lock; a server with process limit 1 does not use one.
ServerLock(p) ==
    /\ os[p].state = "lock"
    /\ \/ os[p].alone
       \/ \A q \in Pids : ~(os[q].serv = os[p].serv /\ os[q].state = "select" /\ ~os[q].alone)
    /\ os' = [os EXCEPT ![p].state = "select"]
    /\ UNCHANGED <<serv, child, conf, gotsighup, gotsigchld, pc, ready, reading,
                   stopping, reloads, faults>>

\* single_server_accept_XXX and the first half of single_server_wakeup.
ServerAccept(p) ==
    /\ os[p].state = "select" /\ serv[os[p].serv].backlog > 0 /\ CanNotify(p)
    /\ os' = [os EXCEPT ![p].state = "serve"]
    /\ serv' = [serv EXCEPT ![os[p].serv].backlog = @ - 1,
                            ![os[p].serv].pipe = Notify(p, TAKEN)]
    /\ UNCHANGED <<child, conf, gotsighup, gotsigchld, pc, ready, reading,
                   stopping, reloads, faults>>

\* Mutant of ServerDone: a server goes on when its report cannot be sent.
ServerDone_Stays(p) ==
    /\ os[p].state = "serve" /\ CanNotify(p)
    /\ serv' = [serv EXCEPT ![os[p].serv].pipe = Notify(p, AVAIL)]
    /\ os' = [os EXCEPT ![p].state = "lock"]
    /\ UNCHANGED <<child, conf, gotsighup, gotsigchld, pc, ready, reading, stopping,
                   reloads, faults>>

\* The session ends.  A server exits when master disconnected from it, and
\* when this was its max_use'th session.
ServerDone(p) ==
    /\ os[p].state = "serve" /\ CanNotify(p)
    /\ serv' = [serv EXCEPT ![os[p].serv].pipe = Notify(p, AVAIL)]
    /\ \/ os' = Exit(p, TRUE) /\ gotsigchld' = TRUE
       \/ os[p].conn /\ os' = [os EXCEPT ![p].state = "lock"] /\ UNCHANGED gotsigchld
    /\ UNCHANGED <<child, conf, gotsighup, pc, ready, reading, stopping, reloads, faults>>

\* single_server_timeout (max_idle), and single_server_abort on a status
\* descriptor that became readable.
ServerTimeout(p) ==
    /\ os[p].state = "select"
    /\ os' = Exit(p, TRUE) /\ gotsigchld' = TRUE
    /\ UNCHANGED <<serv, child, conf, gotsighup, pc, ready, reading, stopping,
                   reloads, faults>>

ServerAbort(p) ==
    /\ os[p].state = "select" /\ ~os[p].conn
    /\ os' = Exit(p, TRUE) /\ gotsigchld' = TRUE
    /\ UNCHANGED <<serv, child, conf, gotsighup, pc, ready, reading, stopping,
                   reloads, faults>>

\* A server dies of a signal or of a fatal error.
ServerCrash(p) ==
    /\ Alive(p) /\ faults < MaxFaults
    /\ faults' = faults + 1
    /\ os' = Exit(p, FALSE) /\ gotsigchld' = TRUE
    /\ UNCHANGED <<serv, child, conf, gotsighup, pc, ready, reading, stopping, reloads>>

-----------------------------------------------------------------------------
(* The environment: clients, and the administrator who edits master.cf and *)
(* sends SIGHUP.                                                           *)

ClientConnect(s) ==
    /\ serv[s].on /\ serv[s].backlog < MaxBacklog
    /\ serv' = [serv EXCEPT ![s] = Connect(@)]
    /\ UNCHANGED <<child, os, conf, gotsighup, gotsigchld, pc, ready, reading,
                   stopping, reloads, faults>>

Reload(c) ==
    /\ reloads < MaxReloads
    /\ reloads' = reloads + 1
    /\ conf' = c
    /\ gotsighup' = TRUE
    /\ UNCHANGED <<serv, child, os, gotsigchld, pc, ready, reading, stopping, faults>>

Init ==
    /\ conf \in Configs
    /\ serv = [s \in Services |-> IF conf[s] # NoConf THEN ConfigService(NoServ, conf[s])
                                  ELSE NoServ]
    /\ child = [p \in Pids |-> NoProc]
    /\ os = [p \in Pids |-> NoProcess]
    /\ gotsighup = FALSE /\ gotsigchld = FALSE
    /\ pc = "loop" /\ ready = {} /\ reading = None /\ stopping = None
    /\ reloads = 0 /\ faults = 0

MasterNext ==
    \/ EventLoop \/ TakeSighup \/ Refresh \/ RefreshDone \/ TakeSigchld \/ ReapDone
    \/ \E s \in Services : \/ AvailEvent(s) \/ StatusEvent(s) \/ StatusRead(s)
                           \/ UnthrottleWrapper(s) \/ WakeupTimer(s)
                           \/ StopService(s) \/ StopDone(s)
    \/ \E p \in Pids : ReapChild(p)

ServerNext(p) ==
    \/ ServerLock(p) \/ ServerAccept(p) \/ ServerDone(p)
    \/ ServerTimeout(p) \/ ServerAbort(p) \/ ServerCrash(p)

Next ==
    \/ MasterNext
    \/ \E p \in Pids : ServerNext(p)
    \/ \E s \in Services : ClientConnect(s)
    \/ \E c \in Configs : Reload(c)

Spec == Init /\ [][Next]_vars

\* Each turn of the main loop runs the timers that are due, calls select()
\* and looks at both flags; a handler that was called returns; a session
\* ends, and an idle server leaves after max_idle.  Strong fairness: a server
\* that waits for the select lock gets it in the end, and max_idle is long
\* enough that not every server leaves while a connection waits.
Fairness ==
    /\ WF_vars(EventLoop) /\ WF_vars(TakeSighup) /\ WF_vars(TakeSigchld)
    /\ WF_vars(Refresh) /\ WF_vars(RefreshDone) /\ WF_vars(ReapDone)
    /\ \A s \in Services :
         /\ WF_vars(AvailEvent(s)) /\ WF_vars(StatusEvent(s)) /\ WF_vars(StatusRead(s))
         /\ WF_vars(UnthrottleWrapper(s))
         /\ WF_vars(StopService(s)) /\ WF_vars(StopDone(s))
         /\ SF_vars(\E p \in Pids : os[p].serv = s /\ ServerAccept(p))
    /\ \A p \in Pids :
         /\ WF_vars(ReapChild(p)) /\ SF_vars(ServerLock(p))
         /\ WF_vars(ServerDone(p)) /\ WF_vars(ServerTimeout(p))

FairSpec == Spec /\ Fairness

-----------------------------------------------------------------------------
(* Properties. *)

\* master's data structures and the process states have their types.
TypeOK ==
    /\ serv \in [Services ->
         [on : BOOLEAN, mark : BOOLEAN, max_proc : Nat, wakeup_time : BOOLEAN,
          condwake : BOOLEAN, stress : BOOLEAN, listen : BOOLEAN, throttled : BOOLEAN,
          unthrottle_timer : BOOLEAN, wakeup_timer : BOOLEAN, avail_proc : Nat,
          total_proc : Nat, backlog : Nat, status_fd : BOOLEAN,
          pipe : Seq([pid : Pids, gen : Gens, avail : {AVAIL, TAKEN}]), panic : BOOLEAN]]
    /\ child \in [Pids -> [serv : Services \cup {None}, gen : Gens \cup {0},
                           used : BOOLEAN, avail : {AVAIL, TAKEN}]]
    /\ os \in [Pids -> [state : {"none", "lock", "select", "serve", "zombie"},
                        serv : Services \cup {None}, gen : Gens \cup {0}, conn : BOOLEAN,
                        alone : BOOLEAN, normal : BOOLEAN]]
    /\ gotsighup \in BOOLEAN /\ gotsigchld \in BOOLEAN
    /\ pc \in {"loop", "refresh", "sweep", "delete", "stopped", "reap"}
    /\ ready \subseteq ({"listen", "status"} \X Services)
    /\ reading \in Services \cup {None} /\ stopping \in Services \cup {None}

\* The data structures are well formed and no sanity check of master fails: it never spawns for a service that is at
\* its limit, throttled or already has an idle server (master_spawn.c:155),
\* never counts one server twice (master_avail.c:222,246), never sees a pid
\* that it does not know (master_spawn.c:305), and never finds that a report
\* belongs to another service than the pipe it came on (master_status.c:119).
NoPanic == TypeOK /\ \A s \in Services : ~serv[s].panic

\* The two counters of a service say what the child table says, across
\* reports, deaths in any order, reloads and the removal of the service.
CountsMatch ==
    \A s \in Services :
      /\ serv[s].total_proc = Cardinality({p \in Pids : child[p].serv = s})
      /\ serv[s].avail_proc = Cardinality({p \in Pids : child[p].serv = s /\ child[p].avail = AVAIL})

\* master watches a listen socket exactly when it may and must start a server
\* for it: a call of master_avail_listen missing anywhere would leave the
\* socket unattended, or make master_spawn panic.  A service is throttled
\* exactly as long as the timer that ends it is armed.
ListenPolicy ==
    \A s \in Services :
      /\ serv[s].throttled <=> serv[s].unthrottle_timer
      /\ serv[s].on /\ stopping # s =>
           (serv[s].listen <=> /\ ~serv[s].throttled /\ serv[s].avail_proc = 0
                               /\ LIMIT_OK(serv[s].max_proc, serv[s].total_proc))

\* What master believes of a live server that holds its status pipe, brought
\* up to date with the reports still in the pipe, is the truth, also when
\* pids are reused and old reports are still unread.
ViewCorrect ==
    \A p \in Pids : Alive(p) /\ os[p].conn =>
      LET pipe == serv[os[p].serv].pipe
          own == {i \in DOMAIN pipe : pipe[i].pid = p /\ pipe[i].gen = os[p].gen}
          last == CHOOSE i \in own : \A j \in own : j <= i
      IN  /\ child[p].gen = os[p].gen /\ child[p].serv = os[p].serv
          /\ (IF own = {} THEN child[p].avail ELSE pipe[last].avail)
               = (IF os[p].state = "serve" THEN TAKEN ELSE AVAIL)

\* A signal that arrives while the main loop acts on an earlier one is not
\* lost: a dead child and a changed master.cf are still to be looked at.
SignalsKept ==
    /\ Zombies # {} => gotsigchld \/ pc \in {"reap", "delete"}
    /\ (\E s \in Services : serv[s].on # (conf[s] # NoConf))
         => gotsighup \/ pc # "loop"

\* Connections that wait are accepted, or the service is removed: after a
\* crash, a failed fork, a lost report or a reload, some server or master
\* itself comes to watch the socket (master_avail.c:138).
Served ==
    \A s \in Services : serv[s].backlog = MaxBacklog ~> serv[s].backlog < MaxBacklog

\* Servers of an older configuration go away (master_conf.c:133: "commit
\* suicide whenever it is convenient").
OldServersLeave ==
    \A p \in Pids : Alive(p) /\ ~os[p].conn ~> ~Alive(p)
=============================================================================
