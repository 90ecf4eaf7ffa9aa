------------------------------ MODULE MailQueue ------------------------------
(***************************************************************************)
(* The mail queue: the way of a message from its submission to its         *)
(* delivery, through the queue directories.                                *)
(*                                                                         *)
(* Local mail is written to the maildrop queue by postdrop(1), copied from *)
(* there by pickup(8) through a cleanup(8) process into the incoming queue *)
(* and removed from the maildrop.  Network mail comes in through a         *)
(* cleanup(8) process of its own.  The queue manager scans the incoming    *)
(* and the deferred queue, moves files to the active queue and hands them  *)
(* to delivery agents.  postsuper(1) moves and removes files behind        *)
(* everyone's back.  Processes die, signals arrive, writes fail, and the   *)
(* host goes down: what fsync() has not confirmed is then lost, torn or    *)
(* kept.                                                                   *)
(*                                                                         *)
(* A message has one recipient.  A queue file is an inode: its contents    *)
(* stay with it when it is renamed.  The queue manager's bookkeeping of a  *)
(* message is the subject of QmgrActive, of delivery requests that of      *)
(* QmgrDeliver; here an in-core message is a slot of the active queue.     *)
(***************************************************************************)
EXTENDS Integers, FiniteSets

CONSTANTS
    LocalMsgs,     \* messages given to postdrop
    RemoteMsgs,    \* messages received by an SMTP server
    Ids,           \* queue files (inodes, and the queue IDs made from them)
    Cleaners,      \* cleanup processes
    Slots,         \* room in the active queue (qmgr_message_active_limit)
    Pickup,        \* the pickup process, as a client of cleanup
    NoMsg, NoFile, NoClient,
    MaxFaults      \* bound on crashes, signals, I/O errors, postsuper commands

ASSUME MailQueueAssumption ==
    /\ Slots # {}
    /\ MaxFaults \in Nat
    /\ NoMsg \notin LocalMsgs \union RemoteMsgs
    /\ NoFile \notin Ids
    /\ Pickup \notin RemoteMsgs \union {NoClient}
    /\ NoClient \notin RemoteMsgs
    /\ LocalMsgs \intersect RemoteMsgs = {}

Msgs == LocalMsgs \union RemoteMsgs
ScanQueues == {"incoming", "deferred"}

VARIABLES
    file,       \* queue files: directory, state, contents, time stamp
    post,       \* postdrop processes, one per local message
    pick,       \* the pickup process
    remote,     \* SMTP servers, one per remote message
    clean,      \* cleanup processes
    qmgr,       \* the queue manager: running, scans, active queue
    orphans,    \* files, with their messages, that agents of an earlier queue
                \* manager still deliver
    trigger,    \* a wakeup request waits in the queue manager's socket
    acked,      \* messages the system took responsibility for
    sent,       \* how often each message was delivered (0, 1, more)
    gone,       \* messages returned to the sender, discarded or deleted
    faults      \* faults so far

vars == <<file, post, pick, remote, clean, qmgr, orphans, trigger, acked, sent,
          gone, faults>>

(***************************************************************************)
(* A queue file.  "st" is "open" while it is written (no execute bit),     *)
(* "ready" once fchmod() set the execute bit, "synced" once fsync()        *)
(* returned, "torn" when the host crashed in between and lost records.     *)
(* "todo": the recipient record is not marked as done.  "stamp": the       *)
(* modification time lies in the future, or did when a scan passed by.     *)
(***************************************************************************)
Dirs == {"none", "maildrop", "incoming", "active", "deferred", "hold", "corrupt"}
Empty == [dir |-> "none", st |-> "open", msg |-> NoMsg, todo |-> FALSE,
          stamp |-> "now"]
NewFile(d, m, t) == [dir |-> d, st |-> "open", msg |-> m, todo |-> t,
                     stamp |-> "now"]

\* mail_open_ok: a regular file with the execute bit.
OpenOk(f, d) == file[f].dir = d /\ file[f].st # "open"

\* Records are complete up to the END record.
Complete(f) == file[f].st \in {"ready", "synced"}

NoScan == [open |-> FALSE, left |-> {}, flags |-> {}, nflags |-> {}]
NoSlot == [f |-> NoFile, msg |-> NoMsg, st |-> "free"]
IdlePost == [st |-> "idle", f |-> NoFile]
IdlePick == [st |-> "idle", left |-> {}, f |-> NoFile, msg |-> NoMsg,
             todo |-> FALSE, full |-> TRUE, count |-> FALSE]
IdleClean == [st |-> "idle", client |-> NoClient, f |-> NoFile,
              dir |-> "incoming", bounce |-> FALSE, status |-> "ok"]
DownQmgr == [up |-> FALSE, first |-> "incoming",
             scan |-> [q \in ScanQueues |-> NoScan],
             slot |-> [s \in Slots |-> NoSlot]]

Init ==
    /\ file = [f \in Ids |-> Empty]
    /\ post = [m \in LocalMsgs |-> IdlePost]
    /\ pick = IdlePick
    /\ remote = [m \in RemoteMsgs |-> "idle"]
    /\ clean = [c \in Cleaners |-> IdleClean]
    /\ qmgr = DownQmgr
    /\ orphans = {}
    /\ trigger = FALSE
    /\ acked = {}
    /\ sent = [m \in Msgs |-> 0]
    /\ gone = {}
    /\ faults = 0

\* Something goes wrong, or the administrator intervenes.
Fault == faults < MaxFaults /\ faults' = faults + 1

\* Names that some process still has in its hands.
InUse ==
    {post[m].f : m \in LocalMsgs} \union {clean[c].f : c \in Cleaners}
    \union {qmgr.slot[s].f : s \in Slots} \union {o.f : o \in orphans} \union {pick.f}
    \union pick.left \union UNION {qmgr.scan[q].left : q \in ScanQueues}

\* mail_queue_enter: a name that is not in use, which one does not matter.
FreeIds == {f \in Ids : file[f].dir = "none"} \ InUse
NewId == CHOOSE f \in FreeIds : TRUE

\* REMOVE(path): nothing happens when the file is not there.
Remove(fs, f, d) == IF fs[f].dir = d THEN [fs EXCEPT ![f] = Empty] ELSE fs

\* mail_queue_rename: likewise.
Rename(fs, f, d, e) == IF fs[f].dir = d THEN [fs EXCEPT ![f].dir = e] ELSE fs

-----------------------------------------------------------------------------
(* postdrop(1)                                                               *)

PostVars == <<pick, remote, clean, qmgr, orphans, sent, gone>>

\* mail_stream_file, and the records from standard input.
PostdropOpen(m) ==
    /\ post[m].st = "idle"
    /\ FreeIds # {}
    /\ file' = [file EXCEPT ![NewId] = NewFile("maildrop", m, TRUE)]
    /\ post' = [post EXCEPT ![m] = [st |-> "open", f |-> NewId]]
    /\ UNCHANGED <<PostVars, trigger, acked, faults>>

\* No sender or no recipient: the file is closed as it is, and BAD reported.
PostdropBad(m) ==
    /\ post[m].st = "open"
    /\ post' = [post EXCEPT ![m] = [st |-> "failed", f |-> NoFile]]
    /\ UNCHANGED <<file, PostVars, trigger, acked, faults>>

\* mail_stream_finish_file: vstream_fflush() and fchmod().
PostdropChmod(m) ==
    /\ post[m].st = "open"
    /\ file' = [file EXCEPT ![post[m].f].st = "ready"]
    /\ post' = [post EXCEPT ![m].st = "chmod"]
    /\ UNCHANGED <<PostVars, trigger, acked, faults>>

\* Contents and mode of an inode reach the disk.
Synced(fs, f) == IF fs[f].st = "ready" THEN [fs EXCEPT ![f].st = "synced"] ELSE fs

\* mail_stream_finish_file: fsync(), close() and mail_trigger(); pickup may wake
\* up at any time.
PostdropSync(m) ==
    /\ post[m].st = "chmod"
    /\ file' = Synced(file, post[m].f)
    /\ post' = [post EXCEPT ![m].st = "synced"]
    /\ UNCHANGED <<PostVars, trigger, acked, faults>>

\* The file name is forgotten, then success is reported.
PostdropAck(m) ==
    /\ post[m].st = "synced"
    /\ acked' = acked \union {m}
    /\ post' = [post EXCEPT ![m] = [st |-> "acked", f |-> NoFile]]
    /\ UNCHANGED <<file, PostVars, trigger, faults>>

\* A signal, a fatal or I/O error, the end of the input before its end marker:
\* postdrop_sig().
PostdropRemove(m) ==
    /\ post[m].st \in {"open", "chmod", "synced"}
    /\ Fault
    /\ file' = Remove(file, post[m].f, "maildrop")
    /\ post' = [post EXCEPT ![m] = [st |-> "failed", f |-> NoFile]]
    /\ UNCHANGED <<PostVars, trigger, acked>>

\* The process is killed.
PostdropKilled(m) ==
    /\ post[m].st \in {"open", "chmod", "synced"}
    /\ Fault
    /\ post' = [post EXCEPT ![m] = [st |-> "failed", f |-> NoFile]]
    /\ UNCHANGED <<file, PostVars, trigger, acked>>

-----------------------------------------------------------------------------
(* pickup(8)                                                                 *)

PickVars == <<post, remote, qmgr, orphans, acked, sent, gone>>

MaildropFiles == {f \in Ids : file[f].dir = "maildrop"}

\* The cleanup processes that talk to a client: at most one.
CleanerOf(cl) == {c \in Cleaners : clean[c].client = cl}

\* A trigger from postdrop, or from master's wakeup timer at any time:
\* pickup_service().
PickupWake ==
    /\ pick.st = "idle"
    /\ pick' = [pick EXCEPT !.st = "scan", !.left = MaildropFiles]
    /\ UNCHANGED <<file, PickVars, clean, trigger, faults>>

\* Files that are still written, or gone, are skipped.
PickupSkip(f) ==
    /\ pick.st = "scan"
    /\ f \in pick.left
    /\ ~OpenOk(f, "maildrop")
    /\ pick' = [pick EXCEPT !.left = @ \ {f}]
    /\ UNCHANGED <<file, PickVars, clean, trigger, faults>>

\* pickup_file: the file is opened, and mail_connect_wait() waits for a cleanup
\* process.
PickupFile(f) ==
    /\ pick.st = "scan"
    /\ f \in pick.left
    /\ OpenOk(f, "maildrop")
    /\ pick' = [pick EXCEPT !.left = @ \ {f}, !.f = f, !.msg = file[f].msg,
                            !.todo = file[f].todo, !.full = Complete(f),
                            !.st = "connect"]
    /\ UNCHANGED <<file, PickVars, clean, trigger, faults>>

\* pickup_copy: all segments, and the END record.
PickupCopy(c) ==
    /\ pick.st = "copy"
    /\ pick.full
    /\ c \in CleanerOf(Pickup)
    /\ clean[c].st = "open"
    /\ file' = [file EXCEPT ![clean[c].f].msg = pick.msg,
                            ![clean[c].f].todo = pick.todo]
    /\ clean' = [clean EXCEPT ![c].st = "input"]
    /\ pick' = [pick EXCEPT !.st = "status"]
    /\ UNCHANGED <<PickVars, trigger, faults>>

\* file_read_error: the file ends before its END record.
PickupTorn(c) ==
    /\ pick.st = "copy"
    /\ ~pick.full
    /\ c \in CleanerOf(Pickup)
    /\ clean' = [clean EXCEPT ![c].st = "eof", ![c].client = NoClient]
    /\ pick' = [pick EXCEPT !.st = "remove"]
    /\ UNCHANGED <<file, PickVars, trigger, faults>>

\* cleanup_service_error_reason: what becomes of the maildrop file.
Disposition(status) ==
    IF status \in {"ok", "bad", "rcpt"} THEN "remove" ELSE "keep"

\* pickup_copy: the completion status.
PickupStatus(c) ==
    /\ pick.st = "status"
    /\ c \in CleanerOf(Pickup)
    /\ clean[c].st = "reply"
    /\ pick' = [pick EXCEPT !.st = Disposition(clean[c].status)]
    /\ clean' = [clean EXCEPT ![c] = IdleClean]
    /\ UNCHANGED <<file, PickVars, trigger, faults>>

\* The connection is lost: the file is kept.
PickupLost ==
    /\ pick.st \in {"copy", "status"}
    /\ CleanerOf(Pickup) = {}
    /\ pick' = [pick EXCEPT !.st = Disposition("write")]
    /\ UNCHANGED <<file, PickVars, clean, trigger, faults>>

\* Mutant of PickupRemove: the file stays.
PickupRemove_Keeps ==
    /\ pick.st \in {"remove", "keep"}
    /\ pick' = [IdlePick EXCEPT !.st = "scan", !.left = pick.left,
                                !.count = pick.count]
    /\ UNCHANGED <<file, PickVars, clean, trigger, faults>>

\* REMOVE(info.path), or not; then the next file.
PickupRemove ==
    /\ pick.st \in {"remove", "keep"}
    /\ file' = IF pick.st = "remove" THEN Remove(file, pick.f, "maildrop") ELSE file
    /\ pick' = [IdlePick EXCEPT !.st = "scan", !.left = pick.left,
                                !.count = pick.count \/ file' # file]
    /\ UNCHANGED <<PickVars, clean, trigger, faults>>

\* The end of the directory: scan again as long as files were removed.
PickupEnd ==
    /\ pick.st = "scan"
    /\ pick.left = {}
    /\ pick' = IF pick.count
               THEN [IdlePick EXCEPT !.st = "scan", !.left = MaildropFiles]
               ELSE IdlePick
    /\ UNCHANGED <<file, PickVars, clean, trigger, faults>>

\* A client goes away: a cleanup process that has not seen the END record gives
\* up, another one finishes what it has.
Abandoned(c) ==
    [clean[c] EXCEPT !.client = NoClient, !.st = IF @ = "open" THEN "eof" ELSE @]

\* pickup is killed.
PickupKilled ==
    /\ pick.st # "idle"
    /\ Fault
    /\ pick' = IdlePick
    /\ clean' = [c \in Cleaners |->
                    IF c \in CleanerOf(Pickup) THEN Abandoned(c) ELSE clean[c]]
    /\ UNCHANGED <<file, PickVars, trigger>>

-----------------------------------------------------------------------------
(* An SMTP server as a client of cleanup                                     *)

RemoteVars == <<post, pick, qmgr, orphans, trigger, sent, gone>>

\* The message up to its END record.
RemoteSend(m, c) ==
    /\ remote[m] = "copy"
    /\ c \in CleanerOf(m)
    /\ clean[c].st = "open"
    /\ file' = [file EXCEPT ![clean[c].f].msg = m, ![clean[c].f].todo = TRUE]
    /\ clean' = [clean EXCEPT ![c].st = "input"]
    /\ remote' = [remote EXCEPT ![m] = "status"]
    /\ UNCHANGED <<RemoteVars, acked, faults>>

\* mail_stream_finish_ipc: the completion status, and the reply made from it.
RemoteStatus(m, c) ==
    /\ remote[m] = "status"
    /\ c \in CleanerOf(m)
    /\ clean[c].st = "reply"
    /\ acked' = IF clean[c].status = "ok" THEN acked \union {m} ELSE acked
    /\ remote' = [remote EXCEPT ![m] = "done"]
    /\ clean' = [clean EXCEPT ![c] = IdleClean]
    /\ UNCHANGED <<file, RemoteVars, faults>>

\* No status: CLEANUP_STAT_WRITE.
RemoteLost(m) ==
    /\ remote[m] \in {"copy", "status"}
    /\ CleanerOf(m) = {}
    /\ remote' = [remote EXCEPT ![m] = "done"]
    /\ UNCHANGED <<file, RemoteVars, clean, acked, faults>>

\* The server dies, or its SMTP client goes away.
RemoteKilled(m) ==
    /\ remote[m] \in {"copy", "status"}
    /\ Fault
    /\ remote' = [remote EXCEPT ![m] = "done"]
    /\ clean' = [c \in Cleaners |->
                    IF c \in CleanerOf(m) THEN Abandoned(c) ELSE clean[c]]
    /\ UNCHANGED <<file, RemoteVars, acked>>

-----------------------------------------------------------------------------
(* cleanup(8)                                                                *)

CleanVars == <<post, qmgr, orphans, acked, sent>>

\* cleanup_open, cleanup_control: a queue file, and the client's options.  Mail
\* from pickup is to be returned by cleanup itself.
CleanupOpen(c) ==
    /\ clean[c].st = "idle"
    /\ FreeIds # {}
    /\ \/ /\ pick.st = "connect"
          /\ pick' = [pick EXCEPT !.st = "copy"]
          /\ clean' = [clean EXCEPT ![c] = [IdleClean EXCEPT !.st = "open",
                            !.client = Pickup, !.f = NewId, !.bounce = TRUE]]
          /\ UNCHANGED remote
       \/ \E m \in RemoteMsgs :
            /\ remote[m] = "idle"
            /\ remote' = [remote EXCEPT ![m] = "copy"]
            /\ clean' = [clean EXCEPT ![c] = [IdleClean EXCEPT !.st = "open",
                            !.client = m, !.f = NewId]]
            /\ UNCHANGED pick
    /\ file' = [file EXCEPT ![NewId] = NewFile("incoming", NoMsg, FALSE)]
    /\ UNCHANGED <<CleanVars, trigger, gone, faults>>

\* The status report: the queue file was given up.
GiveUp(c, status) ==
    /\ file' = Remove(file, clean[c].f, clean[c].dir)
    /\ clean' = [clean EXCEPT ![c].st = "reply", ![c].f = NoFile,
                              ![c].status = status]

\* cleanup_service: the input ends too early, CLEANUP_STAT_BAD.
CleanupEof(c) ==
    /\ clean[c].st = "eof"
    /\ GiveUp(c, "bad")
    /\ UNCHANGED <<CleanVars, pick, remote, trigger, gone, faults>>

\* cleanup_flush: no recipients, CLEANUP_STAT_RCPT.
CleanupNoRcpt(c) ==
    /\ clean[c].st = "input"
    /\ ~file[clean[c].f].todo
    /\ GiveUp(c, "rcpt")
    /\ UNCHANGED <<CleanVars, pick, remote, trigger, gone, faults>>

\* A DISCARD action in some table: success is reported.
CleanupDiscard(c) ==
    /\ clean[c].st = "input"
    /\ gone' = gone \union {file[clean[c].f].msg}
    /\ GiveUp(c, "ok")
    /\ UNCHANGED <<CleanVars, pick, remote, trigger, faults>>

\* The content is refused: cleanup_bounce() returns it to the sender if the
\* client asked for that, otherwise the client is told.
CleanupReject(c) ==
    /\ clean[c].st = "input"
    /\ file[clean[c].f].todo
    /\ \/ /\ clean[c].bounce
          /\ gone' = gone \union {file[clean[c].f].msg}
          /\ GiveUp(c, "ok")
          /\ UNCHANGED faults
       \/ clean[c].bounce /\ Fault /\ GiveUp(c, "write") /\ UNCHANGED gone
       \/ ~clean[c].bounce /\ GiveUp(c, "cont") /\ UNCHANGED <<gone, faults>>
    /\ UNCHANGED <<CleanVars, pick, remote, trigger>>

\* A write error, before or while the file is finished, with or without the
\* execute bit.
CleanupWriteError(c) ==
    /\ clean[c].st \in {"input", "finish", "chmod"}
    /\ Fault
    /\ GiveUp(c, "write")
    /\ UNCHANGED <<CleanVars, pick, remote, trigger, gone>>

\* All is well; on request the file moves to the hold queue before it is
\* finished: cleanup_flush(), mail_stream_ctl().
CleanupFlush(c) ==
    /\ clean[c].st = "input"
    /\ file[clean[c].f].todo
    /\ \E d \in {"incoming", "hold"} :
        /\ file' = Rename(file, clean[c].f, "incoming", d)
        /\ clean' = [clean EXCEPT ![c].st = "finish", ![c].dir = d]
    /\ UNCHANGED <<CleanVars, pick, remote, trigger, gone, faults>>

\* mail_stream_finish_file: vstream_fflush() and fchmod().
CleanupChmod(c) ==
    /\ clean[c].st = "finish"
    /\ file' = [file EXCEPT ![clean[c].f].st = "ready"]
    /\ clean' = [clean EXCEPT ![c].st = "chmod"]
    /\ UNCHANGED <<CleanVars, pick, remote, trigger, gone, faults>>

\* mail_stream_finish_file: fsync(), close(), and mail_trigger() unless the file
\* is on hold.
CleanupSync(c) ==
    /\ clean[c].st = "chmod"
    /\ file' = Synced(file, clean[c].f)
    /\ trigger' = (trigger \/ clean[c].dir = "incoming")
    /\ clean' = [clean EXCEPT ![c].st = "synced"]
    /\ UNCHANGED <<CleanVars, pick, remote, gone, faults>>

\* cleanup_flush: the file name is forgotten, then success is reported.
CleanupReply(c) ==
    /\ clean[c].st = "synced"
    /\ clean' = [clean EXCEPT ![c].st = "reply", ![c].f = NoFile]
    /\ UNCHANGED <<file, CleanVars, pick, remote, trigger, gone, faults>>

\* Nobody is there to read the status.
CleanupIgnored(c) ==
    /\ clean[c].st = "reply"
    /\ clean[c].client = NoClient
    /\ clean' = [clean EXCEPT ![c] = IdleClean]
    /\ UNCHANGED <<file, CleanVars, pick, remote, trigger, gone, faults>>

\* A fatal error or SIGTERM: cleanup_sig() removes the file.
CleanupSig(c) ==
    /\ clean[c].f # NoFile
    /\ Fault
    /\ file' = Remove(file, clean[c].f, clean[c].dir)
    /\ clean' = [clean EXCEPT ![c] = IdleClean]
    /\ UNCHANGED <<CleanVars, pick, remote, trigger, gone>>

\* The process is killed.
CleanupKilled(c) ==
    /\ clean[c].st # "idle"
    /\ Fault
    /\ clean' = [clean EXCEPT ![c] = IdleClean]
    /\ UNCHANGED <<file, CleanVars, pick, remote, trigger, gone>>

-----------------------------------------------------------------------------
(* Queue scans: qmgr_scan.c                                                  *)

QmgrVars == <<post, pick, remote, clean, acked>>

FilesIn(fs, q) == {f \in Ids : fs[f].dir = q}

\* qmgr_scan_start.
ScanStart(fs, q, s) ==
    [open |-> TRUE, left |-> FilesIn(fs, q), flags |-> s.nflags, nflags |-> {}]

\* Mutant of ScanRequest: a request during a scan is taken as served by it.
ScanRequest_Drop(fs, q, s, flags) ==
    IF s.open THEN [s EXCEPT !.flags = @ \union (flags \intersect {"all"})]
    ELSE IF "start" \in flags
         THEN ScanStart(fs, q, [s EXCEPT !.nflags = (@ \union flags) \ {"start"}])
         ELSE [s EXCEPT !.nflags = @ \union flags]

\* qmgr_scan_request.
ScanRequest(fs, q, s, flags) ==
    LET now == IF s.open
               THEN [s EXCEPT !.flags = @ \union (flags \intersect {"all"})] ELSE s
        req == [now EXCEPT !.nflags = @ \union flags]
    IN  IF ~s.open /\ "start" \in flags
        THEN ScanStart(fs, q, [req EXCEPT !.nflags = @ \ {"start"}])
        ELSE req

\* qmgr_scan_next: the possible outcomes, the scan and the next name.  A scan
\* that has come to its end is closed, and restarted if that was requested.
Names(s) ==
    IF s.left = {} THEN {<<s, NoFile>>}
    ELSE {<<[s EXCEPT !.left = @ \ {f}], f>> : f \in s.left}
ScanNext(fs, q, s) ==
    IF s.open /\ s.left # {} THEN Names(s)
    ELSE LET done == [s EXCEPT !.open = FALSE, !.flags = {}]
         IN  IF "start" \in s.nflags THEN Names(ScanStart(fs, q, done))
             ELSE {<<done, NoFile>>}

-----------------------------------------------------------------------------
(* The queue manager: qmgr.c, qmgr_active.c, qmgr_move.c                     *)

FreeSlots(qm) == {s \in Slots : qm.slot[s].st = "free"}

\* Files that a delivery agent has open and locked.
Locked(f) ==
    \/ \E s \in Slots : qmgr.slot[s].f = f /\ qmgr.slot[s].st = "busy"
    \/ \E o \in orphans : o.f = f

\* Mutant of QmgrStart: left-overs stay where they are.
QmgrStart_NoMove ==
    /\ ~qmgr.up
    /\ qmgr' = [qmgr EXCEPT !.up = TRUE,
                    !.scan = [q \in ScanQueues |->
                                ScanRequest(file, q, NoScan, {"start"})]]
    /\ UNCHANGED <<file, QmgrVars, orphans, trigger, sent, gone, faults>>

\* qmgr_post_init: left-overs go back to the incoming queue, and both scans
\* start.
QmgrStart ==
    /\ ~qmgr.up
    /\ file' = [f \in Ids |-> IF file[f].dir = "active"
                              THEN [file[f] EXCEPT !.dir = "incoming", !.stamp = "now"]
                              ELSE file[f]]
    /\ qmgr' = [qmgr EXCEPT !.up = TRUE,
                    !.scan = [q \in ScanQueues |->
                                ScanRequest(file', q, NoScan, {"start"})]]
    /\ UNCHANGED <<QmgrVars, orphans, trigger, sent, gone, faults>>

\* qmgr_trigger_event: new mail, or master's wakeup timer, which is slower than
\* a scan.
QmgrTrigger ==
    /\ qmgr.up
    /\ trigger \/ ~qmgr.scan["incoming"].open
    /\ trigger' = FALSE
    /\ qmgr' = [qmgr EXCEPT !.scan["incoming"] =
                    ScanRequest(file, "incoming", @, {"start"})]
    /\ UNCHANGED <<file, QmgrVars, orphans, sent, gone, faults>>

\* qmgr_trigger_event: "postqueue -f".
QmgrFlush ==
    /\ qmgr.up
    /\ Fault
    /\ qmgr' = [qmgr EXCEPT
            !.scan["incoming"] = ScanRequest(file, "incoming", @, {"all"}),
            !.scan["deferred"] = ScanRequest(file, "deferred", @, {"start", "all"})]
    /\ UNCHANGED <<file, QmgrVars, orphans, trigger, sent, gone>>

\* qmgr_deferred_run_event: likewise.
QmgrDeferredRun ==
    /\ qmgr.up
    /\ ~qmgr.scan["deferred"].open
    /\ qmgr' = [qmgr EXCEPT !.scan["deferred"] =
                    ScanRequest(file, "deferred", @, {"start"})]
    /\ UNCHANGED <<file, QmgrVars, orphans, trigger, sent, gone, faults>>

\* qmgr_active_feed: not in this queue any more, not ready, or to cool down.
Skipped(fs, qm, q, f) ==
    \/ fs[f].dir # q
    \/ fs[f].st = "open"
    \/ fs[f].stamp = "future" /\ "all" \notin qm.scan[q].flags

\* The file moves to the active queue.
Activate(fs, f) == [fs EXCEPT ![f].dir = "active", ![f].stamp = "now"]

\* Mutant of Postpone: the file stays in the active queue.
Postpone_Leave(fs, f) == [fs EXCEPT ![f].dir = "active", ![f].stamp = "future"]

\* qmgr_active_defer: a locked file goes to the incoming queue for later.
Postpone(fs, f) == [fs EXCEPT ![f].dir = "incoming", ![f].stamp = "future"]

\* qmgr_active_feed.  A damaged file goes to the corrupt queue, one without
\* recipients is done with at once.
Feed(fs, qm, q, f) ==
    LET result(x, y) == [fs |-> x, qm |-> qm, fed |-> y]
        s == CHOOSE x \in FreeSlots(qm) : TRUE
    IN  IF Skipped(fs, qm, q, f) THEN result(fs, FALSE)
        ELSE IF Locked(f) THEN result(Postpone(fs, f), FALSE)
        ELSE IF fs[f].st = "torn" THEN result([fs EXCEPT ![f].dir = "corrupt"], FALSE)
        ELSE IF ~fs[f].todo THEN result([fs EXCEPT ![f] = Empty], TRUE)
        ELSE [result(Activate(fs, f), TRUE) EXCEPT !.qm.slot[s] =
                [f |-> f, msg |-> fs[f].msg, st |-> "queued"]]

\* qmgr_loop: one turn of the loop over the scans.
LoopBody(fs, qm, q) ==
    {LET next == [qm EXCEPT !.scan[q] = o[1]]
     IN  IF o[2] = NoFile THEN [fs |-> fs, qm |-> next, fed |-> FALSE]
         ELSE Feed(fs, next, q, o[2]) : o \in ScanNext(fs, q, qm.scan[q])}

OtherQueue(q) == IF q = "incoming" THEN "deferred" ELSE "incoming"

\* Round-robin the scans; when the active queue is full, prefer new mail.
RoundRobin(qm, last) ==
    [qm EXCEPT !.first = IF FreeSlots(qm) # {} THEN OtherQueue(last) ELSE "incoming"]

\* qmgr_loop: import at most one message, from the scan whose turn it is, or from
\* the other one.
QmgrLoop ==
    /\ qmgr.up
    /\ FreeSlots(qmgr) # {}
    /\ \E q \in ScanQueues : qmgr.scan[q].open \/ "start" \in qmgr.scan[q].nflags
    /\ \E r \in LoopBody(file, qmgr, qmgr.first) :
        IF r.fed
        THEN file' = r.fs /\ qmgr' = RoundRobin(r.qm, qmgr.first)
        ELSE \E t \in LoopBody(r.fs, r.qm, OtherQueue(qmgr.first)) :
                file' = t.fs /\ qmgr' = RoundRobin(t.qm, OtherQueue(qmgr.first))
    /\ UNCHANGED <<QmgrVars, orphans, trigger, sent, gone, faults>>

\* A delivery agent gets the request: deliver_request_get() opens and locks the
\* file, or fails when it is not in the active queue any more.
AgentStart(s) ==
    /\ qmgr.slot[s].st = "queued"
    /\ qmgr' = [qmgr EXCEPT !.slot[s].st =
                    IF OpenOk(qmgr.slot[s].f, "active") THEN "busy" ELSE "defer"]
    /\ UNCHANGED <<file, QmgrVars, orphans, trigger, sent, gone, faults>>

\* What an agent does to a file it has open, and its report.
Delivery(f, m, report) ==
    \/ /\ sent' = [sent EXCEPT ![m] = IF @ < 2 THEN @ + 1 ELSE @]
       /\ file' = IF file[f].dir = "none" THEN file ELSE [file EXCEPT ![f].todo = FALSE]
       /\ report = "ok"
       /\ UNCHANGED <<gone, faults>>
    \/ /\ gone' = gone \union {m}
       /\ file' = IF file[f].dir = "none" THEN file ELSE [file EXCEPT ![f].todo = FALSE]
       /\ report = "ok"
       /\ UNCHANGED <<sent, faults>>
    \/ /\ report = "defer"
       /\ UNCHANGED <<file, sent, gone, faults>>
    \/ /\ Fault
       /\ sent' = [sent EXCEPT ![m] = IF @ < 2 THEN @ + 1 ELSE @]
       /\ report = "defer"
       /\ UNCHANGED <<file, gone>>

\* The message is delivered, returned, to be tried again, or delivered by an
\* agent that dies before it marks the recipient as done.
AgentFinish(s) ==
    /\ qmgr.slot[s].st = "busy"
    /\ \E report \in {"ok", "defer"} :
        /\ Delivery(qmgr.slot[s].f, qmgr.slot[s].msg, report)
        /\ qmgr' = [qmgr EXCEPT !.slot[s].st = report]
    /\ UNCHANGED <<QmgrVars, orphans, trigger>>

\* An agent that an earlier queue manager started.
OrphanFinish(o) ==
    /\ o \in orphans
    /\ \E report \in {"ok", "defer"} : Delivery(o.f, o.msg, report)
    /\ orphans' = orphans \ {o}
    /\ UNCHANGED <<qmgr, QmgrVars, trigger>>

\* Mutant of QmgrDone: a file that is not finished is removed too.
QmgrDone_Remove(s) ==
    /\ qmgr.slot[s].st \in {"ok", "defer"}
    /\ file' = Remove(file, qmgr.slot[s].f, "active")
    /\ qmgr' = [qmgr EXCEPT !.slot[s] = NoSlot]
    /\ UNCHANGED <<QmgrVars, orphans, trigger, sent, gone, faults>>

\* qmgr_active_done: remove the file, or move it to the deferred queue until a
\* later time; it may not be there any more.
QmgrDone(s) ==
    /\ qmgr.slot[s].st \in {"ok", "defer"}
    /\ LET f == qmgr.slot[s].f
       IN  file' = IF qmgr.slot[s].st = "ok" THEN Remove(file, f, "active")
                   ELSE IF OpenOk(f, "active")
                        THEN [file EXCEPT ![f].dir = "deferred", ![f].stamp = "future"]
                        ELSE file
    /\ qmgr' = [qmgr EXCEPT !.slot[s] = NoSlot]
    /\ UNCHANGED <<QmgrVars, orphans, trigger, sent, gone, faults>>

\* The queue manager dies, or exits because a table has changed.
QmgrExit ==
    /\ qmgr.up
    /\ Fault
    /\ orphans' = orphans \union
            {[f |-> qmgr.slot[s].f, msg |-> qmgr.slot[s].msg] :
                s \in {x \in Slots : qmgr.slot[x].st = "busy"}}
    /\ qmgr' = DownQmgr
    /\ UNCHANGED <<file, QmgrVars, trigger, sent, gone>>

-----------------------------------------------------------------------------
(* postsuper(1): commands on one queue file.  A command looks into one queue *)
(* after the other; it may lose the race with a file that moves, and then    *)
(* does nothing.                                                             *)

SuperVars == <<post, pick, remote, clean, qmgr, orphans, trigger, acked, sent>>

\* delete_one.
SuperDelete(f) ==
    /\ \E d \in {"maildrop", "incoming", "active", "deferred", "hold"} : OpenOk(f, d)
    /\ Fault
    /\ file' = [file EXCEPT ![f] = Empty]
    /\ gone' = gone \union ({file[f].msg} \ {NoMsg})
    /\ UNCHANGED SuperVars

\* requeue_one: pickup will copy the file again when it is woken up.
SuperRequeue(f) ==
    /\ \E d \in {"incoming", "active", "deferred", "hold"} : OpenOk(f, d)
    /\ Fault
    /\ file' = [file EXCEPT ![f].dir = "maildrop", ![f].stamp = "now"]
    /\ UNCHANGED <<SuperVars, gone>>

\* hold_one.
SuperHold(f) ==
    /\ \E d \in {"incoming", "active", "deferred"} : OpenOk(f, d)
    /\ Fault
    /\ file' = [file EXCEPT ![f].dir = "hold"]
    /\ UNCHANGED <<SuperVars, gone>>

\* release_one.
SuperRelease(f) ==
    /\ OpenOk(f, "hold")
    /\ Fault
    /\ file' = [file EXCEPT ![f].dir = "deferred"]
    /\ UNCHANGED <<SuperVars, gone>>

\* super, ACTION_PURGE: an old file without the execute bit.
SuperPurge(f) ==
    /\ file[f].dir \in {"maildrop", "incoming"}
    /\ file[f].st = "open"
    /\ f \notin {post[m].f : m \in LocalMsgs} \union {clean[c].f : c \in Cleaners}
    /\ file' = [file EXCEPT ![f] = Empty]
    /\ UNCHANGED <<SuperVars, gone, faults>>

-----------------------------------------------------------------------------
(* The environment                                                           *)

\* Time passes until the file may be tried again.
CoolDown(f) ==
    /\ file[f].stamp = "future"
    /\ file' = [file EXCEPT ![f].stamp = "late"]
    /\ UNCHANGED <<SuperVars, gone, faults>>

\* What is left of a file after a host crash.
AfterCrash(r, luck) ==
    IF r.st \in {"synced", "torn"} THEN r
    ELSE IF luck = "lost" THEN Empty
    ELSE IF r.st = "ready" THEN [r EXCEPT !.st = luck]
    ELSE r

\* The host crashes: processes, sockets and locks are gone.
HostCrash ==
    /\ Fault
    /\ \E luck \in [{f \in Ids : file[f].st \in {"open", "ready"} /\ file[f].dir # "none"}
                        -> {"lost", "torn", "synced"}] :
        file' = [f \in Ids |-> IF f \in DOMAIN luck THEN AfterCrash(file[f], luck[f])
                               ELSE file[f]]
    /\ post' = [m \in LocalMsgs |-> IF post[m].st \in {"open", "chmod", "synced"}
                                    THEN [st |-> "failed", f |-> NoFile] ELSE post[m]]
    /\ remote' = [m \in RemoteMsgs |-> IF remote[m] \in {"copy", "status"}
                                       THEN "done" ELSE remote[m]]
    /\ pick' = IdlePick
    /\ clean' = [c \in Cleaners |-> IdleClean]
    /\ qmgr' = DownQmgr
    /\ orphans' = {}
    /\ trigger' = FALSE
    /\ UNCHANGED <<acked, sent, gone>>

Postdrop(m) ==
    \/ PostdropOpen(m) \/ PostdropBad(m) \/ PostdropChmod(m) \/ PostdropSync(m)
    \/ PostdropAck(m) \/ PostdropRemove(m) \/ PostdropKilled(m)
PickupService ==
    \/ PickupWake \/ PickupLost \/ PickupRemove \/ PickupEnd \/ PickupKilled
    \/ \E f \in Ids : PickupSkip(f) \/ PickupFile(f)
    \/ \E c \in Cleaners : PickupCopy(c) \/ PickupTorn(c) \/ PickupStatus(c)
Remote(m) ==
    \/ \E c \in Cleaners : RemoteSend(m, c) \/ RemoteStatus(m, c)
    \/ RemoteLost(m) \/ RemoteKilled(m)
Cleanup(c) ==
    \/ CleanupOpen(c) \/ CleanupEof(c) \/ CleanupNoRcpt(c) \/ CleanupDiscard(c) \/ CleanupReject(c)
    \/ CleanupWriteError(c) \/ CleanupFlush(c) \/ CleanupChmod(c) \/ CleanupSync(c)
    \/ CleanupReply(c) \/ CleanupIgnored(c) \/ CleanupSig(c) \/ CleanupKilled(c)
QueueManager ==
    \/ QmgrStart \/ QmgrTrigger \/ QmgrFlush \/ QmgrDeferredRun \/ QmgrLoop \/ QmgrExit
    \/ \E s \in Slots : AgentStart(s) \/ AgentFinish(s) \/ QmgrDone(s)
    \/ \E o \in orphans : OrphanFinish(o)
Postsuper(f) ==
    SuperDelete(f) \/ SuperRequeue(f) \/ SuperHold(f) \/ SuperRelease(f) \/ SuperPurge(f)

Next ==
    \/ \E m \in LocalMsgs : Postdrop(m)
    \/ PickupService
    \/ \E m \in RemoteMsgs : Remote(m)
    \/ \E c \in Cleaners : Cleanup(c)
    \/ QueueManager
    \/ \E f \in Ids : Postsuper(f) \/ CoolDown(f)
    \/ HostCrash

Spec == Init /\ [][Next]_vars

(***************************************************************************)
(* Fairness.  A process that runs takes its next step, master starts the   *)
(* queue manager again and wakes up the services, time passes, and an      *)
(* agent that is tried again and again has something final to report: the  *)
(* recipient's server comes back, or the message gets too old and is       *)
(* returned.  Nothing is assumed of postsuper, of faults, or of postdrop   *)
(* before it reports success.                                              *)
(***************************************************************************)
Final(s) == AgentFinish(s) /\ qmgr'.slot[s].st = "ok"
Running ==
    \/ PickupWake \/ PickupLost \/ PickupRemove \/ PickupEnd
    \/ \E f \in Ids : PickupSkip(f) \/ PickupFile(f)
    \/ \E c \in Cleaners : PickupCopy(c) \/ PickupTorn(c) \/ PickupStatus(c)
Serving(c) ==
    \/ CleanupOpen(c) \/ CleanupEof(c) \/ CleanupNoRcpt(c) \/ CleanupFlush(c) \/ CleanupChmod(c)
    \/ CleanupSync(c) \/ CleanupReply(c) \/ CleanupIgnored(c)
Fairness ==
    /\ WF_vars(Running)
    /\ \A c \in Cleaners : WF_vars(Serving(c))
    /\ WF_vars(QmgrStart) /\ WF_vars(QmgrTrigger) /\ WF_vars(QmgrDeferredRun)
    /\ WF_vars(QmgrLoop)
    /\ \A s \in Slots : WF_vars(AgentStart(s)) /\ WF_vars(QmgrDone(s))
    /\ \A s \in Slots : WF_vars(AgentFinish(s)) /\ SF_vars(Final(s))
    /\ WF_vars(\E o \in orphans : OrphanFinish(o))
    /\ \A f \in Ids : WF_vars(CoolDown(f))

FairSpec == Spec /\ Fairness

-----------------------------------------------------------------------------
(* Properties                                                                *)

\* Every variable has its type.
TypeOK ==
    /\ file \in [Ids -> [dir : Dirs, st : {"open", "ready", "synced", "torn"},
                         msg : Msgs \union {NoMsg}, todo : BOOLEAN,
                         stamp : {"now", "future", "late"}]]
    /\ \A m \in LocalMsgs : post[m].f \in Ids \union {NoFile}
    /\ pick.left \subseteq Ids
    /\ \A q \in ScanQueues : qmgr.scan[q].left \subseteq Ids
    /\ \A s \in Slots : qmgr.slot[s].st \in {"free", "queued", "busy", "ok", "defer"}
    /\ trigger \in BOOLEAN
    /\ acked \subseteq Msgs /\ gone \subseteq Msgs
    /\ sent \in [Msgs -> 0..2]
    /\ faults \in 0..MaxFaults

\* The message was delivered, returned to the sender, or disposed of on request.
Accounted(m) == sent[m] > 0 \/ m \in gone

\* No mail is lost: once postdrop reported success, or cleanup did so to an SMTP
\* server, the message is accounted for, or a complete queue file with its
\* recipient is on stable storage in a queue somebody looks at, whatever process
\* dies, whatever write fails, wherever postsuper moves the file, and when the
\* host goes down.
NoMailLost ==
    \A m \in acked :
        \/ Accounted(m)
        \/ \E f \in Ids :
            /\ file[f].dir \in {"maildrop", "incoming", "active", "deferred", "hold"}
            /\ file[f].msg = m
            /\ file[f].st = "synced"
            /\ file[f].todo

\* As long as nothing fails and nobody runs postsuper, a message is delivered
\* once: pickup does not copy a file twice, and the queue manager does not feed a
\* file that is in its active queue.
AtMostOnce == faults = 0 => \A m \in Msgs : sent[m] <= 1

\* The queue manager knows every file in the active queue, or is about to move
\* it back when it starts: nobody else looks there.
ActiveOwned ==
    /\ TypeOK
    /\ qmgr.up => \A f \in Ids : file[f].dir = "active" =>
                     \E s \in Slots : qmgr.slot[s].f = f

\* New mail is noticed: a finished file in the incoming queue is ahead of the scan
\* in progress, or another scan is requested, or the request waits in the socket.
\* In particular a file that arrives behind the scan is not forgotten.
NewMailNoticed ==
    qmgr.up => \A f \in Ids :
        (file[f].dir = "incoming" /\ file[f].st = "synced" /\ file[f].stamp = "now") =>
            \/ f \in qmgr.scan["incoming"].left
            \/ "start" \in qmgr.scan["incoming"].nflags
            \/ trigger

\* Mail gets out: a message the system took responsibility for is eventually
\* accounted for, unless it is put on hold; the scans, the wakeups and the time
\* stamps do not leave it behind in any queue.
MailGetsOut ==
    \A m \in Msgs : m \in acked ~>
        (Accounted(m) \/ \E f \in Ids : file[f].msg = m /\ file[f].dir = "hold")

=============================================================================
