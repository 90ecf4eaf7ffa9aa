---------------------------- MODULE SmtpClient ----------------------------
(***************************************************************************)
(* One smtp(8) (or lmtp(8)) delivery agent, the delivery requests it        *)
(* handles one after the other, the scache(8) connection cache, and the    *)
(* remote servers.  The client is sequential: the concurrency is between    *)
(* the client's sender and receiver loops, the two TCP directions, and the  *)
(* server.                                                                  *)
(*                                                                          *)
(*   st    SMTP_STATE: the request, its recipients with their KEEP/DROP     *)
(*         marks, the position in the list of next hops and addresses, and  *)
(*         the current SMTP_SESSION                                         *)
(*   lp    the local variables of smtp_loop()                               *)
(*   conn  the connection of the current session: the VSTREAM output        *)
(*         buffer, the bytes in flight in both directions, the server       *)
(*   cache the endpoint->session and destination->endpoint bindings         *)
(*   copies, unsure, hard  what the servers really did (history)            *)
(*                                                                          *)
(* A command or reply is a record [cmd, rcpt]; a reply has the class of its *)
(* code.  A reply is tagged with the command that it answers, which the     *)
(* client cannot see: the client pairs replies with commands by counting.   *)
(***************************************************************************)
EXTENDS Integers, Sequences, FiniteSets, SequencesExt

CONSTANTS
    Rcpts,          \* the recipients of a request, in order: a sequence
    Self,           \* the addresses this mail system listens on
    Configs,        \* the configurations to consider, see below
    PipeSize,       \* PIPELINING_BUFSIZE, in commands
    SndBuf, RcvBuf, \* what TCP holds: commands to, and replies from the server
    MaxRequests,    \* bound of the model
    NoAddr, NoSession, NoConn

\* What the code counts on: the socket send buffer holds what the client
\* sends between two synchronization points (smtp_helo() sets it so).
ASSUME BufferAssumption ==
    /\ PipeSize \in Nat \ {0} /\ SndBuf \in Nat /\ RcvBuf \in Nat \ {0}
    /\ SndBuf >= PipeSize

VARIABLES cf, st, lp, conn, cache, copies, unsure, hard, panic, nreq, faults

vars == <<cf, st, lp, conn, cache, copies, unsure, hard, panic, nreq, faults>>
hist == <<cf, copies, unsure, hard>>

RcptSet == ToSet(Rcpts)

-----------------------------------------------------------------------------
(* The configuration, and what the environment of one run may do: main.cf   *)
(* parameters, the requests, the lookup results and cache contents, what    *)
(* servers announce, and the number of faults.                              *)

MxSess == cf.mxSess             \* smtp_mx_session_limit (0: none)
MxAddr == cf.mxAddr             \* smtp_mx_address_limit (0: none)
Lmtp == cf.lmtp                 \* lmtp(8) rather than smtp(8)
SoftBounce == cf.softBounce     \* soft_bounce
Relayhost == cf.relayhost       \* the next hop is the configured relayhost
BestMx == cf.bestMx             \* best_mx_transport is set
SkipQuitResp == cf.skipQuit     \* smtp_skip_quit_response
OldMessage == cf.old            \* old enough for a plaintext retry
Starttls == cf.starttls         \* outcomes of opportunistic TLS handshakes
Pipelining == cf.pipelining     \* what servers announce: subset of BOOLEAN
Xforward == cf.xforward         \* XFORWARD commands: subset of {"name", "proto"}
Traces == cf.traces             \* kinds of request: {"mail", "rcpt", "data"}
CacheFlags == cf.cacheFlags     \* caching for a request: [load, store] records
ReuseLimit == cf.reuseLimit     \* limit on the number of reuses (0: none)
Destinations == cf.dests        \* per request, the lookup of each next hop
MaxFaults == cf.maxFaults       \* bound of the model

-----------------------------------------------------------------------------
(* The protocol states of smtp_loop(), in the order the code relies on.     *)

XFORWARD_NAME_ADDR == 0
XFORWARD_PROTO_HELO == 1
MAIL == 2
RCPT == 3
DATA == 4
DOT == 5
ABORT == 6
RSET == 7
QUIT == 8
LAST == 9

Command == <<"XFORWARD", "XFORWARD", "MAIL", "RCPT", "DATA", ".", "RSET",
             "RSET", "QUIT">>

-----------------------------------------------------------------------------
(* Sessions: what is left of SMTP_SESSION.  expire is "yes" for a time in   *)
(* the future, "no" for zero, "throttled" for the negative value.           *)

NewSession(a, store) ==
    [addr |-> a, expire |-> IF store THEN "yes" ELSE "no", forbidden |-> FALSE,
     fromCache |-> FALSE, tls |-> FALSE, retryPlain |-> FALSE,
     rsetRejected |-> FALSE, pipelining |-> FALSE, reuse |-> 0]

\* THIS_SESSION_IS_CACHED, THIS_SESSION_IS_EXPIRED (late: the cache time
\* ran out), THIS_SESSION_IS_THROTTLED.
IsCached(ss) == ~ss.forbidden /\ ss.expire = "yes"

IsExpired(ss, late) ==
    IsCached(ss) /\ (late \/ (ReuseLimit > 0 /\ ss.reuse >= ReuseLimit))

IsThrottled(ss) == ~ss.forbidden /\ ss.expire = "throttled"

DontCache(s) == [s EXCEPT !.session.expire = "no"]

\* What the sender does about an expired session before it chooses between
\* QUIT and the cache.
Freeze(s, late) == IF IsExpired(s.session, late) THEN DontCache(s) ELSE s

AfterLastCommand(s) == IF IsCached(s.session) THEN LAST ELSE QUIT

-----------------------------------------------------------------------------
(* Recipients: smtp_rcpt.c and smtp_trouble.c.                              *)

Left(s) == Len(s.rcpt)

Unmarked(s) == {i \in 1 .. Left(s) : s.rcpt[i].mark = "none"}

Mark(s, I, m) ==
    [s EXCEPT !.rcpt = [i \in DOMAIN @ |->
                          IF i \in I THEN [@[i] EXCEPT !.mark = m] ELSE @[i]]]

\* SMTP_RCPT_KEEP
Keep(s, I) == [Mark(s, I, "keep") EXCEPT !.keep = @ + Cardinality(I)]

\* A verdict (sent, bounced, deferred) for some recipients, SMTP_RCPT_DROP.
Drop(s, I, verdict) ==
    [Mark(s, I, "drop") EXCEPT
        !.drop = @ + Cardinality(I),
        !.final = [r \in RcptSet |->
                     IF \E i \in I : s.rcpt[i].id = r
                     THEN @[r] \cup {verdict} ELSE @[r]],
        !.status = @ \/ (verdict = "deferred" /\ I # {})]

\* smtp_rcpt_done
RcptDone(s, I) == Drop(s, I, "sent")

Verdict(why) == IF why = "soft" \/ SoftBounce THEN "deferred" ELSE "bounced"

\* The choice between skipping a server and giving up on the recipients.
FailSome(s, I) ==
    IF (s.why = "soft" \/ SoftBounce) /\ ~s.finalServer
    THEN Keep(s, I)
    ELSE Drop(s, I, Verdict(s.why))

\* Mutant of BulkFail: a soft error always leaves the recipients for another
\* server, also when there is none.
BulkFail_AlwaysKeep(s, throttle) ==
    LET f == IF s.why = "soft" THEN Keep(s, Unmarked(s))
                               ELSE FailSome(s, Unmarked(s))
    IN  IF throttle /\ f.session # NoSession
        THEN [f EXCEPT !.session.expire = "throttled"] ELSE f

\* smtp_bulk_fail with the reason in s.why
BulkFail(s, throttle) ==
    LET f == FailSome(s, Unmarked(s))
        deferred == f.drop > s.drop /\ Verdict(s.why) = "deferred"
        g == [f EXCEPT !.hopDead = @ \/ (~s.complete /\ throttle /\ deferred)]
    IN  IF throttle /\ g.session # NoSession
        THEN [g EXCEPT !.session.expire = "throttled"] ELSE g

MesgFail(s, why) == BulkFail([s EXCEPT !.why = why], FALSE)
SiteFail(s, why) == BulkFail([s EXCEPT !.why = why], TRUE)

\* Mutant of RcptFail: the reply is taken for all recipients that have none.
RcptFail_All(s, i, why) == FailSome([s EXCEPT !.why = why], Unmarked(s))

\* smtp_rcpt_fail
RcptFail(s, i, why) == FailSome([s EXCEPT !.why = why], {i})

\* RETRY_AS_PLAINTEXT
RetryAsPlaintext(s) ==
    [s EXCEPT !.session.retryPlain = TRUE, !.finalServer = FALSE]

\* smtp_stream_except; PLAINTEXT_FALLBACK_OK_AFTER_TLS_SESSION_FAILURE
StreamExcept(s, err) ==
    LET again == /\ err \in {"EOF", "TIME"}
                 /\ s.session.tls /\ s.tlsMay /\ OldMessage
                 /\ Left(s) > s.drop + s.keep
    IN  SiteFail(IF again THEN RetryAsPlaintext(s) ELSE s, "soft")

\* Mutant of RcptCleanup: the marks are cleared before the list is weeded.
RcptCleanup_KeepsAll(s) ==
    [s EXCEPT !.rcpt = [i \in DOMAIN @ |-> [@[i] EXCEPT !.mark = "none"]],
              !.keep = 0, !.drop = 0]

\* smtp_rcpt_cleanup: weed out the recipients that are done (the order of
\* the others does not matter), unmark the rest.
RcptCleanup(s) ==
    LET kept == SelectSeq(s.rcpt, LAMBDA r : r.mark = "keep")
    IN  [s EXCEPT !.rcpt = [i \in DOMAIN kept |-> [kept[i] EXCEPT !.mark = "none"]],
                  !.keep = 0, !.drop = 0]

\* Its sanity check, a msg_panic().
MarksBad(s) == s.drop + s.keep # Left(s)

-----------------------------------------------------------------------------
(* Address lists: smtp_addr.c.  A lookup is the outcome of the DNS queries  *)
(* for one next hop: mx (query for MX records first), dns ("ok" or why it   *)
(* failed), resid (the reason that a failed address lookup of one of several *)
(* mail exchangers leaves behind), best (the preference of the best MX       *)
(* name), addrs (the addresses found, in order of preference).               *)

\* smtp_balance_inet_proto: how many IPv6 addresses to keep when both
\* families together exceed the limit, and which.
Targets(list) ==
    LET n(f) == Cardinality({i \in DOMAIN list : list[i].v6 = f})
        half == MxAddr \div 2
        v6 == IF n(TRUE) <= half THEN n(TRUE)
              ELSE IF n(FALSE) <= half THEN MxAddr - n(FALSE)
              ELSE MxAddr - (MxAddr + (IF list[1].v6 THEN 0 ELSE 1)) \div 2
    IN  [f \in BOOLEAN |-> IF f THEN v6 ELSE MxAddr - v6]

BalanceInetProto(list) ==
    LET both == {list[i].v6 : i \in DOMAIN list} = BOOLEAN
        nth(i) == Cardinality({j \in 1 .. i : list[j].v6 = list[i].v6})
        keep == {i \in DOMAIN list : nth(i) <= Targets(list)[list[i].v6]}
    IN  IF MxAddr > 0 /\ both /\ Len(list) > MxAddr
        THEN [k \in 1 .. Cardinality(keep) |->
                list[CHOOSE i \in keep :
                        Cardinality({j \in keep : j <= i}) = k]]
        ELSE list

\* smtp_find_self and smtp_truncate_self: only servers that are preferred
\* over this mail system itself.
TruncateSelf(list) ==
    LET mine == {list[i].pref : i \in {j \in DOMAIN list : list[j].addr \in Self}}
    IN  IF mine = {} THEN list
        ELSE SelectSeq(list, LAMBDA a : \A p \in mine : a.pref < p)

\* smtp_domain_addr
DomainAddr(q) ==
    LET list == TruncateSelf(q.addrs)
        mine == list # q.addrs
    IN  IF q.dns # "ok" THEN [list |-> <<>>, why |-> q.dns, mine |-> FALSE]
        ELSE IF q.addrs = <<>> THEN [list |-> <<>>, why |-> "soft", mine |-> FALSE]
        ELSE IF list = <<>>
             THEN [list |-> <<>>, mine |-> TRUE,
                   why |-> IF q.best # q.addrs[1].pref THEN "soft" ELSE "loop"]
        ELSE [list |-> BalanceInetProto(list), why |-> q.resid, mine |-> mine]

\* smtp_host_addr
HostAddr(q) ==
    IF q.dns # "ok" THEN [list |-> <<>>, why |-> q.dns, mine |-> FALSE]
    ELSE IF TruncateSelf(q.addrs) # q.addrs
         THEN [list |-> <<>>, why |-> "loop", mine |-> FALSE]
    ELSE [list |-> BalanceInetProto(q.addrs), why |-> "none", mine |-> FALSE]

Lookup(q) == IF q.mx THEN DomainAddr(q) ELSE HostAddr(q)

-----------------------------------------------------------------------------
(* The connection cache: scache_multi.c behind scache(8).                   *)

\* scache_multi_save_dest: a binding that exists is refreshed.
SaveDest(dest, a) == IF Contains(dest, a) THEN dest ELSE Append(dest, a)

\* scache_multi_save_endp: an endpoint may have several sessions.
SaveEndp(endp, ss, k) == Append(endp, [session |-> ss, conn |-> k])

\* smtp_save_session, with smtp_session_passivate.
SaveSession(c, s, k) ==
    [dest |-> IF s.requestNexthop THEN SaveDest(c.dest, s.session.addr) ELSE c.dest,
     endp |-> SaveEndp(c.endp, s.session, k)]

\* scache_multi_find_endp: the first session of an endpoint, which leaves the
\* cache.  0 when there is none.
FindEndp(c, a) == SelectInSeq(c.endp, LAMBDA e : e.session.addr = a)

\* scache_multi_find_dest: the first binding of the destination whose
\* endpoint has a session.
FindDest(c) ==
    LET d == SelectInSeq(c.dest, LAMBDA a : FindEndp(c, a) # 0)
    IN  IF d = 0 THEN 0 ELSE FindEndp(c, c.dest[d])

Uncache(c, i) == [c EXCEPT !.endp = RemoveAt(@, i)]

\* smtp_session_activate
Activate(ss) == [ss EXCEPT !.fromCache = TRUE, !.reuse = @ + 1,
                           !.rsetRejected = FALSE]

\* smtp_scrub_addr_list: without the servers whose cached session was used.
ScrubAddrList(list, used) == SelectSeq(list, LAMBDA a : a.addr \notin used)

\* smtp_update_addr_list
UpdateAddrList(list, a, count) ==
    IF count \in {MxSess, MxAddr} THEN <<>>
    ELSE LET i == SelectInSeq(list, LAMBDA x : x.addr = a)
         IN  IF i = 0 THEN list ELSE RemoveAt(list, i)

-----------------------------------------------------------------------------
(* The client outside smtp_loop(): smtp.c, smtp_connect.c, smtp_reuse.c.    *)

NoLoop == [mode |-> "none", send |-> LAST, recv |-> LAST, next |-> LAST,
           nextRcpt |-> 0, sendRcpt |-> 0, recvRcpt |-> 0, nrcpt |-> 0,
           rejected |-> FALSE, recvDone |-> 0, survivors |-> <<>>, lost |-> FALSE]

\* The start of smtp_loop()
StartLoop(state) == [NoLoop EXCEPT !.mode = "build", !.send = state,
                                   !.recv = state, !.next = state]

IdleServer == [mail |-> FALSE, rcpts |-> <<>>, data |-> FALSE]

NewConn == [up |-> TRUE, out |-> <<>>, tcp |-> <<>>, replies |-> <<>>,
            server |-> IdleServer]

\* smtp_state_alloc and deliver_request_read
NewState(sites, trace, want) ==
    [pc |-> "site", stage |-> "addrs", sites |-> sites, nth |-> 1,
     list |-> <<>>, best |-> 0, cur |-> NoAddr, next |-> <<>>,
     naddr |-> 0, nsess |-> 0, finalNexthop |-> FALSE, finalServer |-> FALSE,
     complete |-> FALSE, hopDead |-> FALSE, why |-> "none", want |-> want,
     load |-> FALSE, store |-> FALSE, requestNexthop |-> FALSE, used |-> {},
     plain |-> FALSE, tlsMay |-> FALSE, trace |-> trace,
     rcpt |-> [i \in DOMAIN Rcpts |-> [id |-> Rcpts[i], mark |-> "none"]],
     keep |-> 0, drop |-> 0, final |-> [r \in RcptSet |-> {}],
     status |-> FALSE, session |-> NoSession]

IdleState == [NewState(<<>>, "mail", [load |-> FALSE, store |-> FALSE])
                EXCEPT !.pc = "idle", !.rcpt = <<>>]

\* A session that an earlier delivery left in the cache.
OldSession(x) == [session |-> [NewSession(x, TRUE) EXCEPT !.pipelining = TRUE],
                  conn |-> NewConn]

Init ==
    /\ cf \in Configs
    /\ st = IdleState
    /\ lp = NoLoop
    /\ conn = NoConn
    /\ cache = [dest |-> cf.cached, endp |-> [i \in DOMAIN cf.cached |->
                                                OldSession(cf.cached[i])]]
    /\ copies = [r \in RcptSet |-> 0]
    /\ unsure = FALSE
    /\ hard = {}
    /\ panic = FALSE
    /\ nreq = 0
    /\ faults = 0

\* smtp_service, deliver_message
Request ==
    /\ st.pc = "idle" /\ nreq < MaxRequests
    /\ \E sites \in Destinations, t \in Traces, w \in CacheFlags :
         st' = NewState(sites, t, w)
    /\ nreq' = nreq + 1
    /\ copies' = [r \in RcptSet |-> 0]
    /\ unsure' = FALSE
    /\ hard' = {}
    /\ UNCHANGED <<cf, lp, conn, cache, panic, faults>>

LeftSet(s) == {s.rcpt[i].id : i \in DOMAIN s.rcpt}

\* One next hop: smtp_connect_inet up to the search in the cache, with
\* smtp_cache_policy.
NextSite ==
    /\ st.pc = "site"
    /\ IF Left(st) = 0 \/ st.sites = <<>>
       THEN /\ st' = [st EXCEPT !.pc = "finish"]
            /\ UNCHANGED hard
       ELSE LET r == Lookup(Head(st.sites))
                found == r.list # <<>>
                first == found /\ st.nth = 1
                s == [st EXCEPT
                        !.finalNexthop = \/ @ \/ Len(st.sites) = 1 \/ r.mine
                                         \/ (~found /\ r.why = "loop"),
                        !.why = r.why, !.list = r.list, !.next = r.list,
                        !.best = IF found THEN r.list[1].pref ELSE @,
                        !.naddr = 0, !.nsess = 0,
                        !.load = IF first THEN st.want.load ELSE @,
                        !.store = IF first THEN st.want.store ELSE @,
                        !.requestNexthop =
                            IF first THEN st.want.load \/ st.want.store ELSE @]
            IN  /\ st' = IF found /\ s.load
                         THEN [s EXCEPT !.list = ScrubAddrList(@, s.used),
                                        !.pc = "nexthop"]
                         ELSE [s EXCEPT !.pc = "addrs"]
                /\ hard' = IF ~found /\ r.why \in {"hard", "loop"}
                           THEN hard \cup LeftSet(st) ELSE hard
    /\ UNCHANGED <<cf, lp, conn, cache, copies, unsure, panic, nreq, faults>>

\* Take session i from the cache and probe it with RSET (smtp_reuse_common).
Probe(i, s, stage) ==
    /\ st' = [s EXCEPT !.pc = "rset", !.stage = stage,
                       !.session = Activate(cache.endp[i].session)]
    /\ conn' = cache.endp[i].conn
    /\ cache' = Uncache(cache, i)
    /\ lp' = StartLoop(RSET)
    /\ UNCHANGED <<hist, panic, nreq, faults>>

\* smtp_reuse_session, by next hop.
ReuseNexthop ==
    /\ st.pc = "nexthop"
    /\ LET i == FindDest(cache)
           try == st.list # <<>> /\ Left(st) > 0 /\ st.requestNexthop
       IN  \/ try /\ i # 0 /\ Probe(i, st, "nexthop")
           \/ /\ ~try \/ i = 0
              /\ st' = [st EXCEPT !.pc = "reuse", !.next = st.list]
              /\ UNCHANGED <<lp, conn, cache, hist, panic, nreq, faults>>

\* smtp_reuse_session, by address of a most preferred server.
ReuseAddr ==
    /\ st.pc = "reuse"
    /\ IF Left(st) = 0 \/ st.next = <<>> \/ Head(st.next).pref # st.best
       THEN /\ st' = [st EXCEPT !.pc = "addrs", !.next = st.list, !.naddr = st.nsess]
            /\ UNCHANGED <<lp, conn, cache, hist, panic, nreq, faults>>
       ELSE LET s == [st EXCEPT !.cur = Head(st.next), !.next = Tail(@)]
                i == FindEndp(cache, s.cur.addr)
            IN  IF i # 0 THEN Probe(i, s, "reuse")
                ELSE /\ st' = s
                     /\ UNCHANGED <<lp, conn, cache, hist, panic, nreq, faults>>

\* The loop over the addresses of a next hop, up to the connection.  A retry
\* after a TLS failure is in plaintext.
TryAddr ==
    /\ st.pc = "addrs"
    /\ IF Left(st) = 0 \/ st.next = <<>>
       THEN /\ st' = IF st.finalNexthop THEN [st EXCEPT !.pc = "finish"]
                     ELSE [st EXCEPT !.pc = "site", !.sites = Tail(@), !.nth = @ + 1]
            /\ UNCHANGED <<lp, conn, cache, hist, panic, nreq, faults>>
       ELSE LET a == Head(st.next)
                s == [st EXCEPT !.cur = a, !.naddr = @ + 1,
                                !.next = IF st.naddr + 1 = MxAddr THEN <<>> ELSE Tail(@),
                                !.tlsMay = ~st.plain, !.plain = FALSE]
                i == FindEndp(cache, a.addr)
            IN  IF st.load /\ a.pref # st.best /\ i # 0
                THEN Probe(i, s, "addrs")
                ELSE /\ st' = [s EXCEPT !.pc = "connect", !.stage = "addrs"]
                     /\ UNCHANGED <<lp, conn, cache, hist, panic, nreq, faults>>

\* smtp_connect_addr: dsb_reset(), then a connection or a soft error.
Connect ==
    /\ st.pc = "connect"
    /\ \/ /\ st' = [st EXCEPT !.pc = "helo", !.why = "none",
                              !.session = NewSession(st.cur.addr, st.store),
                              !.finalServer = @ \/ (st.finalNexthop /\ st.next = <<>>)]
          /\ conn' = NewConn
          /\ UNCHANGED faults
       \/ /\ faults < MaxFaults
          /\ faults' = faults + 1
          /\ st' = [st EXCEPT !.pc = "addrs", !.why = "soft"]
          /\ UNCHANGED conn
    /\ UNCHANGED <<lp, cache, hist, panic, nreq>>

\* What ++sess_count does before smtp_xfer in the loop over the addresses.
CountSession(s) ==
    LET next == IF s.nsess + 1 = MxSess THEN <<>> ELSE s.next
    IN  [s EXCEPT !.nsess = @ + 1, !.next = next,
                  !.finalServer = @ \/ (s.finalNexthop /\ next = <<>>)]

FirstCommand == IF "name" \in Xforward THEN XFORWARD_NAME_ADDR
                ELSE IF "proto" \in Xforward THEN XFORWARD_PROTO_HELO
                ELSE MAIL

\* smtp_xfer up to smtp_loop: the message may exceed the server's size limit.
BeginXfer(s) ==
    /\ \/ /\ st' = [s EXCEPT !.pc = "xfer"]
          /\ lp' = StartLoop(FirstCommand)
          /\ UNCHANGED <<hard, faults>>
       \/ /\ faults < MaxFaults
          /\ faults' = faults + 1
          /\ st' = [MesgFail(s, "hard") EXCEPT !.complete = TRUE, !.pc = "cleanup"]
          /\ lp' = NoLoop
          /\ hard' = hard \cup LeftSet(s)
    /\ panic' = (panic \/ Left(s) = 0 \/ 1 \notin Unmarked(s))

\* The same address again, and what follows it in the list.
Again(s) == [s EXCEPT !.plain = TRUE, !.naddr = @ - 1,
               !.next = SubSeq(s.list, SelectInSeq(s.list, LAMBDA a : a = s.cur),
                               Len(s.list))]

\* The end of a failed handshake; QUIT, where it is sent, ends the session.
HeloFailed(s) ==
    [IF s.session.retryPlain THEN Again(s) ELSE s EXCEPT
        !.pc = "cleanup",
        !.session.expire = IF @ = "throttled" THEN @ ELSE "no"]

\* smtp_helo succeeds, with smtp_start_tls where TLS is used.
HeloOk ==
    /\ st.pc = "helo"
    /\ \E p \in Pipelining, t \in {FALSE} \cup (Starttls \cap {TRUE}) :
         /\ t => st.tlsMay
         /\ BeginXfer(CountSession(
              [st EXCEPT !.session.pipelining = p, !.session.tls = t,
                         !.session.expire = IF t THEN "no" ELSE @]))
    /\ UNCHANGED <<cf, conn, cache, copies, unsure, nreq>>

\* smtp_helo fails: the greeting, EHLO or SASL is refused (softly or not),
\* the message cannot be sent to this server, or the connection breaks (before
\* or after the TLS handshake).
HeloFail ==
    /\ st.pc = "helo" /\ faults < MaxFaults
    /\ faults' = faults + 1
    /\ \/ \E w \in {"soft", "hard"} :
            /\ st' = HeloFailed(SiteFail(st, w))
            /\ hard' = IF w = "hard" THEN hard \cup LeftSet(st) ELSE hard
       \/ /\ st' = HeloFailed(MesgFail(st, "hard"))
          /\ hard' = hard \cup LeftSet(st)
       \/ \E t \in {FALSE} \cup (Starttls \cap {TRUE}) :
            /\ t => st.tlsMay
            /\ st' = HeloFailed(StreamExcept([st EXCEPT !.session.tls = t], "EOF"))
            /\ UNCHANGED hard
    /\ UNCHANGED <<cf, lp, conn, cache, copies, unsure, panic, nreq>>

\* smtp_start_tls fails: no more I/O on this connection, and perhaps a second
\* try in plaintext.
StartTlsFail ==
    /\ st.pc = "helo" /\ faults < MaxFaults
    /\ faults' = faults + 1
    /\ FALSE \in Starttls /\ st.tlsMay
    /\ LET s == [st EXCEPT !.session.forbidden = TRUE]
       IN  st' = HeloFailed(MesgFail(IF OldMessage THEN RetryAsPlaintext(s) ELSE s,
                                     "soft"))
    /\ UNCHANGED <<cf, lp, conn, cache, copies, unsure, hard, panic, nreq>>

\* What the server may still do with an end-of-data that the client sent and
\* does not wait for: accept the message, or not.
Abandon(c) ==
    LET pending == \E i \in DOMAIN (c.out \o c.tcp) : (c.out \o c.tcp)[i].cmd = "."
        rcpts == ToSet(c.server.rcpts)
    IN  \E took \in IF pending /\ c.server.data
                    THEN (IF Lmtp THEN SUBSET rcpts ELSE {{}, rcpts}) ELSE {{}} :
          copies' = [r \in RcptSet |-> copies[r] + (IF r \in took THEN 1 ELSE 0)]

\* The session is in the list of the current stage and about to be used.
Accept(s) ==
    LET list == UpdateAddrList(s.list, s.session.addr, s.nsess + 1)
        next == IF list = <<>> THEN <<>> ELSE s.next
        t == [s EXCEPT !.used = @ \cup {s.session.addr}]
    IN  CASE s.stage = "nexthop" ->
               [t EXCEPT !.nsess = 1, !.list = list,
                         !.finalServer = @ \/ (s.finalNexthop /\ list = <<>>)]
          [] s.stage = "reuse" ->
               [t EXCEPT !.nsess = @ + 1, !.list = list, !.next = next,
                         !.finalServer = @ \/ (s.finalNexthop /\ next = <<>>)]
          [] s.stage = "addrs" -> CountSession(t)

\* The end of smtp_reuse_common: use the session, or forget it.
ProbeDone ==
    /\ st.pc = "rset" /\ lp.mode \in {"ok", "fail"}
    /\ IF lp.mode = "ok" /\ ~st.session.rsetRejected
       THEN /\ BeginXfer(Accept(st))
            /\ UNCHANGED <<conn, copies>>
       ELSE /\ st' = [st EXCEPT !.session = NoSession,
                        !.pc = IF st.stage = "addrs" THEN "connect" ELSE "reuse",
                        !.next = IF st.stage = "nexthop" THEN st.list ELSE @]
            /\ lp' = NoLoop
            /\ conn' = NoConn
            /\ Abandon(conn)
            /\ UNCHANGED <<hard, panic, faults>>
    /\ UNCHANGED <<cf, cache, unsure, nreq>>

\* Mutant of XferDone: the same server is tried again after any failure.
XferDone_Again ==
    /\ st.pc = "xfer" /\ lp.mode \in {"ok", "fail"}
    /\ LET s == [st EXCEPT !.complete = @ \/ lp.mode = "ok", !.pc = "cleanup"]
       IN  st' = IF st.stage = "addrs"
                 THEN [Again(s) EXCEPT !.nsess = @ - 1] ELSE s
    /\ lp' = NoLoop
    /\ UNCHANGED <<conn, cache, hist, panic, nreq, faults>>

\* The end of smtp_xfer, and the choice of a second try in plaintext.
XferDone ==
    /\ st.pc = "xfer" /\ lp.mode \in {"ok", "fail"}
    /\ LET s == [st EXCEPT !.complete = @ \/ lp.mode = "ok", !.pc = "cleanup"]
       IN  st' = IF st.stage = "addrs" /\ st.session.retryPlain
                 THEN [Again(s) EXCEPT !.nsess = @ - 1] ELSE s
    /\ lp' = NoLoop
    /\ UNCHANGED <<conn, cache, hist, panic, nreq, faults>>

\* smtp_cleanup_session: an expired session ends with QUIT, a good one goes
\* to the cache (which may lose it), any other is closed.
CleanupSession ==
    /\ st.pc = "cleanup"
    /\ \E late \in BOOLEAN :
         \/ /\ IsCached(st.session) /\ ~IsExpired(st.session, late)
            /\ cache' = SaveSession(cache, st, conn)
            /\ UNCHANGED copies
         \/ /\ ~IsCached(st.session) \/ IsExpired(st.session, late)
            /\ Abandon(conn)
            /\ UNCHANGED cache
    /\ LET s == [st EXCEPT !.requestNexthop = @ /\ IsThrottled(st.session),
                           !.session = NoSession]
       IN  st' = [RcptCleanup(s) EXCEPT
                    !.pc = IF st.stage = "addrs" THEN "addrs" ELSE "reuse",
                    !.next = IF st.stage = "nexthop" THEN st.list ELSE @]
    /\ conn' = NoConn
    /\ panic' = (panic \/ MarksBad(st))
    /\ UNCHANGED <<cf, lp, unsure, hard, nreq, faults>>

\* The end of smtp_connect_inet and smtp_connect: the recipients that no
\* server took.  A configuration problem of this system is a soft error.
Excuse(s) ==
    IF s.why \in {"none", "soft"} THEN "soft"
    ELSE IF s.nth > 1 \/ (~Lmtp /\ Relayhost) THEN "soft" ELSE s.why

\* Mutant of FinishRequest: the recipients that are left over are forgotten.
FinishRequest_Forgets ==
    /\ st.pc = "finish"
    /\ st' = [st EXCEPT !.pc = "idle", !.rcpt = <<>>]
    /\ UNCHANGED <<lp, conn, cache, hist, panic, nreq, faults>>

FinishRequest ==
    /\ st.pc = "finish"
    /\ LET why == Excuse(st)
           pass == ~Lmtp /\ BestMx /\ why = "loop"
           s == IF Left(st) = 0 THEN st
                ELSE IF pass
                THEN [Drop(st, Unmarked(st), "passed") EXCEPT !.rcpt = <<>>,
                                                              !.drop = 0]
                ELSE SiteFail([st EXCEPT !.finalServer = TRUE], why)
       IN  /\ st' = [IdleState EXCEPT !.final = s.final, !.status = s.status,
                                      !.hopDead = s.hopDead, !.complete = s.complete,
                                      !.trace = s.trace]
           /\ panic' = (panic \/ MarksBad(s) \/ s.keep > 0)
    /\ UNCHANGED <<lp, conn, cache, hist, nreq, faults>>

-----------------------------------------------------------------------------
(* smtp_loop(): the sender and the receiver.                                *)

\* SENDER_IS_AHEAD
Ahead(l) == l.recv < l.send \/ l.recvRcpt # l.sendRcpt

\* Mutant of MustWait: no command looks at the size of the pipelining buffer.
MustWait_NoBufsize(s, l, c) ==
    \/ l.send \in {DOT, LAST}
    \/ Ahead(l) /\ ~s.session.pipelining

\* When the sender lets the receiver catch up, except for the time limit.
MustWait(s, l, c) ==
    \/ l.send \in {DOT, LAST}
    \/ /\ Ahead(l)
       /\ \/ ~s.session.pipelining
          \/ ~(l.recv = DOT /\ l.send = QUIT) /\ Len(c.out) >= PipeSize

\* Build the next command: the next sender state, with s as it will be.
NextState(s, l) ==
    CASE l.send = XFORWARD_NAME_ADDR ->
           IF "proto" \in Xforward THEN XFORWARD_PROTO_HELO ELSE MAIL
      [] l.send = XFORWARD_PROTO_HELO -> MAIL
      [] l.send = MAIL -> RCPT
      [] l.send = RCPT -> IF l.sendRcpt + 1 # Left(s) THEN RCPT
                          ELSE IF s.trace = "rcpt" THEN ABORT ELSE DATA
      [] l.send = DATA -> DOT
      [] l.send \in {DOT, ABORT} -> AfterLastCommand(s)
      [] l.send \in {RSET, QUIT, LAST} -> LAST

BuildSession(s, l, late) ==
    IF l.send \in {DOT, ABORT} THEN Freeze(s, late)
    ELSE IF l.send = QUIT /\ IsCached(s.session) THEN DontCache(s)
    ELSE s

BuildCommand(s, l) ==
    [l EXCEPT !.next = NextState(s, l),
              !.nextRcpt = IF l.send = RCPT THEN l.sendRcpt + 1 ELSE @]

\* smtp_chat_cmd and the update of the sender state.
Copy(s, l) ==
    /\ conn' = [conn EXCEPT !.out = Append(@,
                  [cmd |-> Command[l.send + 1],
                   rcpt |-> IF l.send = RCPT THEN s.rcpt[l.sendRcpt + 1].id
                            ELSE Rcpts[1]])]
    /\ lp' = [l EXCEPT !.send = l.next, !.sendRcpt = l.nextRcpt,
                       !.mode = IF l.recv = LAST THEN "ok" ELSE "build"]
    /\ st' = s

InLoop == st.pc \in {"rset", "xfer"}

\* The sender runs ahead of the receiver.
SendCommand ==
    /\ InLoop /\ lp.mode = "build" /\ ~MustWait(st, lp, conn)
    /\ \E late \in BOOLEAN :
         LET s == BuildSession(st, lp, late) IN Copy(s, BuildCommand(s, lp))
    /\ UNCHANGED <<cache, hist, panic, nreq, faults>>

\* The sender stops: it must, or it sent nothing for more than ten seconds.
StartReceive ==
    /\ InLoop /\ lp.mode = "build"
    /\ MustWait(st, lp, conn) \/ Ahead(lp)
    /\ \E late \in BOOLEAN :
         LET s == BuildSession(st, lp, late)
         IN  /\ st' = s
             /\ lp' = [BuildCommand(s, lp) EXCEPT !.mode = "recv"]
    /\ UNCHANGED <<conn, cache, hist, panic, nreq, faults>>

\* A read from the server first writes the output that is pending.
Flush ==
    /\ InLoop /\ lp.mode = "recv" /\ Ahead(lp) /\ conn.out # <<>>
    /\ \/ /\ conn.up /\ Len(conn.tcp) < SndBuf
          /\ conn' = [conn EXCEPT !.tcp = Append(@, Head(conn.out)), !.out = Tail(@)]
       \/ /\ ~conn.up
          /\ conn' = [conn EXCEPT !.out = <<>>]
    /\ UNCHANGED <<st, lp, cache, hist, panic, nreq, faults>>

Why(code) == IF code = "4" THEN "soft" ELSE "hard"

\* The replies, by receiver state: the new [s, l].
OnMail(s, l, code) ==
    [s |-> IF code = "2" THEN s ELSE MesgFail(s, Why(code)),
     l |-> [l EXCEPT !.recv = RCPT, !.rejected = code # "2"]]

OnRcpt(s, l, code) ==
    LET i == l.recvRcpt + 1
        ok == code = "2"
    IN  [s |-> IF l.rejected THEN s
               ELSE IF ~ok THEN RcptFail(s, i, Why(code))
               ELSE IF s.trace = "rcpt" THEN RcptDone(s, {i}) ELSE s,
         l |-> [l EXCEPT
                  !.nrcpt = IF ok /\ ~l.rejected THEN @ + 1 ELSE @,
                  !.survivors = IF ok /\ ~l.rejected /\ Lmtp THEN Append(@, i) ELSE @,
                  !.recvRcpt = i,
                  !.recv = IF i # Left(s) THEN RCPT
                           ELSE IF s.trace = "rcpt" THEN ABORT ELSE DATA]]

OnData(s, l, code) ==
    IF code # "3"
    THEN [s |-> IF l.nrcpt > 0 THEN MesgFail(s, Why(code)) ELSE s,
          l |-> [l EXCEPT !.recv = DOT, !.nrcpt = -1]]
    ELSE IF s.trace = "data"
    THEN [s |-> DontCache(RcptDone(s, Unmarked(s) \cap (1 .. l.recvRcpt))),
          l |-> [l EXCEPT !.recv = LAST, !.send = LAST]]
    ELSE [s |-> s, l |-> [l EXCEPT !.recv = DOT]]

\* The recipients that the reply to end-of-data is about: with LMTP the next
\* survivor, with SMTP all that are left.
DotRcpts(s, l) ==
    IF l.nrcpt <= 0 THEN {}
    ELSE IF Lmtp THEN {l.survivors[l.recvDone + 1]}
    ELSE Unmarked(s) \cap (1 .. l.recvRcpt)

\* Mutant of OnDot: the receiver looks at the time again when it chooses
\* between the cache and QUIT.
OnDot_Refreeze(s, l, code) ==
    LET I == DotRcpts(s, l)
    IN  [s |-> DontCache(IF code = "2" THEN RcptDone(s, I)
                         ELSE MesgFail(s, Why(code))),
         l |-> [l EXCEPT !.recv = IF SkipQuitResp \/ l.lost THEN LAST ELSE QUIT]]

OnDot(s, l, code) ==
    LET I == DotRcpts(s, l)
        t == IF I = {} THEN s
             ELSE IF code = "2" THEN RcptDone(s, I)
             ELSE IF Lmtp THEN RcptFail(s, CHOOSE i \in I : TRUE, Why(code))
             ELSE MesgFail(s, Why(code))
        done == IF Lmtp /\ l.nrcpt > 0 THEN l.recvDone + 1 ELSE l.recvDone
    IN  [s |-> t,
         l |-> [l EXCEPT !.recvDone = done,
                  !.recv = IF Lmtp /\ done < l.nrcpt THEN DOT
                           ELSE IF SkipQuitResp \/ IsCached(t.session) \/ l.lost
                           THEN LAST ELSE QUIT]]

OnReply(s, l, code) ==
    CASE l.recv = XFORWARD_NAME_ADDR ->
           [s |-> s, l |-> [l EXCEPT !.recv = IF "proto" \in Xforward
                                              THEN XFORWARD_PROTO_HELO ELSE MAIL]]
      [] l.recv = XFORWARD_PROTO_HELO -> [s |-> s, l |-> [l EXCEPT !.recv = MAIL]]
      [] l.recv = MAIL -> OnMail(s, l, code)
      [] l.recv = RCPT -> OnRcpt(s, l, code)
      [] l.recv = DATA -> OnData(s, l, code)
      [] l.recv = DOT -> OnDot(s, l, code)
      [] l.recv = ABORT ->
           [s |-> s, l |-> [l EXCEPT !.recv = IF SkipQuitResp \/ IsCached(s.session)
                                              THEN LAST ELSE QUIT]]
      [] l.recv = RSET ->
           [s |-> [s EXCEPT !.session.rsetRejected = code # "2"],
            l |-> [l EXCEPT !.recv = LAST]]
      [] l.recv = QUIT -> [s |-> s, l |-> [l EXCEPT !.recv = LAST]]

\* smtp_rcpt_fail must not see a marked recipient.
ReplyPanics(s, l, code) ==
    \/ l.recv \notin XFORWARD_NAME_ADDR .. QUIT
    \/ l.recv = RCPT /\ ~l.rejected /\ code # "2" /\ l.recvRcpt + 1 \notin Unmarked(s)
    \/ l.recv = DOT /\ Lmtp /\ code # "2" /\ ~(DotRcpts(s, l) \subseteq Unmarked(s))

UnmarkedSet(s) == {s.rcpt[i].id : i \in Unmarked(s)}

\* Whom a permanent error reply is about, whatever the client takes it for.
Refused(rp) == IF rp.code # "5" THEN {}
               ELSE IF rp.cmd = "RCPT" \/ (Lmtp /\ rp.cmd = ".") THEN {rp.rcpt}
               ELSE IF rp.cmd \in {"MAIL", "DATA", "."} THEN UnmarkedSet(st)
               ELSE {}

\* The receiver processes one reply.
Receive ==
    /\ InLoop /\ lp.mode = "recv" /\ Ahead(lp)
    /\ conn.out = <<>> /\ conn.replies # <<>>
    /\ LET rp == Head(conn.replies)
           r == OnReply(st, lp, rp.code)
       IN  /\ st' = r.s /\ lp' = r.l
           /\ hard' = hard \cup Refused(rp)
           /\ panic' = (panic \/ ReplyPanics(st, lp, rp.code))
    /\ conn' = [conn EXCEPT !.replies = Tail(@)]
    /\ UNCHANGED <<cf, cache, copies, unsure, nreq, faults>>

\* The connection is lost or the server is silent for too long, or a local
\* filter fails; RETURN(SENDING_MAIL ? smtp_stream_except() : -1).
Exception ==
    /\ InLoop /\ lp.mode = "recv" /\ Ahead(lp)
    /\ \/ /\ ~conn.up /\ conn.replies = <<>> /\ conn.out = <<>>
          /\ UNCHANGED faults
          /\ st' = IF lp.recv <= DOT THEN StreamExcept(DontCache(st), "EOF")
                                     ELSE DontCache(st)
       \/ /\ faults < MaxFaults
          /\ faults' = faults + 1
          /\ \E err \in {"TIME", "DATA"} :
               st' = IF lp.recv <= DOT THEN StreamExcept(DontCache(st), err)
                                       ELSE DontCache(st)
    /\ lp' = [lp EXCEPT !.mode = "fail"]
    /\ unsure' = (unsure \/ (lp.recv = DOT /\ lp.send > DOT /\ ~lp.lost))
    /\ UNCHANGED <<cf, conn, cache, copies, hard, panic, nreq>>

\* The course correction, once sender and receiver are synchronized.
OffCourse(l) ==
    \/ l.send = RCPT /\ l.rejected
    \/ l.send = DATA /\ l.nrcpt = 0
    \/ l.send = DOT /\ l.nrcpt < 0

Correct(s, l) ==
    [l EXCEPT !.send = ABORT, !.recv = ABORT, !.next = AfterLastCommand(s),
              !.sendRcpt = 0, !.recvRcpt = 0, !.nextRcpt = 0]

\* The receiver has caught up: correct the course and send the next command,
\* or leave the loop.
Resume ==
    /\ InLoop /\ lp.mode = "recv" /\ ~Ahead(lp)
    /\ ~(lp.send = DOT /\ lp.nrcpt > 0)
    /\ \E late \in BOOLEAN :
         LET off == OffCourse(lp)
             s == IF off THEN Freeze(st, late) ELSE st
             l == IF off THEN Correct(s, lp) ELSE lp
         IN  IF l.send = LAST
             THEN /\ st' = s
                  /\ lp' = [l EXCEPT !.mode = "ok"]
                  /\ UNCHANGED conn
             ELSE Copy(s, l)
    /\ UNCHANGED <<cache, hist, panic, nreq, faults>>

\* The server accepted DATA: send the message and end-of-data.
SendBody ==
    /\ InLoop /\ lp.mode = "recv" /\ ~Ahead(lp) /\ lp.send = DOT /\ lp.nrcpt > 0
    /\ Copy(st, lp)
    /\ UNCHANGED <<cache, hist, panic, nreq, faults>>

\* The connection breaks inside the message: look for a premature reply.
LoseBody ==
    /\ InLoop /\ lp.mode = "recv" /\ ~Ahead(lp) /\ lp.send = DOT /\ lp.nrcpt > 0
    /\ ~conn.up
    /\ st' = DontCache(st)
    /\ lp' = [lp EXCEPT !.lost = TRUE, !.next = LAST, !.send = LAST, !.mode = "build"]
    /\ UNCHANGED <<conn, cache, hist, panic, nreq, faults>>

\* The message cannot be sent to the end: the time limit or a local filter,
\* a conversion error, an unreadable queue file.
FailBody ==
    /\ InLoop /\ lp.mode = "recv" /\ ~Ahead(lp) /\ lp.send = DOT /\ lp.nrcpt > 0
    /\ faults < MaxFaults
    /\ faults' = faults + 1
    /\ LET s == DontCache(st)
       IN  \/ /\ \E err \in {"TIME", "DATA"} : st' = StreamExcept(s, err)
              /\ lp' = [lp EXCEPT !.mode = "fail"]
              /\ UNCHANGED hard
           \/ /\ st' = MesgFail(s, "hard")
              /\ lp' = [lp EXCEPT !.mode = "ok"]
              /\ hard' = hard \cup UnmarkedSet(st)
           \/ /\ st' = MesgFail([s EXCEPT !.session.forbidden = TRUE], "hard")
              /\ lp' = [lp EXCEPT !.mode = "fail"]
              /\ hard' = hard \cup UnmarkedSet(st)
    /\ UNCHANGED <<cf, conn, cache, copies, unsure, panic, nreq>>

-----------------------------------------------------------------------------
(* The remote server (external): it reads commands and answers them in      *)
(* order, may refuse any of them, and takes responsibility for a message    *)
(* when it accepts end-of-data.                                             *)

Answer(x, codes) == [i \in DOMAIN codes |->
    [cmd |-> x.cmd, code |-> codes[i],
     rcpt |-> IF Lmtp /\ x.cmd = "." THEN conn.server.rcpts[i] ELSE x.rcpt]]

ServerReads(x, codes, server) ==
    conn' = [conn EXCEPT !.tcp = Tail(@), !.server = server,
                         !.replies = @ \o Answer(x, codes)]

Server ==
    /\ conn # NoConn /\ conn.up
    /\ conn.tcp # <<>> /\ Len(conn.replies) < RcvBuf
    /\ LET x == Head(conn.tcp)
           v == conn.server
           plain == x.cmd \notin {"DATA", "."}
       IN  \/ /\ x.cmd = "." /\ v.data
              /\ \E codes \in [1 .. (IF Lmtp THEN Len(v.rcpts) ELSE 1) -> {"2", "4", "5"}] :
                   LET took == IF Lmtp
                               THEN {v.rcpts[i] : i \in {j \in DOMAIN codes : codes[j] = "2"}}
                               ELSE IF codes[1] = "2" THEN ToSet(v.rcpts) ELSE {}
                   IN  /\ ServerReads(x, codes, IdleServer)
                       /\ copies' = [r \in RcptSet |->
                                       copies[r] + (IF r \in took THEN 1 ELSE 0)]
           \/ /\ x.cmd = "." /\ ~v.data
              /\ ServerReads(x, <<"5">>, v)
              /\ UNCHANGED copies
           \/ /\ x.cmd = "DATA"
              /\ \E code \in {"3", "4", "5"} :
                   /\ code = "3" => v.mail /\ (v.rcpts # <<>> \/ ~Lmtp)
                   /\ ServerReads(x, <<code>>, [v EXCEPT !.data = code = "3"])
              /\ UNCHANGED copies
           \/ /\ plain
              /\ \E code \in {"2", "4", "5"} :
                   /\ x.cmd = "RCPT" /\ ~v.mail => code = "5"
                   /\ x.cmd = "MAIL" /\ v.mail => code = "5"
                   /\ x.cmd = "QUIT" => code = "2"
                   /\ x.cmd = "RSET" => code # "4"
                   /\ ServerReads(x, <<code>>,
                        CASE x.cmd = "MAIL" /\ code = "2" -> [v EXCEPT !.mail = TRUE]
                          [] x.cmd = "RCPT" /\ code = "2" ->
                               [v EXCEPT !.rcpts = Append(@, x.rcpt)]
                          [] x.cmd = "RSET" /\ code = "2" -> IdleServer
                          [] OTHER -> v)
              /\ UNCHANGED copies
    /\ UNCHANGED <<cf, st, lp, cache, unsure, hard, panic, nreq, faults>>

\* The connection breaks; replies in flight arrive or not.  A server that
\* gives up inside a message may say so first.
ServerGone ==
    /\ conn # NoConn /\ conn.up /\ faults < MaxFaults
    /\ faults' = faults + 1
    /\ \E rs \in {<<>>, conn.replies} \cup
                 (IF conn.server.data /\ ~Lmtp /\ conn.tcp = <<>>
                  THEN {conn.replies \o Answer([cmd |-> ".", rcpt |-> Rcpts[1]], <<c>>) :
                          c \in {"4", "5"}}
                  ELSE {}) :
         conn' = [conn EXCEPT !.up = FALSE, !.tcp = <<>>, !.replies = rs]
    /\ UNCHANGED <<st, lp, cache, hist, panic, nreq>>

\* The client looks into the cache only here; what happens to the cache at
\* other times is seen then.
CacheVisible == st.pc \in {"nexthop", "reuse", "addrs"}

\* An idle connection in the cache: the server closes it, its time runs out
\* (scache_multi_expire_endp), or another client gets it.
CacheServerGone ==
    /\ CacheVisible
    /\ \E i \in DOMAIN cache.endp :
         /\ cache.endp[i].conn.up
         /\ cache' = [cache EXCEPT !.endp[i].conn.up = FALSE]
    /\ UNCHANGED <<st, lp, conn, hist, panic, nreq, faults>>

CacheExpire ==
    /\ CacheVisible
    /\ \/ \E i \in DOMAIN cache.endp : cache' = Uncache(cache, i)
       \/ \E i \in DOMAIN cache.dest :
            cache' = [cache EXCEPT !.dest = RemoveAt(@, i)]
    /\ UNCHANGED <<st, lp, conn, hist, panic, nreq, faults>>

-----------------------------------------------------------------------------

Client ==
    \/ NextSite \/ ReuseNexthop \/ ReuseAddr \/ TryAddr \/ Connect
    \/ HeloOk \/ HeloFail \/ StartTlsFail \/ ProbeDone \/ XferDone \/ CleanupSession
    \/ FinishRequest
    \/ SendCommand \/ StartReceive \/ Flush \/ Receive \/ Exception
    \/ Resume \/ SendBody \/ LoseBody \/ FailBody

Next == Request \/ Client \/ Server \/ ServerGone \/ CacheServerGone \/ CacheExpire

Spec == Init /\ [][Next]_vars

\* The client never stops by itself: every read and write has a time limit.
\* A server that is up answers.
FairSpec == Spec /\ WF_vars(Client) /\ WF_vars(Server)

-----------------------------------------------------------------------------
(* Properties.                                                              *)

\* The shape of the state; the counters and lists stay within their bounds.
TypeOK ==
    /\ st.pc \in {"idle", "site", "nexthop", "reuse", "addrs", "connect",
                  "helo", "rset", "xfer", "cleanup", "finish"}
    /\ \A i \in DOMAIN st.rcpt : st.rcpt[i] \in [id : RcptSet,
                                                 mark : {"none", "keep", "drop"}]
    /\ st.keep \in 0 .. Left(st) /\ st.drop \in 0 .. Left(st)
    /\ st.why \in {"none", "soft", "hard", "loop"}
    /\ (st.session = NoSession) = (conn = NoConn)
    /\ lp.send \in 0 .. LAST /\ lp.recv \in 0 .. LAST
    /\ lp.recvRcpt <= lp.sendRcpt /\ lp.sendRcpt <= Len(Rcpts)
    /\ conn # NoConn => Len(conn.tcp) <= SndBuf

\* Lists and indices are in range, and no msg_panic(): recipients that are neither kept nor dropped at the end of
\* a session (smtp_rcpt_cleanup), a recipient that is failed twice
\* (smtp_rcpt_fail), a transfer without unmarked recipients (smtp_xfer), a
\* receiver state out of range, left-over recipients (smtp_connect).
NoPanic == TypeOK /\ ~panic

\* The receiver takes every reply for the answer to the command that the
\* server answered: the sender and receiver loops of smtp_loop() stay in sync,
\* across pipelining, course corrections, expired cache times and reuse.
\* An open connection in the cache owes nobody anything: no command or reply is in
\* flight and the server is not inside a message; and a mail transaction
\* always starts from an idle server.
InSync ==
    /\ InLoop /\ lp.mode = "recv" /\ Ahead(lp) /\ conn.replies # <<>> =>
         LET rp == Head(conn.replies)
         IN  /\ rp.cmd = Command[lp.recv + 1]
             /\ lp.recv = RCPT => rp.rcpt = st.rcpt[lp.recvRcpt + 1].id
             /\ lp.recv = DOT /\ Lmtp /\ lp.nrcpt > 0 =>
                  rp.rcpt = st.rcpt[lp.survivors[lp.recvDone + 1]].id
    /\ \A i \in DOMAIN cache.endp :
         LET c == cache.endp[i].conn
         IN  c.up => c.out = <<>> /\ c.tcp = <<>> /\ c.replies = <<>> /\ ~c.server.data
    /\ st.pc = "xfer" /\ lp.mode = "build" /\ lp.send = FirstCommand =>
         conn.server = IdleServer /\ conn.replies = <<>> /\ conn.tcp = <<>>

\* The client and the server are never both stuck in a write: the client
\* reads before it fills the TCP send buffer of a server that cannot write.
NoWriteDeadlock ==
    ~ /\ InLoop /\ lp.mode = "recv" /\ conn.up
      /\ conn.out # <<>> /\ Len(conn.tcp) >= SndBuf
      /\ Len(conn.replies) >= RcvBuf

\* Unless the fate of an end-of-data is unknown, no recipient is delivered
\* twice, by whatever servers are tried, and one that was delivered is not
\* also returned or deferred.
TakenOnce ==
    ~unsure => \A r \in RcptSet :
                 /\ copies[r] <= 1
                 /\ st.pc = "idle" /\ copies[r] = 1 => st.final[r] = {"sent"}

\* At the end of a request every recipient has exactly one verdict, and the
\* status says whether the queue manager has to keep the message.
Accounted ==
    st.pc = "idle" /\ nreq > 0 =>
      /\ \A r \in RcptSet : Cardinality(st.final[r]) = 1
      /\ st.status = (\E r \in RcptSet : st.final[r] = {"deferred"})

\* Verdicts have a cause.  A recipient is reported as sent, and crossed off in
\* the queue file, only when a server took responsibility for it; mail is
\* returned to its sender only when a server refused that recipient for good
\* or the destination does not exist, never with the reason (one shared
\* buffer) of another recipient or of an earlier server; and a destination is
\* called unreachable only when no session of the request was completed.
VerdictsJust ==
    /\ \A r \in RcptSet :
         /\ st.trace = "mail" /\ "sent" \in st.final[r] => copies[r] >= 1
         /\ "bounced" \in st.final[r] => r \in hard
    /\ st.hopDead => ~st.complete

\* Every delivery request ends: the loops over next hops, addresses, cached
\* sessions and plaintext retries, and the two loops of smtp_loop().
RequestEnds == st.pc # "idle" ~> st.pc = "idle"

=============================================================================
