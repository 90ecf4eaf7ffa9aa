------------------------------- MODULE Smtpd -------------------------------
(***************************************************************************)
(* One session of smtpd(8), src/src/smtpd/smtpd.c with the restriction     *)
(* stages of smtpd_check.c: the command loop and its error counters, the   *)
(* mail transaction, the stream to cleanup(8), and the access checks whose *)
(* temporary errors are carried from one stage to the next.                *)
(*                                                                         *)
(* The client may send any command at any time and may vanish at any time. *)
(* What an access check, a Milter, a resource limit or cleanup(8) answers  *)
(* is left open.                                                           *)
(*                                                                         *)
(*   cf      configuration: delay (smtpd_delay_reject), early (not         *)
(*           smtpd_delay_open_until_valid_rcpt), milters, strict           *)
(*           (strict_smtputf8), helo (smtpd_helo_required), tls            *)
(*           (smtpd_enforce_tls)                                           *)
(*   at      "connect", "cmd" (reading commands), "content" (after 354),   *)
(*           "end"                                                         *)
(*   ses     helo: a name was accepted; tls; errors, junk: error_count and *)
(*           junk_cmds; denied: access_denied; hangup: SMTPD_FLAG_HANGUP   *)
(*   tr      sender, rcpts (rcpt_count), over (rcpt_overshoot), bdat       *)
(*           (bdat_state), size (act_size), discard, dflag (the DISCARD    *)
(*           bit of saved_flags)                                           *)
(*   stream  the stream to cleanup(8): the envelope written so far         *)
(*   flag    defer_if_permit_client, _helo, _sender                        *)
(*   reply   the last reply, with what was queued by the same command      *)
(*   view    history: the transaction as the replies describe it to the    *)
(*           client; discard: a DISCARD was asked for; gap: a chunk was    *)
(*           refused                                                       *)
(*   doubt   history: the stages whose verdict was in doubt when they let  *)
(*           the client go on                                              *)
(***************************************************************************)
EXTENDS SmtpdCheck

CONSTANTS Senders, Rcpts, Postmaster, NoAddr, Configs, Lists,
          HardErrorLimit, JunkLimit, RcptLimit, OverLimit, SizeLimit

VARIABLES cf, at, ses, tr, stream, flag, reply, view, doubt
vars == <<cf, at, ses, tr, stream, flag, reply, view, doubt>>

\* SMTPD_CMD_FLAG_LIMIT and SMTPD_CMD_FLAG_PRE_TLS in smtpd_cmd_table.
LimitCmds == {"HELO", "RSET", "NOOP", "VRFY", "ETRN"}
PreTlsCmds == {"HELO", "STARTTLS", "NOOP", "QUIT"}

NoTrans == [sender |-> NoAddr, rcpts |-> 0, over |-> 0, bdat |-> "none", size |-> 0,
            discard |-> FALSE, dflag |-> FALSE]
NoStream == [open |-> FALSE, from |-> NoAddr, rcpts |-> <<>>]
NoView == [sender |-> NoAddr, rcpts |-> <<>>, discard |-> FALSE, gap |-> FALSE]
NotQueued == [fate |-> "none", from |-> NoAddr, rcpts |-> <<>>, size |-> 0]
NoDoubt == [client |-> FALSE, helo |-> FALSE, mail |-> FALSE]

Init ==
  /\ cf \in Configs
  /\ at = "connect"
  /\ ses = [helo |-> FALSE, tls |-> FALSE, errors |-> 0, junk |-> 0, denied |-> "no",
            hangup |-> FALSE]
  /\ tr = NoTrans
  /\ stream = NoStream
  /\ flag = NoDoubt
  /\ view = NoView
  /\ doubt = NoDoubt
  /\ reply = [to |-> "none", code |-> "0", by |-> "other", acc |-> TRUE, rej |-> FALSE,
              queued |-> NotQueued, view |-> NoView]

-----------------------------------------------------------------------------
(***************************************************************************)
(* Restriction stages.  An evaluation e holds the state c of SmtpdCheck,   *)
(* the saved flags, and for the history: acc, every list can accept; rej,  *)
(* some list can reject.                                                   *)
(***************************************************************************)

\* The outcomes of every list, with and without a sender.
May == [l \in UNION {Lists[x] : x \in DOMAIN Lists}, s \in BOOLEAN |-> Outcomes(l, s)]

Weigh(e, n, l) == [e EXCEPT !.c = n, !.acc = @ /\ "accept" \in May[l, n.sender],
                            !.rej = @ \/ "reject" \in May[l, n.sender]]

Rejected(e) == e.c.st \in Rejects

\* One stage: the lists of Lists[stage], entered with defer_if_permit = permit.
Stage(e, stage, permit) ==
  {Weigh(e, GenericChecks(CheckReset(permit, e.c.discard, e.c.sender), l), l)
     : l \in Lists[stage]}

\* The next stage, for the evaluations that were not rejected.
Then(E, Next(_)) == UNION {IF Rejected(e) THEN {e} ELSE Next(e) : e \in E}

Fresh(sender) == [c |-> CheckReset(FALSE, tr.discard, sender), flag |-> flag,
                  acc |-> TRUE, rej |-> FALSE]

\* reject_unlisted_sender and _recipient, where they still have to be applied:
\* an unknown address, or a lookup error.
Unlisted(e) ==
  IF e.c.discard THEN {e}
  ELSE {e} \cup {[e EXCEPT !.c = Restriction([e.c EXCEPT !.st = "dunno"], k),
                           !.acc = FALSE, !.rej = TRUE] : k \in {"rej5", "err"}}

\* smtpd_check_client
CheckClient(e) ==
  {[x EXCEPT !.flag.client = x.c.permit] : x \in Stage(e, "client", FALSE)}

\* smtpd_check_helo, for a client that gave a name
CheckHelo(e) ==
  {[x EXCEPT !.flag.helo = x.c.permit] : x \in Stage(e, "helo", e.flag.client)}

\* Mutant of CheckMail: only the HELO stage is taken into account.
CheckMail_HeloOnly(e) ==
  Then({[x EXCEPT !.flag.mail = x.c.permit] : x \in Stage(e, "mail", e.flag.helo)}, Unlisted)

\* smtpd_check_mail.  The client may have skipped HELO.
CheckMail(e) ==
  Then({[x EXCEPT !.flag.mail = x.c.permit]
          : x \in Stage(e, "mail", e.flag.client \/ e.flag.helo)}, Unlisted)

\* The two lists of smtpd_check_rcpt share one reset: a permit in the first
\* does not skip the second, and defer_if_reject carries over.
RecipientLists(e) ==
  LET First == Stage(e, "rcpt", e.flag.mail)
      Relay(x) == {Weigh(x, GenericChecks(x.c, l), l) : l \in Lists["relay"]}
  IN Then(First, Relay)

\* smtpd_check_rcpt: the delayed stages first; then the recipient stage, the
\* deferral of a permission in doubt, and the recipient tables.
CheckRcpt(sender) ==
  LET Helo(e) == IF ses.helo THEN CheckHelo(e) ELSE {e}
      Mail(e) == IF sender THEN CheckMail(e) ELSE {e}
      Early == IF cf.delay THEN Then(Then(CheckClient(Fresh(sender)), Helo), Mail)
                           ELSE {Fresh(sender)}
      Defer(e) == {[e EXCEPT !.c = Deferral(e.c)]}
  IN Then(Then(Then(Early, RecipientLists), Defer), Unlisted)

\* smtpd_check_data and smtpd_check_eod
CheckContent(stage) ==
  {[e EXCEPT !.c = Deferral(e.c)] : e \in Stage(Fresh(TRUE), stage, FALSE)}

\* smtpd_check_etrn
CheckEtrn ==
  LET Helo(e) == IF ses.helo THEN CheckHelo(e) ELSE {e}
      Early == IF cf.delay THEN Then(CheckClient(Fresh(FALSE)), Helo) ELSE {Fresh(FALSE)}
      List(e) == {[x EXCEPT !.c = Deferral(x.c)]
                    : x \in Stage(e, "etrn", e.flag.client \/ e.flag.helo)}
  IN Then(Early, List)

-----------------------------------------------------------------------------
(***************************************************************************)
(* The command loop                                                        *)
(***************************************************************************)

\* smtpd_proto reads the next command.
Ready == at = "cmd" /\ ~ses.hangup /\ ses.errors < HardErrorLimit

Serves(cmd) ==
  /\ Ready
  /\ ses.denied = "no"
  /\ cf.tls /\ ~ses.tls => cmd \in PreTlsCmds

\* Mutant of Account: RSET is not a junk command.
Account_FreeRset(s, cmd, ok) ==
  LET junk == cmd \in LimitCmds \ {"RSET"}
  IN [s EXCEPT !.errors = @ + (IF ok THEN 0 ELSE 1)
                            + (IF junk /\ s.junk > JunkLimit THEN 1 ELSE 0),
               !.junk = @ + (IF junk THEN 1 ELSE 0)]

\* What smtpd_proto counts after a command.
Account(s, cmd, ok) ==
  LET junk == cmd \in LimitCmds
  IN [s EXCEPT !.errors = @ + (IF ok THEN 0 ELSE 1)
                            + (IF junk /\ s.junk > JunkLimit THEN 1 ELSE 0),
               !.junk = @ + (IF junk THEN 1 ELSE 0)]

\* vsmtpd_chat_reply: a reply x21 ends the session.
Say(to, code) ==
  reply' = [to |-> to, code |-> code, by |-> "other", acc |-> TRUE, rej |-> FALSE,
            queued |-> NotQueued, view |-> NoView]

\* The reply to a check with outcome e; a message that is discarded anyway is
\* not held to the reference.
SayChecked(to, code, e) ==
  reply' = [to |-> to, code |-> code, by |-> "check", acc |-> e.acc,
            rej |-> e.rej /\ ~e.c.discard, queued |-> NotQueued, view |-> NoView]

Served(s, cmd, ok, code) ==
  ses' = [Account(s, cmd, ok) EXCEPT !.hangup = code = "21"]

\* A command that is refused and changes nothing else.
Refuse(cmd, code) ==
  /\ Say(cmd, code)
  /\ Served(ses, cmd, FALSE, code)
  /\ UNCHANGED <<cf, at, tr, stream, flag, view, doubt>>

\* check_milter_reply: "c" continues, "D" discards, "21" ends the session.
\* Once a message is marked DISCARD, no Milter sees it.
MilterReplies(dflag) == IF cf.milters /\ ~dflag THEN {"c", "D", "4", "5", "21"} ELSE {"c"}

\* mail_reset; rcpt_reset clears the recipient count, and not every caller of
\* mail_reset calls it.
MailReset == [NoTrans EXCEPT !.rcpts = tr.rcpts, !.over = tr.over]

\* What the checks of e leave in the transaction: a DISCARD stays, whatever the
\* reply is.
Marked(t, e) == [t EXCEPT !.discard = e.c.discard, !.dflag = @ \/ e.c.discard]

\* The client's view of a transaction that becomes t: a DISCARD that is new was
\* asked for in this transaction.
Seen(t) == [view EXCEPT !.discard = @ \/ (t.dflag /\ ~tr.dflag)]

\* Milter "D" sets the DISCARD flag for whatever message follows.
MilterMark(m) ==
  /\ tr' = [tr EXCEPT !.dflag = @ \/ m = "D"]
  /\ view' = Seen(tr')

\* The end of smtpd_proto: everything the client gave is dropped.  A stream
\* that is not finished makes cleanup(8) delete its file.
Over ==
  /\ at' = "end"
  /\ ses' = [ses EXCEPT !.helo = FALSE, !.tls = FALSE, !.errors = 0, !.junk = 0,
                        !.denied = "no", !.hangup = FALSE]
  /\ tr' = NoTrans
  /\ stream' = NoStream
  /\ flag' = NoDoubt
  /\ view' = NoView
  /\ doubt' = NoDoubt
  /\ UNCHANGED cf

-----------------------------------------------------------------------------
(***************************************************************************)
(* Commands outside a transaction                                          *)
(***************************************************************************)

\* The start of smtpd_proto: connection limits, client restrictions unless
\* they are delayed, the Milter CONNECT event, the greeting.
Connect ==
  /\ at = "connect"
  /\ at' = "cmd"
  /\ \E e \in (IF cf.delay THEN {Fresh(FALSE)} ELSE CheckClient(Fresh(FALSE))) :
       /\ flag' = e.flag
       /\ doubt' = [doubt EXCEPT !.client = ~cf.delay /\ e.rej]
       /\ \/ /\ Rejected(e)
             /\ SayChecked("CONNECT", e.c.st, e)
             /\ ses' = [ses EXCEPT !.denied = "yes", !.errors = 1]
             /\ UNCHANGED <<tr, view>>
          \/ /\ ~Rejected(e)
             /\ \E m \in MilterReplies(FALSE) :
                  /\ Say("CONNECT", IF m \in {"5", "21"} THEN m ELSE "2")
                  /\ ses' = [ses EXCEPT !.errors = IF m = "5" THEN 1 ELSE 0,
                                        !.hangup = m = "21"]
                  /\ MilterMark(m)
  /\ UNCHANGED <<cf, stream>>

TooManyConnections == at = "connect" /\ Say("CONNECT", "21") /\ Over

\* HELO and EHLO: a refused name leaves the earlier one in place, but not its
\* saved flag; in a transaction that is discarded the checks are skipped.  In
\* both cases no doubt about the name is on record.  A Milter can only hang up.
Helo ==
  /\ Serves("HELO")
  /\ \/ Refuse("HELO", "5")
     \/ \E e \in (IF cf.delay THEN {Fresh(FALSE)} ELSE CheckHelo(Fresh(FALSE))) :
          /\ flag' = e.flag
          /\ \/ /\ Rejected(e)
                /\ SayChecked("HELO", e.c.st, e)
                /\ Served(ses, "HELO", FALSE, e.c.st)
                /\ doubt' = [doubt EXCEPT !.helo = FALSE]
                /\ UNCHANGED <<tr, stream, view>>
             \/ /\ ~Rejected(e)
                /\ "21" \in MilterReplies(tr.dflag)
                /\ Say("HELO", "21")
                /\ Served(ses, "HELO", FALSE, "21")
                /\ UNCHANGED <<tr, stream, view, doubt>>
             \/ /\ ~Rejected(e)
                /\ Say("HELO", "2")
                /\ Served([ses EXCEPT !.helo = TRUE], "HELO", TRUE, "2")
                /\ tr' = NoTrans
                /\ stream' = NoStream
                /\ view' = NoView
                /\ doubt' = [doubt EXCEPT !.helo = ~cf.delay /\ e.rej /\ ~tr.discard,
                                          !.mail = FALSE]
          /\ UNCHANGED <<cf, at>>

Starttls ==
  /\ Serves("STARTTLS")
  /\ \/ \E code \in Rejects : Refuse("STARTTLS", code)
     \/ /\ ~ses.tls
        /\ Say("STARTTLS", "2")
        /\ Served([ses EXCEPT !.tls = TRUE, !.helo = FALSE], "STARTTLS", TRUE, "2")
        /\ tr' = NoTrans
        /\ stream' = NoStream
        /\ view' = NoView
        /\ doubt' = [doubt EXCEPT !.helo = FALSE, !.mail = FALSE]
        /\ UNCHANGED <<cf, at, flag>>

Rset ==
  /\ Serves("RSET")
  /\ \/ Refuse("RSET", "5")
     \/ /\ Say("RSET", "2")
        /\ Served(ses, "RSET", TRUE, "2")
        /\ tr' = NoTrans
        /\ stream' = NoStream
        /\ view' = NoView
        /\ doubt' = [doubt EXCEPT !.mail = FALSE]
        /\ UNCHANGED <<cf, at, flag>>

Noop ==
  /\ Serves("NOOP")
  /\ Say("NOOP", "2")
  /\ Served(ses, "NOOP", TRUE, "2")
  /\ UNCHANGED <<cf, at, tr, stream, flag, view, doubt>>

\* VRFY runs the recipient checks, in or outside a transaction.  With
\* strict_smtputf8 it may drop the transaction.
Vrfy ==
  /\ Serves("VRFY")
  /\ \/ \E code \in Rejects : Refuse("VRFY", code)
     \/ /\ cf.strict
        /\ Say("VRFY", "5")
        /\ Served(ses, "VRFY", FALSE, "5")
        /\ tr' = MailReset
        /\ stream' = NoStream
        /\ view' = [view EXCEPT !.discard = FALSE]
        /\ doubt' = [doubt EXCEPT !.mail = FALSE]
        /\ UNCHANGED <<cf, at, flag>>
     \/ \E e \in CheckRcpt(tr.sender # NoAddr) :
          /\ flag' = e.flag
          /\ tr' = Marked(tr, e)
          /\ view' = Seen(tr')
          /\ IF Rejected(e) THEN SayChecked("VRFY", e.c.st, e) ELSE Say("VRFY", "2")
          /\ Served(ses, "VRFY", ~Rejected(e), "2")
          /\ UNCHANGED <<cf, at, stream, doubt>>

Etrn ==
  /\ Serves("ETRN")
  /\ \/ \E code \in Rejects : Refuse("ETRN", code)
     \/ /\ tr.sender = NoAddr
        /\ cf.helo => ses.helo
        /\ \E e \in CheckEtrn :
             /\ flag' = e.flag
             /\ \/ /\ Rejected(e)
                   /\ SayChecked("ETRN", e.c.st, e)
                   /\ Served(ses, "ETRN", FALSE, e.c.st)
                \/ /\ ~Rejected(e)
                   /\ \E code \in {"2", "4"} :
                        /\ Say("ETRN", code)
                        /\ Served(ses, "ETRN", code = "2", code)
        /\ UNCHANGED <<cf, at, tr, stream, view, doubt>>

\* A line that is no SMTP command, an unknown command (with the Milter UNKNOWN
\* event), or one of smtpd_noop_commands.
OtherInput ==
  /\ Ready
  /\ \/ Refuse("other", "5")
     \/ /\ ses.denied = "no"
        /\ \E m \in MilterReplies(FALSE) :
             LET code == IF m \in {"4", "21"} THEN m ELSE "5"
             IN /\ Say("other", code)
                /\ Served(ses, "other", FALSE, code)
                /\ MilterMark(m)
        /\ UNCHANGED <<cf, at, stream, flag, doubt>>
     \/ /\ Say("other", "2")
        /\ Served(ses, "NOOP", TRUE, "2")
        /\ UNCHANGED <<cf, at, tr, stream, flag, view, doubt>>

\* state->access_denied: a client or cleanup(8) failure refused the session.
Denied ==
  /\ Ready
  /\ ses.denied # "no"
  /\ \/ /\ ses.denied = "21"
        /\ Say("other", "21")
        /\ ses' = [ses EXCEPT !.hangup = TRUE]
        /\ UNCHANGED <<cf, at, tr, stream, flag, view, doubt>>
     \/ /\ ses.denied = "yes"
        /\ Refuse("other", "5")

\* smtpd_enforce_tls: most commands have to wait for STARTTLS.
TlsFirst == Ready /\ ses.denied = "no" /\ cf.tls /\ ~ses.tls /\ Refuse("other", "5")

\* QUIT, or a forbidden command (221).
Quit == Ready /\ Say("QUIT", "2") /\ Over

\* SMTPD_FLAG_HANGUP, or too many errors.
Hangup ==
  /\ at = "cmd"
  /\ ses.hangup \/ ses.errors >= HardErrorLimit
  /\ Say("QUIT", "21")
  /\ Over

\* Timeout, lost connection, a lookup error that ends the session, a failed TLS
\* handshake, or the death of the process.
Lost == at # "end" /\ Say("none", "0") /\ Over

\* single_server_accept: the process serves another client.
NextClient ==
  /\ at = "end"
  /\ at' = "connect"
  /\ Say("none", "0")
  /\ UNCHANGED <<cf, ses, tr, stream, flag, view, doubt>>

-----------------------------------------------------------------------------
(***************************************************************************)
(* The mail transaction                                                    *)
(***************************************************************************)

\* mail_open_stream: the sender goes to cleanup(8) when the stream is opened.
OpenStream(s) ==
  IF stream.open THEN stream ELSE [open |-> TRUE, from |-> s, rcpts |-> <<>>]

\* mail_cmd refuses after a check: mail_reset undoes what access maps did.
MailRefused(code) ==
  /\ Served(ses, "MAIL", FALSE, code)
  /\ tr' = MailReset
  /\ stream' = NoStream
  /\ view' = NoView
  /\ UNCHANGED doubt

\* No more early returns: the transaction is in progress.
MailStarts(s, e, discard) ==
  /\ Say("MAIL", "2")
  /\ Served(ses, "MAIL", TRUE, "2")
  /\ tr' = [Marked(tr, e) EXCEPT !.sender = s, !.dflag = @ \/ discard]
  /\ stream' = IF cf.early THEN OpenStream(s) ELSE stream
  /\ view' = [NoView EXCEPT !.sender = s, !.discard = Seen(tr').discard]
  /\ doubt' = [doubt EXCEPT !.mail = ~cf.delay /\ e.rej]

\* The 553 of strict_smtputf8 returns without mail_reset.
MailNotAscii(e, discard) ==
  /\ Say("MAIL", "5")
  /\ Served(ses, "MAIL", FALSE, "5")
  /\ tr' = [Marked(tr, e) EXCEPT !.dflag = @ \/ discard]
  /\ UNCHANGED <<stream, view, doubt>>

Mail(s) ==
  LET early == (cf.helo /\ ~ses.helo) \/ tr.sender # NoAddr \/ tr.bdat # "none"
  IN /\ Serves("MAIL")
     /\ \/ early /\ Refuse("MAIL", "5")
        \/ ~early /\ \E code \in Rejects : Refuse("MAIL", code)
        \/ /\ ~early
           /\ \E e \in (IF cf.delay THEN {Fresh(TRUE)} ELSE CheckMail(Fresh(TRUE))) :
                /\ flag' = e.flag
                /\ \/ Rejected(e) /\ SayChecked("MAIL", e.c.st, e) /\ MailRefused(e.c.st)
                   \/ /\ ~Rejected(e)
                      /\ \E m \in MilterReplies(tr.dflag \/ e.c.discard) :
                           \/ m \notin {"c", "D"} /\ Say("MAIL", m) /\ MailRefused(m)
                           \/ m \in {"c", "D"} /\ Say("MAIL", "4") /\ MailRefused("4")
                           \/ m \in {"c", "D"} /\ cf.strict /\ MailNotAscii(e, m = "D")
                           \/ m \in {"c", "D"} /\ MailStarts(s, e, m = "D")
                /\ UNCHANGED <<cf, at>>

\* The recipient is written to cleanup(8), over a stream opened now unless it
\* was opened for the sender.
RcptStored(r, e, discard) ==
  /\ SayChecked("RCPT", "2", e)
  /\ Served(ses, "RCPT", TRUE, "2")
  /\ tr' = [Marked(tr, e) EXCEPT !.rcpts = @ + 1, !.dflag = @ \/ discard]
  /\ stream' = [OpenStream(tr.sender) EXCEPT !.rcpts = Append(@, r)]
  /\ view' = [Seen(tr') EXCEPT !.rcpts = Append(@, r)]

RcptRefused(e) ==
  /\ tr' = Marked(tr, e)
  /\ view' = Seen(tr')
  /\ UNCHANGED stream

\* Too many recipients: the first ones are not held against the client.
RcptOverLimit ==
  /\ tr.rcpts >= RcptLimit
  /\ Say("RCPT", "4")
  /\ Served(ses, "RCPT", tr.over < OverLimit, "4")
  /\ tr' = [tr EXCEPT !.over = @ + 1]
  /\ UNCHANGED <<cf, at, stream, flag, view, doubt>>

\* The stages that earlier commands passed count for this recipient.
Carried(e) == [e EXCEPT !.rej = @ \/ (~cf.delay /\ (doubt.client \/ doubt.helo \/ doubt.mail))]

Rcpt(r) ==
  LET early == tr.sender = NoAddr \/ tr.bdat # "none"
  IN /\ Serves("RCPT")
     /\ \/ early /\ Refuse("RCPT", "5")
        \/ ~early /\ \E code \in Rejects : Refuse("RCPT", code)
        \/ ~early /\ RcptOverLimit
        \/ /\ ~early
           /\ tr.rcpts < RcptLimit
           /\ \E e \in (IF r = Postmaster THEN {Fresh(TRUE)}
                        ELSE {Carried(x) : x \in CheckRcpt(TRUE)}) :
                /\ flag' = e.flag
                /\ \/ /\ Rejected(e)
                      /\ SayChecked("RCPT", e.c.st, e)
                      /\ Served(ses, "RCPT", FALSE, e.c.st)
                      /\ RcptRefused(e)
                   \/ /\ ~Rejected(e)
                      /\ \E m \in MilterReplies(tr.dflag \/ e.c.discard) :
                           \/ /\ m \notin {"c", "D"}
                              /\ Say("RCPT", m)
                              /\ Served(ses, "RCPT", FALSE, m)
                              /\ RcptRefused(e)
                           \/ m \in {"c", "D"} /\ RcptStored(r, e, m = "D")
                /\ UNCHANGED <<cf, at, doubt>>

-----------------------------------------------------------------------------
(***************************************************************************)
(* Message content                                                         *)
(***************************************************************************)

\* DATA up to the 354 reply.  Without an open stream the envelope records go
\* nowhere: the process dies (see Lost).
Data ==
  LET early == tr.bdat # "none" \/ tr.rcpts = 0
  IN /\ Serves("DATA")
     /\ \/ Refuse("DATA", "5")
        \/ /\ ~early
           /\ \E e \in CheckContent("data") :
                \/ /\ Rejected(e)
                   /\ SayChecked("DATA", e.c.st, e)
                   /\ Served(ses, "DATA", FALSE, e.c.st)
                   /\ RcptRefused(e)
                   /\ UNCHANGED at
                \/ /\ ~Rejected(e)
                   /\ \E m \in MilterReplies(tr.dflag \/ e.c.discard) :
                        \/ /\ m \notin {"c", "D"}
                           /\ Say("DATA", m)
                           /\ Served(ses, "DATA", FALSE, m)
                           /\ RcptRefused(e)
                           /\ UNCHANGED at
                        \/ /\ m \in {"c", "D"}
                           /\ stream.open
                           /\ SayChecked("DATA", "3", e)
                           /\ at' = "content"
                           /\ tr' = [Marked(tr, e) EXCEPT !.dflag = @ \/ m = "D"]
                           /\ view' = Seen(tr')
                           /\ UNCHANGED <<ses, stream>>
           /\ UNCHANGED <<cf, flag, doubt>>

\* The answers of cleanup(8) to a complete message: external, with its reply
\* code.  "late" is a file that was committed although its status was lost.
\* It refuses a message without recipients.
CleanupAnswers ==
  {<<"refused", "4">>, <<"refused", "5">>, <<"lost", "4">>}
    \cup (IF stream.rcpts = <<>> THEN {} ELSE {<<"ok", "2">>, <<"late", "4">>})

Queued(fate, t) ==
  IF fate \in {"ok", "late"}
  THEN [fate |-> IF t.dflag THEN "discarded" ELSE "queued", from |-> stream.from,
        rcpts |-> stream.rcpts, size |-> t.size]
  ELSE NotQueued

\* The common end of common_post_message_handling: reply, count, reset.  t is
\* the transaction at this point, after the one that follows.
Settle(cmd, t, fate, code, e, after) ==
  /\ reply' = [to |-> "EOD", code |-> code, by |-> "other", acc |-> e.acc,
               rej |-> e.rej /\ ~e.c.discard, queued |-> Queued(fate, t),
               view |-> Seen(t)]
  /\ LET s == [ses EXCEPT !.errors = IF code = "2" THEN 0 ELSE @,
                          !.junk = IF code = "2" THEN 0 ELSE @,
                          !.denied = IF cf.milters /\ fate \in {"lost", "late"}
                                     THEN "21" ELSE @]
     IN Served(s, cmd, code = "2", code)
  /\ tr' = after
  /\ stream' = NoStream
  /\ view' = NoView
  /\ doubt' = [doubt EXCEPT !.mail = FALSE]

\* smtpd_check_eod rejects: the stream is closed, the transaction is not reset.
EodRejected(cmd, t, e) ==
  /\ SayChecked("EOD", e.c.st, e)
  /\ Served(ses, cmd, FALSE, e.c.st)
  /\ tr' = Marked(t, e)
  /\ stream' = NoStream
  /\ view' = [Seen(tr') EXCEPT !.rcpts = <<>>]
  /\ UNCHANGED doubt

\* common_post_message_handling, for content that was received in full...
PostComplete(cmd, t) ==
  \E e \in CheckContent("eod") :
    \/ Rejected(e) /\ EodRejected(cmd, t, e)
    \/ /\ ~Rejected(e)
       /\ \E f \in CleanupAnswers : Settle(cmd, Marked(t, e), f[1], f[2], e, NoTrans)

\* ... and after an error: too much content, or cleanup(8) is gone.
PostError(cmd, t, err, after) ==
  \/ err = "size" /\ Settle(cmd, t, "refused", "5", Fresh(TRUE), after)
  \/ err = "write" /\ Settle(cmd, t, "lost", "4", Fresh(TRUE), after)

\* How the content was received, when n more units make act_size.
Received(n) == IF tr.size + n > SizeLimit THEN {"size"} ELSE {"ok", "write"}

\* The content after 354, up to the lone dot.
EndOfData ==
  /\ at = "content"
  /\ at' = "cmd"
  /\ \E n \in 0..(SizeLimit + 1) : \E err \in Received(n) :
       LET t == [tr EXCEPT !.size = @ + n]
       IN (err = "ok" /\ PostComplete("DATA", t)) \/ PostError("DATA", t, err, NoTrans)
  /\ UNCHANGED <<cf, flag>>

\* Mutant of SkipBdat: chunks after an error are taken as a new message.
SkipBdat_Forget(last, t) ==
  /\ Served(ses, "BDAT", FALSE, reply'.code)
  /\ tr' = IF last THEN MailReset ELSE t
  /\ stream' = IF last THEN NoStream ELSE stream
  /\ view' = IF last THEN NoView ELSE [Seen(tr') EXCEPT !.gap = TRUE]
  /\ doubt' = [doubt EXCEPT !.mail = ~last /\ @]

\* skip_bdat: the chunk is read and dropped.  The last one ends the
\* transaction, but keeps rcpt_count.
SkipBdat(last, t) ==
  /\ Served(ses, "BDAT", FALSE, reply'.code)
  /\ tr' = IF last THEN MailReset ELSE [t EXCEPT !.bdat = "error"]
  /\ stream' = IF last THEN NoStream ELSE stream
  /\ view' = IF last THEN NoView ELSE [Seen(tr') EXCEPT !.gap = TRUE]
  /\ doubt' = [doubt EXCEPT !.mail = ~last /\ @]

\* A chunk of n units that is accepted; a bare newline counts for two bytes.  A
\* line that spans chunks is counted in the first of them.
\* Without an open stream the process dies (see Lost).
Chunk(n, last, t) ==
  /\ stream.open
  /\ \E m \in (IF n = 0 THEN {0} ELSE {n, n + 1}) : \E err \in Received(m) :
       LET u == [t EXCEPT !.bdat = "ok", !.size = @ + m]
       IN \/ last /\ err = "ok" /\ PostComplete("BDAT", u)
          \/ PostError("BDAT", u, err,
                       [NoTrans EXCEPT !.bdat = IF last THEN "none" ELSE "error"])
          \/ /\ ~last /\ err = "ok"
             /\ Say("BDAT", "2")
             /\ Served(ses, "BDAT", TRUE, "2")
             /\ tr' = u
             /\ view' = Seen(u)
             /\ UNCHANGED <<stream, doubt>>

\* The size check of bdat_cmd, then the chunk.
Sized(n, last, t) ==
  \/ /\ tr.size + n > SizeLimit
     /\ Say("BDAT", "5")
     /\ SkipBdat(last, t)
  \/ tr.size + n <= SizeLimit /\ Chunk(n, last, t)

\* The first chunk of a message stands for DATA in the checks.
FirstChunk(n, last) ==
  \E e \in CheckContent("data") :
    \/ /\ Rejected(e)
       /\ SayChecked("BDAT", e.c.st, e)
       /\ SkipBdat(last, Marked(tr, e))
    \/ /\ ~Rejected(e)
       /\ \E m \in MilterReplies(tr.dflag \/ e.c.discard) :
            \/ m \notin {"c", "D"} /\ Say("BDAT", m) /\ SkipBdat(last, Marked(tr, e))
            \/ m \in {"c", "D"} /\ Sized(n, last, [Marked(tr, e) EXCEPT !.dflag = @ \/ m = "D"])

Bdat(n, last) ==
  LET void == (n = 0 /\ ~last) \/ tr.bdat = "error" \/ (tr.bdat = "none" /\ tr.rcpts = 0)
  IN /\ Serves("BDAT")
     /\ \/ Refuse("BDAT", "21")
        \/ /\ void
           /\ Say("BDAT", "5")
           /\ SkipBdat(last, tr)
           /\ UNCHANGED <<cf, at, flag>>
        \/ /\ ~void /\ tr.bdat = "none"
           /\ FirstChunk(n, last)
           /\ UNCHANGED <<cf, at, flag>>
        \/ /\ ~void /\ tr.bdat = "ok"
           /\ Sized(n, last, tr)
           /\ UNCHANGED <<cf, at, flag>>

-----------------------------------------------------------------------------
\* A step of the session, other than its loss.
Step ==
  \/ Connect \/ TooManyConnections \/ Helo \/ Starttls \/ Rset \/ Noop \/ Vrfy \/ Etrn
  \/ OtherInput \/ Denied \/ TlsFirst \/ Quit \/ Hangup \/ NextClient
  \/ \E s \in Senders : Mail(s)
  \/ \E r \in Rcpts : Rcpt(r)
  \/ Data \/ EndOfData
  \/ \E n \in 0..1, last \in BOOLEAN : Bdat(n, last)

Next == Step \/ Lost

Spec == Init /\ [][Next]_vars

\* smtpd(8) reads with a time limit: a session whose client is silent is lost,
\* so that there is always another step.
FairSpec == Spec /\ []<><<TRUE>>_vars

-----------------------------------------------------------------------------
\* What is acknowledged is what is queued.  A 250 to the end of a message means
\* that cleanup(8) has committed a file with the sender and exactly the
\* recipients that were acknowledged in this transaction, with all the chunks
\* that were sent and within the size limit over all of them; or that a check
\* or Milter in this transaction asked to discard it.  A message that is
\* refused for good is not queued.
MailAsAcknowledged ==
  LET q == reply.queued
      v == reply.view
  IN /\ reply.to = "EOD" /\ reply.code = "2" =>
          /\ q.fate = "queued" \/ (q.fate = "discarded" /\ v.discard)
          /\ q.from = v.sender /\ q.rcpts = v.rcpts /\ v.rcpts # <<>>
          /\ q.size <= SizeLimit /\ ~v.gap
     /\ q.fate # "none" => reply.to = "EOD" /\ reply.code # "5"

\* A temporary error never decides.  A recipient or message that is let in is
\* let in however the checks that met a temporary error, now or in an earlier
\* stage, would have turned out; one that the checks refuse for good is
\* refused however they would have turned out.
ErrorsDoNotDecide ==
  /\ reply.code \in {"2", "3"} /\ reply.to \in {"RCPT", "DATA", "EOD"} => ~reply.rej
  /\ reply.code = "5" /\ reply.by = "check" => ~reply.acc

\* The session ends or mail arrives: a client that keeps sending commands is
\* disconnected unless a message of it is accepted, because every command
\* either advances a transaction or is counted.
SessionEnds == at = "cmd" ~> (at = "end" \/ (reply.to = "EOD" /\ reply.code = "2"))
=============================================================================
