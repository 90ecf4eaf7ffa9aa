--------------------------- MODULE MCSmtpClient ---------------------------
(***************************************************************************)
(* Instances of SmtpClient for TLC.                                         *)
(***************************************************************************)
EXTENDS SmtpClient

CONSTANTS h1, h2, h3, h4, r1, r2

MCRcpts == <<r1, r2>>

At(x, p) == [addr |-> x, pref |-> p, v6 |-> FALSE]
Found(mx, resid, addrs) == [mx |-> mx, dns |-> "ok", resid |-> resid, best |-> 10,
                            addrs |-> addrs]
Failed(why) == [mx |-> TRUE, dns |-> why, resid |-> "none", best |-> 10,
                addrs |-> <<>>]

\* Two equal servers, while the address of a third was not found; a server
\* with a less preferred one; a server, then a fallback relay; one server;
\* this system itself, or less preferred than it; both address families.
TwoServers == << Found(TRUE, "hard", <<At(h1, 10), At(h2, 10)>>) >>
Fallback == << Found(TRUE, "none", <<At(h1, 10)>>), Found(FALSE, "none", <<At(h2, 0)>>) >>
OneServer == << Found(TRUE, "none", <<At(h1, 10)>>) >>
Loop == << Found(TRUE, "none", <<At(h3, 10), At(h1, 10)>>) >>
BackupSelf == << Found(TRUE, "none", <<At(h3, 20)>>), Found(FALSE, "none", <<At(h2, 0)>>) >>
Mixed == << Found(FALSE, "none", <<At(h1, 0), At(h2, 0), [At(h4, 0) EXCEPT !.v6 = TRUE]>>) >>

Base == [mxSess |-> 2, mxAddr |-> 5, lmtp |-> FALSE, softBounce |-> FALSE,
         relayhost |-> FALSE, bestMx |-> FALSE, skipQuit |-> FALSE, old |-> TRUE,
         starttls |-> {}, pipelining |-> {TRUE}, xforward |-> {},
         traces |-> {"mail"}, cacheFlags |-> {[load |-> TRUE, store |-> TRUE]},
         reuseLimit |-> 0, dests |-> {TwoServers}, cached |-> <<>>, maxFaults |-> 1]

\* A connection to the second of two servers is in the cache.
Reuse == [Base EXCEPT !.cached = <<h2>>, !.maxFaults = 0]
\* So is one to the fallback relay.
ReuseFallback == [Base EXCEPT !.cached = <<h2>>, !.dests = {Fallback},
                              !.skipQuit = TRUE, !.reuseLimit = 1, !.maxFaults = 0]
\* LMTP, with and without pipelining.
LmtpServer == [Base EXCEPT !.lmtp = TRUE, !.pipelining = BOOLEAN, !.softBounce = TRUE,
                           !.dests = {OneServer}, !.cached = <<h1>>]
\* Opportunistic TLS, with a retry in plaintext.
Tls == [Base EXCEPT !.starttls = BOOLEAN, !.dests = {OneServer}]
\* Address probes, and XFORWARD.
Probes == [Base EXCEPT !.traces = {"rcpt", "data"}, !.xforward = {"name", "proto"},
                       !.dests = {OneServer}]
\* Destinations that lead back to this system, do not exist, or have more
\* addresses than the limit.
Odd == [Base EXCEPT !.dests = {Loop, BackupSelf, <<Failed("hard")>>, <<Failed("soft")>>,
                               Mixed},
                    !.bestMx = TRUE, !.mxAddr = 2,
                    !.cacheFlags = {[load |-> FALSE, store |-> FALSE]}]

MCConfigs == { Base, Reuse, ReuseFallback, LmtpServer, Tls, Probes, Odd }

=============================================================================
