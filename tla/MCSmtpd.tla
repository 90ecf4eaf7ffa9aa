------------------------------ MODULE MCSmtpd ------------------------------
(***************************************************************************)
(* Instance of Smtpd for TLC: one sender and two recipients, one of them   *)
(* postmaster, and per stage the lists that tell the verdicts apart.       *)
(***************************************************************************)
EXTENDS Smtpd

R(k) == [k |-> k, list |-> <<>>]
Class(l) == [k |-> "class", list |-> l]
Pass == <<R("dunno")>>
InDoubt == <<R("maybe_rej")>>

StageLists ==
  [client |-> {Pass, InDoubt, <<R("rej5")>>},
   helo   |-> {Pass, <<R("maybe_rej"), R("ok")>>, <<R("maybe_ok"), R("rej5")>>},
   mail   |-> {Pass, InDoubt, <<R("discard")>>, <<R("rej4")>>},
   rcpt   |-> {Pass, <<R("maybe_ok")>>, <<R("maybe_rej"), R("rej5")>>, <<R("rej5")>>,
               <<R("warn"), Class(<<R("rej5"), R("maybe_rej")>>), R("ok")>>},
   relay  |-> {Pass, <<R("maybe_ok"), R("rej5")>>, <<R("rej5")>>},
   data   |-> {Pass, InDoubt},
   eod    |-> {Pass, <<R("maybe_ok"), R("rej5")>>},
   etrn   |-> {Pass, <<R("err")>>}]

\* strict is combined with neither immediate sender checks nor Milters: the 553
\* of MailNotAscii then keeps a DISCARD for the next message, and
\* MailAsAcknowledged does not hold (see README.md).
SessionConfigs ==
  {[delay |-> TRUE, early |-> FALSE, milters |-> FALSE, strict |-> TRUE, helo |-> FALSE,
    tls |-> FALSE],
   [delay |-> FALSE, early |-> TRUE, milters |-> FALSE, strict |-> FALSE, helo |-> TRUE,
    tls |-> FALSE],
   [delay |-> TRUE, early |-> FALSE, milters |-> TRUE, strict |-> FALSE, helo |-> FALSE,
    tls |-> TRUE]}
=============================================================================
