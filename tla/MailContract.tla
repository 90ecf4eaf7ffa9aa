---------------------------- MODULE MailContract ----------------------------
(***************************************************************************)
(* What the mail system promises about one message that it accepted, for   *)
(* whoever does not look inside: it owes every recipient a delivery or the *)
(* sender a report.  The debt only shrinks, the queue file is removed only *)
(* when nothing is owed, and a file that is set aside for the postmaster   *)
(* stays there.                                                            *)
(***************************************************************************)

VARIABLES
    addressees,  \* the recipients of the message
    owed,        \* recipients without delivery, report or bounce log record
    fate         \* "queued", "removed" or "aside"

vars == <<addressees, owed, fate>>

Init ==
    /\ owed = addressees
    /\ fate = "queued"

\* Some recipients get the message, or their failure is recorded.
Settle ==
    /\ fate = "queued"
    /\ owed' \subseteq owed
    /\ UNCHANGED <<addressees, fate>>

\* The queue file is removed.
Remove ==
    /\ fate = "queued"
    /\ owed = {}
    /\ fate' = "removed"
    /\ UNCHANGED <<addressees, owed>>

\* The queue file is corrupt, and kept where nobody will deliver it.
SetAside ==
    /\ fate = "queued"
    /\ fate' = "aside"
    /\ UNCHANGED <<addressees, owed>>

Next == Settle \/ Remove \/ SetAside

Spec == Init /\ [][Next]_vars

=============================================================================
