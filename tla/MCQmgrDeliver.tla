--------------------------- MODULE MCQmgrDeliver ---------------------------
(* Small instances of QmgrDeliver for TLC. *)
EXTENDS QmgrDeliver, TLC

\* Feedback 1 per delivery, and 1/concurrency.
Fb1 == [base |-> Unit, by_window |-> FALSE]
FbWin == [base |-> Unit, by_window |-> TRUE]

Plain(limit, init) ==
    [limit |-> limit, init |-> init, rate_delay |-> FALSE,
     xport_rate_delay |-> FALSE, cohort_limit |-> 1, pos |-> Fb1, neg |-> Fb1]

\* smtp with window 1..2 and feedback 1/concurrency; retry(8) delivers one
\* at a time.
ConfigPlain == "smtp" :> [Plain(2, 2) EXCEPT !.pos = FbWin, !.neg = FbWin] @@ "retry" :> Plain(1, 1)

\* Both rate delays on smtp, none on retry(8).
ConfigRate ==
    "smtp" :> [Plain(2, 2) EXCEPT !.rate_delay = TRUE, !.xport_rate_delay = TRUE]
    @@ "retry" :> Plain(2, 2)

Symmetry == Permutations(Entries)
=============================================================================
