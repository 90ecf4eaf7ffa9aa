------------------------------ MODULE MCMaster ------------------------------
(* Small instances of Master for TLC. *)
EXTENDS Master, TLC

Conf(max, wake) == [max_proc |-> max, wakeup_time |-> wake, condwake |-> wake, stress |-> FALSE]

\* An Internet service with at most two servers; a second one with one server and a
\* conditional wakeup, which a reload may remove or bring back.
ConfigsTwo ==
    {"smtp" :> [Conf(2, FALSE) EXCEPT !.stress = TRUE] @@ "pickup" :> Conf(1, TRUE),
     "smtp" :> Conf(1, FALSE) @@ "pickup" :> NoConf}

\* One service that a reload lets grow or shrink.
ConfigsOne == {"smtp" :> Conf(2, FALSE), "smtp" :> Conf(1, FALSE)}

Symmetry == Permutations(Pids)
=============================================================================
