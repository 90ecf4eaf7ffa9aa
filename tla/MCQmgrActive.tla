---------------------------- MODULE MCQmgrActive ----------------------------
(***************************************************************************)
(* Small instances of QmgrActive.                                          *)
(***************************************************************************)
EXTENDS QmgrActive, TLC

Symmetry == Permutations(Agents) \union Permutations(Daemons)

\* Two recipients, processes that die, a queue manager restart.
Faults == [nrcpt |-> 2, rcptLimit |-> 2, ndaemons |-> 1, trace |-> FALSE,
           appendFails |-> FALSE, stragglers |-> FALSE, maxFaults |-> 1,
           maxCrashes |-> 1]

\* One recipient of a traced message, services that refuse a record, and
\* processes that go on after the queue manager gave up on them.
Services == [nrcpt |-> 1, rcptLimit |-> 1, ndaemons |-> 2, trace |-> TRUE,
             appendFails |-> TRUE, stragglers |-> TRUE, maxFaults |-> 1,
             maxCrashes |-> 1]

\* Two recipients in two batches and a queue manager restart.
Restart == [nrcpt |-> 2, rcptLimit |-> 1, ndaemons |-> 1, trace |-> FALSE,
            appendFails |-> FALSE, stragglers |-> FALSE, maxFaults |-> 1,
            maxCrashes |-> 1]

FaultConfigs == {Faults, Services}
RestartConfigs == {Restart}

=============================================================================
