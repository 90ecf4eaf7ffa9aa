-------------------------- MODULE QmgrActive_proof --------------------------
(***************************************************************************)
(* The invariant of QmgrActive, and the refinement: QmgrActive implements  *)
(* MailContract.                                                           *)
(***************************************************************************)
EXTENDS ActiveSteps_proof

-----------------------------------------------------------------------------
(* The invariant                                                             *)

\* The invariant holds initially, ...
LEMMA ActiveInit ==
    ASSUME Init PROVE ActiveInv
<1>1. cf \in Configs /\ cf \in ConfigType
  BY ActiveAssumption DEF Init
<1>2. NRcpt \in Nat \ {0} /\ 1 \in Rcpts /\ MaxFaults \in Nat /\ MaxCrashes \in Nat
      /\ TraceRequested \in BOOLEAN
  BY <1>1 DEF ConfigType, NRcpt, Rcpts, MaxFaults, MaxCrashes, TraceRequested
<1>3. TypeOK
  <2>1. file \in FileType /\ log \in LogType
    BY <1>2 DEF Init, FileType, LogType
  <2>2. msg \in MsgType
    BY DEF Init, NoMessage, MsgType, MsgStates
  <2>3. agent \in [Agents -> AgentType] /\ daemon \in [Daemons -> DaemonType]
    BY <1>2 DEF Init, IdleAgent, AgentType, AgentStates, IdleDaemon, DaemonType
  <2> QED BY <1>1, <1>2, <2>1, <2>2, <2>3 DEF Init, TypeOK
<1>4. AgentsInv /\ DaemonsInv
  BY DEF Init, AgentsInv, AgentInv, Asked, Writer, IdleAgent, DaemonsInv, DaemonInv, IdleDaemon
<1>5. MsgInv /\ CoverInv /\ EndInv
  BY DEF Init, NoMessage, MsgInv, CoverInv, EndInv, InHand, InCore
<1>6. NoSilentLoss
  BY DEF Init, NoSilentLoss
<1> QED BY <1>3, <1>4, <1>5, <1>6 DEF ActiveInv

\* ... and every step keeps it.
LEMMA ActiveStep ==
    ASSUME ActiveInv, Reliable, [Next]_vars PROVE ActiveInv'
<1>0. CASE UNCHANGED vars
  <2>1. UNCHANGED <<cf, file, log, msg, agent, daemon, age, faults, crashes, delivered, reported>>
    BY <1>0 DEF vars
  <2>2. TypeOK'
    BY <2>1, TypeFrom DEF ActiveInv, TypeOK
  <2> QED BY <2>1, <2>2 DEF ActiveInv, AgentsInv, AgentInv, Asked, Writer, Accounted, MsgInv, InCore,
    CoverInv, Covered, EndInv, AllLogged, DaemonsInv, DaemonInv, NoSilentLoss, Rcpts, NRcpt
<1>1. CASE Feed \/ FeedLocked \/ Done2Corrupt \/ Done3
  BY <1>1, QueueSteps
<1>2. CASE ReadStep
  BY <1>2, ReadSteps, Zenon DEF ReadStep
<1>3. CASE QmgrDeliver
  BY <1>3, SendRequestStep, DeliverUpdateStep, DeliverCrashStep, Zenon DEF QmgrDeliver
<1>4. ASSUME NEW S \in SUBSET Rcpts, NEW async \in BOOLEAN, NEW fails \in BOOLEAN,
             DestinationDies(S, async, fails)
      PROVE  ActiveInv'
  BY <1>4, DestinationDiesStep
<1>5. CASE DoneStep
  BY <1>1, <1>5, DoneSteps DEF DoneStep
<1>6. ASSUME NEW d \in Daemons, Answer(d) \/ AnswerTimeout(d) PROVE ActiveInv'
  BY <1>6, AnswerStep, ReliableFacts, ZenonT(30) DEF AnswerTimeout, ActiveInv
<1>7. CASE QmgrExit \/ QmgrStart
  BY <1>7, QmgrExitStep, QmgrStartStep
<1>8. ASSUME NEW a \in Agents, AgentWork(a) \/ AgentDies(a) PROVE ActiveInv'
  <2>1. ~AgentUntraced(a)
    BY ReliableFacts DEF AgentUntraced, ActiveInv
  <2> QED BY <1>8, <2>1, AgentOpenStep, AgentDeliverStep, AgentMarkStep, AgentBounceStep,
            AgentDeferStep, AgentCorruptStep, AgentEndStep DEF AgentWork
<1>9. ASSUME NEW d \in Daemons, DaemonWork(d) \/ DaemonDies(d) PROVE ActiveInv'
  BY <1>9, DaemonOpenStep, DaemonPostStep, DaemonCleanStep, DaemonEndSteps DEF DaemonWork
<1>10. CASE GrowOld
  <2>1. UNCHANGED <<cf, file, log, msg, agent, daemon, faults, crashes, delivered, reported>>
    BY <1>10 DEF GrowOld
  <2>2. TypeOK'
    BY <1>10, <2>1, TypeFrom DEF GrowOld, ActiveInv, TypeOK
  <2> QED BY <2>1, <2>2 DEF ActiveInv, AgentsInv, AgentInv, Asked, Writer, Accounted, MsgInv, InCore,
    CoverInv, Covered, EndInv, AllLogged, DaemonsInv, DaemonInv, NoSilentLoss, Rcpts, NRcpt
<1> QED BY <1>0, <1>1, <1>2, <1>3, <1>4, <1>5, <1>6, <1>7, <1>8, <1>9, <1>10, Zenon DEF Next

\* The inductive invariant holds for every number of recipients, batch size, set
\* of agents and daemons, and for any number of processes that die or restart.
THEOREM ActiveInvariant ==
    ASSUME Reliable PROVE Spec => []ActiveInv
<1>1. Init => ActiveInv
  BY ActiveInit
<1>2. ActiveInv /\ [Next]_vars => ActiveInv'
  BY ActiveStep
<1> QED BY <1>1, <1>2, PTL DEF Spec

\* NoSilentLoss and NothingForgotten: no recipient is skipped by
\* deliver_completed() or by the queue manager, wherever a process dies.
THEOREM NoLoss ==
    ASSUME Reliable PROVE Spec => [](NoSilentLoss /\ NothingForgotten)
<1>1. ActiveInv => NoSilentLoss /\ NothingForgotten
  BY DEF ActiveInv, NothingForgotten, CoverInv, Covered, InHand
<1> QED BY <1>1, ActiveInvariant, PTL

-----------------------------------------------------------------------------
(* The refinement                                                            *)

\* What a step never does: take back what a recipient or the sender has, or touch
\* a file that was disposed of.
Kept ==
    /\ \A r \in Rcpts : Accounted(r) => Accounted(r)'
    /\ file.dir \notin Live => UNCHANGED <<file, log, delivered, reported>>
    /\ file'.dir \notin Live => UNCHANGED <<log, delivered, reported>>

\* Steps that do not touch the records, and steps that only add to them.
LEMMA KeptSame ==
    ASSUME UNCHANGED <<log, delivered, reported>>, file' = file \/ file.dir \in Live
    PROVE  Kept
BY DEF Kept, Accounted

\* Steps that only add to the records.
LEMMA KeptGrows ==
    ASSUME file.dir \in Live, file'.dir \in Live, log.bounce \ log'.bounce \subseteq reported',
           reported \subseteq reported', \A r \in Rcpts : delivered[r] > 0 => delivered'[r] > 0
    PROVE  Kept
BY DEF Kept, Accounted

\* An agent that writes has a file to write to.
LEMMA WriterLive ==
    ASSUME ActiveInv, NEW a \in Agents, Writer(a) PROVE file.dir \in Live
BY AgentFacts DEF AgentInv, Asked, Writer, ActiveInv, MsgInv, InHand, Live

\* Agents only add to the records.
LEMMA KeptAgent ==
    ASSUME ActiveInv, Reliable, NEW a \in Agents, AgentWork(a) \/ AgentDies(a)
    PROVE  Kept
<1>1. CASE AgentOpen(a) \/ AgentClose(a) \/ AgentDies(a)
  BY <1>1, KeptSame DEF AgentOpen, AgentClose, AgentDies
<1>2. CASE ~(AgentOpen(a) \/ AgentClose(a) \/ AgentDies(a))
  <2>1. Writer(a) /\ ~AgentUntraced(a)
    BY <1>2, ReliableFacts DEF AgentWork, AgentDeliver, AgentSent, AgentBounce, AgentBounced,
      AgentDefer, AgentCorrupt, AgentUntraced, AgentStep, Writer, ActiveInv
  <2>2. file.dir \in Live /\ file'.dir = file.dir
    BY <1>2, <2>1, WriterLive, AgentFacts DEF AgentWork, AgentDeliver, AgentSent, AgentBounce,
      AgentBounced, AgentDefer, AgentCorrupt, Completed, FileType
  <2>3. reported' = reported
    BY <1>2, <2>1 DEF AgentWork, AgentDeliver, AgentSent, AgentBounce, AgentBounced, AgentDefer,
      AgentCorrupt
  <2>4. \A r \in Rcpts : delivered[r] > 0 => delivered'[r] > 0
    BY <1>2, <2>1, AgentFacts DEF AgentWork, AgentDeliver, AgentSent, AgentBounce, AgentBounced,
      AgentDefer, AgentCorrupt
  <2>5. log.bounce \subseteq log'.bounce
    BY <1>2, <2>1, AgentFacts, ZenonT(30) DEF AgentWork, AgentDeliver, AgentSent, AgentBounce, AgentBounced,
      AgentDefer, AgentCorrupt, Traced, Deferred, LogType
  <2> QED BY <2>2, <2>3, <2>4, <2>5, KeptGrows
<1> QED BY <1>1, <1>2

\* Daemons remove log records only after the notification.
LEMMA KeptDaemon ==
    ASSUME ActiveInv, NEW d \in Daemons, DaemonWork(d) \/ DaemonDies(d)
    PROVE  Kept
<1>1. CASE DaemonOpen(d) \/ DaemonPostFails(d) \/ DaemonDies(d)
  BY <1>1, KeptSame DEF DaemonOpen, DaemonPostFails, DaemonDies
<1>2. CASE DaemonPost(d) \/ DaemonClean(d)
  <2>1. daemon[d].st \in {"open", "posted"} /\ delivered' = delivered
    BY <1>2 DEF DaemonPost, DaemonClean
  <2>2. DaemonInv(d) /\ daemon[d] \in DaemonType /\ file.dir \in Live
    BY <2>1, OneDaemon DEF DaemonInv, ActiveInv, MsgInv, InHand, Live
  <2>3. CASE DaemonPost(d)
    BY <2>1, <2>2, <2>3, KeptGrows DEF DaemonPost
  <2>4. CASE DaemonClean(d)
    <3>1. file'.dir = file.dir /\ reported' = reported
      BY <2>4 DEF DaemonClean, Completed, ActiveInv, TypeOK, FileType
    <3>2. log.bounce \ log'.bounce \subseteq reported
      BY <2>2, <2>4 DEF DaemonClean, DaemonInv, DaemonType, LogName, ActiveInv, TypeOK, LogType
    <3> QED BY <2>1, <2>2, <3>1, <3>2, KeptGrows
  <2> QED BY <1>2, <2>3, <2>4
<1> QED BY <1>1, <1>2 DEF DaemonWork

\* The queue manager only adds to the records.
LEMMA KeptQmgr ==
    ASSUME ActiveInv, Reliable, ReadStep \/ QmgrDeliver \/ DoneStep
    PROVE  Kept
<1>1. CASE DoneStep
  <2>1. msg.st \in InHand
    BY <1>1 DEF DoneStep, ActiveDone, Done2Corrupt, Done2, Done25, Done3, InHand
  <2>2. UNCHANGED <<log, delivered, reported>>
    BY <1>1, Zenon DEF DoneStep, ActiveDone, Done2Corrupt, Done2, Done25, Done3, Request, Goto
  <2> QED BY <2>1, <2>2, KeptSame DEF ActiveInv, MsgInv, Live
<1>2. ASSUME NEW n \in 1..RcptLimit, NEW fails \in BOOLEAN, NEW how \in Resolutions(n),
             Alloc(n, how, fails) \/ Refill(n, how, fails) \/ Done2Realloc(n, how, fails)
      PROVE  Kept
  <2>1. PICK l \in LogType :
          /\ ReadRecipients(l, n, how, fails) /\ l.bounce = log.bounce /\ reported' = reported
          /\ msg.st \in {"feed", "deliver", "done2"}
    <3>1. log \in LogType /\ [log EXCEPT !.defer = {}] \in LogType
          /\ [log EXCEPT !.defer = {}].bounce = log.bounce
      BY DEF ActiveInv, TypeOK, LogType
    <3>2. CASE Alloc(n, how, fails)
      BY <3>1, <3>2, Zenon DEF Alloc
    <3>3. CASE Refill(n, how, fails) \/ Done2Realloc(n, how, fails)
      BY <3>1, <3>3 DEF Refill, Done2Realloc
    <3> QED BY <1>2, <3>2, <3>3
  <2>2. TypeOK /\ ~AppendFails
    BY ReliableFacts DEF ActiveInv
  <2>3. ReadEffect(l, n, Batch(msg.offset, n))
    BY <2>1, <2>2, ReadFacts, Zenon
  <2>4. /\ file'.dir = file.dir /\ file.dir = "active" /\ log'.bounce = log.bounce
        /\ \A r \in Rcpts : delivered'[r] >= delivered[r] /\ delivered[r] \in Nat /\ delivered'[r] \in Nat
    BY <2>1, <2>3 DEF ReadEffect, ActiveInv, TypeOK, MsgInv, InHand
  <2> QED BY <2>1, <2>4, KeptGrows DEF Live
<1>3. ASSUME NEW a \in Agents, NEW r \in Rcpts, SendRequest(a, r) PROVE Kept
  BY <1>3, KeptSame DEF SendRequest
<1>4. ASSUME NEW a \in Agents, NEW S \in SUBSET Rcpts, NEW async \in BOOLEAN, NEW fails \in BOOLEAN,
             DeliverUpdate(a, S, async, fails) \/ DeliverCrash(a, S, async, fails)
      PROVE  Kept
  <2>1. UNCHANGED <<file, delivered, reported>> /\ msg.st = "deliver"
    BY <1>4 DEF DeliverUpdate, DeliverCrash
  <2>2. log'.bounce = log.bounce
    <3>1. CASE DeliverUpdate(a, S, async, fails)
      <4>1. Disposal(S, {agent[a].rcpt})
        BY <3>1, UpdateFacts, Zenon DEF ActiveInv
      <4> QED BY <4>1 DEF Disposal
    <3>2. CASE DeliverCrash(a, S, async, fails)
      <4>1. Disposal(S \union {agent[a].rcpt}, {})
        BY <3>2, CrashFacts, Zenon DEF ActiveInv
      <4> QED BY <4>1 DEF Disposal
    <3> QED BY <1>4, <3>1, <3>2
  <2> QED BY <2>1, <2>2, KeptGrows DEF ActiveInv, MsgInv, InHand, Live
<1> QED BY <1>1, <1>2, <1>3, <1>4, Zenon DEF ReadStep, QmgrDeliver

\* Every step keeps what a recipient or the sender has.
LEMMA KeptStep ==
    ASSUME ActiveInv, Reliable, Next PROVE Kept
<1>1. CASE Feed \/ FeedLocked \/ QmgrExit \/ QmgrStart \/ GrowOld
  BY <1>1, KeptSame, Zenon DEF Feed, FeedLocked, QmgrExit, QmgrStart, GrowOld, ActiveInv, MsgInv, InHand, Live
<1>2. ASSUME NEW S \in SUBSET Rcpts, NEW async \in BOOLEAN, NEW fails \in BOOLEAN,
             DestinationDies(S, async, fails)
      PROVE  Kept
  <2>1. UNCHANGED <<file, delivered, reported>> /\ msg.st = "deliver"
    BY <1>2 DEF DestinationDies
  <2>2. Disposal(S, {})
    BY <1>2, DiesFacts, Zenon DEF ActiveInv
  <2> QED BY <2>1, <2>2, KeptGrows DEF Disposal, ActiveInv, MsgInv, InHand, Live
<1>3. ASSUME NEW d \in Daemons, Answer(d) \/ AnswerTimeout(d) PROVE Kept
  BY <1>3, KeptSame, ReliableFacts, Zenon DEF Answer, AnswerTimeout, ActiveInv, MsgInv, InHand, Live
<1> QED BY <1>1, <1>2, <1>3, KeptAgent, KeptDaemon, KeptQmgr, Zenon DEF Next

\* A step of the mail system is a step of the contract, or none.
LEMMA ContractStep ==
    ASSUME ActiveInv, ActiveInv', Reliable, [Next]_vars
    PROVE  [Contract!Next]_(Contract!vars)
<1>1. CASE UNCHANGED vars
  BY <1>1 DEF vars, Contract!vars, Owed, Fate, Accounted, Rcpts, NRcpt
<1>2. CASE Next
  <2>1. Kept /\ Rcpts' = Rcpts
    BY <1>2, KeptStep, CfStep DEF Rcpts, NRcpt
  <2>2. file.dir \in {"incoming", "active", "deferred", "gone", "corrupt"}
        /\ file'.dir \in {"incoming", "active", "deferred", "gone", "corrupt"}
    BY DEF ActiveInv, TypeOK, FileType
  <2>3. CASE file.dir \notin Live
    BY <2>1, <2>3 DEF Kept, Contract!vars, Owed, Fate, Accounted
  <2>4. CASE file.dir \in Live /\ file'.dir \in Live
    <3>1. Fate = "queued" /\ Fate' = "queued"
      BY <2>4 DEF Live, Fate
    <3>2. Owed' \subseteq Owed
      BY <2>1 DEF Kept, Owed
    <3> QED BY <2>1, <3>1, <3>2 DEF Contract!Next, Contract!Settle
  <2>5. CASE file.dir \in Live /\ file'.dir \notin Live
    <3>1. Owed' = Owed
      BY <2>1, <2>5 DEF Kept, Owed, Accounted
    <3>2. Fate = "queued"
      BY <2>5 DEF Live, Fate
    <3>3. CASE file'.dir = "corrupt"
      <4>1. Fate' = "aside"
        BY <3>3 DEF Fate
      <4> QED BY <2>1, <3>1, <3>2, <4>1 DEF Contract!Next, Contract!SetAside
    <3>4. CASE file'.dir = "gone"
      <4>1. Fate' = "removed"
        BY <3>4 DEF Fate
      <4>2. Owed' = {}
        BY <3>4 DEF ActiveInv, NoSilentLoss, Owed
      <4> QED BY <2>1, <3>1, <3>2, <4>1, <4>2 DEF Contract!Next, Contract!Remove
    <3> QED BY <2>2, <2>5, <3>3, <3>4 DEF Live
  <2> QED BY <2>2, <2>3, <2>4, <2>5
<1> QED BY <1>1, <1>2

\* The queue manager, its delivery agents and the bounce daemons implement the
\* contract: qmgr_active_done_3_generic removes the file only when nothing is
\* owed, and a bounce log goes away only after its notification was posted.
THEOREM ImplementsContract ==
    ASSUME Reliable PROVE Spec => KeepsContract
<1>1. Init => Contract!Init
  BY DEF Init, Contract!Init, Fate, Owed, Accounted
<1>2. ActiveInv /\ ActiveInv' /\ [Next]_vars => [Contract!Next]_(Contract!vars)
  BY ContractStep
<1> QED BY <1>1, <1>2, ActiveInvariant, PTL DEF Spec, KeepsContract, Contract!Spec

=============================================================================
