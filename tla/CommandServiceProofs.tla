----------------------- MODULE CommandServiceProofs -----------------------
(***************************************************************************)
(* Proofs about the command service, for any number of handlers, keys and  *)
(* fingerprints and any bounds on faults, crashes and expiries.            *)
(***************************************************************************)
EXTENDS CommandService, TLAPS

TransitionDataSet == [admin : BOOLEAN, boundary : BOOLEAN, payload : Payload]

\* The rows every write of the ledger can leave behind are well formed.
LEMMA RecoveredType ==
    ASSUME LedgerTypeOK
    PROVE  recoverInterrupted \in [Keys -> Record]
  <1>1. ASSUME NEW s \in Status \cup {"absent"}
        PROVE  RecoveredStatus(s) \in Status \cup {"absent"}
    BY DEF RecoveredStatus, Status, Unresolved, Terminal
  <1>2. ASSUME NEW k \in Keys
        PROVE  [rec[k] EXCEPT !.status = RecoveredStatus(@)] \in Record
    BY <1>1 DEF LedgerTypeOK, Record
  <1> QED BY <1>2 DEF recoverInterrupted

LEMMA ReservedType ==
    ASSUME LedgerTypeOK, NEW k, NEW f \in Prints \cup {NoPrint}
    PROVE  ReservedRows(k, f) \in [Keys -> Record]
  <1>1. Claimed(f) \in Record
    BY DEF Claimed, Absent, Record, Payload, Status, Unresolved
  <1> QED BY <1>1 DEF LedgerTypeOK, ReservedRows

LEMMA MovedType ==
    ASSUME LedgerTypeOK, NEW k, NEW expected, NEW next,
           NEW data \in TransitionDataSet
    PROVE  MovedRows(k, expected, next, data) \in [Keys -> Record]
  <1>1. allowedTransition(expected, next) => next \in Status
    BY DEF allowedTransition, Status, Unresolved, Terminal
  <1>2. ASSUME NEW row \in Record, next \in Status
        PROVE  MovedRow(row, next, data) \in Record
    BY <1>2 DEF MovedRow, Record, TransitionDataSet
  <1>3. CASE TransitionApplies(k, expected, next, data)
    <2>1. next \in Status
      BY <1>1, <1>3 DEF TransitionApplies, TransitionValid
    <2>2. \A j \in Keys : MovedRow(rec[j], next, data) \in Record
      BY <1>2, <2>1 DEF LedgerTypeOK
    <2> QED BY <1>3, <2>2 DEF MovedRows, LedgerTypeOK
  <1>4. CASE ~TransitionApplies(k, expected, next, data)
    BY <1>4 DEF MovedRows, LedgerTypeOK
  <1> QED BY <1>3, <1>4

\* A write, a read or a recovery, however it ends, keeps the ledger well
\* formed.
LEMMA WriteType ==
    ASSUME LedgerTypeOK, NEW h, NEW new \in [Keys -> Record], NEW d,
           WriteSucceeds(h, new, d) \/ WriteFails(h, new, d)
    PROVE  LedgerTypeOK'
  <1> USE DEF WriteSucceeds, WriteFails, DatabaseFails, blockPersistence,
              LedgerUnchanged, ledgerVars
  <1>1. rec' \in [Keys -> Record]
    BY Zenon DEF LedgerTypeOK
  <1>2. faults' \in 0..MaxFaults
    BY SMT, LedgerAssumption DEF LedgerTypeOK
  <1>3. blocked' \in BOOLEAN
    BY Zenon DEF LedgerTypeOK
  <1>4. writer' \in Handlers \cup {NoHandler}
    BY Zenon DEF LedgerTypeOK
  <1> QED BY <1>1, <1>2, <1>3, <1>4 DEF LedgerTypeOK

LEMMA LookupType ==
    ASSUME LedgerTypeOK, NEW d, LookupSucceeds(d) \/ LookupFails(d)
    PROVE  LedgerTypeOK'
  <1> USE DEF LookupSucceeds, LookupFails, DatabaseFails, blockPersistence,
              LedgerUnchanged, ledgerVars
  <1>1. rec' \in [Keys -> Record]
    BY Zenon DEF LedgerTypeOK
  <1>2. faults' \in 0..MaxFaults
    BY SMT, LedgerAssumption DEF LedgerTypeOK
  <1>3. blocked' \in BOOLEAN
    BY Zenon DEF LedgerTypeOK
  <1>4. writer' \in Handlers \cup {NoHandler}
    BY Zenon DEF LedgerTypeOK
  <1> QED BY <1>1, <1>2, <1>3, <1>4 DEF LedgerTypeOK

LEMMA ReconcileType ==
    ASSUME LedgerTypeOK, ReconcileSucceeds \/ ReconcileFails \/ Open
    PROVE  LedgerTypeOK'
  <1> USE DEF ReconcileSucceeds, ReconcileFails, Open, DatabaseFails,
              blockPersistence, LedgerUnchanged, ledgerVars
  <1>1. rec' \in [Keys -> Record]
    BY Zenon, RecoveredType DEF LedgerTypeOK
  <1>2. faults' \in 0..MaxFaults
    BY SMT, LedgerAssumption DEF LedgerTypeOK
  <1>3. blocked' \in BOOLEAN
    BY Zenon DEF LedgerTypeOK
  <1>4. writer' \in Handlers \cup {NoHandler}
    BY Zenon DEF LedgerTypeOK
  <1> QED BY <1>1, <1>2, <1>3, <1>4 DEF LedgerTypeOK

-----------------------------------------------------------------------------
\* TypeOK without the ledger: what the handlers keep, and the rest.
HandlerTypeOK ==
    /\ pc \in [Handlers -> PC]
    /\ key \in [Handlers -> Keys \cup {NoKey}]
    /\ print \in [Handlers -> Prints \cup {NoPrint}]
    /\ done \in [Handlers -> BOOLEAN]
    /\ seen \in [Handlers -> Record]
    /\ verdict \in [Handlers -> Verdict]
    /\ lock \in [Keys -> Handlers \cup {NoHandler}]

EffectTypeOK ==
    /\ up \in BOOLEAN
    /\ job \in [Keys -> JobState]
    /\ crashes \in 0..MaxCrashes
    /\ expiries \in 0..MaxExpiries
    /\ attempts \in [Keys -> Nat]
    /\ ran \in [Keys -> Prints \cup {NoPrint}]
    /\ told \in [Keys -> SUBSET Final]

LEMMA TypeParts == TypeOK <=> LedgerTypeOK /\ HandlerTypeOK /\ EffectTypeOK
  BY Zenon DEF TypeOK, HandlerTypeOK, EffectTypeOK

LEMMA TypePartsNext ==
    TypeOK' <=> LedgerTypeOK' /\ HandlerTypeOK' /\ EffectTypeOK'
  BY TypeParts, PTL

LEMMA ConstantTypes ==
    /\ Absent \in Record
    /\ NoVerdict \in Verdict
  BY DEF Absent, Record, Payload, NoVerdict, Verdict

\* The ways a handler moves on keep the handlers well formed.
LEMMA GotoType ==
    ASSUME HandlerTypeOK, NEW h \in Handlers, NEW p \in PC, Goto(h, p)
    PROVE  /\ pc' \in [Handlers -> PC]
           /\ key' \in [Handlers -> Keys \cup {NoKey}]
           /\ print' \in [Handlers -> Prints \cup {NoPrint}]
           /\ done' \in [Handlers -> BOOLEAN]
           /\ lock' \in [Keys -> Handlers \cup {NoHandler}]
  BY DEF HandlerTypeOK, Goto

LEMMA AnswerType ==
    ASSUME HandlerTypeOK, EffectTypeOK, NEW h \in Handlers, NEW a,
           Answer(h, a)
    PROVE  HandlerTypeOK' /\ told' \in [Keys -> SUBSET Final]
  <1>1. pc' \in [Handlers -> PC]
    BY DEF HandlerTypeOK, Answer, PC
  <1>2. /\ key' \in [Handlers -> Keys \cup {NoKey}]
        /\ print' \in [Handlers -> Prints \cup {NoPrint}]
        /\ done' \in [Handlers -> BOOLEAN]
    BY DEF HandlerTypeOK, Answer
  <1>3. /\ seen' \in [Handlers -> Record]
        /\ verdict' \in [Handlers -> Verdict]
    BY ConstantTypes DEF HandlerTypeOK, Answer
  <1>4. lock' \in [Keys -> Handlers \cup {NoHandler}]
    BY DEF HandlerTypeOK, Answer, Release
  <1>5. told' \in [Keys -> SUBSET Final]
    BY DEF EffectTypeOK, Answer
  <1> QED BY <1>1, <1>2, <1>3, <1>4, <1>5 DEF HandlerTypeOK

LEMMA GotoPersistType ==
    ASSUME HandlerTypeOK, EffectTypeOK, NEW h \in Handlers, GotoPersist(h)
    PROVE  HandlerTypeOK' /\ EffectTypeOK'
  <1>1. "persist_held" \in PC
    BY DEF PC, Holding
  <1>2. HandlerTypeOK'
    BY <1>1, GotoType DEF HandlerTypeOK, GotoPersist
  <1>3. EffectTypeOK'
    BY DEF EffectTypeOK, GotoPersist, historyVars, countVars
  <1> QED BY <1>2, <1>3

LEMMA TakeRowType ==
    ASSUME LedgerTypeOK, HandlerTypeOK, EffectTypeOK,
           NEW h \in Handlers, key[h] \in Keys, TakeRow(h)
    PROVE  HandlerTypeOK' /\ told' \in [Keys -> SUBSET Final]
  <1>1. CASE rec[key[h]].print # print[h]
    BY <1>1, AnswerType DEF TakeRow
  <1>2. CASE rec[key[h]].print = print[h]
    <2>1. Goto(h, "await") /\ UNCHANGED <<verdict, told>>
      BY <1>2 DEF TakeRow
    <2>2. "await" \in PC
      BY DEF PC, Holding
    <2>3. seen' \in [Handlers -> Record]
      BY <1>2 DEF TakeRow, LedgerTypeOK, HandlerTypeOK
    <2> QED BY <2>1, <2>2, <2>3, GotoType DEF HandlerTypeOK, EffectTypeOK
  <1> QED BY <1>1, <1>2

\* The data of the service's transitions is well formed.
LEMMA DataTypes ==
    ASSUME HandlerTypeOK
    PROVE  /\ AcceptData \in TransitionDataSet
           /\ RunData \in TransitionDataSet
           /\ \A h \in Handlers : VerdictData(h) \in TransitionDataSet
  BY DEF HandlerTypeOK, AcceptData, RunData, VerdictData, TransitionData,
         TransitionDataSet, Verdict, Payload

LEMMA TransitionType ==
    ASSUME LedgerTypeOK, NEW h, NEW k, NEW expected, NEW next,
           NEW data \in TransitionDataSet, NEW d,
           \/ TransitionSucceeds(h, k, expected, next, data, d)
           \/ TransitionFails(h, k, expected, next, data, d)
    PROVE  LedgerTypeOK'
  <1> DEFINE new == MovedRows(k, expected, next, data)
  <1>1. new \in [Keys -> Record]
    BY MovedType
  <1> HIDE DEF new
  <1>2. \/ WriteSucceeds(h, new, d) \/ WriteFails(h, new, d)
        \/ WriteSucceeds(h, rec, d) \/ LedgerUnchanged
    BY DEF TransitionSucceeds, TransitionFails, new
  <1>3. CASE LedgerUnchanged
    BY <1>3 DEF LedgerUnchanged, ledgerVars, LedgerTypeOK
  <1>4. rec \in [Keys -> Record]
    BY DEF LedgerTypeOK
  <1> QED BY <1>1, <1>2, <1>3, <1>4, WriteType

LEMMA SameLedgerType ==
    ASSUME LedgerTypeOK, UNCHANGED ledgerVars
    PROVE  LedgerTypeOK'
  BY DEF LedgerTypeOK, ledgerVars

\* Every step of a handler keeps every type.
LEMMA StepType ==
    ASSUME TypeOK, RequestInv, NEW h \in Handlers, Step(h)
    PROVE  TypeOK'
  <1> SUFFICES LedgerTypeOK' /\ HandlerTypeOK' /\ EffectTypeOK'
    BY TypePartsNext
  <1>0. LedgerTypeOK /\ HandlerTypeOK /\ EffectTypeOK
    BY TypeParts
  <1>k. pc[h] # "idle" => key[h] \in Keys /\ print[h] \in Prints
    BY DEF RequestInv
  <1>p. /\ {"persist", "lock", "persist_held", "poll"} \subseteq PC
        /\ Holding \subseteq PC
        /\ {"reserve", "authorize", "accept", "settle", "run", "execute",
            "executing", "finish", "lookup"} \subseteq PC
    BY DEF PC, Holding
  <1> DEFINE SameEffects == UNCHANGED <<job, historyVars, countVars>>
             ToldEffects == UNCHANGED <<job, attempts, ran, countVars>>
             Stay == UNCHANGED <<seen, verdict>>
  <1>e. SameEffects => EffectTypeOK'
    BY <1>0 DEF EffectTypeOK, historyVars, countVars
  <1>t. ASSUME NEW a, Answer(h, a), ToldEffects
        PROVE  HandlerTypeOK' /\ EffectTypeOK'
    <2>1. HandlerTypeOK' /\ told' \in [Keys -> SUBSET Final]
      BY <1>0, <1>t, AnswerType
    <2> QED BY <2>1, <1>0, <1>t DEF EffectTypeOK, countVars
  <1>g. ASSUME NEW p \in PC, Goto(h, p), Stay
        PROVE  HandlerTypeOK'
    BY <1>0, <1>g, GotoType DEF HandlerTypeOK
  <1>r. ASSUME key[h] \in Keys, TakeRow(h), ToldEffects
        PROVE  HandlerTypeOK' /\ EffectTypeOK'
    <2>1. HandlerTypeOK' /\ told' \in [Keys -> SUBSET Final]
      BY <1>0, <1>r, TakeRowType
    <2> QED BY <2>1, <1>0, <1>r DEF EffectTypeOK, countVars
  <1>s. ASSUME NEW p \in PC, Goto(h, p), UNCHANGED <<seen, verdict, told>>,
               ToldEffects
        PROVE  HandlerTypeOK' /\ EffectTypeOK'
    BY <1>0, <1>g, <1>s DEF EffectTypeOK, countVars
  <1>v. ASSUME NEW p \in PC, Goto(h, p), UNCHANGED seen,
               NEW v \in Verdict, verdict' = [verdict EXCEPT ![h] = v]
        PROVE  HandlerTypeOK'
    BY <1>0, <1>v, GotoType DEF HandlerTypeOK
  <1> HIDE DEF SameEffects, ToldEffects, Stay
  <1>1. CASE Admit(h)
    BY <1>0, <1>1, <1>e, <1>g, <1>p, SameLedgerType
    DEF Admit, SameEffects, Stay
  <1>2. CASE Lock(h)
    <2>1. HandlerTypeOK'
      BY <1>0, <1>2, <1>p DEF Lock, HandlerTypeOK
    <2> QED BY <1>0, <1>2, <1>e, <2>1, SameLedgerType DEF Lock, SameEffects
  <1>3. CASE Lookup(h)
    <2>1. LedgerTypeOK'
      BY <1>0, <1>3, LookupType DEF Lookup
    <2>2. key[h] \in Keys /\ ToldEffects
      BY <1>3, <1>k DEF Lookup, At, ToldEffects
    <2>3. CASE Validate(h)
      BY <2>1, <2>2, <2>3, <1>s, <1>t, <1>p DEF Validate
    <2> QED BY <1>3, <2>1, <2>2, <2>3, <1>r DEF Lookup
  <1>4. CASE LookupError(h) \/ PollError(h)
    BY <1>0, <1>4, LookupType, GotoPersistType DEF LookupError, PollError
  <1>5. CASE BeginWrite(h)
    <2>1. LedgerTypeOK'
      BY <1>0, <1>5 DEF BeginWrite, PassGate, LedgerTypeOK
    <2>2. HandlerTypeOK'
      BY <1>0, <1>5 DEF BeginWrite, HandlerTypeOK, handlerVars
    <2> QED BY <1>5, <2>1, <2>2, <1>e DEF BeginWrite, SameEffects
  <1>6. CASE Reserve(h)
    <2>1. LedgerTypeOK'
      BY <1>0, <1>6, ReservedType, WriteType
      DEF Reserve, ReserveSucceeds, HandlerTypeOK
    <2>2. key[h] \in Keys /\ ToldEffects
      BY <1>6, <1>k DEF Reserve, At, ToldEffects
    <2> QED BY <1>6, <2>1, <2>2, <1>s, <1>r, <1>p DEF Reserve
  <1>7. CASE ReserveError(h)
    <2>1. LedgerTypeOK'
      BY <1>0, <1>7, ReservedType, WriteType
      DEF ReserveError, ReserveFails, HandlerTypeOK
    <2> QED BY <1>0, <1>7, <2>1, GotoPersistType DEF ReserveError
  <1>8. CASE Authorize(h)
    <2>1. LedgerTypeOK' /\ EffectTypeOK'
      BY <1>0, <1>8, <1>e, SameLedgerType DEF Authorize, SameEffects
    <2>2. CASE Goto(h, "accept") /\ UNCHANGED verdict
      BY <1>8, <2>1, <2>2, <1>g, <1>p DEF Authorize, Stay
    <2>3. ASSUME NEW v \in {[status |-> "denied",
                             payload |-> "authorization-denied"],
                            [status |-> "authorization_failed",
                             payload |-> "user-lookup-failed"],
                            [status |-> "authorization_failed",
                             payload |-> "authorization-unavailable"]},
                 Goto(h, "settle"), verdict' = [verdict EXCEPT ![h] = v]
          PROVE  HandlerTypeOK'
      <3>1. v \in Verdict
        BY DEF Verdict, Payload
      <3>2. UNCHANGED seen
        BY <1>8 DEF Authorize
      <3> QED BY <2>3, <3>1, <3>2, <1>v, <1>p
    <2> QED BY <1>8, <2>1, <2>2, <2>3 DEF Authorize
  <1>9. CASE Settle(h) \/ Finish(h)
    <2>1. LedgerTypeOK'
      BY <1>0, <1>9, DataTypes, TransitionType DEF Settle, Finish
    <2> QED BY <1>9, <2>1, <1>t DEF Settle, Finish, ToldEffects
  <1>10. CASE SettleError(h) \/ FinishError(h)
    <2>1. LedgerTypeOK'
      BY <1>0, <1>10, DataTypes, TransitionType DEF SettleError, FinishError
    <2> QED BY <1>0, <1>10, <2>1, GotoPersistType DEF SettleError, FinishError
  <1>11. CASE Accept(h) \/ Run(h)
    <2>1. LedgerTypeOK'
      BY <1>0, <1>11, DataTypes, TransitionType DEF Accept, Run
    <2> QED BY <1>11, <2>1, <1>e, <1>g, <1>p
            DEF Accept, Run, SameEffects, Stay
  <1>12. CASE AcceptError(h) \/ RunError(h)
    <2>1. LedgerTypeOK'
      BY <1>0, <1>12, DataTypes, TransitionType DEF AcceptError, RunError
    <2> QED BY <1>0, <1>12, <2>1, GotoPersistType DEF AcceptError, RunError
  <1>13. CASE Execute(h)
    <2>1. LedgerTypeOK' /\ HandlerTypeOK'
      BY <1>0, <1>13, <1>g, <1>p, SameLedgerType DEF Execute, Stay
    <2>2. attempts' \in [Keys -> Nat]
      <3>1. attempts \in [Keys -> Nat]
        BY <1>0 DEF EffectTypeOK
      <3>2. attempts' = [attempts EXCEPT ![key[h]] = attempts[key[h]] + 1]
        BY <1>13 DEF Execute
      <3>3. attempts[key[h]] + 1 \in Nat
        BY <1>13, <1>k, <3>1 DEF Execute, At
      <3> QED BY <3>1, <3>2, <3>3
    <2>3. ran' \in [Keys -> Prints \cup {NoPrint}]
      BY <1>0, <1>13 DEF Execute, EffectTypeOK, HandlerTypeOK
    <2>4. job' \in [Keys -> JobState]
      BY <1>0, <1>13 DEF Execute, EffectTypeOK, JobState
    <2>5. EffectTypeOK'
      BY <1>0, <1>13, <2>2, <2>3, <2>4 DEF Execute, EffectTypeOK, countVars
    <2> QED BY <2>1, <2>5
  <1>14. CASE ExecuteSucceeds(h) \/ ExecuteFails(h) \/ ExecuteUnknown(h)
    <2>1. ASSUME NEW st \in {"succeeded", "failed", "unknown"},
                 NEW pl \in Payload, Concluded(h, st, pl)
          PROVE  LedgerTypeOK' /\ HandlerTypeOK' /\ EffectTypeOK'
      <3>1. [status |-> st, payload |-> pl] \in Verdict
        BY DEF Verdict
      <3>2. HandlerTypeOK'
        BY <2>1, <3>1, <1>v, <1>p DEF Concluded
      <3> QED BY <1>0, <2>1, <3>2, <1>e, SameLedgerType
              DEF Concluded, SameEffects
    <2>2. {"succeeded", "slurm-command-failed", "command-outcome-unknown"}
             \subseteq Payload
      BY DEF Payload
    <2> QED BY <1>14, <2>1, <2>2
            DEF ExecuteSucceeds, ExecuteFails, ExecuteUnknown
  <1>15. CASE Await(h)
    <2>1. LedgerTypeOK' /\ ToldEffects
      BY <1>0, <1>15, SameLedgerType DEF Await, ToldEffects
    <2> QED BY <1>15, <2>1, <1>s, <1>t, <1>p DEF Await
  <1>16. CASE PollCancelled(h)
    BY <1>0, <1>16, <1>t, SameLedgerType DEF PollCancelled, ToldEffects
  <1>17. CASE Poll(h)
    <2>1. LedgerTypeOK'
      BY <1>0, <1>17, LookupType DEF Poll
    <2>2. key[h] \in Keys /\ ToldEffects
      BY <1>17, <1>k DEF Poll, At, ToldEffects
    <2> QED BY <1>17, <2>1, <2>2, <1>s, <1>r, <1>p DEF Poll
  <1>18. CASE PersistenceError(h)
    <2>1. LedgerTypeOK'
      BY <1>0, <1>18, ReconcileType DEF PersistenceError
    <2> QED BY <1>18, <2>1, <1>t DEF PersistenceError, ToldEffects
  <1> QED BY <1>1, <1>2, <1>3, <1>4, <1>5, <1>6, <1>7, <1>8, <1>9, <1>10,
             <1>11, <1>12, <1>13, <1>14, <1>15, <1>16, <1>17, <1>18 DEF Step

\* Every step of the system keeps every type.
LEMMA TypeStep ==
    ASSUME TypeOK, RequestInv, [Next]_vars
    PROVE  TypeOK'
  <1> SUFFICES LedgerTypeOK' /\ HandlerTypeOK' /\ EffectTypeOK'
    BY TypePartsNext
  <1>0. LedgerTypeOK /\ HandlerTypeOK /\ EffectTypeOK
    BY TypeParts
  <1>1. ASSUME NEW h \in Handlers, NEW k \in Keys, NEW f \in Prints,
               Receive(h, k, f)
        PROVE  LedgerTypeOK' /\ HandlerTypeOK' /\ EffectTypeOK'
    <2>1. LedgerTypeOK' /\ EffectTypeOK'
      BY <1>0, <1>1, SameLedgerType
      DEF Receive, EffectTypeOK, historyVars, countVars
    <2>2. HandlerTypeOK'
      BY <1>0, <1>1 DEF Receive, HandlerTypeOK, PC
    <2> QED BY <2>1, <2>2
  <1>2. ASSUME NEW h \in Handlers, Step(h)
        PROVE  LedgerTypeOK' /\ HandlerTypeOK' /\ EffectTypeOK'
    BY <1>2, StepType, TypePartsNext
  <1>3. ASSUME NEW h \in Handlers, Cancel(h)
        PROVE  LedgerTypeOK' /\ HandlerTypeOK' /\ EffectTypeOK'
    BY <1>0, <1>3, SameLedgerType
    DEF Cancel, HandlerTypeOK, EffectTypeOK, historyVars, countVars
  <1>4. ASSUME NEW k \in Keys, HelperApplies(k) \/ HelperRefuses(k)
        PROVE  LedgerTypeOK' /\ HandlerTypeOK' /\ EffectTypeOK'
    <2>1. LedgerTypeOK' /\ HandlerTypeOK'
      BY <1>0, <1>4, SameLedgerType
      DEF HelperApplies, HelperRefuses, HandlerTypeOK, handlerVars
    <2>2. job' \in [Keys -> JobState]
      BY <1>0, <1>4 DEF HelperApplies, HelperRefuses, EffectTypeOK, JobState
    <2> QED BY <1>0, <1>4, <2>1, <2>2
            DEF HelperApplies, HelperRefuses, EffectTypeOK, historyVars,
                countVars
  <1>5. ASSUME NEW k \in Keys, RetentionEnds(k)
        PROVE  LedgerTypeOK' /\ HandlerTypeOK' /\ EffectTypeOK'
    <2>1. LedgerTypeOK'
      BY <1>0, <1>5, ConstantTypes DEF RetentionEnds, Expire, LedgerTypeOK
    <2>2. HandlerTypeOK'
      BY <1>0, <1>5 DEF RetentionEnds, HandlerTypeOK, handlerVars
    <2>3. /\ attempts' \in [Keys -> Nat]
          /\ ran' \in [Keys -> Prints \cup {NoPrint}]
          /\ told' \in [Keys -> SUBSET Final]
          /\ job' \in [Keys -> JobState]
      BY <1>0, <1>5 DEF RetentionEnds, EffectTypeOK, JobState
    <2>4. expiries' \in 0..MaxExpiries
      BY <1>0, <1>5, ServiceAssumption DEF RetentionEnds, EffectTypeOK
    <2> QED BY <1>0, <1>5, <2>1, <2>2, <2>3, <2>4
            DEF RetentionEnds, EffectTypeOK
  <1>6. CASE Crash
    <2>1. LedgerTypeOK'
      BY <1>0, <1>6 DEF Crash, Abandon, LedgerTypeOK
    <2>2. HandlerTypeOK'
      BY <1>6, ConstantTypes DEF Crash, HandlersIdle, HandlerTypeOK, PC
    <2>3. crashes' \in 0..MaxCrashes
      BY <1>0, <1>6, ServiceAssumption DEF Crash, EffectTypeOK
    <2> QED BY <1>0, <1>6, <2>1, <2>2, <2>3
            DEF Crash, EffectTypeOK, historyVars
  <1>7. CASE Restart
    BY <1>0, <1>7, ReconcileType
    DEF Restart, HandlerTypeOK, EffectTypeOK, handlerVars, historyVars
  <1>8. CASE UNCHANGED vars
    BY <1>0, <1>8, SameLedgerType
    DEF vars, ledgerVars, HandlerTypeOK, EffectTypeOK
  <1> QED BY <1>1, <1>2, <1>3, <1>4, <1>5, <1>6, <1>7, <1>8 DEF Next

\* An open request keeps its key and fingerprint until it is answered.
LEMMA RequestStep ==
    ASSUME TypeOK, RequestInv, [Next]_vars
    PROVE  RequestInv'
  <1> USE DEF RequestInv, TypeOK
  <1>1. ASSUME NEW h \in Handlers, NEW k \in Keys, NEW f \in Prints,
               Receive(h, k, f)
        PROVE  RequestInv'
    BY <1>1 DEF Receive, At, countVars
  <1>2. ASSUME NEW h \in Handlers, NEW p \in PC \ {"idle"}, up,
               pc[h] # "idle", Goto(h, p), up' = up
        PROVE  RequestInv'
    BY <1>2 DEF Goto
  <1>3. ASSUME NEW h \in Handlers, NEW a, up, Answer(h, a), up' = up
        PROVE  RequestInv'
    BY <1>3 DEF Answer
  <1>4. ASSUME NEW h \in Handlers, Step(h)
        PROVE  RequestInv'
    <2>1. up /\ pc[h] # "idle" /\ up' = up
      BY <1>4 DEF Step, Admit, Lock, Lookup, LookupError, BeginWrite,
         Writing, Reserve, ReserveError, Authorize, Settle, SettleError, Accept, AcceptError,
         Run, RunError, Execute, ExecuteSucceeds, ExecuteFails,
         ExecuteUnknown, Concluded, Finish, FinishError, Await,
         PollCancelled, Poll, PollError, PersistenceError, GotoPersist, At,
         countVars
    <2>2. CASE Lock(h) \/ BeginWrite(h)
      BY <2>1, <2>2 DEF Lock, BeginWrite, handlerVars
    <2>3. CASE ~Lock(h) /\ ~BeginWrite(h)
      <3>1. \/ \E p \in PC \ {"idle"} : Goto(h, p)
            \/ \E a : Answer(h, a)
        BY <1>4, <2>3 DEF Step, Admit, Lookup, LookupError, Validate, Reserve,
           ReserveError, Authorize, Settle, SettleError, Accept, AcceptError,
           Run, RunError, Execute, ExecuteSucceeds, ExecuteFails,
           ExecuteUnknown, Concluded, Finish, FinishError, Await,
           PollCancelled, Poll, PollError, PersistenceError, GotoPersist,
           TakeRow, PC, Holding
      <3> QED BY <2>1, <3>1, <1>2, <1>3
    <2> QED BY <2>2, <2>3
  <1>5. ASSUME NEW h \in Handlers, Cancel(h)
        PROVE  RequestInv'
    BY <1>5 DEF Cancel, countVars
  <1>6. ASSUME NEW k \in Keys,
               HelperApplies(k) \/ HelperRefuses(k) \/ RetentionEnds(k)
        PROVE  RequestInv'
    BY <1>6 DEF HelperApplies, HelperRefuses, RetentionEnds, handlerVars,
       countVars
  <1>7. CASE Crash
    BY <1>7 DEF Crash, HandlersIdle
  <1>8. CASE Restart
    BY <1>8 DEF Restart, handlerVars
  <1>9. CASE UNCHANGED vars
    BY <1>9 DEF vars
  <1> QED BY <1>1, <1>4, <1>5, <1>6, <1>7, <1>8, <1>9 DEF Next

LEMMA TypeInit == Init => TypeOK /\ RequestInv
  <1> SUFFICES ASSUME Init PROVE TypeOK /\ RequestInv
    OBVIOUS
  <1>1. LedgerTypeOK
    <2>1. faults \in 0..MaxFaults
      BY LedgerAssumption DEF Init, LedgerInit
    <2> QED BY <2>1, ConstantTypes DEF Init, LedgerInit, LedgerTypeOK
  <1>2. HandlerTypeOK
    BY ConstantTypes DEF Init, HandlerTypeOK, PC
  <1>3. EffectTypeOK
    <2>1. crashes \in 0..MaxCrashes /\ expiries \in 0..MaxExpiries
      BY ServiceAssumption DEF Init
    <2>2. up \in BOOLEAN
      BY DEF Init
    <2>3. /\ job \in [Keys -> JobState]
          /\ attempts \in [Keys -> Nat]
          /\ ran \in [Keys -> Prints \cup {NoPrint}]
          /\ told \in [Keys -> SUBSET Final]
      BY DEF Init, JobState
    <2> QED BY <2>1, <2>2, <2>3 DEF EffectTypeOK
  <1>4. RequestInv
    BY DEF Init, RequestInv
  <1> QED BY <1>1, <1>2, <1>3, <1>4, TypeParts

\* The types of all variables hold in every reachable state: the ledger holds
\* only the statuses of ledger.go, whatever fails and whoever is interrupted.
THEOREM TypeCorrect == Spec => []TypeOK
  <1>1. Init => TypeOK /\ RequestInv
    BY TypeInit
  <1>2. TypeOK /\ RequestInv /\ [Next]_vars => (TypeOK /\ RequestInv)'
    BY TypeStep, RequestStep
  <1> QED BY <1>1, <1>2, PTL DEF Spec

-----------------------------------------------------------------------------
\* The mutexes: only Lock takes one, and only the answer gives it back.
LEMMA LockStep ==
    ASSUME TypeOK, RequestInv, LockInv, [Next]_vars
    PROVE  LockInv'
  <1> USE DEF LockInv, RequestInv, TypeOK
  <1>1. ASSUME NEW h \in Handlers, NEW k \in Keys, NEW f \in Prints,
               Receive(h, k, f)
        PROVE  LockInv'
    BY <1>1, ServiceAssumption DEF Receive, At, Holding
  <1>2. ASSUME NEW h \in Handlers, NEW p, Goto(h, p), pc[h] # "idle",
               pc[h] \in Holding <=> p \in Holding
        PROVE  LockInv'
    BY <1>2 DEF Goto
  <1>3. ASSUME NEW h \in Handlers, NEW a, Answer(h, a)
        PROVE  LockInv'
    BY <1>3, LedgerAssumption DEF Answer, Release, Holding
  <1>4. ASSUME NEW h \in Handlers, Step(h)
        PROVE  LockInv'
    <2>1. CASE Lock(h)
      BY <2>1, LedgerAssumption DEF Lock, At, Holding
    <2>2. CASE Admit(h)
      BY <2>2, <1>2 DEF Admit, At, Holding
    <2>4. CASE BeginWrite(h)
      BY <2>4 DEF BeginWrite, handlerVars
    <2>3. CASE ~Lock(h) /\ ~Admit(h) /\ ~BeginWrite(h)
      <3>1. \/ \E a : Answer(h, a)
            \/ /\ pc[h] \in Holding
               /\ \E p \in Holding : Goto(h, p)
        BY <1>4, <2>3 DEF Step, Lookup, LookupError, Validate, Reserve,
           ReserveError, Authorize, Settle, SettleError, Accept, AcceptError,
           Run, RunError, Execute, ExecuteSucceeds, ExecuteFails,
           ExecuteUnknown, Concluded, Finish, FinishError, Await,
           PollCancelled, Poll, PollError, PersistenceError, GotoPersist,
           TakeRow, At, Holding
      <3>2. "idle" \notin Holding
        BY DEF Holding
      <3> QED BY <3>1, <3>2, <1>2, <1>3
    <2> QED BY <2>1, <2>2, <2>3, <2>4
  <1>5. ASSUME NEW h \in Handlers, Cancel(h)
        PROVE  LockInv'
    BY <1>5 DEF Cancel
  <1>6. ASSUME NEW k \in Keys,
               HelperApplies(k) \/ HelperRefuses(k) \/ RetentionEnds(k)
        PROVE  LockInv'
    BY <1>6 DEF HelperApplies, HelperRefuses, RetentionEnds, handlerVars
  <1>7. CASE Crash
    BY <1>7, LedgerAssumption DEF Crash, HandlersIdle, Holding
  <1>8. CASE Restart
    BY <1>8 DEF Restart, handlerVars
  <1>9. CASE UNCHANGED vars
    BY <1>9 DEF vars
  <1> QED BY <1>1, <1>4, <1>5, <1>6, <1>7, <1>8, <1>9 DEF Next

-----------------------------------------------------------------------------
\* The parts of the inductive invariant that speak of one key.
Executed == {"running", "succeeded", "failed", "unknown"}

KeyInv(k) ==
    /\ rec[k].status = "absent" =>
          rec[k] = Absent /\ attempts[k] = 0 /\ told[k] = {}
    /\ attempts[k] <= 1
    /\ attempts[k] > 0 => /\ rec[k].print = ran[k]
                          /\ rec[k].admin /\ rec[k].boundary
                          /\ rec[k].status \in Executed
    /\ rec[k].status = "succeeded" => job[k] = "applied"
    /\ told[k] \subseteq {recordResponse(rec[k])}

OwnerInv(k) ==
    rec[k].status \in Unresolved =>
        /\ lock[k] \in Handlers
        /\ key[lock[k]] = k
        /\ rec[k].status \in OwnedStatus(pc[lock[k]])

RowsInv ==
    /\ HandlerInv
    /\ \A k \in Keys : KeyInv(k)
    /\ up /\ ~blocked => \A k \in Keys : OwnerInv(k)

\* RowsInv is the inductive invariant regrouped by handler and by key.
LEMMA RowsInvParts ==
    IInv <=> TypeOK /\ RequestInv /\ LockInv /\ RowsInv
  <1>1. NoOrphan <=> (up /\ ~blocked => \A k \in Keys : OwnerInv(k))
    BY DEF NoOrphan, OwnerInv
  <1>2. ASSUME TypeOK, HandlerInv, LockInv, RequestInv
        PROVE  (\A k \in Keys : KeyInv(k)) <=>
                  /\ FreshInv /\ AtMostOnce /\ ExecutionAudited
                  /\ HonestRows /\ AnswersStand
    <2>1. ASSUME \A k \in Keys : KeyInv(k)
          PROVE  /\ FreshInv /\ AtMostOnce /\ ExecutionAudited
                 /\ AnswersStand
      BY <2>1 DEF KeyInv, FreshInv, AtMostOnce, ExecutionAudited, Executed,
         AnswersStand
    <2>2. ASSUME \A k \in Keys : KeyInv(k), NEW k \in Keys,
                 rec[k].status \in {"denied", "authorization_failed",
                                    "authorization_uncertain"}
          PROVE  /\ attempts[k] = 0
                 /\ \A h \in Handlers : key[h] = k => pc[h] # "execute"
      <3>1. attempts[k] = 0
        BY <1>2, <2>2 DEF KeyInv, Executed, TypeOK
      <3>2. ASSUME NEW h \in Handlers, key[h] = k, pc[h] = "execute"
            PROVE  FALSE
        BY <1>2, <2>2, <3>2 DEF HandlerInv, RowInv, ExpectedStatus, Holding
      <3> QED BY <3>1, <3>2
    <2>3. ASSUME \A k \in Keys : KeyInv(k)
          PROVE  HonestRows
      BY <2>2, <2>3 DEF HonestRows, KeyInv
    <2>4. ASSUME FreshInv, AtMostOnce, ExecutionAudited, HonestRows,
                 AnswersStand
          PROVE  \A k \in Keys : KeyInv(k)
      BY <2>4 DEF KeyInv, FreshInv, AtMostOnce, ExecutionAudited, Executed,
         HonestRows, AnswersStand
    <2> QED BY <2>1, <2>3, <2>4
  <1> QED BY <1>1, <1>2 DEF IInv, RowsInv

-----------------------------------------------------------------------------
\* What a write leaves behind, seen from the row it is about.
LEMMA TransitionSucceedsRows ==
    ASSUME LedgerTypeOK, NEW h, NEW k \in Keys, NEW expected, NEW next,
           NEW data, NEW d, TransitionSucceeds(h, k, expected, next, data, d)
    PROVE  /\ rec[k].status = expected
           /\ rec'[k] = MovedRow(rec[k], next, data)
           /\ \A j \in Keys \ {k} : rec'[j] = rec[j]
           /\ blocked' = blocked
  BY DEF TransitionSucceeds, TransitionApplies, MovedRows, WriteSucceeds,
         LedgerTypeOK

LEMMA TransitionFailsRows ==
    ASSUME LedgerTypeOK, NEW h, NEW k \in Keys, NEW expected, NEW next,
           NEW data, NEW d, TransitionFails(h, k, expected, next, data, d),
           TransitionValid(expected, next, data)
    PROVE  /\ \/ rec'[k] = rec[k]
              \/ /\ rec[k].status = expected
                 /\ rec'[k] = MovedRow(rec[k], next, data)
                 /\ blocked'
           /\ \A j \in Keys \ {k} : rec'[j] = rec[j]
           /\ ~blocked' => ~blocked /\ rec[k].status # expected
  <1>1. CASE WriteFails(h, MovedRows(k, expected, next, data), d)
    <2>1. /\ blocked'
          /\ rec' = rec \/ rec' = MovedRows(k, expected, next, data)
      BY <1>1 DEF WriteFails, LedgerUnchanged, ledgerVars, blockPersistence
    <2> QED BY <2>1 DEF MovedRows, TransitionApplies, LedgerTypeOK
  <1>2. CASE /\ ~TransitionApplies(k, expected, next, data)
             /\ WriteSucceeds(h, rec, d)
    BY <1>2 DEF TransitionApplies, WriteSucceeds
  <1> QED BY <1>1, <1>2 DEF TransitionFails

LEMMA ReserveSucceedsRows ==
    ASSUME LedgerTypeOK, NEW h, NEW k \in Keys, NEW f, NEW d,
           rec[k] = Absent, ReserveSucceeds(h, k, f, d)
    PROVE  /\ rec'[k] = Claimed(f)
           /\ \A j \in Keys \ {k} : rec'[j] = rec[j]
           /\ blocked' = blocked
  BY DEF ReserveSucceeds, ReservedRows, WriteSucceeds, LedgerTypeOK

LEMMA ReserveFailsRows ==
    ASSUME LedgerTypeOK, NEW h, NEW k \in Keys, NEW f, NEW d,
           rec[k] = Absent, ReserveFails(h, k, f, d)
    PROVE  /\ rec'[k] \in {Absent, Claimed(f)}
           /\ \A j \in Keys \ {k} : rec'[j] = rec[j]
           /\ blocked'
  BY DEF ReserveFails, ReservedRows, WriteFails, LedgerUnchanged, ledgerVars,
         blockPersistence, LedgerTypeOK

LEMMA LookupRows ==
    ASSUME NEW d, LookupSucceeds(d) \/ LookupFails(d)
    PROVE  rec' = rec /\ (~blocked' => ~blocked)
  BY DEF LookupSucceeds, LookupFails, LedgerUnchanged, ledgerVars,
         blockPersistence

\* A step of the handler h that touches its own request, the mutex and the
\* row of its own key, and nothing else.
OwnStep(h) ==
    /\ \A g \in Handlers \ {h} :
          /\ pc'[g] = pc[g] /\ key'[g] = key[g] /\ print'[g] = print[g]
          /\ seen'[g] = seen[g] /\ verdict'[g] = verdict[g]
    /\ \A k \in Keys \ {key[h]} :
          /\ rec'[k] = rec[k] /\ lock'[k] = lock[k] /\ job'[k] = job[k]
          /\ attempts'[k] = attempts[k] /\ ran'[k] = ran[k]
          /\ told'[k] = told[k]
    /\ up' = up
    /\ ~blocked' => ~blocked

\* Such a step preserves the invariant if it does for its own request and row:
\* mutual exclusion keeps the rows of all other handlers out of its reach.
LEMMA OwnStepInv ==
    ASSUME TypeOK, RequestInv, LockInv, RowsInv,
           NEW h \in Handlers, pc[h] \in Holding, OwnStep(h),
           pc'[h] \in Holding => RowInv(h)',
           NEW own \in Keys, own = key[h],
           KeyInv(own)',
           ~blocked' => OwnerInv(own)'
    PROVE  RowsInv'
  <1>0. key[h] \in Keys
    BY DEF RequestInv, Holding
  <1>1. ASSUME NEW g \in Handlers \ {h}, pc'[g] \in Holding
        PROVE  RowInv(g)'
    <2>1. pc[g] \in Holding /\ key[g] \in Keys /\ key[g] # key[h]
      BY <1>1 DEF OwnStep, LockInv, RequestInv, Holding
    <2>2. RowInv(g)
      BY <2>1 DEF RowsInv, HandlerInv
    <2> QED BY <2>1, <2>2 DEF OwnStep, RowInv
  <1>2. ASSUME NEW k \in Keys \ {key[h]}
        PROVE  KeyInv(k)'
    BY <1>2 DEF OwnStep, RowsInv, KeyInv
  <1>3. ASSUME NEW k \in Keys \ {key[h]}, up', ~blocked'
        PROVE  OwnerInv(k)'
    <2>1. OwnerInv(k)
      BY <1>3 DEF RowsInv, OwnStep
    <2> QED BY <1>3, <2>1 DEF OwnerInv, OwnStep
  <1>4. HandlerInv'
    BY <1>1 DEF HandlerInv
  <1>5. (\A k \in Keys : KeyInv(k))'
    BY <1>0, <1>2
  <1>6. (up /\ ~blocked => \A k \in Keys : OwnerInv(k))'
    BY <1>0, <1>3
  <1> QED BY <1>4, <1>5, <1>6 DEF RowsInv

\* Moving to another program counter, or answering, is such a step.
LEMMA GotoOwn ==
    ASSUME TypeOK, NEW h \in Handlers, NEW p, Goto(h, p)
    PROVE  /\ pc'[h] = p /\ key'[h] = key[h] /\ print'[h] = print[h]
           /\ lock' = lock
           /\ \A g \in Handlers \ {h} :
                 pc'[g] = pc[g] /\ key'[g] = key[g] /\ print'[g] = print[g]
  BY DEF TypeOK, Goto

LEMMA AnswerOwn ==
    ASSUME TypeOK, RequestInv, LockInv, NEW h \in Handlers, NEW a,
           pc[h] \in Holding, Answer(h, a)
    PROVE  /\ pc'[h] = "idle"
           /\ told'[key[h]] = told[key[h]] \cup ({a} \cap Final)
           /\ \A g \in Handlers \ {h} :
                 /\ pc'[g] = pc[g] /\ key'[g] = key[g]
                 /\ print'[g] = print[g]
                 /\ seen'[g] = seen[g] /\ verdict'[g] = verdict[g]
           /\ \A k \in Keys \ {key[h]} : lock'[k] = lock[k] /\ told'[k] = told[k]
  <1>1. key[h] \in Keys
    BY DEF RequestInv, Holding
  <1>2. \A k \in Keys \ {key[h]} : lock[k] # h
    BY DEF LockInv
  <1> QED BY <1>1, <1>2 DEF TypeOK, Answer, Release

\* A step that changes no row: the invariant needs only the program counter
\* the handler moves to.
LEMMA QuietGoto ==
    ASSUME TypeOK, RequestInv, LockInv, RowsInv,
           NEW h \in Handlers, pc[h] \in Holding, NEW p \in Holding,
           Goto(h, p), rec' = rec, ~blocked' => ~blocked,
           UNCHANGED <<job, attempts, ran, told, up>>,
           \A g \in Handlers \ {h} : seen'[g] = seen[g] /\ verdict'[g] = verdict[g],
           RowInv(h)',
           up /\ ~blocked' => OwnedStatus(pc[h]) \subseteq OwnedStatus(p)
    PROVE  RowsInv'
  <1> PICK own \in Keys : own = key[h]
    BY DEF RequestInv, Holding
  <1>1. OwnStep(h)
    BY GotoOwn DEF OwnStep
  <1>2. KeyInv(own)'
    BY DEF RowsInv, KeyInv
  <1>3. up
    BY DEF RequestInv, Holding
  <1>4. ASSUME ~blocked' PROVE OwnerInv(own)'
    <2>1. OwnerInv(own)
      BY <1>3, <1>4 DEF RowsInv
    <2>2. lock[own] = h
      BY DEF LockInv
    <2>3. lock' = lock /\ key'[h] = own /\ pc'[h] = p
      BY GotoOwn
    <2> QED BY <1>3, <1>4, <2>1, <2>2, <2>3 DEF OwnerInv
  <1> QED BY <1>1, <1>2, <1>4, OwnStepInv

LEMMA QuietAnswer ==
    ASSUME TypeOK, RequestInv, LockInv, RowsInv,
           NEW h \in Handlers, pc[h] \in Holding, OwnedStatus(pc[h]) = {},
           NEW a, Answer(h, a), rec' = rec, ~blocked' => ~blocked,
           UNCHANGED <<job, attempts, ran, up>>,
           a \in Final => /\ a = recordResponse(rec[key[h]])
                         /\ rec[key[h]].status # "absent"
    PROVE  RowsInv'
  <1> PICK own \in Keys : own = key[h]
    BY DEF RequestInv, Holding
  <1>1. OwnStep(h)
    BY AnswerOwn DEF OwnStep
  <1>2. KeyInv(own)'
    <2>1. told'[own] = told[own] \cup ({a} \cap Final)
      BY AnswerOwn
    <2>2. KeyInv(own)
      BY DEF RowsInv
    <2> QED BY <2>1, <2>2 DEF KeyInv
  <1>3. up /\ pc'[h] = "idle"
    BY AnswerOwn DEF RequestInv, Holding
  <1>4. ASSUME ~blocked' PROVE OwnerInv(own)'
    <2>1. OwnerInv(own)
      BY <1>3, <1>4 DEF RowsInv
    <2>2. lock[own] = h
      BY DEF LockInv
    <2> QED BY <2>1, <2>2 DEF OwnerInv
  <1>5. "idle" \notin Holding
    BY DEF Holding
  <1> QED BY <1>1, <1>2, <1>3, <1>4, <1>5, OwnStepInv

LEMMA PersistRow ==
    ASSUME NEW h \in Handlers, NEW r \in Record, rec'[key'[h]] = r,
           pc'[h] = "persist_held"
    PROVE  RowInv(h)'
  <1>1. r.status \in Status \cup {"absent"}
    BY DEF Record
  <1> QED BY <1>1 DEF RowInv, ExpectedStatus

\* The reading steps of a handler.
LEMMA ReadRows ==
    ASSUME TypeOK, RequestInv, LockInv, RowsInv, NEW h \in Handlers,
           \/ Lookup(h) \/ LookupError(h) \/ Await(h)
           \/ PollCancelled(h) \/ Poll(h) \/ PollError(h)
    PROVE  RowsInv'
  <1>0. /\ pc[h] \in {"lookup", "await", "poll"}
        /\ UNCHANGED <<job, attempts, ran, up>>
        /\ rec' = rec /\ (~blocked' => ~blocked)
    BY LookupRows
    DEF Lookup, LookupError, Await, PollCancelled, Poll, PollError, At,
        GotoPersist, historyVars, countVars, ledgerVars
  <1>1. pc[h] \in Holding /\ OwnedStatus(pc[h]) = {} /\ RowInv(h)
    BY <1>0 DEF Holding, OwnedStatus, RowsInv, HandlerInv
  <1>2. key[h] \in Keys /\ rec[key[h]] \in Record
    BY <1>1 DEF RequestInv, Holding, TypeOK, LedgerTypeOK
  <1>3. ASSUME NEW p \in {"reserve", "poll", "persist_held"},
               Goto(h, p), UNCHANGED <<seen, verdict, told>>,
               p = "reserve" => rec[key[h]] = Absent
        PROVE  RowsInv'
    <2>1. RowInv(h)'
      BY <1>0, <1>2, <1>3, GotoOwn
      DEF RowInv, ExpectedStatus, Absent, Record
    <2> QED BY <1>0, <1>1, <1>3, <2>1, QuietGoto DEF Holding
  <1>4. ASSUME rec[key[h]] # Absent, TakeRow(h)
        PROVE  RowsInv'
    <2>1. CASE rec[key[h]].print # print[h]
      BY <1>0, <1>1, <1>4, <2>1, QuietAnswer DEF TakeRow, Final
    <2>2. CASE rec[key[h]].print = print[h]
      <3>1. /\ Goto(h, "await") /\ UNCHANGED <<verdict, told>>
            /\ seen' = [seen EXCEPT ![h] = rec[key[h]]]
        BY <1>4, <2>2 DEF TakeRow
      <3>2. rec[key[h]].status # "absent"
        BY <1>2, <1>4 DEF RowsInv, KeyInv
      <3>3. pc'[h] = "await" /\ key'[h] = key[h] /\ seen'[h] = rec[key[h]]
        BY <3>1, GotoOwn DEF TypeOK
      <3>4. RowInv(h)'
        BY <1>0, <1>2, <3>2, <3>3 DEF RowInv, ExpectedStatus, Record
      <3> QED BY <1>0, <1>1, <3>1, <3>4, QuietGoto DEF Holding, TypeOK
    <2> QED BY <2>1, <2>2
  <1>5. CASE Lookup(h) \/ Poll(h)
    <2>1. ASSUME Answer(h, "invalid")
          PROVE  RowsInv'
      BY <1>0, <1>1, <2>1, QuietAnswer DEF Final
    <2> QED BY <1>3, <1>4, <1>5, <2>1 DEF Lookup, Validate, Poll
  <1>6. CASE LookupError(h) \/ PollError(h)
    BY <1>3, <1>6 DEF LookupError, PollError, GotoPersist, historyVars
  <1>7. CASE PollCancelled(h)
    BY <1>0, <1>1, <1>7, QuietAnswer DEF PollCancelled, Final
  <1>8. CASE Await(h)
    <2>1. CASE seen[h].status \in {"authorization_pending", "accepted"}
      BY <1>3, <1>8, <2>1 DEF Await
    <2>2. CASE seen[h].status \notin {"authorization_pending", "accepted"}
      <3>1. Answer(h, recordResponse(seen[h]))
        BY <1>8, <2>2 DEF Await
      <3>2. seen[h] \in Record /\ seen[h].status # "absent"
        BY <1>1, <1>8 DEF RowInv, Await, At, TypeOK
      <3>3. CASE seen[h].status = "running"
        BY <1>0, <1>1, <3>1, <3>3, QuietAnswer DEF recordResponse, Final
      <3>4. CASE seen[h].status \in Terminal
        <4>1. seen[h] = rec[key[h]]
          BY <1>1, <1>8, <3>4 DEF RowInv, Await, At
        <4> QED BY <1>0, <1>1, <3>1, <3>2, <4>1, QuietAnswer
      <3> QED BY <2>2, <3>2, <3>3, <3>4 DEF Record, Status, Unresolved
    <2> QED BY <2>1, <2>2
  <1> QED BY <1>5, <1>6, <1>7, <1>8

-----------------------------------------------------------------------------
\* The claim: the handler that inserts the row becomes its owner.
LEMMA ReserveRowsInv ==
    ASSUME TypeOK, RequestInv, LockInv, RowsInv, NEW h \in Handlers,
           Reserve(h) \/ ReserveError(h)
    PROVE  RowsInv'
  <1>0. /\ pc[h] = "reserve" /\ pc[h] \in Holding /\ up
        /\ UNCHANGED <<job, attempts, ran, up>>
    BY DEF Reserve, ReserveError, At, Holding, GotoPersist, historyVars,
           countVars
  <1> PICK own \in Keys : own = key[h]
    BY <1>0 DEF RequestInv
  <1>1. rec[own] = Absent /\ KeyInv(own) /\ LedgerTypeOK
    BY <1>0
    DEF RowsInv, HandlerInv, RowInv, ExpectedStatus, KeyInv, TypeOK
  <1>2. ASSUME rec'[own] \in {Absent, Claimed(print[h])}, told' = told
        PROVE  KeyInv(own)'
    <2>1. CASE rec'[own] = Absent
      BY <1>0, <1>1, <1>2, <2>1 DEF KeyInv
    <2>2. CASE rec'[own] = Claimed(print[h])
      <3>1. rec'[own].status = "authorization_pending"
        BY <2>2 DEF Claimed, Absent
      <3>2. attempts'[own] = 0 /\ told'[own] = {}
        BY <1>0, <1>1, <1>2 DEF KeyInv, Absent
      <3> QED BY <3>1, <3>2 DEF KeyInv
    <2> QED BY <1>2, <2>1, <2>2
  <1>3. CASE Reserve(h)
    <2>1. Goto(h, "authorize") /\ UNCHANGED <<seen, verdict, told>>
      BY <1>1, <1>3 DEF Reserve
    <2>2. /\ rec'[own] = Claimed(print[h]) /\ blocked' = blocked
          /\ \A j \in Keys \ {own} : rec'[j] = rec[j]
      BY <1>1, <1>3, ReserveSucceedsRows DEF Reserve
    <2>3. /\ pc'[h] = "authorize" /\ key'[h] = own /\ print'[h] = print[h]
          /\ lock' = lock /\ lock[own] = h
      BY <1>0, <2>1, GotoOwn DEF LockInv
    <2>4. OwnStep(h)
      BY <1>0, <2>1, <2>2, <2>3, GotoOwn DEF OwnStep
    <2>5. RowInv(h)'
      <3>1. /\ rec'[own].status = "authorization_pending"
            /\ rec'[own].print = print[h]
        BY <2>2 DEF Claimed, Absent
      <3> QED BY <2>3, <3>1 DEF RowInv, ExpectedStatus
    <2>6. OwnerInv(own)'
      BY <2>2, <2>3 DEF OwnerInv, OwnedStatus, Claimed, Absent
    <2> QED BY <1>0, <1>2, <2>1, <2>2, <2>4, <2>5, <2>6, OwnStepInv
  <1>4. CASE ReserveError(h)
    <2>1. Goto(h, "persist_held") /\ UNCHANGED <<seen, verdict, told>>
      BY <1>4 DEF ReserveError, GotoPersist, historyVars
    <2>2. /\ rec'[own] \in {Absent, Claimed(print[h])} /\ blocked'
          /\ \A j \in Keys \ {own} : rec'[j] = rec[j]
      BY <1>1, <1>4, ReserveFailsRows DEF ReserveError
    <2>3. pc'[h] = "persist_held" /\ key'[h] = own /\ lock' = lock
      BY <2>1, GotoOwn
    <2>4. OwnStep(h)
      BY <1>0, <2>1, <2>2, <2>3, GotoOwn DEF OwnStep
    <2>5. RowInv(h)'
      <3>1. rec'[own] \in Record
        BY <1>4, StepType DEF Step, TypeOK, LedgerTypeOK
      <3> QED BY <2>3, <3>1, PersistRow
    <2> QED BY <1>0, <1>2, <2>1, <2>2, <2>4, <2>5, OwnStepInv
  <1> QED BY <1>3, <1>4

\* The Authorizer's decision and the executor's report change no row.
LEMMA DecisionRows ==
    ASSUME TypeOK, RequestInv, LockInv, RowsInv, NEW h \in Handlers,
           \/ Authorize(h) \/ ExecuteSucceeds(h) \/ ExecuteFails(h)
           \/ ExecuteUnknown(h)
    PROVE  RowsInv'
  <1>1. CASE Authorize(h)
    <2>0. /\ pc[h] = "authorize" /\ pc[h] \in Holding /\ RowInv(h)
          /\ UNCHANGED <<seen, job, attempts, ran, told, up, rec, blocked>>
      BY <1>1 DEF Authorize, At, Holding, RowsInv, HandlerInv, ledgerVars,
         historyVars, countVars
    <2>1. ASSUME NEW p \in {"accept", "settle"}, Goto(h, p),
                 \A g \in Handlers \ {h} : verdict'[g] = verdict[g],
                 p = "settle" =>
                    /\ verdict'[h].status \in {"denied", "authorization_failed"}
                    /\ verdict'[h].payload \in Final
          PROVE  RowsInv'
      <3>1. RowInv(h)'
        BY <2>0, <2>1, GotoOwn DEF RowInv, ExpectedStatus
      <3>2. OwnedStatus("authorize") = OwnedStatus(p) /\ p \in Holding
        BY DEF OwnedStatus, Holding
      <3> QED BY <2>0, <2>1, <3>1, <3>2, QuietGoto
    <2>2. CASE Goto(h, "accept") /\ UNCHANGED verdict
      BY <2>1, <2>2
    <2>3. ASSUME NEW v \in {[status |-> "denied",
                             payload |-> "authorization-denied"],
                            [status |-> "authorization_failed",
                             payload |-> "user-lookup-failed"],
                            [status |-> "authorization_failed",
                             payload |-> "authorization-unavailable"]},
                 Goto(h, "settle"), verdict' = [verdict EXCEPT ![h] = v]
          PROVE  RowsInv'
      BY <2>1, <2>3 DEF TypeOK, Final
    <2> QED BY <1>1, <2>2, <2>3 DEF Authorize
  <1>2. ASSUME NEW st \in {"succeeded", "failed", "unknown"},
               NEW pl \in Final, pc[h] = "executing",
               Concluded(h, st, pl),
               st = "succeeded" => job[key[h]] = "applied"
        PROVE  RowsInv'
    <2>0. /\ pc[h] \in Holding /\ RowInv(h)
          /\ Goto(h, "finish")
          /\ UNCHANGED <<seen, job, attempts, ran, told, up, rec, blocked>>
      BY <1>2 DEF Concluded, Holding, RowsInv, HandlerInv, ledgerVars,
         historyVars, countVars
    <2>1. /\ verdict'[h] = [status |-> st, payload |-> pl]
          /\ \A g \in Handlers \ {h} : verdict'[g] = verdict[g]
      BY <1>2 DEF Concluded, TypeOK
    <2>2. RowInv(h)'
      BY <1>2, <2>0, <2>1, GotoOwn DEF RowInv, ExpectedStatus
    <2>3. OwnedStatus("executing") = OwnedStatus("finish")
          /\ "finish" \in Holding
      BY DEF OwnedStatus, Holding
    <2> QED BY <1>2, <2>0, <2>1, <2>2, <2>3, QuietGoto
  <1>3. CASE ExecuteSucceeds(h) \/ ExecuteFails(h) \/ ExecuteUnknown(h)
    BY <1>2, <1>3 DEF ExecuteSucceeds, ExecuteFails, ExecuteUnknown, At, Final
  <1> QED BY <1>1, <1>3

\* The dispatch: the row says running, or unknown since a reconciliation, and
\* nothing has been dispatched for it before.
LEMMA ExecuteRows ==
    ASSUME TypeOK, RequestInv, LockInv, RowsInv, NEW h \in Handlers,
           Execute(h)
    PROVE  RowsInv'
  <1>0. /\ pc[h] = "execute" /\ pc[h] \in Holding /\ RowInv(h) /\ up
        /\ UNCHANGED <<seen, verdict, told, up, rec, blocked>>
    BY DEF Execute, At, Holding, RowsInv, HandlerInv, ledgerVars, countVars
  <1> PICK own \in Keys : own = key[h]
    BY <1>0 DEF RequestInv
  <1>1. /\ attempts'[own] = 1 /\ ran'[own] = print[h] /\ job'[own] = "called"
        /\ \A k \in Keys \ {own} : /\ attempts'[k] = attempts[k]
                                     /\ ran'[k] = ran[k] /\ job'[k] = job[k]
    BY <1>0 DEF Execute, TypeOK, RowInv
  <1>2. /\ pc'[h] = "executing" /\ key'[h] = own /\ print'[h] = print[h]
        /\ lock' = lock /\ lock[own] = h
    BY <1>0, GotoOwn DEF Execute, LockInv
  <1>3. OwnStep(h)
    BY <1>0, <1>1, <1>2, GotoOwn DEF OwnStep, Execute
  <1>4. RowInv(h)'
    BY <1>0, <1>1, <1>2 DEF RowInv, ExpectedStatus
  <1>5. KeyInv(own)'
    <2>1. /\ rec[own].status \in {"running", "unknown"}
          /\ rec[own].admin /\ rec[own].boundary
          /\ rec[own].print = print[h]
      BY <1>0 DEF RowInv, ExpectedStatus
    <2>2. KeyInv(own)
      BY DEF RowsInv
    <2> QED BY <1>0, <1>1, <2>1, <2>2 DEF KeyInv, Executed
  <1>6. ASSUME ~blocked' PROVE OwnerInv(own)'
    <2>1. OwnerInv(own)
      BY <1>0, <1>6 DEF RowsInv
    <2> QED BY <1>0, <1>2, <2>1 DEF OwnerInv, OwnedStatus
  <1> QED BY <1>0, <1>3, <1>4, <1>5, <1>6, OwnStepInv

-----------------------------------------------------------------------------
\* Nothing final has been said about a row that is not resolved.
LEMMA NothingTold ==
    ASSUME TypeOK, NEW k \in Keys, KeyInv(k), rec[k].status \in Unresolved
    PROVE  told[k] = {}
  <1>1. recordResponse(rec[k]) \in {"running", "being-processed"}
    BY DEF recordResponse, Unresolved
  <1>2. told[k] \subseteq Final
    BY DEF TypeOK
  <1> QED BY <1>1, <1>2 DEF KeyInv, Final

\* What Transition writes into a row.
LEMMA MovedRowFields ==
    ASSUME NEW row \in Record, NEW next, NEW data \in TransitionDataSet
    PROVE  LET new == MovedRow(row, next, data)
           IN  /\ new.status = next
               /\ new.print = row.print
               /\ row.admin \/ data.admin => new.admin
               /\ row.boundary \/ data.boundary => new.boundary
               /\ data.payload # "none" => new.payload = data.payload
  BY DEF MovedRow, Record, TransitionDataSet

LEMMA MovedKey ==
    ASSUME TypeOK, NEW k \in Keys, KeyInv(k), rec[k].status \in Unresolved,
           NEW next \in Status, NEW data \in TransitionDataSet,
           rec'[k] = MovedRow(rec[k], next, data),
           attempts'[k] = attempts[k], ran'[k] = ran[k], job'[k] = job[k],
           attempts[k] > 0 => next \in Executed,
           next = "succeeded" => job[k] = "applied",
           told'[k] \subseteq {recordResponse(rec'[k])}
    PROVE  KeyInv(k)'
  <1>1. rec[k] \in Record
    BY DEF TypeOK, LedgerTypeOK
  <1>2. /\ rec'[k].status = next
        /\ rec'[k].print = rec[k].print
        /\ rec[k].admin => rec'[k].admin
        /\ rec[k].boundary => rec'[k].boundary
    BY <1>1, MovedRowFields
  <1>3. next # "absent"
    BY DEF Status, Unresolved, Terminal
  <1> QED BY <1>2, <1>3 DEF KeyInv

\* A transition that succeeds and lets the handler go on.
LEMMA AcceptRunRows ==
    ASSUME TypeOK, RequestInv, LockInv, RowsInv, NEW h \in Handlers,
           Accept(h) \/ Run(h)
    PROVE  RowsInv'
  <1>0. /\ pc[h] \in {"accept", "run"} /\ pc[h] \in Holding /\ RowInv(h)
        /\ UNCHANGED <<seen, verdict, job, attempts, ran, told, up>>
    BY DEF Accept, Run, At, Holding, RowsInv, HandlerInv, historyVars,
           countVars
  <1> PICK own \in Keys : own = key[h]
    BY <1>0 DEF RequestInv, Holding
  <1>1. KeyInv(own) /\ rec[own] \in Record /\ LedgerTypeOK
    BY DEF RowsInv, TypeOK, LedgerTypeOK
  <1>2. AcceptData \in TransitionDataSet /\ RunData \in TransitionDataSet
    BY TypeParts, DataTypes
  <1>3. AcceptData.admin /\ RunData.boundary
    BY DEF AcceptData, RunData, TransitionData
  <1>4. lock[own] = h
    BY <1>0 DEF LockInv
  <1>5. rec[own].print = print[h]
    BY <1>0 DEF RowInv
  <1>6. attempts[own] = 0
    BY <1>0, <1>1 DEF RowInv, ExpectedStatus, KeyInv, Executed, TypeOK
  <1>7. CASE Accept(h)
    <2>1. Goto(h, "run")
      BY <1>7 DEF Accept
    <2>2. /\ rec[own].status = "authorization_pending"
          /\ rec'[own] = MovedRow(rec[own], "accepted", AcceptData)
          /\ \A j \in Keys \ {own} : rec'[j] = rec[j]
          /\ blocked' = blocked
      BY <1>1, <1>7, TransitionSucceedsRows DEF Accept
    <2>3. /\ rec'[own].status = "accepted" /\ rec'[own].admin
          /\ rec'[own].print = print[h]
      BY <1>1, <1>2, <1>3, <1>5, <2>2, MovedRowFields
    <2>4. /\ pc'[h] = "run" /\ key'[h] = own /\ print'[h] = print[h]
          /\ lock' = lock
      BY <2>1, GotoOwn
    <2>5. OwnStep(h)
      BY <1>0, <2>1, <2>2, <2>4, GotoOwn DEF OwnStep
    <2>6. KeyInv(own)'
      <3>1. told[own] = {}
        BY <1>1, <2>2, NothingTold DEF Unresolved
      <3>2. "accepted" \in Status /\ rec[own].status \in Unresolved
        BY <2>2 DEF Status, Unresolved
      <3> QED BY <1>0, <1>1, <1>2, <1>6, <2>2, <3>1, <3>2, MovedKey
    <2>7. RowInv(h)'
      BY <2>3, <2>4 DEF RowInv, ExpectedStatus
    <2>8. OwnerInv(own)'
      BY <1>4, <2>3, <2>4 DEF OwnerInv, OwnedStatus
    <2> QED BY <1>0, <2>5, <2>6, <2>7, <2>8, OwnStepInv
  <1>8. CASE Run(h)
    <2>1. Goto(h, "execute") /\ rec[own].admin
      BY <1>0, <1>8 DEF Run, At, RowInv
    <2>2. /\ rec[own].status = "accepted"
          /\ rec'[own] = MovedRow(rec[own], "running", RunData)
          /\ \A j \in Keys \ {own} : rec'[j] = rec[j]
          /\ blocked' = blocked
      BY <1>1, <1>8, TransitionSucceedsRows DEF Run
    <2>3. /\ rec'[own].status = "running"
          /\ rec'[own].admin /\ rec'[own].boundary
          /\ rec'[own].print = print[h]
      BY <1>1, <1>2, <1>3, <1>5, <2>1, <2>2, MovedRowFields
    <2>4. /\ pc'[h] = "execute" /\ key'[h] = own /\ print'[h] = print[h]
          /\ lock' = lock
      BY <2>1, GotoOwn
    <2>5. OwnStep(h)
      BY <1>0, <2>1, <2>2, <2>4, GotoOwn DEF OwnStep
    <2>6. KeyInv(own)'
      <3>1. told[own] = {}
        BY <1>1, <2>2, NothingTold DEF Unresolved
      <3>2. "running" \in Status /\ rec[own].status \in Unresolved
        BY <2>2 DEF Status, Unresolved
      <3> QED BY <1>0, <1>1, <1>2, <1>6, <2>2, <3>1, <3>2, MovedKey
    <2>7. RowInv(h)'
      BY <1>0, <1>6, <2>3, <2>4 DEF RowInv, ExpectedStatus
    <2>8. OwnerInv(own)'
      BY <1>4, <2>3, <2>4 DEF OwnerInv, OwnedStatus
    <2> QED BY <1>0, <2>5, <2>6, <2>7, <2>8, OwnStepInv
  <1> QED BY <1>7, <1>8

\* A transition that ends the command: the answer repeats what the row says.
LEMMA EndRows ==
    ASSUME TypeOK, RequestInv, LockInv, RowsInv, NEW h \in Handlers,
           Settle(h) \/ Finish(h)
    PROVE  RowsInv'
  <1>0. /\ pc[h] \in {"settle", "finish"} /\ pc[h] \in Holding /\ RowInv(h)
        /\ UNCHANGED <<job, attempts, ran, up>>
        /\ Answer(h, verdict[h].payload)
    BY DEF Settle, Finish, At, Holding, RowsInv, HandlerInv, countVars
  <1> PICK own \in Keys : own = key[h]
    BY <1>0 DEF RequestInv, Holding
  <1> DEFINE next == verdict[h].status
             pay == verdict[h].payload
  <1>1. KeyInv(own) /\ rec[own] \in Record /\ LedgerTypeOK
    BY DEF RowsInv, TypeOK, LedgerTypeOK
  <1>2. VerdictData(h) \in TransitionDataSet /\ VerdictData(h).payload = pay
    BY TypeParts, DataTypes DEF VerdictData, TransitionData
  <1>3. /\ rec[own].status \in {"authorization_pending", "running"}
        /\ pc[h] = "finish" <=> rec[own].status = "running"
        /\ rec'[own] = MovedRow(rec[own], next, VerdictData(h))
        /\ \A j \in Keys \ {own} : rec'[j] = rec[j]
        /\ blocked' = blocked
    BY <1>1, TransitionSucceedsRows DEF Settle, Finish, At
  <1>4. /\ next \in Terminal \ {"authorization_uncertain"}
        /\ pay \in Final /\ pay # "none"
        /\ attempts[own] > 0 => next \in Executed
        /\ next = "succeeded" => job[own] = "applied"
    BY <1>0, <1>1, <1>3 DEF RowInv, Terminal, Final, KeyInv, Executed
  <1>5. rec'[own].status = next /\ rec'[own].payload = pay
    BY <1>1, <1>2, <1>3, <1>4, MovedRowFields
  <1>6. recordResponse(rec'[own]) = pay
    BY <1>4, <1>5 DEF recordResponse, Terminal
  <1>7. told'[own] = {pay}
    <2>1. told[own] = {}
      BY <1>1, <1>3, NothingTold DEF Unresolved
    <2> QED BY <1>0, <1>4, <2>1, AnswerOwn
  <1>8. KeyInv(own)'
    <2>1. next \in Status /\ rec[own].status \in Unresolved
      BY <1>3, <1>4 DEF Status, Unresolved
    <2> QED BY <1>0, <1>1, <1>2, <1>3, <1>4, <1>6, <1>7, <2>1, MovedKey
  <1>9. OwnStep(h) /\ pc'[h] \notin Holding
    BY <1>0, <1>3, AnswerOwn DEF OwnStep, Holding
  <1>10. OwnerInv(own)'
    BY <1>4, <1>5 DEF OwnerInv, Unresolved, Terminal
  <1> QED BY <1>0, <1>8, <1>9, <1>10, OwnStepInv

\* A transition that fails: either the gate is closed now, and the row is
\* moved or not, or the row was no longer the handler's to move.
LEMMA EndErrorRows ==
    ASSUME TypeOK, RequestInv, LockInv, RowsInv, NEW h \in Handlers,
           \/ SettleError(h) \/ AcceptError(h) \/ RunError(h)
           \/ FinishError(h)
    PROVE  RowsInv'
  <1>0. /\ pc[h] \in {"settle", "accept", "run", "finish"}
        /\ pc[h] \in Holding /\ RowInv(h) /\ up
        /\ UNCHANGED <<seen, verdict, job, attempts, ran, told, up>>
        /\ Goto(h, "persist_held")
    BY DEF SettleError, AcceptError, RunError, FinishError, GotoPersist, At,
           Holding, RowsInv, HandlerInv, historyVars, countVars
  <1> PICK own \in Keys : own = key[h]
    BY <1>0 DEF RequestInv, Holding
  <1>1. KeyInv(own) /\ rec[own] \in Record /\ LedgerTypeOK
    BY DEF RowsInv, TypeOK, LedgerTypeOK
  <1>2. /\ AcceptData \in TransitionDataSet /\ RunData \in TransitionDataSet
        /\ VerdictData(h) \in TransitionDataSet
    BY TypeParts, DataTypes
  <1>3. rec'[own] \in Record
    BY StepType DEF Step, TypeOK, LedgerTypeOK
  <1>4. /\ pc'[h] = "persist_held" /\ key'[h] = own /\ lock' = lock
        /\ lock[own] = h
    BY <1>0, GotoOwn DEF LockInv
  <1>5. RowInv(h)'
    BY <1>3, <1>4, PersistRow
  <1>6. ASSUME NEW expected \in Unresolved, NEW next \in Status,
               NEW data \in TransitionDataSet,
               TransitionFails(h, own, expected, next, data, done[h]),
               TransitionValid(expected, next, data),
               OwnedStatus(pc[h]) = {expected},
               rec[own].status = expected /\ attempts[own] > 0 =>
                   next \in Executed,
               next = "succeeded" => job[own] = "applied"
        PROVE  RowsInv'
    <2>1. /\ \/ rec'[own] = rec[own]
             \/ /\ rec[own].status = expected
                /\ rec'[own] = MovedRow(rec[own], next, data)
                /\ blocked'
          /\ \A j \in Keys \ {own} : rec'[j] = rec[j]
          /\ ~blocked' => ~blocked /\ rec[own].status # expected
      BY <1>1, <1>6, TransitionFailsRows
    <2>2. OwnStep(h)
      BY <1>0, <1>4, <2>1, GotoOwn DEF OwnStep
    <2>3. KeyInv(own)'
      <3>1. CASE rec'[own] = rec[own]
        BY <1>0, <1>1, <3>1 DEF KeyInv
      <3>2. CASE /\ rec[own].status = expected
                 /\ rec'[own] = MovedRow(rec[own], next, data)
        <4>1. told'[own] = {}
          BY <1>0, <1>1, <1>6, <3>2, NothingTold
        <4> QED BY <1>0, <1>1, <1>6, <3>2, <4>1, MovedKey
      <3> QED BY <2>1, <3>1, <3>2
    <2>4. ASSUME ~blocked' PROVE OwnerInv(own)'
      <3>1. OwnerInv(own) /\ rec[own].status # expected
        BY <1>0, <2>1, <2>4 DEF RowsInv
      <3>2. rec[own].status \notin Unresolved
        BY <1>4, <1>6, <3>1 DEF OwnerInv
      <3>3. rec'[own] = rec[own]
        BY <2>1, <2>4
      <3> QED BY <3>2, <3>3 DEF OwnerInv
    <2> QED BY <1>0, <1>5, <2>2, <2>3, <2>4, OwnStepInv
  <1>7. CASE SettleError(h)
    <2>1. /\ pc[h] = "settle"
          /\ verdict[h].status \in {"denied", "authorization_failed"}
          /\ verdict[h].payload # "none"
      BY <1>0, <1>7 DEF SettleError, At, RowInv, Final
    <2>2. TransitionValid("authorization_pending", verdict[h].status,
                          VerdictData(h))
      BY <2>1 DEF TransitionValid, allowedTransition, VerdictData,
         TransitionData
    <2>3. rec[own].status = "authorization_pending" => ~(attempts[own] > 0)
      BY <1>1 DEF KeyInv, Executed
    <2>4. /\ "authorization_pending" \in Unresolved
          /\ verdict[h].status \in Status
          /\ OwnedStatus(pc[h]) = {"authorization_pending"}
      BY <2>1 DEF Unresolved, Status, Terminal, OwnedStatus
    <2> QED BY <1>2, <1>6, <1>7, <2>1, <2>2, <2>3, <2>4 DEF SettleError
  <1>8. CASE AcceptError(h)
    <2>1. TransitionValid("authorization_pending", "accepted", AcceptData)
      BY DEF TransitionValid, allowedTransition, AcceptData, TransitionData
    <2>2. rec[own].status = "authorization_pending" => ~(attempts[own] > 0)
      BY <1>1 DEF KeyInv, Executed
    <2>3. /\ "authorization_pending" \in Unresolved /\ "accepted" \in Status
          /\ OwnedStatus(pc[h]) = {"authorization_pending"}
      BY <1>8 DEF AcceptError, At, Unresolved, Status, OwnedStatus
    <2> QED BY <1>2, <1>6, <1>8, <2>1, <2>2, <2>3 DEF AcceptError
  <1>9. CASE RunError(h)
    <2>1. TransitionValid("accepted", "running", RunData)
      BY DEF TransitionValid, allowedTransition, RunData, TransitionData
    <2>2. /\ "accepted" \in Unresolved /\ "running" \in Status
          /\ "running" \in Executed
          /\ OwnedStatus(pc[h]) = {"accepted"}
      BY <1>9 DEF RunError, At, Unresolved, Status, OwnedStatus, Executed
    <2> QED BY <1>2, <1>6, <1>9, <2>1, <2>2 DEF RunError
  <1>10. CASE FinishError(h)
    <2>1. /\ pc[h] = "finish"
          /\ verdict[h].status \in {"succeeded", "failed", "unknown"}
          /\ verdict[h].status = "succeeded" => job[own] = "applied"
      BY <1>0, <1>10 DEF FinishError, At, RowInv
    <2>2. TransitionValid("running", verdict[h].status, VerdictData(h))
      BY <2>1 DEF TransitionValid, allowedTransition
    <2>3. /\ "running" \in Unresolved
          /\ verdict[h].status \in Status
          /\ verdict[h].status \in Executed
          /\ OwnedStatus(pc[h]) = {"running"}
      BY <2>1 DEF Unresolved, Status, Terminal, OwnedStatus, Executed
    <2> QED BY <1>2, <1>6, <1>10, <2>1, <2>2, <2>3 DEF FinishError
  <1> QED BY <1>7, <1>8, <1>9, <1>10

-----------------------------------------------------------------------------
\* Steps of handlers that own no row, and of the world around them.
LEMMA OutsideRows ==
    ASSUME TypeOK, RequestInv, LockInv, RowsInv, rec' = rec,
           UNCHANGED <<attempts, ran, told, up>>, ~blocked' => ~blocked,
           \A g \in Handlers : pc[g] \in Holding =>
               /\ pc'[g] = pc[g] /\ key'[g] = key[g] /\ print'[g] = print[g]
               /\ seen'[g] = seen[g] /\ verdict'[g] = verdict[g],
           \A g \in Handlers : pc'[g] \in Holding =>
               pc[g] \in Holding \/ RowInv(g)',
           \A k \in Keys : lock[k] \in Handlers => lock'[k] = lock[k],
           \A k \in Keys : job[k] = "applied" => job'[k] = "applied"
    PROVE  RowsInv'
  <1>1. ASSUME NEW g \in Handlers, pc[g] \in Holding
        PROVE  RowInv(g)'
    <2>1. RowInv(g) /\ key[g] \in Keys
      BY <1>1 DEF RowsInv, HandlerInv, RequestInv, Holding
    <2> QED BY <1>1, <2>1 DEF RowInv
  <1>2. HandlerInv'
    BY <1>1 DEF HandlerInv
  <1>3. (\A k \in Keys : KeyInv(k))'
    BY DEF RowsInv, KeyInv
  <1>4. ASSUME up', ~blocked', NEW k \in Keys
        PROVE  OwnerInv(k)'
    <2>1. OwnerInv(k)
      BY <1>4 DEF RowsInv
    <2>2. ASSUME rec[k].status \in Unresolved
          PROVE  /\ lock[k] \in Handlers /\ lock'[k] = lock[k]
                 /\ pc[lock[k]] \in Holding
      BY <2>1, <2>2 DEF OwnerInv, LockInv
    <2> QED BY <2>1, <2>2 DEF OwnerInv
  <1> QED BY <1>2, <1>3, <1>4 DEF RowsInv

LEMMA OutsideSteps ==
    ASSUME TypeOK, RequestInv, LockInv, RowsInv,
           \/ \E h \in Handlers, k \in Keys, f \in Prints : Receive(h, k, f)
           \/ \E h \in Handlers :
                 Admit(h) \/ Lock(h) \/ BeginWrite(h) \/ Cancel(h)
           \/ \E k \in Keys : HelperApplies(k) \/ HelperRefuses(k)
           \/ UNCHANGED vars
    PROVE  RowsInv'
  <1>1. ASSUME NEW h \in Handlers, NEW k \in Keys, NEW f \in Prints,
               Receive(h, k, f)
        PROVE  RowsInv'
    BY <1>1, OutsideRows DEF Receive, At, TypeOK, Holding, ledgerVars,
       historyVars, countVars
  <1>2. ASSUME NEW h \in Handlers, Admit(h)
        PROVE  RowsInv'
    <2>1. pc[h] = "admit" /\ Goto(h, IF blocked THEN "persist" ELSE "lock")
      BY <1>2 DEF Admit, At
    <2>2. /\ pc[h] \notin Holding /\ pc'[h] \notin Holding /\ lock' = lock
          /\ \A g \in Handlers \ {h} :
                pc'[g] = pc[g] /\ key'[g] = key[g] /\ print'[g] = print[g]
      BY <2>1, GotoOwn DEF Holding
    <2> QED BY <1>2, <2>2, OutsideRows
            DEF Admit, ledgerVars, historyVars, countVars
  <1>3. ASSUME NEW h \in Handlers, Lock(h)
        PROVE  RowsInv'
    <2>1. /\ pc[h] = "lock" /\ key[h] \in Keys /\ lock[key[h]] = NoHandler
          /\ pc[h] \notin Holding
          /\ pc'[h] = "lookup" /\ key' = key /\ rec' = rec
          /\ rec[key[h]] \in Record
      BY <1>3 DEF Lock, At, RequestInv, Holding, TypeOK, LedgerTypeOK,
         ledgerVars
    <2>2. RowInv(h)'
      BY <2>1 DEF RowInv, ExpectedStatus, Record
    <2>3. \A k \in Keys : lock[k] \in Handlers => lock'[k] = lock[k]
      BY <1>3, <2>1, LedgerAssumption DEF Lock, TypeOK
    <2>4. \A g \in Handlers \ {h} : pc'[g] = pc[g]
      BY <1>3 DEF Lock, TypeOK
    <2>5. UNCHANGED <<key, print, seen, verdict, job, attempts, ran, told, up,
                      rec, blocked>>
      BY <1>3 DEF Lock, ledgerVars, historyVars, countVars
    <2> QED BY <2>1, <2>2, <2>3, <2>4, <2>5, OutsideRows
  <1>4. ASSUME NEW h \in Handlers, BeginWrite(h) \/ Cancel(h)
        PROVE  RowsInv'
    BY <1>4, OutsideRows DEF BeginWrite, PassGate, Cancel, handlerVars,
       ledgerVars, historyVars, countVars
  <1>5. ASSUME NEW k \in Keys, HelperApplies(k) \/ HelperRefuses(k)
        PROVE  RowsInv'
    <2>1. \A j \in Keys : job[j] = "applied" => job'[j] = "applied"
      BY <1>5 DEF HelperApplies, HelperRefuses, TypeOK
    <2>2. UNCHANGED <<pc, key, print, seen, verdict, lock, attempts, ran,
                      told, up, rec, blocked>>
      BY <1>5 DEF HelperApplies, HelperRefuses, handlerVars, ledgerVars,
         historyVars, countVars
    <2> QED BY <2>1, <2>2, OutsideRows
  <1>6. CASE UNCHANGED vars
    BY <1>6, OutsideRows DEF vars
  <1> QED BY <1>1, <1>2, <1>3, <1>4, <1>5, <1>6

\* A recovery resolves every row, and every handler that still works on one
\* finds it in a status it expects.
LEMMA RecoveredRow ==
    ASSUME TypeOK, NEW k \in Keys, KeyInv(k),
           rec'[k] = recoverInterrupted[k],
           UNCHANGED <<attempts, ran, job>>, told'[k] = told[k]
    PROVE  KeyInv(k)' /\ rec'[k].status \notin Unresolved
  <1>1. /\ rec[k] \in Record
        /\ rec'[k] = [rec[k] EXCEPT !.status = RecoveredStatus(@)]
    BY DEF TypeOK, LedgerTypeOK, recoverInterrupted
  <1>2. /\ rec'[k].status = RecoveredStatus(rec[k].status)
        /\ rec'[k].print = rec[k].print /\ rec'[k].admin = rec[k].admin
        /\ rec'[k].boundary = rec[k].boundary
    BY <1>1 DEF Record
  <1>3. rec'[k].status \notin Unresolved
    BY <1>2 DEF RecoveredStatus, Unresolved
  <1>4. CASE rec[k].status \in Unresolved
    <2>1. told'[k] = {}
      BY <1>4, NothingTold
    <2>2. /\ rec'[k].status \in {"authorization_uncertain", "unknown"}
          /\ rec[k].status = "running" => rec'[k].status = "unknown"
      BY <1>2, <1>4 DEF RecoveredStatus, Unresolved
    <2>3. attempts[k] > 0 => rec[k].status = "running"
      BY <1>4 DEF KeyInv, Executed, Unresolved
    <2> QED BY <1>2, <1>3, <2>1, <2>2, <2>3 DEF KeyInv, Executed
  <1>5. CASE rec[k].status \notin Unresolved
    <2>1. RecoveredStatus(rec[k].status) = rec[k].status
      BY <1>5 DEF RecoveredStatus, Unresolved
    <2>2. rec'[k] = rec[k]
      BY <1>1, <2>1 DEF Record
    <2> QED BY <1>5, <2>2 DEF KeyInv
  <1> QED BY <1>3, <1>4, <1>5

LEMMA RecoveredHandler ==
    ASSUME TypeOK, NEW g \in Handlers, key[g] \in Keys, RowInv(g),
           rec'[key[g]] = recoverInterrupted[key[g]],
           pc'[g] = pc[g], key'[g] = key[g], print'[g] = print[g],
           seen'[g] = seen[g], verdict'[g] = verdict[g],
           UNCHANGED <<attempts, job>>
    PROVE  RowInv(g)'
  <1> PICK own \in Keys : own = key[g]
    OBVIOUS
  <1>1. /\ rec[own] \in Record
        /\ rec'[own] = [rec[own] EXCEPT !.status = RecoveredStatus(@)]
    BY DEF TypeOK, LedgerTypeOK, recoverInterrupted
  <1>2. /\ rec'[own].status = RecoveredStatus(rec[own].status)
        /\ rec'[own].print = rec[own].print
        /\ rec'[own].admin = rec[own].admin
        /\ rec'[own].boundary = rec[own].boundary
    BY <1>1 DEF Record
  <1>3. rec[own].status \in Status \cup {"absent"}
    BY <1>1 DEF Record
  <1>4. rec'[own].status \in ExpectedStatus(pc[g])
    <2>1. rec[own].status \in ExpectedStatus(pc[g])
      BY DEF RowInv
    <2> QED BY <1>2, <1>3, <2>1 DEF ExpectedStatus, RecoveredStatus, Status,
               Unresolved, Terminal
  <1>5. rec[own].status \in Terminal => rec'[own] = rec[own]
    <2>1. rec[own].status \in Terminal =>
             RecoveredStatus(rec[own].status) = rec[own].status
      BY DEF RecoveredStatus, Terminal
    <2> QED BY <1>1, <2>1 DEF Record
  <1> QED BY <1>2, <1>4, <1>5 DEF RowInv

LEMMA PersistenceErrorRows ==
    ASSUME TypeOK, RequestInv, LockInv, RowsInv, NEW h \in Handlers,
           PersistenceError(h)
    PROVE  RowsInv'
  <1>0. /\ pc[h] \in {"persist", "persist_held"} /\ up
        /\ UNCHANGED <<job, attempts, ran, up>>
        /\ Answer(h, "ledger-persistence-failed")
    BY DEF PersistenceError, countVars
  <1>1. /\ \A g \in Handlers \ {h} :
              /\ pc'[g] = pc[g] /\ key'[g] = key[g] /\ print'[g] = print[g]
              /\ seen'[g] = seen[g] /\ verdict'[g] = verdict[g]
        /\ pc'[h] \notin Holding
        /\ \A k \in Keys : told'[k] = told[k]
    BY <1>0 DEF Answer, TypeOK, Holding, Final
  <1>2. \A k \in Keys : lock[k] # h => lock'[k] = lock[k]
    BY <1>0 DEF Answer, Release
  <1>3. \/ rec' = rec
        \/ rec' = recoverInterrupted
    BY DEF PersistenceError, ReconcileSucceeds, ReconcileFails,
       LedgerUnchanged, ledgerVars
  <1>4. ~blocked' => (~blocked /\ rec' = rec) \/ rec' = recoverInterrupted
    BY DEF PersistenceError, ReconcileSucceeds, ReconcileFails,
       LedgerUnchanged, ledgerVars, blockPersistence
  <1>5. ASSUME NEW g \in Handlers, pc'[g] \in Holding
        PROVE  RowInv(g)'
    <2>1. g # h /\ RowInv(g) /\ key[g] \in Keys
      BY <1>1, <1>5 DEF RowsInv, HandlerInv, RequestInv, Holding
    <2>2. CASE rec' = rec
      BY <1>0, <1>1, <2>1, <2>2 DEF RowInv
    <2>3. CASE rec' = recoverInterrupted
      BY <1>0, <1>1, <2>1, <2>3, RecoveredHandler
    <2> QED BY <1>3, <2>2, <2>3
  <1>6. ASSUME NEW k \in Keys
        PROVE  KeyInv(k)'
    <2>1. KeyInv(k)
      BY DEF RowsInv
    <2>2. CASE rec' = rec
      BY <1>0, <1>1, <2>1, <2>2 DEF KeyInv
    <2>3. CASE rec' = recoverInterrupted
      BY <1>0, <1>1, <2>1, <2>3, RecoveredRow
    <2> QED BY <1>3, <2>2, <2>3
  <1>7. ASSUME ~blocked', NEW k \in Keys
        PROVE  OwnerInv(k)'
    <2>1. CASE rec' = recoverInterrupted
      <3>1. KeyInv(k)
        BY DEF RowsInv
      <3> QED BY <1>0, <1>1, <2>1, <3>1, RecoveredRow DEF OwnerInv
    <2>2. CASE ~blocked /\ rec' = rec
      <3>1. OwnerInv(k)
        BY <1>0, <2>2 DEF RowsInv
      <3>2. rec[k].status \in Unresolved => lock[k] # h
        BY <1>0, <3>1 DEF OwnerInv, OwnedStatus
      <3> QED BY <1>1, <1>2, <2>2, <3>1, <3>2 DEF OwnerInv
    <2> QED BY <1>4, <1>7, <2>1, <2>2
  <1> QED BY <1>5, <1>6, <1>7 DEF RowsInv, HandlerInv

LEMMA ProcessRows ==
    ASSUME TypeOK, RequestInv, LockInv, RowsInv,
           Crash \/ Restart \/ \E k \in Keys : RetentionEnds(k)
    PROVE  RowsInv'
  <1>1. CASE Crash
    <2>1. /\ \A g \in Handlers : pc'[g] \notin Holding
          /\ UNCHANGED <<rec, job, attempts, ran, told>> /\ ~up'
      BY <1>1 DEF Crash, Abandon, HandlersIdle, Holding, historyVars
    <2> QED BY <2>1 DEF RowsInv, HandlerInv, KeyInv
  <1>2. CASE Restart
    <2>1. /\ \A g \in Handlers : pc'[g] \notin Holding
          /\ rec' = recoverInterrupted
          /\ UNCHANGED <<job, attempts, ran, told>>
      BY <1>2
      DEF Restart, Open, RequestInv, Holding, handlerVars, historyVars
    <2>2. \A k \in Keys : KeyInv(k)' /\ rec'[k].status \notin Unresolved
      BY <2>1, RecoveredRow DEF RowsInv
    <2> QED BY <2>1, <2>2 DEF RowsInv, HandlerInv, OwnerInv
  <1>3. ASSUME NEW k \in Keys, RetentionEnds(k)
        PROVE  RowsInv'
    <2>1. /\ UNCHANGED <<pc, key, print, seen, verdict, lock, up, blocked>>
          /\ \A h \in Handlers : key[h] # k
      BY <1>3 DEF RetentionEnds, Expire, handlerVars
    <2>2. /\ rec'[k] = Absent /\ attempts'[k] = 0 /\ told'[k] = {}
          /\ \A j \in Keys \ {k} :
                /\ rec'[j] = rec[j] /\ job'[j] = job[j]
                /\ attempts'[j] = attempts[j] /\ ran'[j] = ran[j]
                /\ told'[j] = told[j]
      BY <1>3 DEF RetentionEnds, Expire, TypeOK, LedgerTypeOK
    <2>3. HandlerInv'
      <3>1. ASSUME NEW g \in Handlers, pc'[g] \in Holding
            PROVE  RowInv(g)'
        <4>1. RowInv(g) /\ key[g] \in Keys \ {k}
          BY <2>1, <3>1 DEF RowsInv, HandlerInv, RequestInv, Holding
        <4> QED BY <2>1, <2>2, <4>1 DEF RowInv
      <3> QED BY <3>1 DEF HandlerInv
    <2>4. KeyInv(k)' /\ OwnerInv(k)'
      BY <2>2 DEF KeyInv, OwnerInv, Absent, Unresolved
    <2>5. ASSUME NEW j \in Keys \ {k}
          PROVE  KeyInv(j)' /\ (up' /\ ~blocked' => OwnerInv(j)')
      BY <2>1, <2>2 DEF RowsInv, KeyInv, OwnerInv
    <2> QED BY <2>3, <2>4, <2>5 DEF RowsInv
  <1> QED BY <1>1, <1>2, <1>3

-----------------------------------------------------------------------------
LEMMA InvInit == Init => IInv
  <1> SUFFICES ASSUME Init PROVE IInv
    OBVIOUS
  <1>1. TypeOK /\ RequestInv
    BY TypeInit
  <1>2. LockInv
    BY LedgerAssumption DEF Init, LockInv, Holding
  <1>3. \A k \in Keys : rec[k] = Absent /\ attempts[k] = 0 /\ told[k] = {}
    BY DEF Init, LedgerInit
  <1>4. ASSUME NEW k \in Keys
        PROVE  KeyInv(k) /\ OwnerInv(k)
    <2>1. rec[k].status = "absent"
      BY <1>3 DEF Absent
    <2> QED BY <1>3, <2>1 DEF KeyInv, OwnerInv, Unresolved
  <1>5. HandlerInv
    BY DEF Init, HandlerInv, Holding
  <1> QED BY <1>1, <1>2, <1>4, <1>5, RowsInvParts DEF RowsInv

\* Every step preserves the inductive invariant.
LEMMA InvStep ==
    ASSUME IInv, [Next]_vars
    PROVE  IInv'
  <1>0. TypeOK /\ RequestInv /\ LockInv /\ RowsInv
    BY RowsInvParts
  <1>1. TypeOK' /\ RequestInv' /\ LockInv'
    BY <1>0, TypeStep, RequestStep, LockStep
  <1>2. RowsInv'
    <2>1. ASSUME NEW h \in Handlers, Step(h)
          PROVE  RowsInv'
      BY <1>0, <2>1, OutsideSteps, ReadRows, ReserveRowsInv, DecisionRows,
         ExecuteRows, AcceptRunRows, EndRows, EndErrorRows,
         PersistenceErrorRows
      DEF Step
    <2> QED BY <1>0, <2>1, OutsideSteps, ProcessRows DEF Next
  <1>3. (IInv <=> TypeOK /\ RequestInv /\ LockInv /\ RowsInv)'
    BY RowsInvParts, PTL
  <1> QED BY <1>1, <1>2, <1>3

\* IInv holds in every reachable state of the service.
THEOREM Invariance == Spec => []IInv
  <1>1. Init => IInv
    BY InvInit
  <1>2. IInv /\ [Next]_vars => IInv'
    BY InvStep
  <1> QED BY <1>1, <1>2, PTL DEF Spec

\* No command ID is dispatched twice within its retention.
THEOREM ExecutesAtMostOnce == Spec => []AtMostOnce
  <1>1. IInv => AtMostOnce
    BY DEF IInv
  <1> QED BY <1>1, Invariance, PTL

\* With the gate open, every unresolved row has a live owner.
THEOREM NoRowIsOrphaned == Spec => []NoOrphan
  <1>1. IInv => NoOrphan
    BY DEF IInv
  <1> QED BY <1>1, Invariance, PTL

\* A dispatched command has its fingerprint, authorization and boundary in a
\* durable row.
THEOREM ExecutionIsAudited == Spec => []ExecutionAudited
  <1>1. IInv => ExecutionAudited
    BY DEF IInv
  <1> QED BY <1>1, Invariance, PTL

\* Rows that deny an execution, or claim a success, are right.
THEOREM RowsAreHonest == Spec => []HonestRows
  <1>1. IInv => HonestRows
    BY DEF IInv
  <1> QED BY <1>1, Invariance, PTL

\* No final answer is ever contradicted by the durable row.
THEOREM AnswersAreDurable == Spec => []AnswersStand
  <1>1. IInv => AnswersStand
    BY DEF IInv
  <1> QED BY <1>1, Invariance, PTL

-----------------------------------------------------------------------------
\* How one row can change in one step: not at all, by recovery, by expiry, or
\* by the write of a handler whose row it is.
OwnWrite(k) == \E h \in Handlers : writer = h /\ key[h] = k

RowChange(k) ==
    \/ rec'[k] = rec[k]
    \/ rec'[k] = Absent
    \/ rec'[k] = recoverInterrupted[k]
    \/ OwnWrite(k) /\ rec[k].status \in Unresolved \cup {"absent"}

LEMMA WriteChange ==
    ASSUME NEW h, NEW new, NEW d,
           WriteSucceeds(h, new, d) \/ WriteFails(h, new, d)
    PROVE  /\ rec' = rec \/ (writer = h /\ rec' = new)
           /\ writer' \in {writer, NoHandler}
  BY DEF WriteSucceeds, WriteFails, LedgerUnchanged, ledgerVars

LEMMA TransitionChange ==
    ASSUME LedgerTypeOK, NEW j \in Keys, NEW h \in Handlers, NEW expected,
           NEW next, NEW data, NEW d,
           \/ TransitionSucceeds(h, key[h], expected, next, data, d)
           \/ TransitionFails(h, key[h], expected, next, data, d)
    PROVE  RowChange(j)
  <1> DEFINE new == MovedRows(key[h], expected, next, data)
  <1>1. new[j] = rec[j] \/ (key[h] = j /\ rec[j].status \in Unresolved)
    BY DEF new, MovedRows, TransitionApplies, TransitionValid,
       allowedTransition, LedgerTypeOK, Unresolved
  <1>2. rec' = rec \/ (writer = h /\ rec' = new)
    BY WriteChange
    DEF TransitionSucceeds, TransitionFails, LedgerUnchanged, ledgerVars
  <1> QED BY <1>1, <1>2 DEF RowChange, OwnWrite

LEMMA RowChanges ==
    ASSUME TypeOK, [Next]_vars, NEW j \in Keys
    PROVE  RowChange(j)
  <1>0. LedgerTypeOK
    BY DEF TypeOK
  <1>1. ASSUME NEW h \in Handlers, Step(h)
        PROVE  RowChange(j)
    <2>1. CASE Reserve(h) \/ ReserveError(h)
      <3>1. \/ rec' = rec
            \/ writer = h /\ rec' = ReservedRows(key[h], print[h])
        BY <2>1, WriteChange
        DEF Reserve, ReserveError, ReserveSucceeds, ReserveFails
      <3>2. \/ ReservedRows(key[h], print[h])[j] = rec[j]
            \/ key[h] = j /\ rec[j].status = "absent"
        BY <1>0 DEF ReservedRows, LedgerTypeOK, Absent
      <3> QED BY <3>1, <3>2 DEF RowChange, OwnWrite
    <2>2. CASE \/ Settle(h) \/ SettleError(h) \/ Accept(h) \/ AcceptError(h)
               \/ Run(h) \/ RunError(h) \/ Finish(h) \/ FinishError(h)
      BY <1>0, <2>2, TransitionChange
      DEF Settle, SettleError, Accept, AcceptError, Run, RunError, Finish,
          FinishError
    <2>3. CASE PersistenceError(h)
      BY <2>3 DEF PersistenceError, ReconcileSucceeds, ReconcileFails,
         LedgerUnchanged, ledgerVars, RowChange
    <2>4. CASE \/ Lookup(h) \/ LookupError(h) \/ Poll(h) \/ PollError(h)
      BY <2>4 DEF Lookup, LookupError, Poll, PollError, LookupSucceeds,
         LookupFails, LedgerUnchanged, ledgerVars, RowChange
    <2>5. CASE \/ Admit(h) \/ Lock(h) \/ Authorize(h)
               \/ Execute(h) \/ ExecuteSucceeds(h) \/ ExecuteFails(h)
               \/ ExecuteUnknown(h) \/ Await(h) \/ PollCancelled(h)
      BY <2>5 DEF Admit, Lock, Authorize, Execute, ExecuteSucceeds,
         ExecuteFails, ExecuteUnknown, Concluded, Await, PollCancelled,
         ledgerVars, RowChange
    <2>6. CASE BeginWrite(h)
      BY <2>6 DEF BeginWrite, PassGate, RowChange
    <2> QED BY <1>1, <2>1, <2>2, <2>3, <2>4, <2>5, <2>6 DEF Step
  <1>2. ASSUME NEW h \in Handlers, NEW k \in Keys, NEW f \in Prints,
               Receive(h, k, f)
        PROVE  RowChange(j)
    BY <1>2 DEF Receive, ledgerVars, RowChange
  <1>3. ASSUME NEW h \in Handlers, Cancel(h)
        PROVE  RowChange(j)
    BY <1>3 DEF Cancel, ledgerVars, RowChange
  <1>4. ASSUME NEW k \in Keys,
               HelperApplies(k) \/ HelperRefuses(k) \/ RetentionEnds(k)
        PROVE  RowChange(j)
    BY <1>0, <1>4 DEF HelperApplies, HelperRefuses, RetentionEnds, Expire,
       ledgerVars, RowChange, LedgerTypeOK
  <1>5. CASE Crash \/ Restart \/ UNCHANGED vars
    BY <1>5 DEF Crash, Abandon, Restart, Open, vars, RowChange
  <1> QED BY <1>1, <1>2, <1>3, <1>4, <1>5 DEF Next

\* Nobody gets through a closed gate.
LEMMA NoneEnters ==
    ASSUME [Next]_vars, blocked
    PROVE  writer' \in {writer, NoHandler}
  <1>1. ASSUME NEW h \in Handlers, Step(h)
        PROVE  writer' \in {writer, NoHandler}
    <2>1. CASE Reserve(h) \/ ReserveError(h)
      BY <2>1, WriteChange
      DEF Reserve, ReserveError, ReserveSucceeds, ReserveFails
    <2>2. ASSUME NEW expected, NEW next, NEW data, NEW d,
                 \/ TransitionSucceeds(h, key[h], expected, next, data, d)
                 \/ TransitionFails(h, key[h], expected, next, data, d)
          PROVE  writer' \in {writer, NoHandler}
      BY <2>2, WriteChange
      DEF TransitionSucceeds, TransitionFails, LedgerUnchanged, ledgerVars
    <2>3. CASE \/ Settle(h) \/ SettleError(h) \/ Accept(h) \/ AcceptError(h)
               \/ Run(h) \/ RunError(h) \/ Finish(h) \/ FinishError(h)
      BY <2>2, <2>3
      DEF Settle, SettleError, Accept, AcceptError, Run, RunError, Finish,
          FinishError
    <2>4. CASE BeginWrite(h)
      BY <2>4 DEF BeginWrite, PassGate
    <2>5. CASE \/ PersistenceError(h) \/ Lookup(h) \/ LookupError(h)
               \/ Poll(h) \/ PollError(h)
      BY <2>5 DEF PersistenceError, ReconcileSucceeds, ReconcileFails, Lookup,
         LookupError, Poll, PollError, LookupSucceeds, LookupFails,
         LedgerUnchanged, ledgerVars
    <2>6. CASE \/ Admit(h) \/ Lock(h) \/ Authorize(h)
               \/ Execute(h) \/ ExecuteSucceeds(h) \/ ExecuteFails(h)
               \/ ExecuteUnknown(h) \/ Await(h) \/ PollCancelled(h)
      BY <2>6 DEF Admit, Lock, Authorize, Execute, ExecuteSucceeds,
         ExecuteFails, ExecuteUnknown, Concluded, Await, PollCancelled,
         ledgerVars
    <2> QED BY <1>1, <2>1, <2>3, <2>4, <2>5, <2>6 DEF Step
  <1>2. CASE \/ \E h \in Handlers, k \in Keys, f \in Prints : Receive(h, k, f)
             \/ \E h \in Handlers : Cancel(h)
             \/ \E k \in Keys :
                   HelperApplies(k) \/ HelperRefuses(k) \/ RetentionEnds(k)
             \/ Crash \/ Restart \/ UNCHANGED vars
    BY <1>2 DEF Receive, Cancel, HelperApplies, HelperRefuses, RetentionEnds,
       Expire, Crash, Abandon, Restart, Open, vars, ledgerVars
  <1> QED BY <1>1, <1>2 DEF Next

\* A terminal row never changes again within its retention.
THEOREM TerminalRowsStayFrozen == Spec => TerminalRowsFrozen
  <1>1. ASSUME TypeOK, [Next]_vars
        PROVE  [\A k \in Keys : rec[k].status \in Terminal =>
                    rec'[k] \in {rec[k], Absent}]_vars
    <2>1. ASSUME NEW k \in Keys, rec[k].status \in Terminal
          PROVE  rec'[k] \in {rec[k], Absent}
      <3>1. RowChange(k)
        BY <1>1, RowChanges
      <3>2. rec[k] \in Record
        BY <1>1 DEF TypeOK, LedgerTypeOK
      <3>3. RecoveredStatus(rec[k].status) = rec[k].status
        BY <2>1 DEF RecoveredStatus, Terminal
      <3>4. recoverInterrupted[k] = rec[k]
        BY <3>2, <3>3 DEF recoverInterrupted, Record
      <3> QED BY <2>1, <3>1, <3>4 DEF RowChange, Terminal, Unresolved
    <2> QED BY <2>1
  <1> QED BY <1>1, TypeCorrect, PTL DEF Spec, TerminalRowsFrozen

\* While the gate is closed no write begins, and rows change only by recovery
\* or expiry, but for the row of the one write that had passed the gate.
THEOREM ClosedGateFreezesRows == Spec => GateFreezesRows
  <1> DEFINE A == blocked =>
               /\ writer' \in {writer, NoHandler}
               /\ \A k \in Keys :
                     \/ rec'[k] \in {rec[k], recoverInterrupted[k], Absent}
                     \/ \E h \in Handlers : writer = h /\ key[h] = k
  <1>1. ASSUME TypeOK, [Next]_vars
        PROVE  [A]_vars
    BY <1>1, NoneEnters, RowChanges DEF RowChange, OwnWrite
  <1> QED BY <1>1, TypeCorrect, PTL DEF Spec, GateFreezesRows
=============================================================================
