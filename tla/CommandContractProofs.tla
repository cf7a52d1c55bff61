----------------------- MODULE CommandContractProofs -----------------------
(***************************************************************************)
(* The command service implements CommandContract: the refinement that the *)
(* model checker checks on small instances, proved for all of them.        *)
(***************************************************************************)
EXTENDS CommandServiceProofs

\* The values the refinement mapping gives to the contract's variables.
stateMap == [k \in Keys |-> ContractState(rec[k].status)]
dispatchedMap == {k \in Keys : attempts[k] > 0}

ContractStep == Contract!ContractNext \/ UNCHANGED Contract!contractVars

\* A step that leaves all rows and dispatches alone is a stutter.
LEMMA Stutter ==
    ASSUME rec' = rec, attempts' = attempts
    PROVE  ContractStep
  <1>1. stateMap' = stateMap /\ dispatchedMap' = dispatchedMap
    BY DEF stateMap, dispatchedMap
  <1> QED BY <1>1 DEF ContractStep, Contract!contractVars, stateMap,
             dispatchedMap

\* A step that changes one row is a step of that command's life if the
\* statuses before and after it are.
LifeStep(k, from, to) ==
    \/ to = from
    \/ from = "new" /\ to = "claimed"
    \/ from = "claimed" /\ to \in {"refused", "started"}
    \/ /\ from = "started" /\ to \in {"succeeded", "failed", "unknown"}
       /\ attempts[k] > 0

LEMMA OneRow ==
    ASSUME NEW k \in Keys, attempts' = attempts,
           \A j \in Keys \ {k} : rec'[j] = rec[j],
           LifeStep(k, ContractState(rec[k].status),
                       ContractState(rec'[k].status))
    PROVE  ContractStep
  <1> DEFINE from == ContractState(rec[k].status)
             to == ContractState(rec'[k].status)
  <1>1. stateMap[k] = from /\ (k \in dispatchedMap <=> attempts[k] > 0)
    BY DEF stateMap, dispatchedMap
  <1>2. stateMap' = [stateMap EXCEPT ![k] = to]
    BY DEF stateMap
  <1>3. dispatchedMap' = dispatchedMap
    BY DEF dispatchedMap
  <1> HIDE DEF from, to
  <1>4. LifeStep(k, from, to)
    BY DEF from, to
  <1>5. CASE to = from
    <2>1. stateMap' = stateMap
      BY <1>1, <1>2, <1>5 DEF stateMap
    <2> QED BY <1>3, <2>1
            DEF ContractStep, Contract!contractVars, stateMap, dispatchedMap
  <1>6. CASE from = "new" /\ to = "claimed"
    <2>1. Contract!Claim(k)
      BY <1>1, <1>2, <1>3, <1>6
      DEF Contract!Claim, Contract!Move, stateMap, dispatchedMap
    <2> QED BY <2>1 DEF ContractStep, Contract!ContractNext
  <1>7. CASE from = "claimed" /\ to = "refused"
    <2>1. Contract!Refuse(k)
      BY <1>1, <1>2, <1>3, <1>7
      DEF Contract!Refuse, Contract!Move, stateMap, dispatchedMap
    <2> QED BY <2>1 DEF ContractStep, Contract!ContractNext
  <1>8. CASE from = "claimed" /\ to = "started"
    <2>1. Contract!Start(k)
      BY <1>1, <1>2, <1>3, <1>8
      DEF Contract!Start, Contract!Move, stateMap, dispatchedMap
    <2> QED BY <2>1 DEF ContractStep, Contract!ContractNext
  <1>9. CASE /\ from = "started" /\ to \in {"succeeded", "failed", "unknown"}
             /\ attempts[k] > 0
    <2>1. Contract!Conclude(k)
      BY <1>1, <1>2, <1>3, <1>9
      DEF Contract!Conclude, Contract!Move, stateMap, dispatchedMap
    <2> QED BY <2>1 DEF ContractStep, Contract!ContractNext
  <1> QED BY <1>4, <1>5, <1>6, <1>7, <1>8, <1>9 DEF LifeStep

\* A recovery is the contract's Interrupt.
LEMMA Recovery ==
    ASSUME TypeOK, rec' = recoverInterrupted, attempts' = attempts
    PROVE  ContractStep
  <1>1. ASSUME NEW k \in Keys
        PROVE  ContractState(rec'[k].status) =
               Contract!Interrupted(ContractState(rec[k].status))
    <2>1. rec[k] \in Record
      BY DEF TypeOK, LedgerTypeOK
    <2>2. rec'[k].status = RecoveredStatus(rec[k].status)
      BY <2>1 DEF recoverInterrupted, Record
    <2>3. rec[k].status \in Status \cup {"absent"}
      BY <2>1 DEF Record
    <2> QED BY <2>2, <2>3 DEF ContractState, RecoveredStatus, Status,
               Unresolved, Terminal, Contract!Interrupted
  <1>2. stateMap' = [k \in Keys |-> Contract!Interrupted(stateMap[k])]
    BY <1>1 DEF stateMap
  <1>3. dispatchedMap' = dispatchedMap
    BY DEF dispatchedMap
  <1>4. Contract!Interrupt
    BY <1>2, <1>3 DEF Contract!Interrupt, stateMap, dispatchedMap
  <1> QED BY <1>4 DEF ContractStep, Contract!ContractNext

\* A transition is a step of the command's life, whether it reports success
\* or not.
LEMMA TransitionLife ==
    ASSUME TypeOK, NEW h, NEW k \in Keys, NEW expected, NEW next,
           NEW data \in TransitionDataSet, NEW d,
           \/ TransitionSucceeds(h, k, expected, next, data, d)
           \/ TransitionFails(h, k, expected, next, data, d),
           TransitionValid(expected, next, data), attempts' = attempts,
           LifeStep(k, ContractState(expected), ContractState(next))
    PROVE  ContractStep
  <1>0. LedgerTypeOK /\ rec[k] \in Record
    BY DEF TypeOK, LedgerTypeOK
  <1>1. /\ \/ rec'[k] = rec[k]
           \/ /\ rec[k].status = expected
              /\ rec'[k] = MovedRow(rec[k], next, data)
        /\ \A j \in Keys \ {k} : rec'[j] = rec[j]
    BY <1>0, TransitionSucceedsRows, TransitionFailsRows
  <1>2. \/ rec'[k] = rec[k]
        \/ rec[k].status = expected /\ rec'[k].status = next
    BY <1>0, <1>1, MovedRowFields
  <1>3. LifeStep(k, ContractState(rec[k].status),
                    ContractState(rec'[k].status))
    BY <1>2 DEF LifeStep
  <1> QED BY <1>1, <1>3, OneRow

\* Every step of a handler is a step of the contract.
LEMMA StepRefines ==
    ASSUME IInv, NEW h \in Handlers, Step(h)
    PROVE  ContractStep
  <1>0. TypeOK /\ RequestInv /\ LockInv /\ RowsInv
    BY RowsInvParts
  <1>1. pc[h] \in Holding => RowInv(h) /\ key[h] \in Keys
    BY <1>0 DEF RowsInv, HandlerInv, RequestInv, Holding
  <1>2. /\ AcceptData \in TransitionDataSet /\ RunData \in TransitionDataSet
        /\ VerdictData(h) \in TransitionDataSet
    BY <1>0, TypeParts, DataTypes
  <1>3. CASE Reserve(h) \/ ReserveError(h)
    <2> PICK own \in Keys : own = key[h]
      BY <1>1, <1>3 DEF Reserve, ReserveError, At, Holding
    <2>1. rec[own] = Absent /\ LedgerTypeOK /\ attempts' = attempts
      <3>1. pc[h] = "reserve" /\ attempts' = attempts
        BY <1>3 DEF Reserve, ReserveError, At, GotoPersist, historyVars
      <3>2. rec[own].status = "absent"
        <4>1. rec[own].status \in ExpectedStatus(pc[h])
          BY <1>1, <3>1 DEF RowInv, Holding
        <4> QED BY <3>1, <4>1 DEF ExpectedStatus
      <3>3. rec[own] = Absent
        BY <3>2 DEF IInv, FreshInv
      <3> QED BY <1>0, <3>1, <3>3 DEF TypeOK
    <2>2. /\ rec'[own] \in {Absent, Claimed(print[h])}
          /\ \A j \in Keys \ {own} : rec'[j] = rec[j]
      BY <1>3, <2>1, ReserveSucceedsRows, ReserveFailsRows
      DEF Reserve, ReserveError
    <2>3. LifeStep(own, ContractState(rec[own].status),
                        ContractState(rec'[own].status))
      <3>1. rec[own].status = "absent"
        BY <2>1 DEF Absent
      <3>2. rec'[own].status \in {"absent", "authorization_pending"}
        <4>1. CASE rec'[own] = Absent
          BY <4>1 DEF Absent
        <4>2. CASE rec'[own] = Claimed(print[h])
          BY <4>2 DEF Absent, Claimed
        <4> QED BY <2>2, <4>1, <4>2
      <3>3. /\ ContractState("absent") = "new"
            /\ ContractState("authorization_pending") = "claimed"
        BY DEF ContractState
      <3> QED BY <3>1, <3>2, <3>3 DEF LifeStep
    <2> QED BY <2>1, <2>2, <2>3, OneRow
  <1>4. CASE Settle(h) \/ SettleError(h)
    <2> PICK own \in Keys : own = key[h]
      BY <1>1, <1>4 DEF Settle, SettleError, At, Holding
    <2>1. /\ verdict[h].status \in {"denied", "authorization_failed"}
          /\ verdict[h].payload # "none" /\ attempts' = attempts
      BY <1>1, <1>4 DEF Settle, SettleError, At, Holding, RowInv, Final,
         GotoPersist, historyVars
    <2>2. TransitionValid("authorization_pending", verdict[h].status,
                          VerdictData(h))
      BY <2>1 DEF TransitionValid, allowedTransition, VerdictData,
         TransitionData
    <2>3. LifeStep(own, ContractState("authorization_pending"),
                        ContractState(verdict[h].status))
      BY <2>1 DEF LifeStep, ContractState
    <2> QED BY <1>0, <1>2, <1>4, <2>1, <2>2, <2>3, TransitionLife
            DEF Settle, SettleError
  <1>5. CASE Accept(h) \/ AcceptError(h)
    <2> PICK own \in Keys : own = key[h]
      BY <1>1, <1>5 DEF Accept, AcceptError, At, Holding
    <2>1. attempts' = attempts
      BY <1>5 DEF Accept, AcceptError, GotoPersist, historyVars
    <2>2. TransitionValid("authorization_pending", "accepted", AcceptData)
      BY DEF TransitionValid, allowedTransition, AcceptData, TransitionData
    <2>3. LifeStep(own, ContractState("authorization_pending"),
                        ContractState("accepted"))
      BY DEF LifeStep, ContractState
    <2> QED BY <1>0, <1>2, <1>5, <2>1, <2>2, <2>3, TransitionLife
            DEF Accept, AcceptError
  <1>6. CASE Run(h) \/ RunError(h)
    <2> PICK own \in Keys : own = key[h]
      BY <1>1, <1>6 DEF Run, RunError, At, Holding
    <2>1. attempts' = attempts
      BY <1>6 DEF Run, RunError, GotoPersist, historyVars
    <2>2. TransitionValid("accepted", "running", RunData)
      BY DEF TransitionValid, allowedTransition, RunData, TransitionData
    <2>3. LifeStep(own, ContractState("accepted"), ContractState("running"))
      BY DEF LifeStep, ContractState
    <2> QED BY <1>0, <1>2, <1>6, <2>1, <2>2, <2>3, TransitionLife
            DEF Run, RunError
  <1>7. CASE Finish(h) \/ FinishError(h)
    <2> PICK own \in Keys : own = key[h]
      BY <1>1, <1>7 DEF Finish, FinishError, At, Holding
    <2>1. /\ verdict[h].status \in {"succeeded", "failed", "unknown"}
          /\ attempts[own] = 1 /\ attempts' = attempts
      BY <1>1, <1>7 DEF Finish, FinishError, At, Holding, RowInv,
         GotoPersist, historyVars
    <2>2. TransitionValid("running", verdict[h].status, VerdictData(h))
      BY <2>1 DEF TransitionValid, allowedTransition
    <2>3. LifeStep(own, ContractState("running"),
                        ContractState(verdict[h].status))
      BY <2>1 DEF LifeStep, ContractState
    <2> QED BY <1>0, <1>2, <1>7, <2>1, <2>2, <2>3, TransitionLife
            DEF Finish, FinishError
  <1>8. CASE Execute(h)
    <2> PICK own \in Keys : own = key[h]
      BY <1>1, <1>8 DEF Execute, At, Holding
    <2>1. /\ rec[own].status \in {"running", "unknown"} /\ attempts[own] = 0
          /\ rec' = rec /\ attempts' = [attempts EXCEPT ![own] = @ + 1]
      <3>1. pc[h] = "execute" /\ rec' = rec
            /\ attempts' = [attempts EXCEPT ![own] = @ + 1]
        BY <1>8 DEF Execute, At, ledgerVars
      <3>2. rec[own].status \in {"running", "unknown"} /\ attempts[own] = 0
        BY <1>1, <3>1 DEF RowInv, ExpectedStatus, Holding
      <3> QED BY <3>1, <3>2
    <2>2. attempts \in [Keys -> Nat]
      BY <1>0 DEF TypeOK
    <2>3. /\ stateMap[own] \in {"started", "unknown"}
          /\ own \notin dispatchedMap /\ stateMap' = stateMap
      <3>1. stateMap[own] \in {"started", "unknown"}
        BY <2>1 DEF stateMap, ContractState
      <3> QED BY <2>1, <3>1 DEF stateMap, dispatchedMap
    <2>4. dispatchedMap' = dispatchedMap \cup {own}
      <3>1. \A k \in Keys : attempts'[k] > 0 <=> k = own \/ attempts[k] > 0
        BY <2>1, <2>2
      <3> QED BY <3>1 DEF dispatchedMap
    <2>5. Contract!Dispatch(own)
      BY <2>3, <2>4 DEF Contract!Dispatch, stateMap, dispatchedMap
    <2> QED BY <2>5 DEF ContractStep, Contract!ContractNext
  <1>9. CASE PersistenceError(h)
    <2>1. attempts' = attempts /\ (rec' = rec \/ rec' = recoverInterrupted)
      BY <1>9 DEF PersistenceError, ReconcileSucceeds, ReconcileFails,
         LedgerUnchanged, ledgerVars
    <2> QED BY <1>0, <2>1, Stutter, Recovery
  <1>10. CASE \/ Lookup(h) \/ LookupError(h) \/ Poll(h) \/ PollError(h)
    BY <1>10, LookupRows, Stutter
    DEF Lookup, LookupError, Poll, PollError, GotoPersist, historyVars
  <1>11. CASE \/ Admit(h) \/ Lock(h) \/ BeginWrite(h) \/ Authorize(h)
              \/ ExecuteSucceeds(h) \/ ExecuteFails(h) \/ ExecuteUnknown(h)
              \/ Await(h) \/ PollCancelled(h)
    BY <1>11, Stutter DEF Admit, Lock, BeginWrite, PassGate, Authorize,
       ExecuteSucceeds, ExecuteFails, ExecuteUnknown, Concluded, Await,
       PollCancelled, ledgerVars, historyVars
  <1> QED BY <1>3, <1>4, <1>5, <1>6, <1>7, <1>8, <1>9, <1>10, <1>11 DEF Step

\* So is every other step of the system.
LEMMA NextRefines ==
    ASSUME IInv, [Next]_vars
    PROVE  ContractStep
  <1>0. TypeOK
    BY DEF IInv
  <1>1. ASSUME NEW k \in Keys, RetentionEnds(k)
        PROVE  ContractStep
    <2>1. /\ rec[k] # Absent /\ rec' = [rec EXCEPT ![k] = Absent]
          /\ attempts' = [attempts EXCEPT ![k] = 0]
      BY <1>1 DEF RetentionEnds, Expire
    <2>2. /\ rec \in [Keys -> Record] /\ attempts \in [Keys -> Nat]
          /\ rec[k].status # "absent"
      BY <1>0, <2>1 DEF TypeOK, LedgerTypeOK, IInv, FreshInv
    <2>3. stateMap[k] # "new"
      <3>1. rec[k].status \in Status
        BY <2>2 DEF Record
      <3> QED BY <3>1 DEF stateMap, ContractState, Status, Unresolved, Terminal
    <2>4. stateMap' = [stateMap EXCEPT ![k] = "new"]
      BY <2>1, <2>2 DEF stateMap, ContractState, Absent
    <2>5. dispatchedMap' = dispatchedMap \ {k}
      <3>1. \A j \in Keys : attempts'[j] > 0 <=> j # k /\ attempts[j] > 0
        BY <2>1, <2>2
      <3> QED BY <3>1 DEF dispatchedMap
    <2>6. Contract!Forget(k)
      BY <2>3, <2>4, <2>5 DEF Contract!Forget, stateMap, dispatchedMap
    <2> QED BY <2>6 DEF ContractStep, Contract!ContractNext
  <1>2. CASE Restart
    BY <1>0, <1>2, Recovery DEF Restart, Open, historyVars
  <1>3. CASE \/ \E h \in Handlers, k \in Keys, f \in Prints : Receive(h, k, f)
             \/ \E h \in Handlers : Cancel(h)
             \/ \E k \in Keys : HelperApplies(k) \/ HelperRefuses(k)
             \/ Crash \/ UNCHANGED vars
    BY <1>3, Stutter DEF Receive, Cancel, HelperApplies, HelperRefuses, Crash,
       Abandon, vars, ledgerVars, historyVars
  <1> QED BY <1>1, <1>2, <1>3, StepRefines DEF Next

LEMMA InitRefines == Init => Contract!ContractInit
  <1> SUFFICES ASSUME Init PROVE Contract!ContractInit
    OBVIOUS
  <1>1. \A k \in Keys : ContractState(rec[k].status) = "new"
    BY DEF Init, LedgerInit, Absent, ContractState
  <1>2. {k \in Keys : attempts[k] > 0} = {}
    BY DEF Init
  <1> QED BY <1>1, <1>2 DEF Contract!ContractInit

\* The service implements the contract of CommandContract, for every number
\* of handlers, command IDs, faults, crashes and expiries.
THEOREM ServiceImplementsContract == Spec => ImplementsContract
  <1>1. Init => Contract!ContractInit
    BY InitRefines
  <1>2. IInv /\ [Next]_vars => [Contract!ContractNext]_(Contract!contractVars)
    BY NextRefines DEF ContractStep
  <1> QED BY <1>1, <1>2, Invariance, PTL
          DEF Spec, ImplementsContract, Contract!ContractSpec
=============================================================================
