--------------------------- MODULE CommandService ---------------------------
(***************************************************************************)
(* The Node command service (internal/command/service.go) on top of the    *)
(* command ledger: concurrent Handle calls, one per open request, each     *)
(* under the mutex of its (caller, command ID), the Authorizer and the     *)
(* D-Bus helper they call, the cancellation of a request's context when    *)
(* its connection ends, and crashes of the process between any two steps.  *)
(*                                                                         *)
(* A handler slot is a connection goroutine; it serves one request after   *)
(* another.  Its program counter names the call of Handle it makes next.   *)
(***************************************************************************)
EXTENDS CommandLedger

CONSTANTS
    NoKey,       \* the key of an idle handler
    Requests,    \* the <<key, fingerprint>> pairs each connection may send
    Valid,       \* the pairs that are well formed
    MaxCrashes,  \* bound: crashes of the process
    MaxExpiries  \* bound: rows whose retention ends

ASSUME ServiceAssumption ==
    /\ NoKey \notin Keys
    /\ Requests \in [Handlers -> SUBSET (Keys \X Prints)]
    /\ Valid \subseteq Keys \X Prints
    /\ MaxCrashes \in Nat
    /\ MaxExpiries \in Nat

VARIABLES
    up,        \* the process is running
    pc,        \* where each handler is
    key,       \* the key of its request
    print,     \* the fingerprint of its request
    done,      \* its context is done
    seen,      \* the row it last read (awaitRecord)
    verdict,   \* the status and payload its next Transition will write
    lock,      \* the owner of each key's mutex (Service.locks)
    job,       \* the helper's side of the execution of each key
    crashes, expiries,
    attempts,  \* history: executions dispatched to the helper, by key
    ran,       \* history: the fingerprint of the last one
    told       \* history: final answers given for the key

handlerVars == <<pc, key, print, done, seen, verdict, lock>>
historyVars == <<attempts, ran, told>>
countVars == <<up, crashes, expiries>>
vars == <<rec, blocked, writer, faults, up, pc, key, print, done, seen,
          verdict, lock, job, crashes, expiries, attempts, ran, told>>

-----------------------------------------------------------------------------
\* The program counters at which the handler holds the mutex of its key.
Holding == {"lookup", "reserve", "authorize", "settle", "accept", "run",
            "execute", "executing", "finish", "await", "poll", "persist_held"}

PC == Holding \cup {"idle", "admit", "lock", "persist"}

JobState == {"none", "called", "applied", "refused"}

NoVerdict == [status |-> "none", payload |-> "none"]

Verdict == [status : {"none", "denied", "authorization_failed",
                      "succeeded", "failed", "unknown"},
            payload : Payload]

\* The answers that speak of the command, not of the request's own fate.
Final == {"succeeded", "authorization-denied", "user-lookup-failed",
          "authorization-unavailable", "slurm-command-failed",
          "command-outcome-unknown", "authorization-outcome-unknown",
          "result-unavailable"}

recordResponse(r) ==
    CASE r.status = "running" -> "running"
      [] r.status = "authorization_uncertain" -> "authorization-outcome-unknown"
      [] r.status \in {"authorization_pending", "accepted"} -> "being-processed"
      [] OTHER -> IF r.payload = "none" THEN "result-unavailable"
                                        ELSE r.payload

-----------------------------------------------------------------------------
\* Steps of the handler h.
At(h, p) == up /\ pc[h] = p

Goto(h, p) ==
    /\ pc' = [pc EXCEPT ![h] = p]
    /\ UNCHANGED <<key, print, done, lock>>

Release_Forgotten(h) == lock

\* Handle returns: the deferred unlock runs and the slot is free again.
Release(h) == [k \in Keys |-> IF lock[k] = h THEN NoHandler ELSE lock[k]]

Answer(h, a) ==
    /\ pc' = [pc EXCEPT ![h] = "idle"]
    /\ key' = [key EXCEPT ![h] = NoKey]
    /\ print' = [print EXCEPT ![h] = NoPrint]
    /\ done' = [done EXCEPT ![h] = FALSE]
    /\ seen' = [seen EXCEPT ![h] = Absent]
    /\ verdict' = [verdict EXCEPT ![h] = NoVerdict]
    /\ lock' = Release(h)
    /\ told' = [told EXCEPT ![key[h]] = @ \cup ({a} \cap Final)]

\* A call of the ledger failed: persistenceError is next.
GotoPersist(h) ==
    /\ Goto(h, "persist_held")
    /\ UNCHANGED <<seen, verdict, job, historyVars, countVars>>

\* A request arrives on an idle connection and decodes.
Receive(h, k, f) ==
    /\ At(h, "idle")
    /\ <<k, f>> \in Requests[h]
    /\ pc' = [pc EXCEPT ![h] = "admit"]
    /\ key' = [key EXCEPT ![h] = k]
    /\ print' = [print EXCEPT ![h] = f]
    /\ UNCHANGED <<done, seen, verdict, lock, job>>
    /\ UNCHANGED <<ledgerVars, historyVars, countVars>>

\* The connection of an open request ends: its context is done.
Cancel(h) ==
    /\ up /\ pc[h] # "idle" /\ ~done[h]
    /\ done' = [done EXCEPT ![h] = TRUE]
    /\ UNCHANGED <<pc, key, print, seen, verdict, lock, job>>
    /\ UNCHANGED <<ledgerVars, historyVars, countVars>>

\* The gate is read before the mutex of the key is taken.
Admit(h) ==
    /\ At(h, "admit")
    /\ Goto(h, IF blocked THEN "persist" ELSE "lock")
    /\ UNCHANGED <<seen, verdict, job, ledgerVars, historyVars, countVars>>

Lock(h) ==
    /\ At(h, "lock")
    /\ lock[key[h]] = NoHandler
    /\ lock' = [lock EXCEPT ![key[h]] = h]
    /\ pc' = [pc EXCEPT ![h] = "lookup"]
    /\ UNCHANGED <<key, print, done, seen, verdict, job>>
    /\ UNCHANGED <<ledgerVars, historyVars, countVars>>

\* What Handle and awaitRecord do with the row a Lookup found.
TakeRow(h) ==
    IF rec[key[h]].print # print[h]
    THEN Answer(h, "command-id-conflict")
    ELSE /\ Goto(h, "await")
         /\ seen' = [seen EXCEPT ![h] = rec[key[h]]]
         /\ UNCHANGED <<verdict, told>>

\* A new request is claimed next, unless it is malformed, the cache does not
\* hold its node or the executor has no identity.
Validate(h) ==
    \/ Answer(h, "invalid")
    \/ /\ <<key[h], print[h]>> \in Valid
       /\ Goto(h, "reserve")
       /\ UNCHANGED <<seen, verdict, told>>

Lookup(h) ==
    /\ At(h, "lookup")
    /\ LookupSucceeds(done[h])
    /\ IF rec[key[h]] = Absent THEN Validate(h) ELSE TakeRow(h)
    /\ UNCHANGED <<job, attempts, ran, countVars>>

LookupError(h) ==
    /\ At(h, "lookup")
    /\ LookupFails(done[h])
    /\ GotoPersist(h)

\* The ledger operations that write, by the program counter of the caller.
Writing == {"reserve", "settle", "accept", "run", "finish"}

\* The handler gets writeMu and the gate is open.  Transition checks its
\* arguments before that, and the service's are always valid (RowInv).
BeginWrite(h) ==
    /\ up /\ pc[h] \in Writing
    /\ PassGate(h)
    /\ UNCHANGED <<handlerVars, job, historyVars, countVars>>

\* The row that is already there is awaited like one a Lookup found.
Reserve(h) ==
    /\ At(h, "reserve")
    /\ ReserveSucceeds(h, key[h], print[h], done[h])
    /\ IF rec[key[h]] = Absent
       THEN Goto(h, "authorize") /\ UNCHANGED <<seen, verdict, told>>
       ELSE TakeRow(h)
    /\ UNCHANGED <<job, attempts, ran, countVars>>

ReserveError(h) ==
    /\ At(h, "reserve")
    /\ ReserveFails(h, key[h], print[h], done[h])
    /\ GotoPersist(h)

-----------------------------------------------------------------------------
\* The Authorizer allows, denies, fails, or describes somebody else.
Authorize(h) ==
    /\ At(h, "authorize")
    /\ \/ Goto(h, "accept") /\ UNCHANGED verdict
       \/ /\ Goto(h, "settle")
          /\ \E v \in {[status |-> "denied",
                        payload |-> "authorization-denied"],
                       [status |-> "authorization_failed",
                        payload |-> "user-lookup-failed"],
                       [status |-> "authorization_failed",
                        payload |-> "authorization-unavailable"]} :
                verdict' = [verdict EXCEPT ![h] = v]
    /\ UNCHANGED <<seen, job, ledgerVars, historyVars, countVars>>

VerdictData(h) == TransitionData(FALSE, FALSE, verdict[h].payload)

\* The tombstone of a refused command, durable before the answer.
Settle(h) ==
    /\ At(h, "settle")
    /\ TransitionSucceeds(h, key[h], "authorization_pending", verdict[h].status,
                          VerdictData(h), done[h])
    /\ Answer(h, verdict[h].payload)
    /\ UNCHANGED <<job, attempts, ran, countVars>>

SettleError_AnswersAnyway(h) ==
    /\ At(h, "settle")
    /\ TransitionFails(h, key[h], "authorization_pending", verdict[h].status,
                       VerdictData(h), done[h])
    /\ Answer(h, verdict[h].payload)
    /\ UNCHANGED <<job, attempts, ran, countVars>>

SettleError(h) ==
    /\ At(h, "settle")
    /\ TransitionFails(h, key[h], "authorization_pending", verdict[h].status,
                       VerdictData(h), done[h])
    /\ GotoPersist(h)

AcceptData == TransitionData(TRUE, FALSE, "none")

Accept_SkipsRunning(h) ==
    /\ At(h, "accept")
    /\ TransitionSucceeds(h, key[h], "authorization_pending", "accepted",
                          AcceptData, done[h])
    /\ Goto(h, "execute")
    /\ UNCHANGED <<seen, verdict, job, historyVars, countVars>>

Accept(h) ==
    /\ At(h, "accept")
    /\ TransitionSucceeds(h, key[h], "authorization_pending", "accepted",
                          AcceptData, done[h])
    /\ Goto(h, "run")
    /\ UNCHANGED <<seen, verdict, job, historyVars, countVars>>

AcceptError(h) ==
    /\ At(h, "accept")
    /\ TransitionFails(h, key[h], "authorization_pending", "accepted",
                       AcceptData, done[h])
    /\ GotoPersist(h)

RunData == TransitionData(FALSE, TRUE, "none")

Run(h) ==
    /\ At(h, "run")
    /\ TransitionSucceeds(h, key[h], "accepted", "running", RunData, done[h])
    /\ Goto(h, "execute")
    /\ UNCHANGED <<seen, verdict, job, historyVars, countVars>>

RunError_Ignored(h) ==
    /\ At(h, "run")
    /\ TransitionFails(h, key[h], "accepted", "running", RunData, done[h])
    /\ Goto(h, "execute")
    /\ UNCHANGED <<seen, verdict, job, historyVars, countVars>>

RunError(h) ==
    /\ At(h, "run")
    /\ TransitionFails(h, key[h], "accepted", "running", RunData, done[h])
    /\ GotoPersist(h)

-----------------------------------------------------------------------------
\* The D-Bus call leaves for the helper.
Execute(h) ==
    /\ At(h, "execute")
    /\ Goto(h, "executing")
    /\ attempts' = [attempts EXCEPT ![key[h]] = @ + 1]
    /\ ran' = [ran EXCEPT ![key[h]] = print[h]]
    /\ job' = [job EXCEPT ![key[h]] = "called"]
    /\ UNCHANGED <<seen, verdict, told, ledgerVars, countVars>>

\* scontrol changes the node, or it or the helper refuses to.  The helper is
\* another process: it outlives a crash of this one.
HelperApplies(k) ==
    /\ job[k] = "called"
    /\ job' = [job EXCEPT ![k] = "applied"]
    /\ UNCHANGED <<handlerVars, ledgerVars, historyVars, countVars>>

HelperRefuses(k) ==
    /\ job[k] = "called"
    /\ job' = [job EXCEPT ![k] = "refused"]
    /\ UNCHANGED <<handlerVars, ledgerVars, historyVars, countVars>>

Concluded(h, status, payload) ==
    /\ Goto(h, "finish")
    /\ verdict' = [verdict EXCEPT ![h] = [status |-> status,
                                          payload |-> payload]]
    /\ UNCHANGED <<seen, job, ledgerVars, historyVars, countVars>>

\* The helper reported success.
ExecuteSucceeds(h) ==
    /\ At(h, "executing")
    /\ job[key[h]] = "applied"
    /\ Concluded(h, "succeeded", "succeeded")

\* A definite D-Bus error, and the context still alive.  ExecutionFailed also
\* covers scontrol killed after helperTimeout, whatever it did before.
ExecuteFails(h) ==
    /\ At(h, "executing")
    /\ ~done[h]
    /\ Concluded(h, "failed", "slurm-command-failed")

\* The reply was lost, or the error came with a context that is done.
ExecuteUnknown(h) ==
    /\ At(h, "executing")
    /\ Concluded(h, "unknown", "command-outcome-unknown")

Finish(h) ==
    /\ At(h, "finish")
    /\ TransitionSucceeds(h, key[h], "running", verdict[h].status,
                          VerdictData(h), done[h])
    /\ Answer(h, verdict[h].payload)
    /\ UNCHANGED <<job, attempts, ran, countVars>>

FinishError(h) ==
    /\ At(h, "finish")
    /\ TransitionFails(h, key[h], "running", verdict[h].status,
                       VerdictData(h), done[h])
    /\ GotoPersist(h)

-----------------------------------------------------------------------------
\* awaitRecord: answer from a settled row, otherwise read the gate, wait and
\* read the row again.
Await(h) ==
    /\ At(h, "await")
    /\ IF seen[h].status \in {"authorization_pending", "accepted"}
       THEN /\ Goto(h, IF blocked THEN "persist_held" ELSE "poll")
            /\ UNCHANGED <<seen, verdict, told>>
       ELSE Answer(h, recordResponse(seen[h]))
    /\ UNCHANGED <<job, attempts, ran, ledgerVars, countVars>>

\* The context is done while the timer runs.
PollCancelled(h) ==
    /\ At(h, "poll")
    /\ done[h]
    /\ Answer(h, "still-processed")
    /\ UNCHANGED <<job, attempts, ran, ledgerVars, countVars>>

Poll(h) ==
    /\ At(h, "poll")
    /\ LookupSucceeds(done[h])
    /\ IF rec[key[h]] = Absent
       THEN /\ Goto(h, "persist_held")
            /\ UNCHANGED <<seen, verdict, told>>
       ELSE TakeRow(h)
    /\ UNCHANGED <<job, attempts, ran, countVars>>

PollError(h) ==
    /\ At(h, "poll")
    /\ LookupFails(done[h])
    /\ GotoPersist(h)

\* persistenceError: reconcile if the gate is closed, then answer.
PersistenceError(h) ==
    /\ up /\ pc[h] \in {"persist", "persist_held"}
    /\ ReconcileSucceeds \/ ReconcileFails
    /\ Answer(h, "ledger-persistence-failed")
    /\ UNCHANGED <<job, attempts, ran, countVars>>

-----------------------------------------------------------------------------
HandlersIdle ==
    /\ pc' = [h \in Handlers |-> "idle"]
    /\ key' = [h \in Handlers |-> NoKey]
    /\ print' = [h \in Handlers |-> NoPrint]
    /\ done' = [h \in Handlers |-> FALSE]
    /\ seen' = [h \in Handlers |-> Absent]
    /\ verdict' = [h \in Handlers |-> NoVerdict]
    /\ lock' = [k \in Keys |-> NoHandler]

\* The process dies; the rows and the helper's work remain.
Crash ==
    /\ up /\ crashes < MaxCrashes
    /\ up' = FALSE
    /\ crashes' = crashes + 1
    /\ HandlersIdle
    /\ Abandon
    /\ UNCHANGED <<job, expiries, historyVars>>

Restart ==
    /\ ~up
    /\ up' = TRUE
    /\ Open
    /\ UNCHANGED <<handlerVars, job, crashes, expiries, historyVars>>

\* Thirty days pass.  No request and no helper call lives that long.
RetentionEnds(k) ==
    /\ expiries < MaxExpiries
    /\ rec[k] # Absent
    /\ \A h \in Handlers : key[h] # k
    /\ job[k] # "called"
    /\ Expire(k)
    /\ expiries' = expiries + 1
    /\ job' = [job EXCEPT ![k] = "none"]
    /\ attempts' = [attempts EXCEPT ![k] = 0]
    /\ ran' = [ran EXCEPT ![k] = NoPrint]
    /\ told' = [told EXCEPT ![k] = {}]
    /\ UNCHANGED <<handlerVars, up, crashes>>

-----------------------------------------------------------------------------
Init ==
    /\ LedgerInit
    /\ up = TRUE
    /\ pc = [h \in Handlers |-> "idle"]
    /\ key = [h \in Handlers |-> NoKey]
    /\ print = [h \in Handlers |-> NoPrint]
    /\ done = [h \in Handlers |-> FALSE]
    /\ seen = [h \in Handlers |-> Absent]
    /\ verdict = [h \in Handlers |-> NoVerdict]
    /\ lock = [k \in Keys |-> NoHandler]
    /\ job = [k \in Keys |-> "none"]
    /\ crashes = 0
    /\ expiries = 0
    /\ attempts = [k \in Keys |-> 0]
    /\ ran = [k \in Keys |-> NoPrint]
    /\ told = [k \in Keys |-> {}]

\* What a handler does once it has a request.
Step(h) ==
    \/ Admit(h) \/ Lock(h) \/ Lookup(h) \/ LookupError(h)
    \/ BeginWrite(h) \/ Reserve(h) \/ ReserveError(h)
    \/ Authorize(h) \/ Settle(h) \/ SettleError(h)
    \/ Accept(h) \/ AcceptError(h) \/ Run(h) \/ RunError(h)
    \/ Execute(h) \/ ExecuteSucceeds(h) \/ ExecuteFails(h)
    \/ ExecuteUnknown(h) \/ Finish(h) \/ FinishError(h)
    \/ Await(h) \/ PollCancelled(h) \/ Poll(h) \/ PollError(h)
    \/ PersistenceError(h)

Next ==
    \/ \E h \in Handlers, k \in Keys, f \in Prints : Receive(h, k, f)
    \/ \E h \in Handlers : Step(h) \/ Cancel(h)
    \/ \E k \in Keys : HelperApplies(k) \/ HelperRefuses(k) \/ RetentionEnds(k)
    \/ Crash \/ Restart

Spec == Init /\ [][Next]_vars

\* The executor answers or gives up (the helper has a timeout), Go mutexes (a
\* key's and writeMu) do not starve a waiter, every goroutine is scheduled.
Fairness ==
    /\ \A h \in Handlers :
          WF_vars(Step(h)) /\ SF_vars(Lock(h) \/ BeginWrite(h))
    /\ WF_vars(Restart)

FairSpec == Spec /\ Fairness

-----------------------------------------------------------------------------
\* Every variable keeps its type; in particular the ledger only ever holds
\* the statuses of ledger.go.
TypeOK ==
    /\ LedgerTypeOK
    /\ up \in BOOLEAN
    /\ pc \in [Handlers -> PC]
    /\ key \in [Handlers -> Keys \cup {NoKey}]
    /\ print \in [Handlers -> Prints \cup {NoPrint}]
    /\ done \in [Handlers -> BOOLEAN]
    /\ seen \in [Handlers -> Record]
    /\ verdict \in [Handlers -> Verdict]
    /\ lock \in [Keys -> Handlers \cup {NoHandler}]
    /\ job \in [Keys -> JobState]
    /\ crashes \in 0..MaxCrashes
    /\ expiries \in 0..MaxExpiries
    /\ attempts \in [Keys -> Nat]
    /\ ran \in [Keys -> Prints \cup {NoPrint}]
    /\ told \in [Keys -> SUBSET Final]

\* A command ID is dispatched to the helper at most once during its
\* retention, whatever retries, concurrent duplicates, cancelled contexts,
\* commit errors and crashes happen.
AtMostOnce == \A k \in Keys : attempts[k] <= 1

\* The statuses the owner of a row may find it in, by its program counter.
OwnedStatus(p) ==
    CASE p \in {"authorize", "settle", "accept"} -> {"authorization_pending"}
      [] p = "run" -> {"accepted"}
      [] p \in {"execute", "executing", "finish"} -> {"running"}
      [] OTHER -> {}

\* While the gate is open, every interrupted-looking row has a live Handle
\* that owns its mutex and is at the matching step: no row is stranded where
\* only a reconciliation that nobody will request could resolve it.
NoOrphan ==
    up /\ ~blocked =>
        \A k \in Keys : rec[k].status \in Unresolved =>
            \E h \in Handlers : /\ lock[k] = h
                               /\ key[h] = k
                               /\ rec[k].status \in OwnedStatus(pc[h])

\* A dispatched command has a durable row that names its fingerprint, its
\* authorization and its execution boundary, and that no recovery takes for
\* a command that never ran.
ExecutionAudited ==
    \A k \in Keys : attempts[k] > 0 =>
        /\ rec[k].print = ran[k]
        /\ rec[k].admin /\ rec[k].boundary
        /\ rec[k].status \in {"running", "succeeded", "failed", "unknown"}

\* A row that says the command was not executed is right and stays right: it
\* was never dispatched and no handler is about to.  A row that says it
\* succeeded is right: the helper applied it.
HonestRows ==
    \A k \in Keys :
        /\ rec[k].status \in {"denied", "authorization_failed",
                             "authorization_uncertain"} =>
               /\ attempts[k] = 0
               /\ \A h \in Handlers : key[h] = k => pc[h] # "execute"
        /\ rec[k].status = "succeeded" => job[k] = "applied"

\* Every final answer ever given for a command ID is the one its durable row
\* replays now: an answer is never given before its row is durable, and
\* neither a crash nor a reconciliation takes it back.
AnswersStand ==
    \A k \in Keys : told[k] \subseteq {recordResponse(rec[k])}

\* A row that has reached a terminal status never changes again within its
\* retention, not even when the handler of a command that a reconciliation
\* marked unknown comes back with the result.
TerminalRowsFrozen ==
    [][\A k \in Keys : rec[k].status \in Terminal =>
            rec'[k] \in {rec[k], Absent}]_vars

\* While the gate is closed no write begins, and rows change only by recovery
\* (or expire), but for one: a failed Lookup may close the gate while a
\* handler is inside its write, and that write still claims or moves the row
\* of its own request.
GateFreezesRows ==
    [][blocked =>
          /\ writer' \in {writer, NoHandler}
          /\ \A k \in Keys :
                \/ rec'[k] \in {rec[k], recoverInterrupted[k], Absent}
                \/ \E h \in Handlers : writer = h /\ key[h] = k]_vars

\* Every request gets an answer, or dies with the process: no mutex, no
\* closed gate and no orphaned row keeps a handler waiting for ever.
EveryRequestAnswered ==
    \A h \in Handlers : pc[h] # "idle" ~> pc[h] = "idle"

\* Once the database works again, the first request that meets the closed
\* gate opens it.
GateReopens ==
    (/\ blocked /\ faults = MaxFaults
     /\ \E h \in Handlers : pc[h] \in {"persist", "persist_held"}) ~> ~blocked

-----------------------------------------------------------------------------
\* The inductive invariant behind the properties above, in named parts.

\* An open request has a key and a fingerprint; a dead process has none.
RequestInv ==
    /\ \A h \in Handlers :
          IF pc[h] = "idle" THEN key[h] = NoKey
                            ELSE key[h] \in Keys /\ print[h] \in Prints
    /\ ~up => \A h \in Handlers : pc[h] = "idle"

\* The mutex of a key and the program counters agree.
LockInv ==
    /\ \A h \in Handlers : pc[h] \in Holding => lock[key[h]] = h
    /\ \A h \in Handlers, k \in Keys :
          lock[k] = h => key[h] = k /\ pc[h] \in Holding

\* The statuses a handler can find its row in: the one it left it in, or what
\* a reconciliation made of that.
ExpectedStatus(p) ==
    CASE p = "reserve" -> {"absent"}
      [] p \in {"authorize", "settle", "accept"} ->
            {"authorization_pending", "authorization_uncertain"}
      [] p = "run" -> {"accepted", "authorization_uncertain"}
      [] p \in {"execute", "executing", "finish"} -> {"running", "unknown"}
      [] OTHER -> Status \cup {"absent"}

\* A handler past its claim owns a row of its own fingerprint, and carries a
\* verdict only to the step that writes it.
RowInv(h) ==
    /\ rec[key[h]].status \in ExpectedStatus(pc[h])
    /\ pc[h] \in {"authorize", "settle", "accept", "run", "execute",
                  "executing", "finish"} => rec[key[h]].print = print[h]
    /\ pc[h] \in {"run", "execute"} => rec[key[h]].admin
    /\ pc[h] = "execute" => rec[key[h]].boundary /\ attempts[key[h]] = 0
    /\ pc[h] = "executing" => attempts[key[h]] = 1
    /\ pc[h] = "finish" =>
          /\ attempts[key[h]] = 1
          /\ verdict[h].status \in {"succeeded", "failed", "unknown"}
          /\ verdict[h].payload \in Final
          /\ verdict[h].status = "succeeded" => job[key[h]] = "applied"
    /\ pc[h] = "settle" =>
          /\ verdict[h].status \in {"denied", "authorization_failed"}
          /\ verdict[h].payload \in Final
    /\ pc[h] = "await" =>
          /\ seen[h].status # "absent"
          /\ (seen[h].status \in Terminal => seen[h] = rec[key[h]])

HandlerInv == \A h \in Handlers : pc[h] \in Holding => RowInv(h)

\* Nothing has been said or done for a row that does not exist.
FreshInv ==
    \A k \in Keys : rec[k].status = "absent" =>
        rec[k] = Absent /\ attempts[k] = 0 /\ told[k] = {}

IInv ==
    /\ TypeOK
    /\ RequestInv
    /\ LockInv
    /\ HandlerInv
    /\ FreshInv
    /\ AtMostOnce
    /\ NoOrphan
    /\ ExecutionAudited
    /\ HonestRows
    /\ AnswersStand

-----------------------------------------------------------------------------
\* The life of a command as the rows show it.
ContractState(status) ==
    CASE status = "absent" -> "new"
      [] status \in {"authorization_pending", "accepted"} -> "claimed"
      [] status = "running" -> "started"
      [] status \in {"denied", "authorization_failed"} -> "refused"
      [] status = "authorization_uncertain" -> "uncertain"
      [] OTHER -> status

Contract == INSTANCE CommandContract WITH
    state <- [k \in Keys |-> ContractState(rec[k].status)],
    dispatched <- {k \in Keys : attempts[k] > 0}

\* The service implements the contract of CommandContract: every step of
\* every handler, of recovery and of retention is a step of a command's life
\* or changes nothing in it.
ImplementsContract == Contract!ContractSpec

-----------------------------------------------------------------------------
\* The Phase 5 document: an execution that may have reached Slurm and timed
\* out is unknown, not failed.
FailedNeverApplied ==
    \A k \in Keys : rec[k].status = "failed" => job[k] # "applied"

\* The Phase 5 document: an uncertain execution outcome is reported as
\* command-outcome-unknown, not retryable, also when a stored row is replayed.
UnknownReportedUnknown ==
    \A k \in Keys : rec[k].status = "unknown" =>
        told[k] \subseteq {"command-outcome-unknown"}
=============================================================================
