--------------------------- MODULE CommandLedger ---------------------------
(***************************************************************************)
(* The durable command ledger (internal/ledger/ledger.go): one SQLite row  *)
(* per (caller UID, command ID), and the process-wide admission gate that  *)
(* every persistence error closes and only Reconcile opens again.          *)
(*                                                                         *)
(* An operation that writes holds writeMu to its end and reads the gate    *)
(* once, when it has the mutex.  Lookup takes no mutex and closes the gate *)
(* when it fails, so a write is two steps here: it passes the gate, and    *)
(* its transaction ends.  It ends in one of three ways: the caller's       *)
(* context was done, so the transaction could not begin or commit; the     *)
(* disk failed, and the transaction may be durable all the same; or it is  *)
(* durable.  The transaction itself is one step: the database has a single *)
(* connection.  So is Reconcile, which holds writeMu as well: a Lookup     *)
(* that fails meanwhile closes a gate that Reconcile is about to open.     *)
(***************************************************************************)
EXTENDS Naturals

CONSTANTS
    Keys,       \* (caller UID, command ID) pairs
    Prints,     \* canonical request fingerprints
    NoPrint,    \* the fingerprint of an absent row
    Handlers,   \* the goroutines that call the ledger
    NoHandler,  \* the owner of a free mutex
    MaxFaults   \* bound: how many times the database fails

ASSUME LedgerAssumption ==
    /\ NoPrint \notin Prints
    /\ NoHandler \notin Handlers
    /\ MaxFaults \in Nat

VARIABLES
    rec,        \* the rows, by key
    blocked,    \* the admission gate
    writer,     \* who holds writeMu and has found the gate open
    faults      \* how often the database has failed

ledgerVars == <<rec, blocked, writer, faults>>

-----------------------------------------------------------------------------
Unresolved == {"authorization_pending", "accepted", "running"}

Terminal == {"denied", "authorization_failed", "authorization_uncertain",
             "succeeded", "failed", "unknown"}

Status == Unresolved \cup Terminal

\* What result_payload or error_payload holds: the answer stored with the
\* transition that ended the command.  A recovered row has none.
Payload == {"none", "succeeded", "authorization-denied", "user-lookup-failed",
            "authorization-unavailable", "slurm-command-failed",
            "command-outcome-unknown"}

\* admin stands for admin_level and authorization_metadata, boundary for the
\* execution identity columns.
Record == [status   : Status \cup {"absent"},
           print    : Prints \cup {NoPrint},
           admin    : BOOLEAN,
           boundary : BOOLEAN,
           payload  : Payload]

Absent == [status |-> "absent", print |-> NoPrint,
           admin |-> FALSE, boundary |-> FALSE, payload |-> "none"]

Claimed(f) == [Absent EXCEPT !.status = "authorization_pending", !.print = f]

allowedTransition(from, to) ==
    \/ /\ from = "authorization_pending"
       /\ to \in {"accepted", "denied", "authorization_failed",
                  "authorization_uncertain"}
    \/ from = "accepted" /\ to \in {"running", "authorization_uncertain"}
    \/ from = "running" /\ to \in {"succeeded", "failed", "unknown"}

-----------------------------------------------------------------------------
DatabaseFails == faults < MaxFaults /\ faults' = faults + 1

blockPersistence == blocked' = TRUE

LedgerUnchanged == UNCHANGED ledgerVars

\* isBlocked, read once under writeMu, lets the write of h begin.
PassGate_Always(h) ==
    /\ writer = NoHandler
    /\ writer' = h
    /\ UNCHANGED <<rec, blocked, faults>>

PassGate(h) ==
    /\ writer = NoHandler /\ ~blocked
    /\ writer' = h
    /\ UNCHANGED <<rec, blocked, faults>>

\* The write of h whose effect is the rows new, for a caller whose context
\* is done or not.  The gate may have been closed since it was passed.
WriteSucceeds(h, new, done) ==
    /\ writer = h /\ ~done
    /\ writer' = NoHandler
    /\ rec' = new
    /\ UNCHANGED <<blocked, faults>>

WriteFails_LeavesGateOpen(h, new, done) ==
    \/ writer = NoHandler /\ blocked /\ LedgerUnchanged
    \/ /\ writer = h
       /\ writer' = NoHandler
       /\ UNCHANGED blocked
       /\ \/ done /\ UNCHANGED <<rec, faults>>
          \/ ~done /\ DatabaseFails /\ rec' \in {rec, new}

\* The first disjunct is ErrAdmissionBlocked.
WriteFails(h, new, done) ==
    \/ writer = NoHandler /\ blocked /\ LedgerUnchanged
    \/ /\ writer = h
       /\ writer' = NoHandler
       /\ blockPersistence
       /\ \/ done /\ UNCHANGED <<rec, faults>>
          \/ ~done /\ DatabaseFails /\ rec' \in {rec, new}

-----------------------------------------------------------------------------
\* Lookup takes neither writeMu nor the gate.  A done context is reported
\* without closing the gate, any other error closes it.
LookupSucceeds(done) == ~done /\ LedgerUnchanged

LookupFails(done) ==
    \/ done /\ LedgerUnchanged
    \/ /\ ~done /\ DatabaseFails
       /\ blockPersistence
       /\ UNCHANGED <<rec, writer>>

\* ReserveAuthorization: INSERT ... ON CONFLICT DO NOTHING, then read back.
ReservedRows(k, f) ==
    IF rec[k] = Absent THEN [rec EXCEPT ![k] = Claimed(f)] ELSE rec

ReserveSucceeds(h, k, f, done) == WriteSucceeds(h, ReservedRows(k, f), done)

ReserveFails(h, k, f, done) == WriteFails(h, ReservedRows(k, f), done)

\* Transition: UPDATE ... WHERE status = expected, with the columns in data
\* kept when data does not set them.
TransitionData(admin, boundary, payload) ==
    [admin |-> admin, boundary |-> boundary, payload |-> payload]

MovedRow(row, next, data) ==
    [row EXCEPT !.status   = next,
                !.admin    = @ \/ data.admin,
                !.boundary = @ \/ data.boundary,
                !.payload  = IF data.payload = "none" THEN @ ELSE data.payload]

TransitionValid(expected, next, data) ==
    /\ allowedTransition(expected, next)
    /\ next = "accepted" => data.admin
    /\ next = "running" => data.boundary
    /\ next \in {"denied", "authorization_failed"} => data.payload # "none"

TransitionApplies_AnyStatus(k, expected, next, data) ==
    TransitionValid(expected, next, data)

TransitionApplies(k, expected, next, data) ==
    TransitionValid(expected, next, data) /\ rec[k].status = expected

MovedRows(k, expected, next, data) ==
    IF TransitionApplies(k, expected, next, data)
    THEN [rec EXCEPT ![k] = MovedRow(@, next, data)]
    ELSE rec

TransitionSucceeds(h, k, expected, next, data, done) ==
    /\ TransitionApplies(k, expected, next, data)
    /\ WriteSucceeds(h, MovedRows(k, expected, next, data), done)

\* The other two disjuncts are errors that leave the gate as it is: the row
\* has another status or is gone (transitionConflict), or the request is
\* invalid and refused before the mutex.
TransitionFails(h, k, expected, next, data, done) ==
    \/ /\ TransitionValid(expected, next, data)
       /\ WriteFails(h, MovedRows(k, expected, next, data), done)
    \/ /\ TransitionValid(expected, next, data)
       /\ ~TransitionApplies(k, expected, next, data)
       /\ WriteSucceeds(h, rec, done)
    \/ /\ ~TransitionValid(expected, next, data)
       /\ writer # h
       /\ LedgerUnchanged

-----------------------------------------------------------------------------
RecoveredStatus_EveryRow(s) ==
    CASE s \in {"authorization_pending", "accepted"} -> "authorization_uncertain"
      [] s = "absent" -> s
      [] OTHER -> "unknown"

RecoveredStatus(s) ==
    CASE s \in {"authorization_pending", "accepted"} -> "authorization_uncertain"
      [] s = "running" -> "unknown"
      [] OTHER -> s

recoverInterrupted_Deletes ==
    [k \in Keys |-> IF rec[k].status \in Unresolved THEN Absent ELSE rec[k]]

\* recoverInterrupted rewrites every interrupted row, whoever owns it.
recoverInterrupted ==
    [k \in Keys |-> [rec[k] EXCEPT !.status = RecoveredStatus(@)]]

ReconcileSucceeds_KeepsGateClosed ==
    \/ ~blocked /\ LedgerUnchanged
    \/ /\ blocked /\ writer = NoHandler
       /\ rec' = recoverInterrupted
       /\ UNCHANGED <<blocked, writer, faults>>

\* Reconcile does nothing when the gate is open (its caller has looked before
\* it waits for writeMu).  When it fails, it may have recovered the rows
\* already; the gate stays closed.
ReconcileSucceeds ==
    \/ ~blocked /\ LedgerUnchanged
    \/ /\ blocked /\ writer = NoHandler
       /\ rec' = recoverInterrupted
       /\ blocked' = FALSE
       /\ UNCHANGED <<writer, faults>>

ReconcileFails ==
    /\ writer = NoHandler /\ blocked
    /\ DatabaseFails
    /\ rec' \in {rec, recoverInterrupted}
    /\ blockPersistence
    /\ UNCHANGED writer

\* A restarted process opens the ledger: rows recovered, gate open.
Open ==
    /\ rec' = recoverInterrupted
    /\ blocked' = FALSE
    /\ UNCHANGED <<writer, faults>>

\* The process dies in the middle of whatever it was writing.
Abandon == writer' = NoHandler /\ UNCHANGED <<rec, blocked, faults>>

\* The retention period of one row ends.
Expire(k) ==
    /\ rec' = [rec EXCEPT ![k] = Absent]
    /\ UNCHANGED <<blocked, writer, faults>>

-----------------------------------------------------------------------------
LedgerInit ==
    /\ rec = [k \in Keys |-> Absent]
    /\ blocked = FALSE
    /\ writer = NoHandler
    /\ faults = 0

LedgerTypeOK ==
    /\ rec \in [Keys -> Record]
    /\ blocked \in BOOLEAN
    /\ writer \in Handlers \cup {NoHandler}
    /\ faults \in 0..MaxFaults
=============================================================================
