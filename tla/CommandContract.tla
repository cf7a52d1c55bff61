-------------------------- MODULE CommandContract --------------------------
(***************************************************************************)
(* What the command ledger and service promise for one command ID during   *)
(* its retention, without handlers, mutexes, gates or databases: the life  *)
(* of a command as a client and an operator may rely on it.                *)
(***************************************************************************)
CONSTANT Keys   \* (caller UID, command ID) pairs

VARIABLES
    state,       \* how far each command is
    dispatched   \* the commands that have been handed to the helper

contractVars == <<state, dispatched>>

Stages == {"new", "claimed", "started", "refused", "uncertain",
           "succeeded", "failed", "unknown"}

ContractInit ==
    /\ state = [k \in Keys |-> "new"]
    /\ dispatched = {}

Move(k, from, to) ==
    /\ state[k] = from
    /\ state' = [state EXCEPT ![k] = to]

Claim(k) == Move(k, "new", "claimed") /\ UNCHANGED dispatched

Refuse(k) == Move(k, "claimed", "refused") /\ UNCHANGED dispatched

Start(k) == Move(k, "claimed", "started") /\ UNCHANGED dispatched

\* A started command is handed over once.  Its row may have been declared
\* unknown in the meantime, never anything that denies the execution.
Dispatch(k) ==
    /\ state[k] \in {"started", "unknown"}
    /\ k \notin dispatched
    /\ dispatched' = dispatched \cup {k}
    /\ UNCHANGED state

Conclude(k) ==
    /\ k \in dispatched
    /\ \E s \in {"succeeded", "failed", "unknown"} : Move(k, "started", s)
    /\ UNCHANGED dispatched

\* A recovery interrupts whatever is unfinished, all of it at once.
Interrupted(s) ==
    CASE s = "claimed" -> "uncertain"
      [] s = "started" -> "unknown"
      [] OTHER -> s

Interrupt ==
    /\ state' = [k \in Keys |-> Interrupted(state[k])]
    /\ UNCHANGED dispatched

Forget(k) ==
    /\ state[k] # "new"
    /\ state' = [state EXCEPT ![k] = "new"]
    /\ dispatched' = dispatched \ {k}

ContractNext ==
    \/ \E k \in Keys : \/ Claim(k) \/ Refuse(k) \/ Start(k)
                       \/ Dispatch(k) \/ Conclude(k) \/ Forget(k)
    \/ Interrupt

ContractSpec == ContractInit /\ [][ContractNext]_contractVars
=============================================================================
