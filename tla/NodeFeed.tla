------------------------------ MODULE NodeFeed ------------------------------
(***************************************************************************)
(* What a page may rely on, whatever connections, queues, reconnects and   *)
(* restarts do: the service goes through a sequence of states of the       *)
(* cluster, and every page shows one of them.  A page may skip states, but *)
(* it never shows a mixture of two and never goes back to an earlier one,  *)
(* not even after a restart of the service.                                *)
(***************************************************************************)
EXTENDS Naturals, Sequences

CONSTANTS
    States,   \* the states of the cluster a service can have
    Pages,
    Nothing   \* what a page shows before its first baseline

VARIABLES
    log,      \* the states the service has had, oldest first
    at,       \* the place in log that a page is at; 0 before its first baseline
    shown     \* what a page shows

vars == <<log, at, shown>>

Init ==
    /\ Len(log) = 1 /\ log[1] \in States
    /\ at = [p \in Pages |-> 0]
    /\ shown = [p \in Pages |-> Nothing]

\* The service commits a state, or starts again with one.
Commit ==
    /\ Len(log') = Len(log) + 1
    /\ log' = Append(log, log'[Len(log')])
    /\ log'[Len(log')] \in States
    /\ UNCHANGED <<at, shown>>

\* A page moves on, over none, one or many states.
Show(p) ==
    \E i \in 1 .. Len(log) :
        /\ i >= at[p]
        /\ at' = [at EXCEPT ![p] = i]
        /\ shown' = [shown EXCEPT ![p] = log[i]]
        /\ UNCHANGED log

Next == Commit \/ \E p \in Pages : Show(p)

Spec == Init /\ [][Next]_vars
=============================================================================
