-------------------------- MODULE ServiceShutdown --------------------------
(***************************************************************************)
(* The end of the service: the main function (cmd/cockpit-slurm/main.go)   *)
(* around the IPC server.  Serve returns when the listener is closed; main *)
(* then closes the executor and the command ledger and the process ends,   *)
(* with whatever goroutines it still has.                                  *)
(***************************************************************************)
EXTENDS IpcServer

VARIABLE exited   \* the process has ended

serviceVars == <<vars, exited>>

ServerRuns == ~exited /\ Next /\ UNCHANGED exited

MainReturns ==
    /\ ~exited /\ serve = "returned"
    /\ exited' = TRUE
    /\ UNCHANGED vars

ServiceSpec ==
    Init /\ exited = FALSE /\ [][ServerRuns \/ MainReturns]_serviceVars

\* The Phase 1E document: a shutdown lets all connection goroutines terminate.
\* That of a request being handled is among them.
ExitAfterConnections ==
    exited => \A c \in Conns : stage[c] \notin Counted
=============================================================================
