---------------------------- MODULE MCIpcServer ----------------------------
\* Small instances of the IPC server for TLC.
EXTENDS IpcServer, TLC

\* Connections are interchangeable.
ConnSymmetry == Permutations(Conns)
=============================================================================
