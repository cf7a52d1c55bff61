---------------------------- MODULE MCNodeStream ----------------------------
(***************************************************************************)
(* Small instances of NodeStream for TLC.                                  *)
(***************************************************************************)
EXTENDS NodeStream, TLC

\* Nodes, conditions and connections are interchangeable.
StreamSymmetry == Permutations(Nodes) \cup Permutations(Conditions)
                    \cup Permutations(Conns)
=============================================================================
