-------------------------- MODULE MCCommandService --------------------------
\* Small instances of the command service for TLC.
EXTENDS CommandService, TLC

CONSTANTS h1, k1, k2, f1, f2

\* The command.  Other requests are refused unless a row answers them.
OneCommand == {<<k1, f1>>}

Duplicates == [h \in Handlers |-> OneCommand]

\* The other connection also sends another request with the command's ID, and
\* one with another ID whose only effect is a Lookup: it can close the gate
\* during a write.  Two of these, neither of which ever writes, do not meet.
Conflicts ==
    [h \in Handlers |-> IF h = h1 THEN OneCommand
                                  ELSE OneCommand \cup {<<k1, f2>>, <<k2, f2>>}]

\* Handlers are interchangeable.
ServiceSymmetry == Permutations(Handlers)
=============================================================================
