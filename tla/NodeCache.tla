------------------------------ MODULE NodeCache ------------------------------
(***************************************************************************)
(* The authoritative Node cache (internal/resource/node_cache.go) and the  *)
(* refreshes that fill it (node_synchronizer.go): the periodic one and the *)
(* one a finished command asks for.  A refresh holds refreshMu from its    *)
(* `scontrol show nodes` to its commit.                                    *)
(*                                                                         *)
(* A Node is its identity, a condition (everything sameNodeState compares) *)
(* and the generation that last changed it.                                *)
(***************************************************************************)
EXTENDS Naturals

CONSTANTS
    Nodes,         \* node identities
    Conditions,    \* what a node's spec and status may be
    Gone,          \* the condition of a node Slurm does not list
    Refreshers,    \* goroutines that call Refresh
    Ticker,        \* the one of them that does so periodically
    NoRefresher    \* the owner of a free refreshMu

ASSUME CacheAssumption ==
    /\ Gone \notin Conditions
    /\ NoRefresher \notin Refreshers
    /\ Ticker \in Refreshers

VARIABLES
    slurm,       \* the cluster: the condition of every node
    version,     \* history: how often the cluster has changed
    refreshMu,   \* the refresh in progress
    listed,      \* what its ListNodes returned
    nodes,       \* the cache
    generation,  \* the cache's generation
    committed    \* history: the version of the listing in the cache

cacheVars == <<nodes, generation, committed>>
refreshVars == <<refreshMu, listed>>
slurmVars == <<slurm, version>>

-----------------------------------------------------------------------------
Row == [cond : Conditions, gen : Nat]

NoRow == [cond |-> Gone, gen |-> 0]

Listing == [cond : [Nodes -> Conditions \cup {Gone}], version : Nat]

NoListing == [cond |-> [n \in Nodes |-> Gone], version |-> 0]

Rows == [Nodes -> Row \cup {NoRow}]

sameNodeState(row, cond) == row.cond = cond

-----------------------------------------------------------------------------
\* replaceSnapshot, for a listing: which nodes it changes, the changes it
\* reports and the rows it leaves.
Changed(cond) == {n \in Nodes : ~sameNodeState(nodes[n], cond[n])}

changeKind(n, cond) ==
    CASE nodes[n] = NoRow -> "added"
      [] cond[n] = Gone -> "removed"
      [] OTHER -> "updated"

Stamped(cond, gen) == [cond |-> cond, gen |-> gen]

\* A removed node is reported with the row it had.
nodeChanges(cond) ==
    [n \in Changed(cond) |->
        [kind |-> changeKind(n, cond),
         row  |-> IF cond[n] = Gone THEN nodes[n]
                                    ELSE Stamped(cond[n], generation + 1)]]

updatedNodes(cond) ==
    [n \in Nodes |->
        IF sameNodeState(nodes[n], cond[n]) THEN nodes[n]
        ELSE IF cond[n] = Gone THEN NoRow
        ELSE Stamped(cond[n], generation + 1)]

\* A listing that changes nothing leaves the generation alone.
replaceSnapshot(listing) ==
    /\ nodes' = updatedNodes(listing.cond)
    /\ generation' = IF Changed(listing.cond) = {} THEN generation
                                                   ELSE generation + 1
    /\ committed' = listing.version

-----------------------------------------------------------------------------
\* Refresh locks refreshMu and lists the nodes.
ListNodes_WithoutLock(r) ==
    /\ listed[r] = NoListing
    /\ refreshMu' = r
    /\ listed' = [listed EXCEPT ![r] = [cond |-> slurm, version |-> version]]

ListNodes(r) ==
    /\ refreshMu = NoRefresher
    /\ refreshMu' = r
    /\ listed' = [listed EXCEPT ![r] = [cond |-> slurm, version |-> version]]

\* Refresh returns, committed or not.
Unlock(r) ==
    /\ refreshMu' = NoRefresher
    /\ listed' = [listed EXCEPT ![r] = NoListing]

\* scontrol fails, the listing is invalid, or the context is done.
RefreshFails(r) ==
    /\ refreshMu = r
    /\ Unlock(r)
    /\ UNCHANGED cacheVars

RefreshCommits(r) ==
    /\ listed[r] # NoListing
    /\ Unlock(r)
    /\ replaceSnapshot(listed[r])

-----------------------------------------------------------------------------
\* main loads the first snapshot into an empty cache before it serves.
FirstRows(cond) ==
    [n \in Nodes |-> IF cond[n] = Gone THEN NoRow ELSE Stamped(cond[n], 1)]

FirstGeneration(cond) == IF \A n \in Nodes : cond[n] = Gone THEN 0 ELSE 1

CacheInit ==
    /\ slurm \in [Nodes -> Conditions \cup {Gone}]
    /\ version = 1
    /\ refreshMu = NoRefresher
    /\ listed = [r \in Refreshers |-> NoListing]
    /\ nodes = FirstRows(slurm)
    /\ generation = FirstGeneration(slurm)
    /\ committed = version

CacheRestart ==
    /\ nodes' = FirstRows(slurm)
    /\ generation' = FirstGeneration(slurm)
    /\ committed' = version
    /\ UNCHANGED <<refreshVars, slurmVars>>

RefreshDies ==
    /\ refreshMu' = NoRefresher
    /\ listed' = [r \in Refreshers |-> NoListing]

\* The cluster changes by itself, or because a command was executed.
SlurmChanges(n, cond) ==
    /\ slurm[n] # cond
    /\ slurm' = [slurm EXCEPT ![n] = cond]
    /\ version' = version + 1

CacheTypeOK ==
    /\ slurm \in [Nodes -> Conditions \cup {Gone}]
    /\ version \in Nat
    /\ refreshMu \in Refreshers \cup {NoRefresher}
    /\ listed \in [Refreshers -> Listing]
    /\ nodes \in Rows
    /\ generation \in Nat
    /\ committed \in Nat
=============================================================================
