------------------------ MODULE ServiceStartProofs ------------------------
(***************************************************************************)
(* What holds of starting the service for any number of processes,         *)
(* databases, listings and upsets: the type invariant, the schema a        *)
(* process finds (SchemaReady), the snapshots it offers and the actions    *)
(* the page offers on them (SnapshotsAcceptable, OffersFit), and the path  *)
(* that an answering process keeps (ListenersNotDisturbed).  SchemaReady   *)
(* and ListenersNotDisturbed need the stronger SchemaInv and SocketInv     *)
(* below; the other two follow from what a step can do to a cache          *)
(* (CacheSteps).                                                           *)
(***************************************************************************)
EXTENDS ServiceStart, TLAPS

\* Nothing but the process ends, and what it held goes with it.
LEMMA ExitsTyped ==
  ASSUME TypeOK, NEW p \in Procs, Exits(p)
  PROVE  /\ pc' \in [Procs -> PC] /\ seen' \in [Procs -> Nat] /\ db' \in Database
         /\ row' \in [status : RowStatus, owner : Procs \cup {NoProc}]
         /\ slurm' \in Listings
         /\ cache' \in [Procs -> {NoSnapshot} \cup {[known |-> TRUE, nodes |-> l.nodes] : l \in Listings}]
         /\ listening' \in [Procs -> BOOLEAN]
         /\ host' \in BOOLEAN /\ rivals' \in [Procs -> SUBSET Procs]
  BY DEF TypeOK, Exits, Goto, PC

\* log.Fatalf keeps the types.
LEMMA FatalTyped ==
  ASSUME TypeOK, NEW p \in Procs, Fatal(p), upsets' \in 0 .. MaxUpsets
  PROVE  TypeOK'
  BY ExitsTyped DEF TypeOK, Fatal

\* Every step of main keeps the types.
LEMMA MainStepTyped ==
  ASSUME TypeOK, NEW p \in Procs, MainStep(p)
  PROVE  TypeOK'
<1> USE DEF TypeOK, At, Goto, PC, Opening, Starting, Running, Created, Unlinked
<1>1. upsets' \in 0 .. MaxUpsets
  BY DEF MainStep, ReadVersion, Migrate, Recover, FirstRefresh, Wire, Inspect, Dial, Remove,
         Bind, Listen, Restrict, Undo, CloseEnds, MainReturns
<1>2. CASE ReadVersion(p)
  BY <1>1, <1>2, FatalTyped DEF ReadVersion, Database
<1>3. CASE Migrate(p)
  <2>1. CASE Fatal(p)
    BY <1>1, <2>1, FatalTyped
  <2>2. CASE ~Fatal(p)
    <3>1. MigratedColumns(seen[p] + 1) \in SUBSET (V2Columns \cup ServiceColumns)
      BY DEF MigratedColumns, Database
    <3>2. db' = [version |-> seen[p] + 1, table |-> TRUE,
                 columns |-> MigratedColumns(seen[p] + 1)]
      BY <1>3, <2>2 DEF Migrate
    <3>3. db' \in Database
      BY <3>1, <3>2 DEF Database
    <3> QED BY <1>1, <1>3, <2>2, <3>3 DEF Migrate
  <2> QED BY <2>1, <2>2
<1>4. CASE Recover(p)
  <2>1. Recovered(row.status) \in RowStatus
    BY DEF Recovered, RowStatus, Unresolved
  <2> QED BY <1>1, <1>4, <2>1 DEF Recover
<1>5. CASE FirstRefresh(p)
  BY <1>1, <1>5, FatalTyped DEF FirstRefresh
<1>6. CASE Wire(p)
  BY <1>1, <1>6, FatalTyped DEF Wire
<1>7. CASE Inspect(p)
  BY <1>1, <1>7, FatalTyped DEF Inspect
<1>8. CASE Dial(p)
  BY <1>1, <1>8, FatalTyped DEF Dial
<1>9. CASE Remove(p)
  BY <1>1, <1>9, FatalTyped DEF Remove
<1>10. CASE Bind(p)
  BY <1>1, <1>10, FatalTyped DEF Bind
<1>11. CASE Listen(p)
  BY <1>1, <1>11 DEF Listen
<1>12. CASE Restrict(p)
  BY <1>1, <1>12 DEF Restrict
<1>13. CASE CloseEnds(p)
  BY <1>1, <1>13, ExitsTyped DEF CloseEnds
<1>14. CASE MainReturns(p)
  BY <1>1, <1>14, FatalTyped DEF MainReturns
<1>15. CASE Undo(p)
  BY <1>1, <1>15, ExitsTyped DEF Undo
<1> QED
  BY <1>2, <1>3, <1>4, <1>5, <1>6, <1>7, <1>8, <1>9, <1>10, <1>11, <1>12, <1>13, <1>14, <1>15
  DEF MainStep

\* Every step of the system keeps the types.
LEMMA NextTyped ==
  ASSUME TypeOK, [Next]_vars
  PROVE  TypeOK'
<1> USE DEF TypeOK, At, Goto, PC, Opening, Starting, Running, Created, Unlinked
<1>1. CASE UNCHANGED vars
  BY <1>1 DEF vars
<1>2. ASSUME NEW p \in Procs, MainStep(p) PROVE TypeOK'
  BY <1>2, MainStepTyped
<1>3. ASSUME NEW p \in Procs, Start(p) PROVE TypeOK'
  BY <1>3, StartAssumption DEF Start, Upset
<1>4. ASSUME NEW p \in Procs, Claims(p) PROVE TypeOK'
  BY <1>4 DEF Claims, RowStatus, Unresolved
<1>5. ASSUME NEW p \in Procs, Advances(p) PROVE TypeOK'
  <2>1. NextStatus(row.status) \in RowStatus
    BY <1>5 DEF Advances, NextStatus, RowStatus, Unresolved
  <2> QED BY <1>5, <2>1 DEF Advances
<1>6. ASSUME NEW p \in Procs, Stop(p) PROVE TypeOK'
  BY <1>6, StartAssumption DEF Stop, Upset
<1>7. ASSUME NEW p \in Procs, Dies(p) PROVE TypeOK'
  BY <1>7, StartAssumption, FatalTyped DEF Dies, Upset
<1>8. ASSUME NEW l \in Listings, SlurmChanges(l) PROVE TypeOK'
  BY <1>8, StartAssumption DEF SlurmChanges, Upset
<1>9. CASE DirectoryRemoved
  BY <1>9, StartAssumption DEF DirectoryRemoved
<1>10. CASE HostChanges
  <2>1. host' \in BOOLEAN
    BY <1>10 DEF HostChanges
  <2>2. upsets' \in 0 .. MaxUpsets
    BY <1>10, StartAssumption DEF HostChanges, Upset
  <2> QED BY <1>10, <2>1, <2>2 DEF HostChanges
<1> QED BY <1>1, <1>2, <1>3, <1>4, <1>5, <1>6, <1>7, <1>8, <1>9, <1>10 DEF Next

\* The first states have their types.
LEMMA InitTyped == Init => TypeOK
  BY StartAssumption, DatabasesAssumption
  DEF Init, TypeOK, PC, Sound, RowStatus, NoSnapshot

\* The type invariant of starting and ending the service.
THEOREM TypeCorrect == Spec => []TypeOK
  BY InitTyped, NextTyped, PTL DEF Spec

-----------------------------------------------------------------------------
(* The schema.  A process that migrates goes by the version it read, which  *)
(* the database may have left behind meanwhile; the invariant ties what it  *)
(* read, what the database says and the columns there are.                  *)

SchemaInv ==
  /\ Sound(db)
  /\ \A p \in Procs : pc[p] = "migrating" =>
       seen[p] < SchemaVersion /\ seen[p] <= db.version /\ db.version <= SchemaVersion
  /\ \A p \in Procs : pc[p] \in Starting \cup Running => db.version = SchemaVersion

\* A process that ends leaves the database as it was.
LEMMA FatalKeepsSchema ==
  ASSUME TypeOK, SchemaInv, NEW p \in Procs, Exits(p)
  PROVE  SchemaInv'
  BY DEF TypeOK, SchemaInv, Exits, Goto, Starting, Running, Sound

\* A step that leaves the database alone and does not get past the migration.
LEMMA OtherStepKeepsSchema ==
  ASSUME TypeOK, SchemaInv, NEW p \in Procs, NEW step \in Starting \cup Running \cup {"opening"},
         pc[p] \in Starting \cup Running \/ step = "opening",
         Goto(p, step), UNCHANGED <<seen, db>>
  PROVE  SchemaInv'
  BY DEF TypeOK, SchemaInv, Goto, Starting, Running, Sound

\* A migration leaves a sound database, whatever version its process had read.
LEMMA MigrateKeepsSchema ==
  ASSUME TypeOK, SchemaInv, NEW p \in Procs, Migrate(p)
  PROVE  SchemaInv'
<1> DEFINE next == seen[p] + 1
<1>1. CASE Fatal(p)
  BY <1>1, FatalKeepsSchema DEF Fatal
<1>2. CASE ~Fatal(p)
  <2>1. /\ pc[p] = "migrating" /\ seen[p] \in 0 .. 2 /\ MigrationApplies(next)
        /\ seen[p] <= db.version /\ db.version \in 0 .. 3
        /\ seen' = [seen EXCEPT ![p] = next]
        /\ pc' = [pc EXCEPT ![p] = IF next < SchemaVersion THEN "migrating" ELSE "recovering"]
    <3>1. /\ pc[p] = "migrating" /\ MigrationApplies(next)
          /\ seen' = [seen EXCEPT ![p] = next]
          /\ pc' = [pc EXCEPT ![p] = IF next < SchemaVersion THEN "migrating" ELSE "recovering"]
      BY <1>2 DEF Migrate, At, Goto
    <3>2. seen[p] < 3 /\ seen[p] <= db.version /\ db.version <= 3
      BY <3>1 DEF SchemaInv, SchemaVersion
    <3>3. seen[p] \in Nat /\ db.version \in Nat
      BY DEF TypeOK, Database
    <3> QED BY <3>1, <3>2, <3>3
  <2>2. db' = [version |-> next, table |-> TRUE, columns |-> MigratedColumns(next)]
    BY <1>2 DEF Migrate
  <2>3. next = 1 => db.version = 0
    BY <2>1 DEF MigrationApplies, SchemaInv, Sound, Database
  <2>4. next = 2 => db.version = 1
    <3>1. SUFFICES ASSUME next = 2, db.version \in {2, 3} PROVE FALSE
      BY <2>1
    <3>2. V2Columns \subseteq db.columns /\ db.columns = {}
      BY <2>1, <3>1 DEF SchemaInv, Sound, MigrationApplies, SchemaVersion
    <3> QED BY <3>2 DEF V2Columns
  <2>5. next = 3 => db.version \in {2, 3}
    BY <2>1
  <2>6. db.version <= next /\ next \in 1 .. 3
    BY <2>1, <2>3, <2>4, <2>5
  <2>7. Sound(db')
    <3>1. MigratedColumns(next) \in SUBSET (V2Columns \cup ServiceColumns)
      BY DEF MigratedColumns, TypeOK, Database
    <3>2. db' \in Database
      BY <2>2, <2>6, <3>1 DEF Database
    <3>3. CASE next = 1
      <4>1. db.columns = {}
        BY <2>3, <3>3 DEF SchemaInv, Sound
      <4> QED BY <2>2, <3>2, <3>3, <4>1 DEF Sound, MigratedColumns, SchemaVersion
    <3>4. CASE next = 2
      BY <2>2, <3>2, <3>4 DEF Sound, MigratedColumns, SchemaVersion
    <3>5. CASE next = 3
      <4>1. V2Columns \subseteq db.columns
        BY <2>5, <3>5 DEF SchemaInv, Sound, SchemaVersion
      <4> QED BY <2>2, <3>2, <3>5, <4>1 DEF Sound, MigratedColumns, SchemaVersion
    <3> QED BY <2>6, <3>3, <3>4, <3>5
  <2> QED
    BY <2>1, <2>2, <2>6, <2>7 DEF SchemaInv, TypeOK, SchemaVersion, Starting, Running
<1> QED BY <1>1, <1>2

\* A process goes on only from a version it knows.
LEMMA ReadVersionKeepsSchema ==
  ASSUME TypeOK, SchemaInv, NEW p \in Procs, ReadVersion(p)
  PROVE  SchemaInv'
<1>1. CASE Fatal(p)
  BY <1>1, FatalKeepsSchema DEF Fatal
<1>2. CASE ~Fatal(p)
  BY <1>2 DEF ReadVersion, At, Goto, TypeOK, SchemaInv, SchemaVersion, Database, Starting, Running, Sound
<1> QED BY <1>1, <1>2

\* Every step keeps the invariant on the schema.
LEMMA NextKeepsSchema ==
  ASSUME TypeOK, SchemaInv, [Next]_vars
  PROVE  SchemaInv'
<1>1. CASE UNCHANGED <<pc, seen, db>>
  BY <1>1 DEF SchemaInv, Sound
<1>2. ASSUME NEW p \in Procs, Exits(p) PROVE SchemaInv'
  BY <1>2, FatalKeepsSchema
<1>3. ASSUME NEW p \in Procs, ReadVersion(p) \/ Migrate(p) PROVE SchemaInv'
  BY <1>3, ReadVersionKeepsSchema, MigrateKeepsSchema
<1>4. ASSUME NEW p \in Procs, MainStep(p) PROVE SchemaInv'
  <2>1. CASE Exits(p)
    BY <2>1, <1>2
  <2>2. CASE ReadVersion(p) \/ Migrate(p)
    BY <2>2, <1>3
  <2>3. CASE ~Exits(p) /\ ~(ReadVersion(p) \/ Migrate(p))
    <3>1. /\ UNCHANGED <<seen, db>> /\ pc[p] \in Starting
          /\ \E step \in Starting \cup Running : Goto(p, step)
      BY <1>4, <2>3 DEF MainStep, Recover, FirstRefresh, Wire, Inspect, Dial, Remove, Bind, Listen,
           Restrict, Undo, CloseEnds, MainReturns, Fatal, At, Starting, Running
    <3> QED BY <3>1, OtherStepKeepsSchema
  <2> QED BY <2>1, <2>2, <2>3
<1>5. ASSUME NEW p \in Procs, Start(p) PROVE SchemaInv'
  BY <1>5, OtherStepKeepsSchema DEF Start
<1>6. ASSUME NEW p \in Procs, Stop(p) PROVE SchemaInv'
  BY <1>6, OtherStepKeepsSchema DEF Stop, Running
<1>7. ASSUME NEW p \in Procs, Claims(p) \/ Advances(p) PROVE SchemaInv'
  BY <1>7, <1>1 DEF Claims, Advances
<1>8. ASSUME NEW p \in Procs, Dies(p) PROVE SchemaInv'
  BY <1>8, <1>2 DEF Dies, Fatal
<1>9. ASSUME NEW l \in Listings, SlurmChanges(l) PROVE SchemaInv'
  BY <1>9, <1>1 DEF SlurmChanges
<1>10. CASE DirectoryRemoved
  BY <1>10, StartAssumption
  DEF DirectoryRemoved, At, Goto, TypeOK, SchemaInv, Sound, Starting, Running
<1>11. CASE HostChanges
  BY <1>11, <1>1 DEF HostChanges
<1> QED BY <1>1, <1>4, <1>5, <1>6, <1>7, <1>8, <1>9, <1>10, <1>11 DEF Next, vars

\* The invariant on the schema holds always.
LEMMA SchemaInvariance == Spec => [](TypeOK /\ SchemaInv)
<1>1. Init => SchemaInv
  BY DatabasesAssumption DEF Init, SchemaInv, Starting, Running
<1> QED BY <1>1, InitTyped, NextTyped, NextKeepsSchema, PTL DEF Spec

\* Every process past its migration finds the schema it was built for, however
\* many others migrate the same database and die in between.
THEOREM SchemaIsReady == Spec => []SchemaReady
<1>1. TypeOK /\ SchemaInv => SchemaReady
  BY DEF TypeOK, SchemaInv, SchemaReady, Sound, SchemaVersion, Database
<1> QED BY <1>1, SchemaInvariance, PTL

-----------------------------------------------------------------------------
(* The snapshot.                                                            *)

\* The two validations agree, whatever scontrol printed.
LEMMA ValidIsAcceptable ==
  ASSUME NEW nodes, validateNodeSnapshot([i \in DOMAIN nodes |-> MapSlurmNode(nodes[i])])
  PROVE  isNodeSnapshotPayload([i \in DOMAIN nodes |-> MapSlurmNode(nodes[i])])
<1> DEFINE snapshot == [i \in DOMAIN nodes |-> MapSlurmNode(nodes[i])]
<1>1. \A i \in DOMAIN nodes : snapshot[i].metadataName = snapshot[i].nodeName
  BY DEF MapSlurmNode
<1>2. \A i \in DOMAIN nodes : Identity(snapshot[i]) = snapshot[i].nodeName
  BY <1>1 DEF Identity
<1>3. DOMAIN snapshot = DOMAIN nodes /\ validateNodeSnapshot(snapshot)
  OBVIOUS
<1>4. isNodeSnapshotPayload(snapshot)
  <2> HIDE DEF snapshot
  <2>1. \A i \in DOMAIN snapshot : Identity(snapshot[i]) # ""
    BY <1>3 DEF validateNodeSnapshot
  <2>2. \A i \in DOMAIN snapshot : isNodeStreamNode(snapshot[i])
    BY <1>1, <1>2, <1>3, <2>1 DEF isNodeStreamNode
  <2>3. \A i, j \in DOMAIN snapshot : i # j => Identity(snapshot[i]) # Identity(snapshot[j])
    BY <1>3 DEF validateNodeSnapshot
  <2>4. \A i, j \in DOMAIN snapshot : i # j => snapshot[i].nodeName # snapshot[j].nodeName
    BY <1>2, <1>3, <2>3
  <2> QED BY <2>2, <2>4 DEF isNodeSnapshotPayload
<1> QED BY <1>4

\* What a step does to the caches of the processes.
LEMMA CacheSteps ==
  ASSUME TypeOK, [Next]_vars
  PROVE  \/ cache' = cache
         \/ \E p \in Procs : cache' = [cache EXCEPT ![p] = NoSnapshot]
         \/ /\ validateNodeSnapshot([i \in DOMAIN slurm.nodes |-> MapSlurmNode(slurm.nodes[i])])
            /\ \E p \in Procs :
                 cache' = [cache EXCEPT ![p] = [known |-> TRUE, nodes |-> slurm.nodes]]
<1>1. ASSUME NEW p \in Procs, FirstRefresh(p)
      PROVE  \/ cache' = [cache EXCEPT ![p] = NoSnapshot]
             \/ /\ validateNodeSnapshot([i \in DOMAIN slurm.nodes |-> MapSlurmNode(slurm.nodes[i])])
                /\ cache' = [cache EXCEPT ![p] = [known |-> TRUE, nodes |-> slurm.nodes]]
  BY <1>1 DEF FirstRefresh, Fatal, Exits, ListNodes
<1>2. ASSUME NEW p \in Procs, MainStep(p), ~FirstRefresh(p)
      PROVE  cache' = cache \/ cache' = [cache EXCEPT ![p] = NoSnapshot]
  BY <1>2 DEF MainStep, ReadVersion, Migrate, Recover, Wire, Inspect, Dial, Remove, Bind, Listen,
       Restrict, Undo, CloseEnds, MainReturns, Fatal, Exits
<1>3. ASSUME NEW p \in Procs, Start(p) \/ Claims(p) \/ Advances(p) \/ Stop(p) \/ Dies(p)
      PROVE  cache' = cache \/ cache' = [cache EXCEPT ![p] = NoSnapshot]
  BY <1>3 DEF Start, Claims, Advances, Stop, Dies, Fatal, Exits
<1>4. ASSUME NEW l \in Listings, SlurmChanges(l) PROVE cache' = cache
  BY <1>4 DEF SlurmChanges
<1>5. CASE DirectoryRemoved \/ HostChanges
  BY <1>5 DEF DirectoryRemoved, HostChanges
<1> QED BY <1>1, <1>2, <1>3, <1>4, <1>5 DEF Next, vars

\* Every snapshot the service commits is one the page accepts.
THEOREM SnapshotsAreAcceptable == Spec => []SnapshotsAcceptable
<1>1. Init => SnapshotsAcceptable
  BY DEF Init, SnapshotsAcceptable, NoSnapshot
<1>2. TypeOK /\ SnapshotsAcceptable /\ [Next]_vars => SnapshotsAcceptable'
  <2>1. SUFFICES ASSUME TypeOK, SnapshotsAcceptable, [Next]_vars, NEW p \in Procs, cache'[p].known
                 PROVE  isNodeSnapshotPayload(Snapshot(p)')
    BY DEF SnapshotsAcceptable
  <2>2. cache \in [Procs -> {NoSnapshot} \cup {[known |-> TRUE, nodes |-> l.nodes] : l \in Listings}]
    BY <2>1 DEF TypeOK
  <2>3. ~NoSnapshot.known
    BY DEF NoSnapshot
  <2>4. CASE cache'[p] = cache[p]
    BY <2>1, <2>4 DEF SnapshotsAcceptable, Snapshot
  <2>5. CASE cache'[p] # cache[p]
    <3>1. /\ validateNodeSnapshot([i \in DOMAIN slurm.nodes |-> MapSlurmNode(slurm.nodes[i])])
          /\ cache'[p] = [known |-> TRUE, nodes |-> slurm.nodes]
      BY <2>1, <2>2, <2>3, <2>5, CacheSteps
    <3>2. isNodeSnapshotPayload([i \in DOMAIN slurm.nodes |-> MapSlurmNode(slurm.nodes[i])])
      BY <3>1, ValidIsAcceptable
    <3>3. cache'[p].nodes = slurm.nodes
      BY <3>1
    <3> QED BY <3>2, <3>3 DEF Snapshot
  <2> QED BY <2>4, <2>5
<1> QED BY <1>1, <1>2, TypeCorrect, PTL DEF Spec

-----------------------------------------------------------------------------
(* The actions the page offers.                                             *)

\* Only the known primary states, a summary of several, or the first state.
LEMMA SummaryOf ==
  ASSUME NEW states \in Seq(V0043NodeState)
  PROVE  /\ states # <<>> => summarizeNodeState(states) # ""
         /\ summarizeNodeState(states) = "DRAIN" => \E i \in DOMAIN states : states[i] = "DRAIN"
         /\ summarizeNodeState(states) = "IDLE" <=>
              \E j \in DOMAIN states : /\ states[j] = "IDLE"
                                       /\ \A k \in DOMAIN states \ {j} : states[k] \notin Primary
<1> DEFINE primaries == {i \in DOMAIN states : states[i] \in Primary}
           chosen == CHOOSE i \in primaries : TRUE
<1>1. CASE states = <<>>
  BY <1>1 DEF summarizeNodeState
<1>2. CASE states # <<>> /\ \E i, j \in primaries : i # j
  <2>1. summarizeNodeState(states) = "MIXED"
    BY <1>2 DEF summarizeNodeState
  <2> QED BY <1>2, <2>1
<1>3. CASE states # <<>> /\ primaries # {} /\ ~ \E i, j \in primaries : i # j
  <2>1. chosen \in primaries /\ \A k \in primaries : k = chosen
    BY <1>3
  <2>2. summarizeNodeState(states) = states[chosen]
    BY <1>3 DEF summarizeNodeState
  <2>3. states[chosen] \in Primary /\ "DRAIN" \notin Primary /\ "" \notin Primary /\ "IDLE" \in Primary
    BY <2>1 DEF Primary
  <2> HIDE DEF chosen
  <2> QED BY <2>1, <2>2, <2>3
<1>4. CASE states # <<>> /\ primaries = {}
  <2>1. 1 \in DOMAIN states /\ states[1] \in V0043NodeState
    BY <1>4
  <2>2. summarizeNodeState(states) = states[1]
    BY <1>4 DEF summarizeNodeState
  <2>3. states[1] # "" /\ \A k \in DOMAIN states : states[k] # "IDLE"
    BY <1>4, <2>1 DEF V0043NodeState, Primary
  <2> QED BY <2>1, <2>2, <2>3
<1> QED BY <1>1, <1>2, <1>3, <1>4

\* The offers for one node, whatever Slurm listed of it.
LEMMA OffersOf ==
  ASSUME NEW raw, NEW states \in Seq(V0043NodeState),
         IF raw.state = NoState THEN states = <<>> ELSE states = raw.state
  PROVE  /\ applicable(MapSlurmNode(raw), "RESUME") <=> \E j \in DOMAIN states : states[j] = "DRAIN"
         /\ applicable(MapSlurmNode(raw), "DRAIN") <=>
              /\ ~ \E j \in DOMAIN states : states[j] = "DRAIN"
              /\ \E j \in DOMAIN states : /\ states[j] = "IDLE"
                                          /\ \A k \in DOMAIN states \ {j} : states[k] \notin Primary
<1> DEFINE node == MapSlurmNode(raw)
<1>1. /\ node.state = summarizeNodeState(states)
      /\ node.stateFlags = {states[i] : i \in DOMAIN states} \ Primary
  <2>1. CASE raw.state # NoState
    BY <2>1 DEF MapSlurmNode, stateFlagsFromGenerated
  <2>2. CASE raw.state = NoState
    <3>1. node.state = "" /\ node.stateFlags = {}
      BY <2>2 DEF MapSlurmNode
    <3>2. states = <<>> /\ summarizeNodeState(states) = "" /\ DOMAIN states = {}
      BY <2>2 DEF summarizeNodeState
    <3> QED BY <3>1, <3>2
  <2> QED BY <2>1, <2>2
<1>2. "DRAIN" \notin Primary
  BY DEF Primary
<1>3. isDrained(node) <=> \E j \in DOMAIN states : states[j] = "DRAIN"
  BY <1>1, <1>2, SummaryOf DEF isDrained
<1> HIDE DEF node
<1>4. applicable(node, "RESUME") <=> node.state # "" /\ isDrained(node)
  BY DEF applicable
<1>5. applicable(node, "DRAIN") <=> node.state = "IDLE" /\ ~isDrained(node)
  BY DEF applicable
<1>6. states # <<>> => node.state # ""
  BY <1>1, SummaryOf
<1>7. (\E j \in DOMAIN states : states[j] = "DRAIN") => states # <<>>
  OBVIOUS
<1>8. applicable(node, "RESUME") <=> \E j \in DOMAIN states : states[j] = "DRAIN"
  BY <1>3, <1>4, <1>6, <1>7
<1>9. applicable(node, "DRAIN") <=>
        /\ ~ \E j \in DOMAIN states : states[j] = "DRAIN"
        /\ \E j \in DOMAIN states : /\ states[j] = "IDLE"
                                    /\ \A k \in DOMAIN states \ {j} : states[k] \notin Primary
  BY <1>1, <1>3, <1>5, SummaryOf
<1> QED BY <1>8, <1>9 DEF node

\* The page offers to drain and to resume what Slurm's states call for.
THEOREM OffersAlwaysFit == Spec => []OffersFit
<1>1. TypeOK => OffersFit
  <2>1. SUFFICES ASSUME TypeOK, NEW p \in Procs, cache[p].known, NEW i \in DOMAIN cache[p].nodes
                 PROVE  LET raw    == cache[p].nodes[i]
                            states == IF raw.state = NoState THEN <<>> ELSE raw.state
                            listed == {states[j] : j \in DOMAIN states}
                        IN /\ applicable(Snapshot(p)[i], "RESUME") <=> "DRAIN" \in listed
                           /\ applicable(Snapshot(p)[i], "DRAIN") <=>
                                /\ "DRAIN" \notin listed
                                /\ \E j \in DOMAIN states :
                                     /\ states[j] = "IDLE"
                                     /\ \A k \in DOMAIN states \ {j} : states[k] \notin Primary
    BY DEF OffersFit
  <2> DEFINE raw == cache[p].nodes[i]
             states == IF raw.state = NoState THEN <<>> ELSE raw.state
  <2>2. PICK l \in Listings : cache[p].nodes = l.nodes
    BY <2>1 DEF TypeOK, NoSnapshot
  <2>3. raw.state \in Seq(V0043NodeState) \cup {NoState}
    BY <2>1, <2>2, ListingsAssumption
  <2>4. /\ states \in Seq(V0043NodeState)
        /\ IF raw.state = NoState THEN states = <<>> ELSE states = raw.state
    <3>1. CASE raw.state = NoState
      <4>1. states = <<>>
        BY <3>1
      <4>2. <<>> \in Seq(V0043NodeState)
        OBVIOUS
      <4> HIDE DEF raw, states
      <4> QED BY <3>1, <4>1, <4>2
    <3>2. CASE raw.state # NoState
      <4>1. states = raw.state
        BY <3>2
      <4>2. raw.state \in Seq(V0043NodeState)
        BY <2>3, <3>2
      <4> HIDE DEF raw, states
      <4> QED BY <3>2, <4>1, <4>2
    <3> QED BY <3>1, <3>2
  <2>5. Snapshot(p)[i] = MapSlurmNode(raw)
    BY <2>1 DEF Snapshot
  <2> HIDE DEF raw, states
  <2>6. /\ applicable(Snapshot(p)[i], "RESUME") <=> \E j \in DOMAIN states : states[j] = "DRAIN"
        /\ applicable(Snapshot(p)[i], "DRAIN") <=>
             /\ ~ \E j \in DOMAIN states : states[j] = "DRAIN"
             /\ \E j \in DOMAIN states : /\ states[j] = "IDLE"
                                         /\ \A k \in DOMAIN states \ {j} : states[k] \notin Primary
    BY <2>4, <2>5, OffersOf
  <2>7. "DRAIN" \in {states[j] : j \in DOMAIN states} <=> \E j \in DOMAIN states : states[j] = "DRAIN"
    OBVIOUS
  <2> QED BY <2>6, <2>7 DEF raw, states
<1> QED BY <1>1, TypeCorrect, PTL

-----------------------------------------------------------------------------
(* The socket.  While a process answers at the path, everybody who may       *)
(* change the path without looking at it again was already past looking      *)
(* when the process began to answer: a dial that comes later is answered.    *)

SocketInv ==
  /\ \A q \in Procs : listening[q] <=> pc[q] \in {"restricting", "undoing", "serving"}
  /\ \A p, q \in Procs :
       path = q /\ pc[q] \in Answering /\ p # q /\ pc[p] \in Blind => p \in rivals[q]

\* A process that ends answers nowhere and is nobody's rival.
LEMMA ExitKeepsSocket ==
  ASSUME TypeOK, SocketInv, NEW p \in Procs, Exits(p), path' \in {path, Unlinked}
  PROVE  SocketInv'
<1>1. /\ pc' = [pc EXCEPT ![p] = IF p = Unit THEN "ended" ELSE "off"]
      /\ listening' = [listening EXCEPT ![p] = FALSE]
      /\ rivals' = [q \in Procs |-> IF q = p THEN {} ELSE rivals[q] \ {p}]
      /\ \A q \in Procs : path' = q => path = q
  BY StartAssumption DEF Exits, Goto, Unlinked
<1> QED BY <1>1 DEF TypeOK, SocketInv, Answering, Blind

\* A step of a process that neither begins nor stops answering, and does not get
\* past looking at the path.
LEMMA QuietStepKeepsSocket ==
  ASSUME TypeOK, SocketInv, NEW p \in Procs, NEW step \in PC,
         pc[p] \notin {"restricting", "undoing", "serving"},
         step \notin {"restricting", "undoing", "serving"},
         step \in Blind => pc[p] \in Blind \/ \A q \in Procs : path = q => ~listening[q],
         Goto(p, step), path' \in {path, Created, Unlinked, "missing"},
         UNCHANGED <<listening, rivals>>
  PROVE  SocketInv'
<1>1. pc' = [pc EXCEPT ![p] = step] /\ \A q \in Procs : path' = q => path = q
  BY StartAssumption DEF Goto, Created, Unlinked
<1> QED BY <1>1 DEF TypeOK, SocketInv, Answering

\* Every step of main keeps the invariant on the socket.
LEMMA MainStepKeepsSocket ==
  ASSUME TypeOK, SocketInv, NEW p \in Procs, MainStep(p)
  PROVE  SocketInv'
<1> USE DEF At
<1>1. CASE Exits(p)
  <2>1. pc'[p] \in {"off", "ended"}
    BY <1>1 DEF Exits, Goto, TypeOK
  <2>2. path' \in {path, Unlinked}
    BY <1>1, <2>1 DEF MainStep, ReadVersion, Migrate, Recover, FirstRefresh, Wire, Inspect, Dial,
         Remove, Bind, Listen, Restrict, Undo, CloseEnds, MainReturns, Fatal, Goto, TypeOK
  <2> QED BY <1>1, <2>2, ExitKeepsSocket
<1>2. CASE ~Exits(p)
  <2>1. CASE ReadVersion(p) \/ Migrate(p) \/ Recover(p) \/ FirstRefresh(p) \/ Wire(p)
    <3>1. /\ pc[p] \in {"opening", "migrating", "recovering", "refreshing", "wiring"}
          /\ UNCHANGED <<path, listening, rivals>>
          /\ \E step \in {"migrating", "recovering", "refreshing", "wiring", "inspecting"} : Goto(p, step)
      BY <1>2, <2>1 DEF ReadVersion, Migrate, Recover, FirstRefresh, Wire, Fatal
    <3> QED BY <3>1, QuietStepKeepsSocket DEF PC, Opening, Starting, Blind
  <2>2. CASE Inspect(p)
    <3>1. /\ pc[p] = "inspecting" /\ path' = Created /\ UNCHANGED <<listening, rivals>>
          /\ \E step \in {"binding", "dialing"} : Goto(p, step)
      BY <1>2, <2>2 DEF Inspect, Fatal
    <3> QED BY <3>1, QuietStepKeepsSocket DEF PC, Starting, Blind
  <2>3. CASE Dial(p)
    <3>1. PICK r \in Procs : path = r /\ ~listening[r]
      BY <1>2, <2>3 DEF Dial, Fatal
    <3>2. pc[p] = "dialing" /\ Goto(p, "removing") /\ UNCHANGED <<path, listening, rivals>>
      BY <1>2, <2>3 DEF Dial, Fatal
    <3>3. \A q \in Procs : path = q => ~listening[q]
      BY <3>1
    <3> QED BY <3>2, <3>3, QuietStepKeepsSocket DEF PC, Starting
  <2>4. CASE Remove(p)
    <3>1. /\ pc[p] = "removing" /\ Goto(p, "binding") /\ path' = Unlinked
          /\ UNCHANGED <<listening, rivals>>
      BY <1>2, <2>4 DEF Remove, Fatal
    <3> QED BY <3>1, QuietStepKeepsSocket DEF PC, Starting, Blind
  <2>5. CASE Bind(p)
    <3>1. /\ pc[p] = "binding" /\ pc' = [pc EXCEPT ![p] = "bound"] /\ path' = p
          /\ UNCHANGED <<listening, rivals>>
      BY <1>2, <2>5 DEF Bind, Fatal, Goto
    <3> QED BY <3>1 DEF TypeOK, SocketInv, Answering
  <2>6. CASE Listen(p)
    <3>1. /\ pc[p] = "bound" /\ pc' = [pc EXCEPT ![p] = "restricting"]
          /\ listening' = [listening EXCEPT ![p] = TRUE] /\ UNCHANGED path
          /\ rivals' = [rivals EXCEPT ![p] = {q \in Procs \ {p} : pc[q] \in Blind}]
      BY <2>6 DEF Listen, Goto
    <3> QED BY <3>1 DEF TypeOK, SocketInv, Answering, Blind
  <2>7. CASE Restrict(p)
    <3>1. /\ pc[p] = "restricting" /\ pc' = [pc EXCEPT ![p] = IF Vacant THEN "undoing" ELSE "serving"]
          /\ UNCHANGED <<path, listening, rivals>>
      BY <1>2, <2>7 DEF Restrict, Fatal, Goto
    <3> QED BY <3>1 DEF TypeOK, SocketInv, Answering, Blind
  <2>8. CASE Undo(p) \/ CloseEnds(p) \/ MainReturns(p)
    BY <1>2, <2>8 DEF Undo, CloseEnds, MainReturns, Fatal
  <2> QED BY <2>1, <2>2, <2>3, <2>4, <2>5, <2>6, <2>7, <2>8 DEF MainStep
<1> QED BY <1>1, <1>2

\* Every step keeps the invariant on the socket.
LEMMA NextKeepsSocket ==
  ASSUME TypeOK, SocketInv, [Next]_vars
  PROVE  SocketInv'
<1>1. CASE UNCHANGED <<pc, path, listening, rivals>>
  BY <1>1 DEF SocketInv
<1>2. ASSUME NEW p \in Procs, MainStep(p) PROVE SocketInv'
  BY <1>2, MainStepKeepsSocket
<1>3. ASSUME NEW p \in Procs, Start(p) PROVE SocketInv'
  BY <1>3, QuietStepKeepsSocket DEF Start, PC, Opening, Blind
<1>4. ASSUME NEW p \in Procs, Stop(p) PROVE SocketInv'
  <2>1. /\ pc[p] = "serving" /\ pc' = [pc EXCEPT ![p] = "closing"] /\ path' \notin Procs
        /\ listening' = [listening EXCEPT ![p] = FALSE] /\ UNCHANGED rivals
    BY <1>4, StartAssumption DEF Stop, Goto, Unlinked
  <2> QED BY <2>1 DEF TypeOK, SocketInv
<1>5. ASSUME NEW p \in Procs, Dies(p) PROVE SocketInv'
  BY <1>5, ExitKeepsSocket DEF Dies, Fatal
<1>6. ASSUME NEW p \in Procs, Claims(p) \/ Advances(p) PROVE SocketInv'
  BY <1>6, <1>1 DEF Claims, Advances
<1>7. ASSUME NEW l \in Listings, SlurmChanges(l) PROVE SocketInv'
  BY <1>7, <1>1 DEF SlurmChanges
<1>8. CASE DirectoryRemoved
  BY <1>8, StartAssumption, QuietStepKeepsSocket DEF DirectoryRemoved, At, PC, Blind
<1>9. CASE HostChanges
  BY <1>9, <1>1 DEF HostChanges
<1> QED BY <1>1, <1>2, <1>3, <1>4, <1>5, <1>6, <1>7, <1>8, <1>9 DEF Next, vars

\* Whose steps take a path from a process that has it.
LEMMA PathSteps ==
  ASSUME TypeOK, [Next]_vars, NEW q \in Procs, path = q, path' # q
  PROVE  \/ \E p \in Procs : pc[p] \in Blind \ {"bound", "restricting"} /\ pc'[p] # pc[p]
                             /\ pc'[p] \notin Answering
         \/ DirectoryRemoved
<1>1. Created = path /\ ~Vacant
  BY StartAssumption DEF Created, Vacant
<1>2. ASSUME NEW p \in Procs, MainStep(p)
      PROVE  /\ pc[p] \in {"removing", "undoing", "closing"}
             /\ pc'[p] \in {"binding", "off", "ended"}
  <2>1. Remove(p) \/ Undo(p) \/ CloseEnds(p)
    BY <1>1, <1>2, StartAssumption DEF MainStep, ReadVersion, Migrate, Recover, FirstRefresh, Wire, Inspect, Dial,
         Bind, Listen, Restrict, MainReturns, Fatal, Vacant
  <2> QED BY <2>1 DEF Remove, Undo, CloseEnds, Fatal, Exits, Goto, At, TypeOK
<1>3. ASSUME NEW p \in Procs, Stop(p) PROVE pc[p] = "serving" /\ pc'[p] = "closing"
  BY <1>3 DEF Stop, Goto, TypeOK
<1>4. ASSUME NEW p \in Procs, Start(p) \/ Claims(p) \/ Advances(p) \/ Dies(p) PROVE FALSE
  BY <1>1, <1>4 DEF Start, Claims, Advances, Dies, Fatal
<1>5. CASE \E p \in Procs : MainStep(p) \/ Stop(p)
  BY <1>2, <1>3, <1>5 DEF Blind, Answering
<1> QED BY <1>4, <1>5 DEF Next, vars, SlurmChanges, HostChanges

\* A process that answers at the path loses it only to one that was past looking
\* at the path when it began to answer, or to systemd after the unit has ended.
THEOREM ListenersAreNotDisturbed == Spec => ListenersNotDisturbed
<1> DEFINE Kept ==
      \A q \in Procs :
        path = q /\ pc[q] \in Answering /\ path' # q /\ pc'[q] \in Answering
        => \/ \E p \in rivals[q] : pc'[p] # pc[p]
           \/ pc[Unit] = "ended" /\ pc'[Unit] = "off"
<1>1. Init => SocketInv
  BY DEF Init, SocketInv, Answering
<1>2. ASSUME TypeOK, SocketInv, [Next]_vars PROVE Kept
  <2>1. SUFFICES ASSUME NEW q \in Procs, path = q, pc[q] \in Answering, path' # q,
                        pc'[q] \in Answering
                 PROVE  \/ \E p \in rivals[q] : pc'[p] # pc[p]
                        \/ pc[Unit] = "ended" /\ pc'[Unit] = "off"
    OBVIOUS
  <2>2. CASE DirectoryRemoved
    BY <1>2, <2>2, StartAssumption DEF DirectoryRemoved, At, Goto, TypeOK
  <2>3. CASE ~DirectoryRemoved
    <3>1. PICK p \in Procs : /\ pc[p] \in Blind /\ pc'[p] # pc[p] /\ pc'[p] \notin Answering
      BY <1>2, <2>1, <2>3, PathSteps
    <3>2. p \in rivals[q]
      BY <1>2, <2>1, <3>1 DEF SocketInv
    <3> QED BY <3>1, <3>2
  <2> QED BY <2>2, <2>3
<1>3. Spec => [](TypeOK /\ SocketInv)
  BY <1>1, InitTyped, NextTyped, NextKeepsSocket, PTL DEF Spec
<1>4. TypeOK /\ SocketInv /\ [Next]_vars => [Kept]_vars
  BY <1>2
<1> QED BY <1>3, <1>4, PTL DEF Spec, ListenersNotDisturbed
=============================================================================
