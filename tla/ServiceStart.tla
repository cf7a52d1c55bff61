---------------------------- MODULE ServiceStart ----------------------------
(***************************************************************************)
(* Starting and ending the service (cmd/cockpit-slurm/main.go), possibly   *)
(* twice at a time: the unit that systemd keeps restarting and a process   *)
(* an operator starts by hand share the ledger's database and the path of  *)
(* the socket.  One action per step that another process can come between: *)
(*   - ledger.Open: reading the schema version, each migration (one        *)
(*     transaction), the recovery of interrupted rows;                     *)
(*   - the first refresh, with the checks of NodeMapping, and the wiring;  *)
(*   - Server.Listen: mkdir and lstat, dial, remove, bind, listen, chmod;  *)
(*   - serving: the life of one command's row;                             *)
(*   - Close: closing the listener, which unlinks the path by its name,    *)
(*     and a second removal at the very end, unless main returns first.    *)
(* The socket's directory is the unit's RuntimeDirectory: systemd makes it *)
(* before the unit starts and removes it, with all there is in it, after   *)
(* the unit has ended, whether it served or failed to start.               *)
(* A process can die, or fail for a reason outside the model (log.Fatalf), *)
(* at any point; a transaction under way is then rolled back.              *)
(***************************************************************************)
EXTENDS Requests, NodeMapping

CONSTANTS
  Procs,      \* the processes
  Unit,       \* the one systemd starts, and restarts
  NoProc,     \* nobody
  Databases,  \* databases that earlier versions may have left
  Usual,      \* what scontrol prints at first
  Listings,   \* what scontrol may print
  MaxUpsets   \* bound on starts by hand, stops, deaths and changes around the service

SchemaVersion == 3
V2Columns      == {"requesting_gid", "request_message_id"}
ServiceColumns == {"service_uid", "service_username"}

ASSUME StartAssumption ==
  /\ Unit \in Procs /\ NoProc \notin Procs
  /\ Procs \cap {"missing", "absent", "file"} = {} /\ MaxUpsets \in Nat
  /\ Usual \in Listings

VARIABLES
  pc,         \* where main is, by process
  seen,       \* the schema version migrate goes by
  db,         \* the database: its version, whether the table exists, its columns
  row,        \* the row of one command: its status and the process working on it
  slurm,      \* what scontrol prints now
  cache,      \* the snapshot of the first refresh, as scontrol printed it
  host,       \* the accounts and the D-Bus system bus that main asks for are there
  path,       \* what is at the socket's path: "absent", "file" or a process's socket;
              \* "missing" when there is no directory either
  listening,  \* whether a process's socket accepts connections
  upsets,     \* upsets so far
  rivals      \* history: who was past looking at the path when a process began to answer

vars == <<pc, seen, db, row, slurm, cache, host, path, listening, upsets, rivals>>

Opening  == {"opening", "migrating"}
Starting == {"recovering", "refreshing", "wiring", "inspecting", "dialing", "removing",
             "binding", "bound", "restricting", "undoing"}
Running  == {"serving", "closing"}
PC == {"off", "ended"} \cup Opening \cup Starting \cup Running

Database == [version : Nat, table : BOOLEAN, columns : SUBSET (V2Columns \cup ServiceColumns)]

\* The databases the migrations leave behind, and newer ones; version 2 was
\* first released without the service's columns.
Sound(d) ==
  /\ d \in Database
  /\ d.table <=> d.version > 0
  /\ d.version < 2 => d.columns = {}
  /\ d.version \in {2, SchemaVersion} => V2Columns \subseteq d.columns
  /\ d.version = SchemaVersion => ServiceColumns \subseteq d.columns

\* Slurm prints states that it knows.
ASSUME ListingsAssumption ==
  \A l \in Listings : \A i \in DOMAIN l.nodes :
    l.nodes[i].state \in Seq(V0043NodeState) \cup {NoState}

ASSUME DatabasesAssumption == \A d \in Databases : Sound(d)

Unresolved == {"authorization_pending", "accepted", "running"}
RowStatus  == Unresolved \cup {"absent", "succeeded", "authorization_uncertain", "unknown"}
NoSnapshot == [known |-> FALSE, nodes |-> <<>>]

Upset == upsets < MaxUpsets /\ upsets' = upsets + 1
At(p, step) == pc[p] = step /\ UNCHANGED upsets
Goto(p, step) == pc' = [pc EXCEPT ![p] = step]

\* Nothing at the path; what is there after its directory is created, if need be,
\* and after an unlink.
Vacant   == path \in {"missing", "absent"}
Created  == IF path = "missing" THEN "absent" ELSE path
Unlinked == IF path = "missing" THEN "missing" ELSE "absent"

\* The steps after which a process changes the path, or leaves it to a later
\* one of these steps, without looking at it again.
Blind == {"removing", "bound", "restricting", "undoing", "serving", "closing"}

\* The process ends and its socket stops listening.  What the unit leaves at the
\* path is for systemd to remove.
Exits(p) ==
  /\ Goto(p, IF p = Unit THEN "ended" ELSE "off")
  /\ listening' = [listening EXCEPT ![p] = FALSE]
  /\ seen' = [seen EXCEPT ![p] = 0]
  /\ cache' = [cache EXCEPT ![p] = NoSnapshot]
  /\ rivals' = [q \in Procs |-> IF q = p THEN {} ELSE rivals[q] \ {p}]
  /\ row' = IF row.owner = p THEN [row EXCEPT !.owner = NoProc] ELSE row
  /\ UNCHANGED <<db, slurm, host>>

\* log.Fatalf: the step has failed and has changed nothing.
Fatal(p) == Exits(p) /\ UNCHANGED path

-----------------------------------------------------------------------------
(* ledger.Open.                                                             *)

\* systemd starts the unit and restarts it; others are started by hand.
Start(p) ==
  /\ pc[p] = "off" /\ Goto(p, "opening")
  /\ IF p = Unit THEN path' = Created /\ UNCHANGED upsets ELSE UNCHANGED path /\ Upset
  /\ UNCHANGED <<seen, db, row, slurm, cache, host, listening, rivals>>

\* systemd, after the unit has ended: RuntimeDirectory is not preserved.
DirectoryRemoved ==
  /\ At(Unit, "ended") /\ Goto(Unit, "off")
  /\ path' = "missing"
  /\ UNCHANGED <<seen, db, row, slurm, cache, host, listening, rivals>>

\* configure, and the first half of migrate.
ReadVersion(p) ==
  /\ At(p, "opening")
  /\ IF db.version > SchemaVersion THEN Fatal(p)
     ELSE /\ seen' = [seen EXCEPT ![p] = db.version]
          /\ Goto(p, IF db.version < SchemaVersion THEN "migrating" ELSE "recovering")
          /\ UNCHANGED <<db, row, slurm, cache, host, path, listening, rivals>>

\* applyMigration: whether the statements of a migration succeed, and the columns
\* there are then.  CREATE TABLE fails on a table that exists, ADD COLUMN on one
\* that does not or on a column that does; ensureColumn looks first.
MigrationApplies_IfNotExists(version) ==
  CASE version = 1 -> TRUE
    [] version = 2 -> db.table /\ db.columns = {}
    [] OTHER       -> db.table

MigrationApplies_AddsBlindly(version) ==
  CASE version = 1 -> ~db.table
    [] version = 2 -> db.table /\ db.columns = {}
    [] OTHER       -> db.table /\ db.columns \cap ServiceColumns = {}

MigrationApplies(version) ==
  CASE version = 1 -> ~db.table
    [] version = 2 -> db.table /\ db.columns = {}
    [] OTHER       -> db.table

MigratedColumns(version) ==
  CASE version = 1 -> db.columns
    [] version = 2 -> V2Columns \cup ServiceColumns
    [] OTHER       -> db.columns \cup ServiceColumns

\* One turn of migrate's loop: the version it writes is counted from the one it
\* read at the start, whatever the database holds by now.
Migrate(p) ==
  LET version == seen[p] + 1
  IN /\ At(p, "migrating")
     /\ IF MigrationApplies(version)
        THEN /\ db' = [version |-> version, table |-> TRUE,
                       columns |-> MigratedColumns(version)]
             /\ seen' = [seen EXCEPT ![p] = version]
             /\ Goto(p, IF version < SchemaVersion THEN "migrating" ELSE "recovering")
             /\ UNCHANGED <<row, slurm, cache, host, path, listening, rivals>>
        ELSE Fatal(p)

\* integrityCheck, recoverInterrupted and purgeExpired: every row that looks
\* interrupted is rewritten, whoever works on it.
Recovered(status) ==
  CASE status \in {"authorization_pending", "accepted"} -> "authorization_uncertain"
    [] status = "running" -> "unknown"
    [] OTHER -> status

Recover(p) ==
  /\ At(p, "recovering") /\ Goto(p, "refreshing")
  /\ row' = [row EXCEPT !.status = Recovered(@)]
  /\ UNCHANGED <<seen, db, slurm, cache, host, path, listening, rivals>>

-----------------------------------------------------------------------------
(* The rest of main, up to Listen.                                          *)

FirstRefresh(p) ==
  /\ At(p, "refreshing")
  /\ IF ListNodesOk(slurm) /\ validateNodeSnapshot(ListNodes(slurm))
     THEN /\ cache' = [cache EXCEPT ![p] = [known |-> TRUE, nodes |-> slurm.nodes]]
          /\ Goto(p, "wiring")
          /\ UNCHANGED <<seen, db, row, slurm, host, path, listening, rivals>>
     ELSE Fatal(p)

\* NewNodeRegistry validates its own table, NewDBusExecutor looks the Slurm account
\* up and connects to the system bus, NewService looks its own account up.
Wire(p) ==
  /\ At(p, "wiring")
  /\ IF NewNodeRegistry /\ host
     THEN /\ Goto(p, "inspecting")
          /\ UNCHANGED <<seen, db, row, slurm, cache, host, path, listening, rivals>>
     ELSE Fatal(p)

\* MkdirAll, which needs the right to, and removeStaleSocket: a path that is not a
\* socket ends the start.
Inspect(p) ==
  /\ At(p, "inspecting")
  /\ \/ path \in {"missing", "file"} /\ Fatal(p)
     \/ /\ path # "file" /\ path' = Created
        /\ Goto(p, IF path' = "absent" THEN "binding" ELSE "dialing")
        /\ UNCHANGED <<seen, db, row, slurm, cache, host, listening, rivals>>

\* Only a refused connection shows that nobody listens: an answer, a timeout and
\* a path that is gone all end the start.
Dial_TimeoutIsRefusal(p) ==
  /\ At(p, "dialing")
  /\ \/ Fatal(p)
     \/ /\ path \in Procs /\ Goto(p, "removing")
        /\ UNCHANGED <<seen, db, row, slurm, cache, host, path, listening, rivals>>

Dial(p) ==
  /\ At(p, "dialing")
  /\ IF \E q \in Procs : path = q /\ ~listening[q]
     THEN /\ Goto(p, "removing")
          /\ UNCHANGED <<seen, db, row, slurm, cache, host, path, listening, rivals>>
     ELSE Fatal(p)

Remove(p) ==
  /\ At(p, "removing")
  /\ IF Vacant THEN Fatal(p)
     ELSE /\ path' = Unlinked /\ Goto(p, "binding")
          /\ UNCHANGED <<seen, db, row, slurm, cache, host, listening, rivals>>

\* net.Listen: bind creates the socket; only listen makes it answer.
Bind(p) ==
  /\ At(p, "binding")
  /\ IF path # "absent" THEN Fatal(p)
     ELSE /\ path' = p /\ Goto(p, "bound")
          /\ UNCHANGED <<seen, db, row, slurm, cache, host, listening, rivals>>

Listen(p) ==
  /\ At(p, "bound") /\ Goto(p, "restricting")
  /\ listening' = [listening EXCEPT ![p] = TRUE]
  /\ rivals' = [rivals EXCEPT ![p] = {q \in Procs \ {p} : pc[q] \in Blind}]
  /\ UNCHANGED <<seen, db, row, slurm, cache, host, path>>

\* chmod goes by the path: if that is gone, the listener is closed again, and with
\* it goes whatever is at the path by then.
Restrict(p) ==
  /\ At(p, "restricting")
  /\ Goto(p, IF Vacant THEN "undoing" ELSE "serving")
  /\ UNCHANGED <<seen, db, row, slurm, cache, host, path, listening, rivals>>

Undo(p) ==
  /\ At(p, "undoing") /\ Exits(p)
  /\ path' = Unlinked

-----------------------------------------------------------------------------
(* Serving and ending.                                                      *)

\* A command is claimed, and the handler takes its row from status to status; an
\* update whose expected status is not there any more changes nothing.
NextStatus(status) ==
  CASE status = "authorization_pending" -> "accepted"
    [] status = "accepted"              -> "running"
    [] status = "running"               -> "succeeded"

Claims(p) ==
  /\ At(p, "serving") /\ row.status = "absent"
  /\ row' = [status |-> "authorization_pending", owner |-> p]
  /\ UNCHANGED <<pc, seen, db, slurm, cache, host, path, listening, rivals>>

Advances(p) ==
  /\ pc[p] \in Running /\ row.owner = p /\ row.status \in Unresolved
  /\ row' = [row EXCEPT !.status = NextStatus(@)]
  /\ UNCHANGED <<pc, seen, db, slurm, cache, host, path, listening, upsets, rivals>>

\* SIGTERM: Close closes the listener, and Go unlinks the path it was bound to.
Stop(p) ==
  /\ Upset /\ pc[p] = "serving" /\ Goto(p, "closing")
  /\ path' = Unlinked
  /\ listening' = [listening EXCEPT ![p] = FALSE]
  /\ UNCHANGED <<seen, db, row, slurm, cache, host, rivals>>

\* Close removes the path again once the connections have ended ...
CloseEnds(p) ==
  /\ At(p, "closing") /\ Exits(p)
  /\ path' = Unlinked

\* ... or main has returned before: Serve does not wait for Close.
MainReturns(p) == At(p, "closing") /\ Fatal(p)

\* A signal, a panic, or an error of the system in any of the steps.
Dies(p) == Upset /\ pc[p] \notin {"off", "ended"} /\ Fatal(p)

SlurmChanges(listing) ==
  /\ Upset /\ listing # slurm /\ slurm' = listing
  /\ UNCHANGED <<pc, seen, db, row, cache, host, path, listening, rivals>>

\* The bus or an account goes away, or comes back.
HostChanges ==
  /\ Upset /\ host' = ~host
  /\ UNCHANGED <<pc, seen, db, row, slurm, cache, path, listening, rivals>>

Init ==
  /\ pc = [p \in Procs |-> "off"] /\ seen = [p \in Procs |-> 0]
  /\ db \in Databases /\ row = [status |-> "absent", owner |-> NoProc]
  /\ slurm = Usual /\ cache = [p \in Procs |-> NoSnapshot]
  /\ host \in BOOLEAN
  /\ path \in {"missing", "absent", "file"} /\ listening = [p \in Procs |-> FALSE]
  /\ upsets = 0 /\ rivals = [p \in Procs |-> {}]

\* What main does by itself.
MainStep(p) ==
  \/ ReadVersion(p) \/ Migrate(p) \/ Recover(p) \/ FirstRefresh(p) \/ Wire(p)
  \/ Inspect(p) \/ Dial(p) \/ Remove(p) \/ Bind(p) \/ Listen(p) \/ Restrict(p)
  \/ Undo(p) \/ CloseEnds(p) \/ MainReturns(p)

Next ==
  \/ \E p \in Procs : Start(p) \/ MainStep(p) \/ Claims(p) \/ Advances(p) \/ Stop(p) \/ Dies(p)
  \/ DirectoryRemoved \/ HostChanges
  \/ \E listing \in Listings : SlurmChanges(listing)

Spec == Init /\ [][Next]_vars

\* Every process goes on with its start or its end, and systemd cleans up after
\* the unit and starts it again (Restart=on-failure; a stop is taken as half of a
\* restart).
FairSpec ==
  Spec /\ (\A p \in Procs : WF_vars(MainStep(p))) /\ WF_vars(DirectoryRemoved \/ Start(Unit))
-----------------------------------------------------------------------------
(* Properties.                                                              *)

\* Every variable has its type.
TypeOK ==
  /\ pc \in [Procs -> PC] /\ seen \in [Procs -> Nat] /\ db \in Database
  /\ row \in [status : RowStatus, owner : Procs \cup {NoProc}]
  /\ slurm \in Listings
  /\ cache \in [Procs -> {NoSnapshot} \cup {[known |-> TRUE, nodes |-> l.nodes] : l \in Listings}]
  /\ host \in BOOLEAN /\ path \in {"missing", "absent", "file"} \cup Procs
  /\ listening \in [Procs -> BOOLEAN] /\ upsets \in 0 .. MaxUpsets
  /\ rivals \in [Procs -> SUBSET Procs]

\* The database a process works on has the schema it was built for, from its
\* recovery on and for as long as it runs, although other processes migrate the
\* same database and die at any point (migrate, applyMigration): the version
\* number never runs ahead of the columns and never falls back.
SchemaReady ==
  \A p \in Procs : pc[p] \in Starting \cup Running =>
    /\ db.version = SchemaVersion /\ db.table
    /\ db.columns = V2Columns \cup ServiceColumns

\* The steps at which a process answers, or is about to, at its path.
Answering == {"restricting", "serving"}

\* A process that answers at the path keeps it until it ends itself.  Whoever
\* comes to look at the path while it is there leaves it alone, at whatever point
\* of its own start, end or death (removeStaleSocket, Close); only two can take it
\* away: a process that was already past its look at the path when this one began
\* to answer (it dialed a dead socket before, or it still has an unlink by name to
\* do), and systemd, once the unit has ended next to it.
ListenersNotDisturbed ==
  [][\A q \in Procs :
       path = q /\ pc[q] \in Answering /\ path' # q /\ pc'[q] \in Answering
       => \/ \E p \in rivals[q] : pc'[p] # pc[p]
          \/ pc[Unit] = "ended" /\ pc'[Unit] = "off"]_vars

Snapshot(p) == [i \in DOMAIN cache[p].nodes |-> MapSlurmNode(cache[p].nodes[i])]

\* A snapshot the service has committed is one the page accepts: what
\* validateNodeSnapshot lets through never fails isNodeSnapshotPayload, which
\* would make the page drop the channel and meet the same snapshot again.
SnapshotsAcceptable == \A p \in Procs : cache[p].known => isNodeSnapshotPayload(Snapshot(p))

\* Through summarizeNodeState, the flags and isDrained, the page offers to drain
\* exactly the nodes scontrol lists as idle, and nothing else, without DRAIN, and
\* to resume exactly those it lists with DRAIN.
OffersFit ==
  \A p \in Procs : cache[p].known => \A i \in DOMAIN cache[p].nodes :
    LET raw    == cache[p].nodes[i]
        states == IF raw.state = NoState THEN <<>> ELSE raw.state
        listed == {states[j] : j \in DOMAIN states}
    IN /\ applicable(Snapshot(p)[i], "RESUME") <=> "DRAIN" \in listed
       /\ applicable(Snapshot(p)[i], "DRAIN") <=>
            /\ "DRAIN" \notin listed
            /\ \E j \in DOMAIN states : /\ states[j] = "IDLE"
                                        /\ \A k \in DOMAIN states \ {j} : states[k] \notin Primary

\* The excuses for not being up: a database of a newer version, a Slurm that gives
\* no valid listing, and a host without the bus or the accounts.
Obstacle ==
  \/ db.version > SchemaVersion \/ ~host
  \/ ~ListNodesOk(slurm) \/ ~validateNodeSnapshot(ListNodes(slurm))

\* A process that serves but has lost its path, which nobody repairs.
Displaced(p) == pc[p] = "serving" /\ path # p
Reachable(p) == pc[p] = "serving" /\ path = p

\* Once nothing upsets it any more, the unit is up and stays up: no stale socket,
\* file at the path, half-migrated database, interrupted start or process started
\* by hand keeps a later start of it from succeeding ("The service must not leave a
\* stale socket that prevents a later startup").  The exception is a unit that
\* serves without its path, which another process removed after the unit began to
\* answer: one that started at the same time, or that was still in its Close.
ServiceComesUp == <>[](Obstacle \/ Displaced(Unit) \/ Reachable(Unit))

\* Starting a second process never touches the row of a command that a running
\* process is working on: main opens the ledger, which recovers every
\* unresolved row, before Listen finds out that the socket is in use.
OnlyOrphansRecovered ==
  [][row.owner # NoProc /\ row.status \in Unresolved /\ row'.owner = row.owner
       => row'.status \in {row.status, NextStatus(row.status)}]_vars
=============================================================================
