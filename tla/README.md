# A TLA+ verification of cockpit-slurm

cockpit-slurm is a Cockpit page and a Go service that show the nodes of a Slurm
cluster and let an administrator drain, resume or otherwise set their state.
This directory holds TLA+ models of the parts of it that are hard to test,
TLC configurations that check them on small instances, and proofs, checked by
TLAPS, of what matters most for any number of requests, keys and failures.

Paths below are relative to the repository's root.

## 1. Inventory

| Component | State it keeps | Operations | Why it is hard |
|---|---|---|---|
| Command ledger (`internal/ledger`) | one SQLite row per (caller UID, command ID); the schema version; the admission gate `blocked` | `Open` with its migrations, `Lookup`, `ReserveAuthorization`, `Transition`, `Reconcile`, expiry | a commit error may be durable; a cancelled caller closes the gate for everybody; `Reconcile` rewrites the rows of live handlers; migrations against a second process or a death half way |
| Command service (`internal/command/service.go`) | a mutex per (caller, command ID) | `Handle`, `awaitRecord`, `persistenceError` | concurrent duplicates, cancellation between any two calls, crash after dispatch |
| D-Bus executor and node helper (`internal/command/dbus_executor.go`, `internal/nodehelper`) | none; the helper is another process | `Execute`, `SetNodeState`, `BuildScontrolArgs` | timeouts after the effect, lost replies; it refuses by rules of its own |
| Authorization and identity (`internal/authorization`, `internal/identity`) | none (a fresh `sacctmgr` lookup for each command) | `Authorize`, `Resolve`, `NewNodeRegistry` | capabilities and authorization come from different lookups; ambiguous accounting data |
| Node cache and synchronizer (`internal/resource`) | nodes, generation, `refreshMu`, `publicationMu` | `Refresh`, `ReplaceSnapshotAndPublish`, `WithSnapshotBoundary` | periodic and command-triggered refreshes overlap; generations restart with the process; what `scontrol` prints may lack names or repeat them |
| Node stream registry (`internal/stream`) | set of subscribed streams | `Register`, `Publish`, `Unregister`, `Close` | baseline against concurrent commit; slow clients |
| IPC server and connections (`internal/ipc`, `internal/connection`) | active sockets, connection manager, outbound queues, a replay cache per connection | `Serve`, `serveConnection`, `writeConnection`, `Close` | queues at their limit; `Close` against connections that are being set up, served or ended; peers that do not read |
| Node provider (`src/node-provider.tsx`, `src/ipc/node-stream.ts`, `src/ipc/client.ts`) | channel, reconnect and snapshot timers, stream state | `openChannel`, `onmessage`, `onclose`, `forceReconnect` | four paths end a channel; the old view outlives it |
| Command client (`src/ipc/command-service.ts`, `src/ipc/client.ts`, `src/node-command-*.ts`) | commands in flight, their UI state, capabilities, pending requests | `submitCommand`, `refreshCapabilities` | state captured by a render is stale; timeouts and lost channels race the answers |
| Protocol and framing (`internal/protocol`, `src/ipc/framing.ts`) | a partial frame; a replay cache of message IDs per connection | encode, decode, validate, replay | chunks end anywhere; the limits are written down on both sides, and several times on one |
| Dispatcher and queries (`internal/dispatcher`, `internal/service`) | none | routing, hello, ping, queries, capabilities | the answer may be too large for a frame |
| Channel relay (`internal/channel`) | two copying goroutines | `Relay` | nothing imports it |
| Start and end (`cmd/cockpit-slurm/main.go`) | the path of the socket, shared with any other process | ledger, first refresh, listen, serve, exit | stale sockets; two processes on one path and one database; order of recovery and serving; exit while `Close` still runs |

How they interact. A page opens a Cockpit channel to the service's Unix socket.
`serveConnection` registers a stream for it, whose baseline snapshot enters the
connection's outbound queue under `publicationMu`; each commit of a changed
listing then adds one change batch to every stream's queue. Requests on the same
connection go through the dispatcher to the command service, one at a time;
their responses share the outbound queue with the stream. A command that ended
`succeeded` or `unknown` starts a refresh, whose result reaches every page
through the stream. A connection that ends cancels the context of the request it
was serving, and that context is what the ledger's SQL statements run under.

What correctness means here:

- a command is executed at most once, whatever is retried, duplicated, cancelled
  or interrupted; what was executed is on record; a refusal is final; an answer,
  once given, is what every retry is told; nobody waits for ever;
- a page shows a state the cache really had, misses no change while it is
  subscribed, is cut only for its own slowness, and after any disturbance comes
  back to show the cluster as it is;
- the server stops when it is told to, whatever its connections are doing, and
  leaves nothing behind;
- what `scontrol` is told is what a peer asked for, word for word, on an authority
  that is fresh; whatever a peer writes, every rule on the way agrees with the next
  one, and every request of the page is settled;
- the service comes up after any death, on any database of an earlier version, and
  does not take the socket from another that was there before;
- the page never sends a second command for a node while the first may still be
  executed, decides only with capabilities of its current channel, and never
  waits for something that cannot come.

## 2. The modules

| Module | Models | Kind |
|---|---|---|
| `CommandLedger` | the ledger's rows, its gate and every operation on them with its failures | component |
| `CommandService` | concurrent `Handle` calls over the ledger, helper, cancellation, crash, restart, retention | composition, properties |
| `CommandContract` | the life of a command as clients and operators may rely on it | abstract specification |
| `CommandServiceProofs` | proofs about `CommandService` | theorems |
| `CommandContractProofs` | `CommandService` implements `CommandContract` | theorems |
| `NodeCache` | cluster, refreshes under `refreshMu`, the diff, generations | component |
| `NodeStream` | cache, registry, connections, queues, sockets, pages | composition, properties |
| `NodeFeed` | what a page may rely on: it shows states the service has had, in their order | abstract specification |
| `NodeStreamProofs` | proofs about `NodeStream`; `NodeStream` implements `NodeFeed` | theorems |
| `IpcServer` | accept loop, connection goroutines, writers, `Close` | component, properties |
| `IpcServerProofs` | proofs about `IpcServer` | theorems |
| `ServiceShutdown` | `main` around `IpcServer` | composition |
| `NodeCommandUi` | commands and capabilities in the page | component, properties |
| `NodeCommandUiProofs` | proofs about `NodeCommandUi` | theorems |
| `Requests` | every check between the socket and `scontrol` | pure operators |
| `Exchange` | one connection from the page's promise to `scontrol` and back | composition, properties |
| `ExchangeProofs` | proofs about `Exchange` and the operators of `Requests` | theorems |
| `NodeMapping` | what becomes of the nodes that `scontrol` prints, on both sides of the socket | pure operators |
| `ServiceStart` | `main` in several processes on one database and one socket path | composition, properties |
| `ServiceStartProofs` | proofs about `ServiceStart` and `NodeMapping` | theorems |
| `MCCommandService`, `MCNodeStream`, `MCIpcServer` | symmetry sets for the instances below | model checking |
| `MCExchange`, `MCServiceStart` | the requests, listings and databases of the instances below | model checking |

Definitions named `X_Something` directly before a definition `X` are deliberately
broken variants of it (a dropped guard, a missing reset). Each property that a run
checks has one that violates it, which shows that the property can fail.

### 2.1 CommandLedger and CommandService

A row is a record with the status of `ledger.go`, the request's fingerprint, two
flags for the authorization and execution-identity columns, and the stored answer
(`payload`), which is the tag of the answer and not its text. Names, reasons,
timestamps and operation IDs are left out: no guard of the protocol reads them
after validation.

Every ledger operation that writes holds `writeMu` to its end and reads the gate once,
when it has the mutex. `Lookup` takes neither, and closes the gate when it fails
(`ledger.go:265`), so the gate can close between the check of a write and its commit. A
write is therefore two steps: `BeginWrite`, with which the handler becomes `writer`,
having found the gate open, and the end of its transaction, which is one step because
the database has a single connection. A write that finds the gate closed does nothing.
One that has begun ends in one of three ways: the caller's context is done, the
transaction does not begin or commit, and the gate closes; the database fails, the gate
closes and *either* nothing *or* the whole transaction is durable; or it is durable.
`WriteSucceeds` and `WriteFails` state this once and `Reserve*` and `Transition*` use
them. A done context does not close the gate in a `Lookup`. `Reconcile` holds `writeMu`
as well and recovers *all* interrupted rows, whoever owns them, before it opens the
gate.

`Requests` are the pairs of key and fingerprint that each connection may send, `Valid`
the pairs whose payload `Handle` may accept. `Handle` looks a row up before it validates the payload,
so a request outside `Valid` still looks its row up, and may replay it.

A handler's program counter names the call of `Handle` it makes next, so another
goroutine can run between any two ledger or executor calls:

`idle -> admit -> lock -> lookup -> reserve -> authorize -> (settle | accept -> run
-> execute -> executing -> finish) -> idle`, with `await`/`poll` for
`awaitRecord` and `persist`/`persist_held` for `persistenceError` without and with
the key mutex.

`Authorize` has the four results that `Handle` distinguishes: allowed, denied,
lookup failed, and a decision that does not match the request. The helper is a
separate process: `HelperApplies` and `HelperRefuses` may happen after the service
has crashed. `ExecuteFails` may be taken whatever the helper did, because
`SetNodeState` answers `ExecutionFailed` also when `scontrol` was killed by
`helperTimeout`. `attempts`, `ran` and `told` are history: executions dispatched,
the fingerprint of the last one, and the final answers given. `RetentionEnds`
stands for the thirty days of `expires_at`, after which every query treats the
row as absent; no request or helper call lives that long, hence its guard.

### 2.2 CommandContract

A command ID is `new`, `claimed`, `started`, `refused`, `uncertain`, `succeeded`,
`failed` or `unknown`, and is or is not `dispatched`. It is dispatched once, when
started or, if a recovery came in between, when already declared `unknown`; never
in a state that denies the execution. `ContractState` maps row statuses to these
states, and `ImplementsContract` is the refinement.

### 2.3 NodeCache and NodeStream

A node is its identity, a condition (everything that `sameNodeState` compares) and
the generation that last changed it. A refresh lists the cluster under `refreshMu`
(`ListNodes`), and then fails or commits. `nodeChanges` and `updatedNodes` are the
diff of `replaceSnapshot`.

A commit is one step with the publication, since both are under `publicationMu`.
Streams that refuse the batch leave the registry in that step and wait in `slow`
until `Publish` has closed them; no other commit or registration happens
meanwhile. A stream whose context is done may take the message or refuse it, as
Go's `select` may choose either. Behind the queue there is the socket, `wire`,
which holds the message being written too. `channel`, `timer` and `view` are the
provider's.

A frame has a largest size, `MaxPayloadSize`, which is counted here in nodes:
`FrameRows`. A baseline has the nodes of the cache, a batch those that changed. A
message that does not fit is never written: `EncodeFails` closes the connection of a
peer that is alive and reading, and the page reconnects for a new baseline.

`NodeFeed` is what all of this is for: the service goes through a `log` of states and
a page shows one of them, moving forward only. `NodeStream` keeps `log` (the contents
of the cache after each commit that changed it and each start) and `at` (the place in
`log` of what a page applied last, carried by the messages as `place`) as history
variables, which no guard reads; `PagesFollowFeed` is the refinement, with `shown` the
nodes of the page's view. The generation could not play the part of `at`: it starts
again with the service.

`Upset` bounds the disturbances: changes of the cluster, failed refreshes,
responses on a stream's connection, failed opens, snapshot timeouts, reconnect
requests and crashes share the one budget `MaxUpsets`.

### 2.4 IpcServer and ServiceShutdown

The complement of `NodeStream`: messages are only `event`, `reply` and `refusal`,
but every goroutine of a connection has its own program counter. `stage` follows
`serveConnection` from the accept queue of the socket through its deferred calls
(`unsubscribe -> closing -> joining -> leaving -> gone`, last deferred first);
`writer` follows `writeConnection`, and is the message while it is being encoded;
`closer` follows `Close` through its three loops, `toClose` being what the current
loop has copied under its mutex and not closed yet. `Connection.Close` cancels the
context and then closes the socket, two steps (`Cancel`, `SocketCloses`) between
which others run. `active`, `manager` and `streams` are the three tables that a
connection enters and leaves on its own and that `Close` empties one after the
other. Where a Go `select` has several ready cases, each is a disjunct: a done
context and a free queue slot, for `enqueue`; a done context and a queued message,
for the writer. The peer may hang up, send nothing or never read; `Encode` is then
never taken. `EncodeFails` is the end of a write whose socket is closed or whose peer is
gone, `FrameTooLarge` that of a message too large for a frame, whatever the peer does.
The replay cache is the number of its entries: a request is answered
from it, dispatched, or, when it is full, refused and the connection closed;
`Exchange` has its contents.

`ServiceShutdown` adds that `main` returns when `Serve` has, which ends the process
at any point of `Close`. An `Accept` that fails while the server is open ends the
process by `log.Fatalf`, which is the crash of the other modules.

### 2.5 NodeCommandUi

`state` holds what the provider has given to React's setters, `shown` what was
rendered last, which is what `submitCommand`'s closure sees; `commandsInFlight` and
`commandService.current` are refs and always current. React 18 renders what a click
handler sets before the next event, and nothing else with it, so a click changes
its own fields of `shown`; everything else reaches `shown` with `Render`, at any
later time. One thing is assumed of rendering: that the loss of the connection is
rendered before the reconnect timer fires. After `forceReconnect`, a click, that is
certain; otherwise the timer has at least 500 ms.

`sent` is the channel on which a command awaits its answer, `queries` counts the
capability requests of the current channel, told apart by sender, since the
answer to Retry does not clear an error as that to the baseline's request does.
When a channel ends, `rejectAll` makes every awaited command `unknown`, whereas the
capability requests fall to the `client === current` check and change nothing.
`jobs` is the backend's side: commands of this page for the node that it may still
execute, whether or not anybody waits for them. The first `openChannel`, called by
the effect, is a timer that runs in `Init`.

### 2.6 Requests and Exchange

`Exchange` follows one connection through all of its layers. The peer is the page, or
any other program of the socket's group, which may write any frame under message IDs
old and new. `up` carries frames to the service, where `serveConnection` decodes one at
a time; `conn` is its end of the connection (`ending` after a frame that `Decode`
refused, `cut` after one the replay cache had no room for: both close, with a refusal
queued, and only the first waits for it to be written). A decoded frame is answered from
`replies`, refused, answered at once (`ReadSimple`: `dispatch` to hello, ping, query or
capabilities) or, for a command, goes through claim, `AuthorizeCommand` and
`ExecuteCommand`, between which the accounting data and the peer can change. The writer
puts two units for each message into `down`, a header and a body, and `push` is the
page's `FrameDecoder` on whatever chunk the browser delivers: one unit or everything.
`pending` holds the page's promises. The ledger is here the map that `CommandContract`
promises; its faults and concurrent duplicates are in `CommandService`.

`Requests` holds the checks, one operator for each function: `Decode`,
`ValidateEnvelope` and its counterpart of the page, `DecodeNodeCommandRequestPayload`,
the operation registry and its own validation, `LookupUser` with every refusal,
`Resolve`, `Authorize`, `validateClaim`, `BuildScontrolArgs`.

Data. A text is a word and its length in bytes, so that a limit can be met, missed or
exceeded by one without writing 256 characters. An object is a function from the fields
that are present. A frame is the set of decisions the decoder takes about it: the length
its header claims, whether its bytes are JSON without duplicate keys, unknown fields,
and the envelope. What `sacctmgr` prints is a record of the refusals that are possible
and of the users. `handled`, `written`, `proven` and `shown` are history: the requests
with their answers, the messages written in full, the commands whose caller was
administrator at some time since the claim, and the capabilities last answered while
the accounting data is still the same.

### 2.7 NodeMapping and ServiceStart

`NodeMapping` is the path of a node through the program as operators: `MapSlurmNode`
with its fallbacks for the name, `summarizeNodeState` and the flags,
`validateNodeSnapshot` in the service, `isNodeSnapshotPayload` in the page, and the
part of `nodeCommandBlockReason` that looks at the node. A raw node has optional texts
and an optional list of states.

`ServiceStart` is `main` with one program counter for each process, one step for each
call that another process can come between. `ledger.Open` reads the schema version and
then counts migrations from the number it *read*, each a transaction; the database is
its version and its columns, and a migration fails as its SQL does (`CREATE TABLE` on a
table that exists, `ADD COLUMN` on a column that does). `Recover` rewrites every
unresolved row. `Listen` is `lstat`, dial, remove, bind, listen and chmod, each by the
*name* of the path; so is the unlinking by Go when the listener closes and the removal
at the end of `Close`. One row follows a command through the process that works on it.
`host` says whether the account of the helper and the D-Bus system bus are there, without
which `NewDBusExecutor` ends the start. `rivals` is history: who was past looking at the
path (`Blind`: about to remove what it has dialed, or with an unlink by name still to do)
when a process began to answer there.

The socket's directory is the unit's `RuntimeDirectory`
(`packaging/cockpit-slurm.service:10`), which nothing preserves. systemd makes it before
the unit starts, and removes it with all that is in it after the unit has ended, whether
the unit served or failed to start: `DirectoryRemoved`, between `ended` and `off`. The
path is then `missing`, until `MkdirAll` in `Listen` (which a process started by hand may
lack the rights for) or the unit's next start.

## 3. What TLC checks

| Run | Instance | Shows |
|---|---|---|
| `duplicates` | 2 handlers, 2 keys, 2 fingerprints, one valid command from both, two requests that only look rows up from one of them, 1 database failure, 1 crash, 1 expiry, no symmetry | the command service: its invariants, the closed gate, the refinement, and that requests are answered and the gate reopens |
| `failed` | 2 handlers, 1 key, 1 fingerprint, 2 failures, 1 crash | a disagreement with the documentation, section 6 |
| `replay` | as `failed` | a disagreement with the documentation, section 6 |
| `views` | 2 nodes, 2 conditions, 1 page, 2 connections, queue 1, socket 1, frames of 2 nodes, 3 upsets | what a page shows, for every kind of change |
| `converge` | 2 nodes, 1 condition, 2 pages, 2 connections, frames of 1 node, 2 upsets, no symmetry | a slow page cuts only itself; pages converge unless the cluster is too large |
| `shutdown` | 2 connections, queue 1, replay cache 1, 2 inputs | `Close` against connections in every phase |
| `server_liveness` | 1 connection, queue 2, replay cache 1, 4 inputs, no symmetry | `Close` returns, connections end |
| `exit` | 1 connection | a disagreement with the documentation, section 6 |
| `commands` | 2 nodes, 7 channels, 6 events, no symmetry | commands and capabilities in the page, and that it comes to rest |
| `exchange` | 3 frames, one of them odd or followed by one upset, queue 2, replay cache 2 | requests of every kind from the page to `scontrol` and back |
| `start` | 2 processes, 3 upsets, databases of versions 0 to 4, 27 listings | starting, ending and dying on one database and one path |
| `second_start` | 2 processes, 1 upset | a disagreement with the documentation, section 6 |

Properties of the command service:

- `AtMostOnce`: a command ID is dispatched at most once in its retention.
- `NoOrphan`: while the gate is open every unresolved row has a live handler at
  the matching step. This is why `Transition` must close the gate on *every*
  error: otherwise a row is stranded and every retry polls for ever.
- `ExecutionAudited`: what was dispatched has a durable row with its fingerprint,
  authorization and execution boundary, in a status that admits execution.
- `HonestRows`: a row that denies the execution is right and stays right; a row
  that claims success is right.
- `AnswersStand`: every final answer given is the one the row replays now.
- `GateFreezesRows`: behind the closed gate no write begins, and rows change only by
  recovery and expiry. The exception is the row of the one write that had passed the gate
  before a failing `Lookup` closed it.
- `ImplementsContract`: section 2.2.
- `EveryRequestAnswered`, `GateReopens`: nobody waits for ever.

Properties of the stream:

- `PagesFollowFeed`: a page's nodes, built from a baseline and patches, are
  exactly the cache after one of its commits, and never an earlier one than before.
- `StreamNeverBreaks`: `applyNodeStreamMessage` never throws.
- `NothingMissed`: once a subscribed page has applied what is under way, it shows
  the cache as it is now.
- `ChannelOrTimer`: a page has a channel or a running reconnect timer, never both
  and never neither.
- `NoStreamLeaks`: the registry holds only connections being served.
- `OnlySlowStreamsAreCut`: a stream is cut for its own full queue or its own end.
- `CommitsInOrder`: an older listing is never committed after a newer one.
- `ClientsConverge`: after the last disturbance every page is connected and shows
  the cluster, unless the whole cluster does not fit into a frame. Then no baseline can
  be written, and every page reconnects for ever. A single batch that is too large is no
  exception: it costs the page its connection, and the next baseline repairs that.

Properties of the server:

- `HandlersCancelled`: when `Close` waits, every request still being handled has its
  context cancelled. A connection may enter the manager or the registry after their
  `CloseAll`; what saves it is that its socket was closed before, so it decodes no
  request. The order of the loops in `Close` matters.
- `CleanAfterClose`: when `Close` returns, no writer, socket or table entry is left.
  The one exception is a connection that `Accept` has returned and `Serve` is about
  to close itself.
- `ShutdownCompletes`, `ConnectionsEnd`: `Close` returns, and a connection closed on
  either side ends, although a writer may wait for a peer that never reads.

Properties of the page:

- `NoOverlap`: at most one command for a node may be under execution for this page
  (`4.4 Implementation-phase5.md:1741`), across lost channels, timeouts and answers
  not rendered yet.
- `PendingIsAwaited`: a node is pending exactly while an answer is awaited on the
  current channel.
- `CurrentCapabilities`: a command is submitted only with capabilities that the
  current channel reported.
- `CapabilitiesSettle`: after the last disturbance the page is connected and has its
  capabilities, or knows that it could not get them.

Properties of the exchange:

- `ClaimsPassEveryCheck`: whatever the payload decoder and the service let through
  passes the ledger's claim rules, the registry's schema (which no code evaluates) and
  the helper. The same limits are written down four times.
- `ScontrolMatchesRequest`: each command line is what one frame asked for, word for
  word, about one node of the cache.
- `FreshAuthority`: each command line had a moment after its claim at which the
  accounting data held exactly one clean record of its caller, an administrator.
- `CapabilitiesAgree`: while the accounting data stays the same, a command is let
  through exactly if the capabilities shown to the page contain its own.
- `ConsistentAnswers`: a message ID with the same content gets the same answer for the
  life of the connection, with another content a conflict.
- `NothingLost`: the page's decoder returns every message the service wrote, whole and
  in order, however it was cut, and never throws.
- `EverySendSettles`: each promise of the page is resolved or rejected, with a full
  queue, a full replay cache, a refused frame or a snapshot too large for a frame.

Properties of starting:

- `SchemaReady`: a process past its migration works on the full schema, for as long as
  it runs, whatever other processes migrate and wherever they die.
- `ListenersNotDisturbed`: a process that answers at the path loses it, as long as it
  runs, only to one of its `rivals`, or to systemd after the unit has ended beside it.
  Both happen. A `Close` that is still waiting for its connections ends with an unlink by
  name, which hits a successor that has begun to answer meanwhile; two starts that find
  the same stale socket can both remove it, the second one the socket of the first; and a
  unit whose start fails because a process started by hand holds the path takes that
  process's socket away when systemd cleans up. What the property excludes is everybody
  else: whoever looks at the path while a process answers there leaves it alone.
- `SnapshotsAcceptable`: what the service's validation accepts, the page's does.
- `OffersFit`: the page offers to drain the idle nodes without `DRAIN`, and to resume
  those with it, whatever list of states `scontrol` prints.
- `ServiceComesUp`: once nothing disturbs it any more the unit itself is up and stays
  up, unless the database is of a newer version, the bus or an account is missing, Slurm
  gives no valid listing, or the unit serves without its path, which nobody repairs. For
  the last one no two starts need to race: one process that is still in its `Close` when
  the unit begins to answer is enough. A file at the path is no excuse, since
  the unit's failed start removes it with the directory.

Why the bounds are enough. Two handlers on a key are the owner and a duplicate;
one more only waits for the same mutex. One failure closes the gate or spoils a
reconciliation; cancellations, which are not counted, close it as well. A `Lookup` runs
under its key's mutex, so that one can fail while another handler writes takes a second
key; requests for it only look rows up. Only one of the two connections sends these and
the conflicting ones, since two requests of which neither writes have nothing to race
for. A row for the second key, and with it a
reconciliation by the handler of one command that rewrites the row of another, is left to
the proofs of section 5, which remove all of these bounds for the command service. In the
stream, queue and socket of one
message make the queue full after two changes, where a page with larger ones needs
more changes for the same situation; two connections are the old one and its
successor; three upsets reach, for example, two changes that overflow the queue
and a reconnect or restart after them; with frames of one node and two changes the
cluster outgrows the frame, or a batch does while the baseline still fits. Connections of the server meet only in the
tables that `Close` empties and in the accept loop, so two show one that is being
set up while another is served or ended; a queue and a cache of one entry are full
after one message; the inputs suffice for a request that is handled while a batch
overflows the queue, or for two requests, the second of which finds the cache full.
In the page six events reach, for example, two commands that lose their channels
and an attempt to submit a third; there are more channels than events, so that one is
always left to come to rest on. In the exchange, three frames are a request, its repetition
or a conflicting one, and one more for which a cache of two entries is full; odd
requests deviate from a good one in a single field, because each check looks at one
field, at the limits of 128, 255 and 256 bytes from both sides. For the start, two
processes are the one that is there and the one that comes; three upsets are, for
example, a start by hand, the death of one and the stop of the other.

Deadlock is checked in the runs of the command service and the stream, which never
stop: a request can always arrive, a refresh can always start. The others may stop: the
server when `Close` has returned, the page when it waits for an answer or a click and
the budget of these is used up, the exchange when its frames are answered, and the
start when the service is up.

### Fairness

`CommandService`: weak fairness of each handler's steps, because a goroutine that
can run is run, `Authorize` and the D-Bus call have deadlines, and a timer ends
each `poll`; strong fairness of getting the key mutex or `writeMu` (`Lock`,
`BeginWrite`), because a Go mutex in starvation mode is handed to the longest waiter; weak fairness of `Restart`
(`Restart=on-failure` in `packaging/cockpit-slurm.service`). Nothing is assumed of arrivals, cancellations, failures or crashes.

`NodeStream`: strong fairness of the ticker's refresh, since `Run` ticks for ever
and `refreshMu` does not starve it; weak fairness of commits, of each connection's
goroutines, of the page's event loop and reconnect timer, and of `Restart`
(systemd after a failure; an orderly stop is taken to be followed by a start).
Nothing is assumed of disturbances, which are finitely many.

`IpcServer`: weak fairness of each connection's goroutine, of its writer, of the
second half of `Connection.Close`, of `Serve` and of `Close`. Handlers return, which
`EveryRequestAnswered` supports and their contexts hasten. Nothing is assumed of
peers: `Decode`, `BadFrame`, `Encode` and `HangUp` may never happen. Neither is it assumed
that a message ever is too large (`FrameTooLarge`), which would free a writer that a peer
blocks.

`NodeCommandUi`: weak fairness of the reconnect timer, of the baseline on a live
channel (or else the snapshot timeout, one of the bounded events), of the answer or
timeout of a capability request, and of `Render`.

`Exchange`: weak fairness of the whole of the service and of the page's reading: as long
as a goroutine or the browser has something to do, something is done. Nothing is asked
of the peer, who need not send, hang up or time out.

`ServiceStart`: weak fairness of each process's own steps, and of systemd's removal of
the unit's directory and its start of the unit
(`Restart=on-failure`, `RestartSec=5`; a stop is taken as half of a restart). Nothing is
asked of deaths, stops, starts by hand, Slurm or the host.

## 4. Named bounds

`MaxFaults`, `MaxCrashes`, `MaxExpiries`, `MaxUpsets`, `MaxInputs`, `MaxEvents`,
`MaxChannels` and `MaxSends` count events that are otherwise unlimited; `WireSize` and `Conns` bound
the socket and the connections (in `IpcServer`, those ever made), `MaxInFlight` the
frames on their way to the service. `QueueSize` and
`CacheSize` are the code's own `DefaultNodeStreamQueueSize` and
`maxCachedRequestsPerConnection`, made small; `FrameRows` is `MaxPayloadSize`, counted in
nodes.

## 5. What is proved

### The command service

For every set of handlers, keys and fingerprints and every value of the bounds,
under `LedgerAssumption` and `ServiceAssumption` only (the bounds are naturals;
the null values `NoPrint`, `NoKey`, `NoHandler` are not members of their sets; requests
and valid requests are pairs of a key and a fingerprint):

| Theorem | States |
|---|---|
| `TypeCorrect` | `Spec => []TypeOK` |
| `Invariance` | `Spec => []IInv` |
| `ExecutesAtMostOnce` | `Spec => []AtMostOnce` |
| `NoRowIsOrphaned` | `Spec => []NoOrphan` |
| `ExecutionIsAudited` | `Spec => []ExecutionAudited` |
| `RowsAreHonest` | `Spec => []HonestRows` |
| `AnswersAreDurable` | `Spec => []AnswersStand` |
| `TerminalRowsStayFrozen` | `Spec => TerminalRowsFrozen` |
| `ClosedGateFreezesRows` | `Spec => GateFreezesRows` |
| `ServiceImplementsContract` | `Spec => ImplementsContract` |

The argument. None of the properties is inductive alone. `AtMostOnce`, for
instance, needs that a handler about to dispatch has a row nobody dispatched
before, and that this stays true while other handlers, reconciliations and
retention run. `IInv` therefore adds to the properties:

- `RequestInv`: an open request has a key and a fingerprint, a dead process has no
  open request;
- `LockInv`: the mutexes and the program counters agree, hence two handlers past
  `lock` have different keys;
- `HandlerInv`: the row of a handler that holds its mutex is in the status the
  handler left it in, *or in what a reconciliation made of that*, has the
  handler's fingerprint, and the verdict it carries is one `Transition` accepts;
- `FreshInv`: nothing was said or done for a row that does not exist.

The step that needs most care is a reconciliation by one handler while another
is between two transitions: `ExpectedStatus` is closed under `RecoveredStatus`,
and the following `Transition` fails on the status, so its handler goes to
`persistenceError` and never dispatches from an `authorization_uncertain` row; a
`running` row that became `unknown` may still be dispatched, which
`ExecutionAudited` and the contract allow. A write that is under way while a `Lookup`
closes the gate adds nothing to the invariant: no reconciliation runs before it has
ended, and its transaction touches the row of its own key only, from which
`ClosedGateFreezesRows` follows. The proof has lemmas for what each
ledger operation does to the rows, then one step for each action. The refinement
rests on the same invariant: `AtMostOnce` and `RowInv` give that `Execute` is a
`Dispatch` of a command not dispatched yet.

### Starting

For every set of processes, of databases and of listings, under `StartAssumption`
(the unit is a process, no process is called "missing", "absent" or "file"), `DatabasesAssumption`
(the databases are ones the migrations leave behind, or newer) and `ListingsAssumption`
(Slurm prints states that its API knows):

| Theorem | States |
|---|---|
| `TypeCorrect` | `Spec => []TypeOK` |
| `SchemaIsReady` | `Spec => []SchemaReady` |
| `SnapshotsAreAcceptable` | `Spec => []SnapshotsAcceptable` |
| `OffersAlwaysFit` | `Spec => []OffersFit` |
| `ListenersAreNotDisturbed` | `Spec => ListenersNotDisturbed` |

`SchemaInv` bounds the version that a migrating process goes by, by the version of the
database, and keeps the database `Sound`; a migration that another process has already
made fails, which is what keeps the number from falling back. `SocketInv` relates where
a process is in `Listen` to whose `rivals` it is among: while some process answers at the
path, every other one that is at a `Blind` step is its rival. A process becomes `Blind`
by a dial that is refused, which a process that answers does not do, or by a bind, for
which the path must be free. Only the blind steps unlink the path. `OffersAlwaysFit` is about lists of states of any length: lemmas on the base
states in a list say what `summarizeNodeState` makes of it.

### The page

For every set of nodes and every value of the bounds, under `UiAssumption` (the bounds
are naturals):

| Theorem | States |
|---|---|
| `TypeCorrect` | `Spec => []TypeOK` |
| `CommandsNeverOverlap` | `Spec => []NoOverlap` |
| `PendingIsAlwaysAwaited` | `Spec => []PendingIsAwaited` |
| `LoadingAlwaysHasCause` | `Spec => []LoadingHasCause` |
| `CapabilitiesAreCurrent` | `Spec => CurrentCapabilities` |

`NoOverlap` says nothing about the status of a node, so it is not inductive. `JobInv`
is what the design rests on: a command that the backend may still execute keeps its
node blocked both in the state and in the last render, and no answer that would free it
is under way. `AwaitInv` ties `commandsInFlight` to the awaited answers, `ChannelInv`
the channel to the timer, and `CapabilityInv` says that a render that shows a connection
shows the current channel's capabilities, which holds because `openChannel` comes only
after the loss has been rendered.

### The node stream

For every set of pages, connections, refreshers and nodes and every value of the bounds,
under `CacheAssumption` and `StreamAssumption` only (the bounds are naturals, the queue
and the socket hold at least one message, the ticker is a refresher, the null values are
not members of their sets):

| Theorem | States |
|---|---|
| `TypeCorrect` | `Spec => []TypeOK` |
| `StreamIsNeverBroken` | `Spec => []StreamNeverBreaks` |
| `NothingIsMissed` | `Spec => []NothingMissed` |
| `PagesKeepTrying` | `Spec => []ChannelOrTimer` |
| `StreamsDoNotLeak` | `Spec => []NoStreamLeaks` |
| `RefreshesCommitInOrder` | `Spec => CommitsInOrder` |
| `OtherStreamsAreKept` | `Spec => OnlySlowStreamsAreCut` |
| `StreamImplementsFeed` | `Spec => PagesFollowFeed` |

That a page can apply the next message says nothing about the message after it, so
`StreamInv` describes the whole pipeline of a connection, `Pending(c)`, the socket
followed by the queue:

- `MessageInv`: a baseline carries the state of the log it was made from, a batch the
  changes from one state of the log to the next;
- `ChainInv`: the pipeline holds at most one baseline, which comes first and only to a
  page that waits for it, and batches, each one place and one generation after an event
  before it or after what the page has applied. Responses in between do not matter;
- `CurrentInv`: the pipeline of a connection that is served, and still in the registry,
  ends in the cache as it is. `NothingMissed` follows with an empty pipeline, and a
  commit keeps it because it appends to every such pipeline in the same critical section;
- `LogInv`: a page shows the state of the log that it is at, which is the refinement
  mapping, and `Chain` says that applying the head moves it forward;
- `RefreshInv`, `ServeInv`, `ChannelInv`: a listing is held only under `refreshMu`; a
  connection has a stream or a queue only while its goroutine serves it; two pages never
  share a channel, and an abandoned connection has nothing on the wire.

The lemmas are about `Chain` and `Current` on any sequence of messages: appending the
next event, removing the head once the page has applied it, moving a message from the
queue to the wire. Each action is one of these on at most one connection, except a
commit, which appends to every stream.

### The server

For every set of connections and every value of the bounds, under `ServerAssumption` (the
queue and the replay cache have room for at least one entry):

| Theorem | States |
|---|---|
| `TypeCorrect` | `Spec => []TypeOK` |
| `HandlersAreCancelled` | `Spec => []HandlersCancelled` |
| `ServerIsClean` | `Spec => []CleanAfterClose` |

`Close` works through snapshots: it copies the active connections under one lock and the
streams under another, and closes what it copied while goroutines come and go. `ServerInv`
says what is still owed at each of its steps. `EntryInv`: the listener and the flag are
shut before the copy, and a connection is tracked exactly while its goroutine is counted.
`SocketInv`: an open socket is on the copied list, and none is open once the list is done.
`CancelInv`: until the streams are copied every request belongs to a connection in the
registry or to one whose context is done, then to one on the list or whose context is
done; the connection that registers in between cannot read a request, since its socket is
closed. `ReturnInv` and `TableInv` then give that nothing is left after `Close`.

### The exchange

For every set of frames, message IDs, accounts, nodes and outputs of `sacctmgr`, and every
value of the bounds, under `ExchangeAssumption` (the bounds are naturals, the queue and the
cache hold at least one entry, there is a message ID for each frame), `BodiesAssumption`
(what a peer writes is a frame whose fields are texts, and only the empty text has no
bytes) and `OutputsAssumption` (what `sacctmgr` prints has a list of users, each with a
name and a list of levels):

| Theorem | States |
|---|---|
| `ExchangeInvariant` | `Spec => []ExchangeInv` |
| `ExchangeTypeCorrect` | `Spec => []TypeOK` |
| `ClaimedCommandsPassEveryCheck` | `Spec => []ClaimsPassEveryCheck` |
| `ScontrolSaysWhatWasAsked` | `Spec => []ScontrolMatchesRequest` |
| `AuthorityIsFresh` | `Spec => []FreshAuthority` |
| `AnswersAreConsistent` | `Spec => []ConsistentAnswers` |
| `NoMessageIsLost` | `Spec => []NothingLost` |
| `ShownCapabilitiesAgree` | `Spec => CapabilitiesAgree` |

Half of the argument is about the operators of `Requests`, for any text of any length:
`RequestFacts` (a payload that decodes has its fields as they were written),
`ClaimableFacts` and `LineIsAsked` (the helper's arguments are the frame's words),
`ClaimIsSound` (the decoder and `Handle` imply the ledger's rules and the schema of the
registry) and `LookupFacts` (a command is accepted exactly if its capability is among those
that the same output gives, and then that output is one clean record of an
administrator). The other half is the inductive invariant, `ExchangeInv`:

- `RowInv`: every row stands for a frame that the peer has sent and that passed every
  check, and its claim is the one made of that frame; `NamedInv`: a peer without a name
  has no row;
- `WorkInv`: the request being handled has its row, in the status its handler left it
  in, no entry in the replay cache yet, and room for one. Nothing else is read meanwhile,
  which is why the bound of the cache holds though it is tested before the handler runs;
- `ProvenInv` and `JobInv`: a row that is about to run has been proven, and every command
  line is that of a checked frame. A pending row is proven as soon as the accounting data
  says administrator, so the verdict can only be late, never early;
- `ShownInv`: the capabilities shown are what a lookup would give now;
- `ReplyInv`: the cache knows every request that was answered. `ConsistentAnswers`
  compares two answers; it follows from comparing each with the cache;
- `WireInv`: as long as the connection lives, the page's buffer and what is on its way
  hold an even number of units, so that what is written next starts with a header.
  `BodiesConcat` and `SplitAt` give that a chunk of any size moves whole messages only.

### What stays with TLC

The liveness properties, which are beyond this prover. Every invariant and action property
that a passing run checks is stated by a theorem.

## 6. Where code and documentation disagree

The first two are about `docs/architecture/4.4 Implementation-phase5.md`, the third
about `3.5 Implementation-phase1E.md` and the fourth about `3.2
Implementation-phase1B.md` beside it.

- `failed`: line 1332 demands `unknown`, not `failed`, for "a timeout after
  dispatch". The helper kills `scontrol` after `helperTimeout` and answers
  `ExecutionFailed`, which the service records and reports as `failed`, although
  the node may have changed.
- `replay`: line 1550 demands `command-outcome-unknown` with `retryable=false` for
  an uncertain outcome. A row that recovery made `unknown` has no stored error, so
  a retry is told `internal-error` with `retryable=true`. (`AtMostOnce` still
  holds: such a retry is never executed.)
- `exit`: line 797 of the phase 1E document demands that a shutdown "allow all
  connection goroutines to terminate". `Close` does wait for them, but on a goroutine
  of its own; `Serve` returns as soon as the listener is closed, and `main` then
  closes the ledger and ends the process. For commands this is the crash that
  `CommandService` allows anywhere, so its properties hold all the same.
- `second_start`: lines 260 and 261 of the phase 1B document demand that, if another
  process is listening, the server "fail rather than accidentally disrupting that
  process". `main` opens the ledger first, and `Open` rewrites every unresolved row,
  those of the running process included; only then does `Listen` find the socket in
  use. The running command's result is then refused by its row, which stays `unknown`.
  (If it is the unit whose start fails so, systemd's removal of `RuntimeDirectory` takes
  the running process's socket away as well, see `ListenersNotDisturbed`.)

## 7. Not modelled

- The channel relay (`internal/channel`), which nothing imports, and `channel.ts`, which
  wraps an object of Cockpit.
- Rendering: the page's components, the texts shown for a status or an error.
- Text itself: JSON syntax, timestamps, the computation of a fingerprint, which is taken
  to tell different requests apart. Load, memory and reason of a node are copied and
  never looked at; associations and coordinators of a user are read and never used.
- The helper's own start and its registration on D-Bus, which keep no state.
- The generated API types, beyond the two responses the program reads. The decoders of
  responses in Go, which only tests use.
- `command-status` messages, which the client understands and the service never sends;
  unmounting the provider, with which the command states are lost.
- What another program of the socket's group makes of the answers it reads.

## 8. Plan

Done: the command protocol (model, properties, proofs, refinement), the node stream (model,
properties, proofs, refinement), the server's life and shutdown (models, properties,
proofs), the page's commands (model, properties, proofs), requests from the socket to
`scontrol` and back (model, properties, proofs), and starting and ending (models,
properties, proofs), in this order because an execution repeated or denied wrongly is the worst this
program could do.

Left: nothing that a passing run checks is without a proof, apart from liveness. What
could still be added is the channel relay, once something uses it, and the composition of
`Exchange` with the faults of `CommandService`, which now meet only in the contract.
