----------------------------- MODULE NodeStream -----------------------------
(***************************************************************************)
(* The Node stream from the cache to the browser: the stream registry      *)
(* (internal/stream/node_registry.go), the connections that carry it       *)
(* (internal/ipc/server.go, internal/connection) with their bounded        *)
(* outbound queues and writers, and the provider in the page that opens a  *)
(* channel, applies what arrives and reconnects (src/node-provider.tsx,    *)
(* src/ipc/node-stream.ts).                                                *)
(*                                                                         *)
(* Commits and registrations hold publicationMu, so each is one step.  A   *)
(* commit that met full queues keeps it until it has closed those streams. *)
(***************************************************************************)
EXTENDS NodeCache, Sequences, FiniteSets

CONSTANTS
    Clients,     \* mounted node providers
    Conns,       \* bound: connections that exist at a time
    NoConn,      \* the channel of a provider that has none
    QueueSize,   \* capacity of an outbound queue
    WireSize,    \* bound: messages in the socket, the one being written included
    FrameRows,   \* MaxPayloadSize: the nodes a frame has room for
    MaxUpsets    \* bound: changes, failures, requests, timeouts and crashes

ASSUME StreamAssumption ==
    /\ NoConn \notin Conns
    /\ QueueSize \in Nat \ {0}
    /\ WireSize \in Nat \ {0}
    /\ FrameRows \in Nat
    /\ MaxUpsets \in Nat

VARIABLES
    up,        \* the service is running
    stage,     \* the life of each connection in the server
    streams,   \* the registry: the connections subscribed to changes
    slow,      \* streams that Publish has removed and not yet closed
    queue,     \* the outbound queue of each connection
    wire,      \* its messages on the way to the client
    channel,   \* the current channel of each provider
    timer,     \* its reconnect timer runs
    view,      \* its stream state: what the page shows
    log,       \* history: the contents the cache has had, oldest first
    at,        \* history: the place in log of what a provider applied last
    upsets

connVars == <<stage, streams, slow, queue>>
clientVars == <<channel, timer, view, at>>
vars == <<slurm, version, refreshMu, listed, nodes, generation, committed,
          up, stage, streams, slow, queue, wire, channel, timer, view, at,
          log, upsets>>

-----------------------------------------------------------------------------
\* accepted: not registered yet.  serving: its context is alive.  closing:
\* its context is done, its goroutine has not returned.
Stage == {"free", "accepted", "serving", "closing"}

NoChanges == [n \in {} |-> NoRow]

NoNodes == [n \in Nodes |-> NoRow]

\* In a message, place is history: that of the cache's contents in log.
Snapshot == [kind |-> "snapshot", gen |-> generation,
             changes |-> NoChanges, rows |-> nodes, place |-> Len(log)]

ChangeBatch(cond) == [kind |-> "changes", gen |-> generation + 1,
                      changes |-> nodeChanges(cond), rows |-> NoNodes,
                      place |-> Len(log) + 1]

Response == [kind |-> "response", gen |-> 0, changes |-> NoChanges,
             rows |-> NoNodes, place |-> 0]

NoView == [has |-> FALSE, gen |-> 0, nodes |-> NoNodes]

Upset == upsets < MaxUpsets /\ upsets' = upsets + 1

-----------------------------------------------------------------------------
\* The cluster and the refreshes.
SlurmStep(n, cond) ==
    /\ Upset
    /\ SlurmChanges(n, cond)
    /\ UNCHANGED <<log, cacheVars, refreshVars, up, connVars, wire, clientVars>>

StartRefresh(r) ==
    /\ up
    /\ ListNodes(r)
    /\ UNCHANGED <<log, slurmVars, cacheVars, up, connVars, wire, clientVars, upsets>>

AbandonRefresh(r) ==
    /\ up /\ Upset
    /\ RefreshFails(r)
    /\ UNCHANGED <<log, slurmVars, up, connVars, wire, clientVars>>

HasRoom_OffByOne(c) == Len(queue[c]) <= QueueSize

HasRoom(c) == Len(queue[c]) < QueueSize

\* The streams that refuse a message: the full ones, and any whose context is
\* done, for enqueue then picks either case of its select.
Refusals_Everyone ==
    LET full == {c \in streams : stage[c] = "serving" /\ ~HasRoom(c)}
        ending == {c \in streams : stage[c] = "closing"}
    IN  {IF full = {} THEN lost ELSE streams : lost \in SUBSET ending}

Refusals ==
    LET full == {c \in streams : stage[c] = "serving" /\ ~HasRoom(c)}
        ending == {c \in streams : stage[c] = "closing"}
    IN  {full \cup lost : lost \in SUBSET ending}

Publish_SkipsFull(batch) ==
    /\ UNCHANGED <<streams, slow>>
    /\ queue' = [c \in Conns |->
                   IF c \in streams /\ stage[c] = "serving" /\ HasRoom(c)
                   THEN Append(queue[c], batch) ELSE queue[c]]

\* Nobody writes the queue of a connection whose context is done.
Publish(batch) ==
    \E refused \in Refusals :
        /\ streams' = streams \ refused
        /\ slow' = slow \cup refused
        /\ queue' = [c \in Conns |->
                       IF c \in streams \ refused /\ stage[c] = "serving"
                       THEN Append(queue[c], batch) ELSE queue[c]]

\* ReplaceSnapshotAndPublish, under publicationMu.
Commit(r) ==
    /\ up /\ slow = {}
    /\ RefreshCommits(r)
    /\ IF Changed(listed[r].cond) = {}
       THEN UNCHANGED <<streams, slow, queue, log>>
       ELSE /\ Publish(ChangeBatch(listed[r].cond))
            /\ log' = Append(log, nodes')
    /\ UNCHANGED <<slurmVars, up, stage, wire, clientVars, upsets>>

-----------------------------------------------------------------------------
\* The connections.
Abandoned(c) == \A p \in Clients : channel[p] # c

\* Connection.Close: the context is done.
CloseConnection(c) == stage' = [stage EXCEPT ![c] = "closing"]

\* Publish closes a stream that refused the batch.
CloseSlow(c) ==
    /\ c \in slow
    /\ slow' = slow \ {c}
    /\ CloseConnection(c)

SlowStep(c) ==
    /\ CloseSlow(c)
    /\ UNCHANGED <<log, slurmVars, cacheVars, refreshVars, up, streams, queue, wire,
                   clientVars, upsets>>

\* The baseline enters an empty queue of a live context: it always fits.
Register(c) ==
    /\ up /\ stage[c] = "accepted" /\ slow = {}
    /\ stage' = [stage EXCEPT ![c] = "serving"]
    /\ streams' = streams \cup {c}
    /\ queue' = [queue EXCEPT ![c] = <<Snapshot>>]
    /\ UNCHANGED <<log, slurmVars, cacheVars, refreshVars, up, slow, wire, clientVars,
                   upsets>>

\* The payload of a message, in nodes: those of a baseline, or the changes of
\* a batch, each with its row.
Size(m) == Cardinality({n \in Nodes : m.rows[n] # NoRow} \cup DOMAIN m.changes)

Fits(m) == Size(m) <= FrameRows

\* The writer takes the next message; Encode blocks while the socket is full.
Write(c) ==
    /\ stage[c] = "serving" /\ ~Abandoned(c)
    /\ queue[c] # <<>> /\ Len(wire[c]) < WireSize /\ Fits(Head(queue[c]))
    /\ wire' = [wire EXCEPT ![c] = Append(@, Head(queue[c]))]
    /\ queue' = [queue EXCEPT ![c] = Tail(@)]
    /\ UNCHANGED <<log, slurmVars, cacheVars, refreshVars, up, stage, streams, slow,
                   clientVars, upsets>>

EncodeFails_DropsMessage(c) ==
    /\ stage[c] = "serving" /\ ~Abandoned(c)
    /\ queue[c] # <<>> /\ ~Fits(Head(queue[c]))
    /\ queue' = [queue EXCEPT ![c] = Tail(@)]
    /\ UNCHANGED <<log, slurmVars, cacheVars, refreshVars, up, stage, streams, slow, wire,
                   clientVars, upsets>>

\* Encode refuses a message above MaxPayloadSize before it writes anything,
\* and the writer closes the connection of a page that is still there.
\* Nobody reads the rest of the queue.
EncodeFails(c) ==
    /\ stage[c] = "serving" /\ ~Abandoned(c)
    /\ queue[c] # <<>> /\ ~Fits(Head(queue[c]))
    /\ CloseConnection(c)
    /\ UNCHANGED <<log, slurmVars, cacheVars, refreshVars, up, streams, slow, queue,
                   wire, clientVars, upsets>>

\* A request has been dispatched: its response joins the queue, or the
\* connection is closed, at once or because the response is too large for a
\* frame.  It is also closed after the last request that the replay cache has
\* room for.
Respond(c) ==
    /\ stage[c] = "serving" /\ Upset
    /\ IF HasRoom(c)
       THEN /\ queue' = [queue EXCEPT ![c] = Append(@, Response)]
            /\ UNCHANGED stage \/ CloseConnection(c)
       ELSE CloseConnection(c) /\ UNCHANGED queue
    /\ UNCHANGED <<log, slurmVars, cacheVars, refreshVars, up, streams, slow, wire,
                   clientVars>>

\* The reader meets the end of the stream, or the writer an error.
PeerGone(c) ==
    /\ stage[c] = "serving" /\ Abandoned(c)
    /\ CloseConnection(c)
    /\ UNCHANGED <<log, slurmVars, cacheVars, refreshVars, up, streams, slow, queue,
                   wire, clientVars, upsets>>

EndConnection_KeepsStream(c) ==
    /\ stage[c] = "closing"
    /\ stage' = [stage EXCEPT ![c] = "free"]
    /\ slow' = slow \ {c}
    /\ queue' = [queue EXCEPT ![c] = <<>>]
    /\ UNCHANGED <<log, streams, slurmVars, cacheVars, refreshVars, up, wire,
                   clientVars, upsets>>

\* serveConnection returns: the deferred Unregister.  A Close of the same
\* stream that comes later does nothing (sync.Once).
EndConnection(c) ==
    /\ stage[c] = "closing"
    /\ stage' = [stage EXCEPT ![c] = "free"]
    /\ streams' = streams \ {c}
    /\ slow' = slow \ {c}
    /\ queue' = [queue EXCEPT ![c] = <<>>]
    /\ UNCHANGED <<log, slurmVars, cacheVars, refreshVars, up, wire, clientVars,
                   upsets>>

-----------------------------------------------------------------------------
\* The provider in the page.
scheduleReconnect(p) == timer' = [timer EXCEPT ![p] = TRUE]

\* Nothing of a channel that has been given up is looked at again.
Abandon(p) ==
    /\ channel' = [channel EXCEPT ![p] = NoConn]
    /\ wire' = [c \in Conns |-> IF c = channel[p] THEN <<>> ELSE wire[c]]

closeCurrentChannel(p) == Abandon(p) /\ scheduleReconnect(p)

Baseline_Kept(p) == view[p]

\* The page keeps showing the old nodes until the new baseline arrives.
Baseline(p) == [view[p] EXCEPT !.has = FALSE]

\* The reconnect timer fires.  Without a service the channel is stillborn.
openChannel(p) ==
    /\ timer[p] /\ channel[p] = NoConn
    /\ \E c \in Conns :
          /\ stage[c] = "free" /\ Abandoned(c)
          /\ channel' = [channel EXCEPT ![p] = c]
          /\ stage' = [stage EXCEPT ![c] = IF up THEN "accepted" ELSE "free"]
    /\ timer' = [timer EXCEPT ![p] = FALSE]
    /\ view' = [view EXCEPT ![p] = Baseline(p)]
    /\ UNCHANGED <<log, slurmVars, cacheVars, refreshVars, up, streams, slow, queue,
                   wire, at, upsets>>

\* The channel cannot be created, or the server turns it away at once.
openFails(p) ==
    /\ Upset
    /\ timer[p] /\ channel[p] = NoConn
    /\ view' = [view EXCEPT ![p] = Baseline(p)]
    /\ scheduleReconnect(p)
    /\ UNCHANGED <<log, slurmVars, cacheVars, refreshVars, up, connVars, wire, channel,
                   at>>

onclose_WithoutRetry(p) == Abandon(p) /\ UNCHANGED timer

onclose(p) == Abandon(p) /\ scheduleReconnect(p)

\* The server's end of the channel is closed.  What was still under way may
\* be lost.
ChannelCloses(p) ==
    /\ channel[p] # NoConn
    /\ stage[channel[p]] \in {"closing", "free"}
    /\ onclose(p)
    /\ UNCHANGED <<log, slurmVars, cacheVars, refreshVars, up, connVars, view, at,
                   upsets>>

\* applyNodeStreamMessage: what it accepts, and what it returns.
Applicable(v, m) ==
    IF m.kind = "snapshot" THEN ~v.has
    ELSE /\ v.has
         /\ m.gen = v.gen + 1
         /\ \A n \in DOMAIN m.changes :
               m.changes[n].kind = "added" <=> v.nodes[n] = NoRow

Patched_KeepsRemoved(v, changes) ==
    [n \in Nodes |-> IF n \in DOMAIN changes THEN changes[n].row ELSE v.nodes[n]]

Patched(v, changes) ==
    [n \in Nodes |->
        IF n \notin DOMAIN changes THEN v.nodes[n]
        ELSE IF changes[n].kind = "removed" THEN NoRow ELSE changes[n].row]

applyNodeStreamMessage(v, m) ==
    [has |-> TRUE, gen |-> m.gen,
     nodes |-> IF m.kind = "snapshot" THEN m.rows ELSE Patched(v, m.changes)]

\* onmessage: responses settle a pending request and leave the view alone.
Receive(p) ==
    /\ channel[p] # NoConn /\ wire[channel[p]] # <<>>
    /\ LET m == Head(wire[channel[p]])
       IN  IF m.kind # "response" /\ ~Applicable(view[p], m)
           THEN closeCurrentChannel(p) /\ UNCHANGED <<view, at>>
           ELSE /\ wire' = [wire EXCEPT ![channel[p]] = Tail(@)]
                /\ IF m.kind = "response" THEN UNCHANGED <<view, at>>
                   ELSE /\ view' = [view EXCEPT
                                      ![p] = applyNodeStreamMessage(@, m)]
                        /\ at' = [at EXCEPT ![p] = m.place]
                /\ UNCHANGED <<channel, timer>>
    /\ UNCHANGED <<log, slurmVars, cacheVars, refreshVars, up, connVars, upsets>>

\* The baseline did not come in time, or the user asks for a reconnect; the
\* latter restarts a timer that is already running.
SnapshotTimeout(p) ==
    /\ Upset
    /\ channel[p] # NoConn /\ ~view[p].has
    /\ closeCurrentChannel(p)
    /\ UNCHANGED <<log, slurmVars, cacheVars, refreshVars, up, connVars, view, at>>

forceReconnect(p) ==
    /\ Upset
    /\ closeCurrentChannel(p)
    /\ UNCHANGED <<log, slurmVars, cacheVars, refreshVars, up, connVars, view, at>>

-----------------------------------------------------------------------------
\* The service stops, or dies, with every connection; the cache is memory.
Crash ==
    /\ up /\ Upset
    /\ up' = FALSE
    /\ stage' = [c \in Conns |-> "free"]
    /\ streams' = {} /\ slow' = {}
    /\ queue' = [c \in Conns |-> <<>>]
    /\ RefreshDies
    /\ UNCHANGED <<log, slurmVars, cacheVars, wire, clientVars>>

Restart ==
    /\ ~up
    /\ up' = TRUE
    /\ CacheRestart
    /\ log' = Append(log, nodes')
    /\ UNCHANGED <<connVars, wire, clientVars, upsets>>

Init ==
    /\ CacheInit
    /\ up = TRUE
    /\ stage = [c \in Conns |-> "free"]
    /\ streams = {} /\ slow = {}
    /\ queue = [c \in Conns |-> <<>>]
    /\ wire = [c \in Conns |-> <<>>]
    /\ channel = [p \in Clients |-> NoConn]
    /\ timer = [p \in Clients |-> TRUE]   \* about to open the first channel
    /\ view = [p \in Clients |-> NoView]
    /\ at = [p \in Clients |-> 0] /\ log = <<nodes>>
    /\ upsets = 0

ConnStep(c) ==
    \/ SlowStep(c) \/ Register(c) \/ Write(c) \/ EncodeFails(c)
    \/ PeerGone(c) \/ EndConnection(c)

ClientStep(p) == openChannel(p) \/ ChannelCloses(p) \/ Receive(p)

Next ==
    \/ \E n \in Nodes, cond \in Conditions \cup {Gone} : SlurmStep(n, cond)
    \/ \E r \in Refreshers : StartRefresh(r) \/ AbandonRefresh(r) \/ Commit(r)
    \/ \E c \in Conns : ConnStep(c) \/ Respond(c)
    \/ \E p \in Clients : \/ ClientStep(p) \/ openFails(p)
                          \/ SnapshotTimeout(p) \/ forceReconnect(p)
    \/ Crash \/ Restart

Spec == Init /\ [][Next]_vars

\* The ticker of Run fires for ever and refreshMu does not starve it; every
\* goroutine, the page's event loop and the service manager make progress.
Fairness ==
    /\ SF_vars(StartRefresh(Ticker))
    /\ \A r \in Refreshers : WF_vars(Commit(r))
    /\ \A c \in Conns : WF_vars(ConnStep(c))
    /\ \A p \in Clients : WF_vars(ClientStep(p))
    /\ WF_vars(Restart)

FairSpec == Spec /\ Fairness

-----------------------------------------------------------------------------
\* Every variable keeps its type, and no outbound queue or socket holds more
\* than its capacity.
TypeOK ==
    /\ CacheTypeOK
    /\ up \in BOOLEAN
    /\ stage \in [Conns -> Stage]
    /\ streams \subseteq Conns /\ slow \subseteq Conns
    /\ \A c \in Conns : /\ Len(queue[c]) <= QueueSize
                        /\ Len(wire[c]) <= WireSize
    /\ channel \in [Clients -> Conns \cup {NoConn}]
    /\ timer \in [Clients -> BOOLEAN]
    /\ \A p \in Clients : view[p].has \in BOOLEAN /\ view[p].nodes \in Rows
    /\ upsets \in 0..MaxUpsets

Feed == INSTANCE NodeFeed WITH States <- Rows, Pages <- Clients, Nothing <- NoNodes,
                               shown <- [p \in Clients |-> view[p].nodes]

\* What a page shows, built from one baseline and the changes since, is
\* exactly the cache as it was after one of its commits (added, updated and
\* removed nodes and their generations included), and it never goes back to
\* an earlier one, whatever was cut, lost or restarted in between: the cache,
\* the registry, the connections and node-stream.ts implement NodeFeed.
PagesFollowFeed == Feed!Spec

\* The stream never breaks its own protocol: a page never finds a second
\* baseline, a change before the baseline, a generation gap, an added node
\* it has or an updated node it lacks.  applyNodeStreamMessage never throws.
StreamNeverBreaks ==
    \A p \in Clients :
        channel[p] # NoConn /\ wire[channel[p]] # <<>> =>
            LET m == Head(wire[channel[p]])
            IN  m.kind = "response" \/ Applicable(view[p], m)

\* What is on its way to the client of a connection, and the stream events in it.
Pending(c) == wire[c] \o queue[c]
Events(s) == {i \in 1 .. Len(s) : s[i].kind # "response"}

\* A subscribed client misses nothing: once it has applied what is on its
\* way, it shows the cache as it is now.  A stream that lost a batch is not
\* left in the registry.
NothingMissed ==
    \A p \in Clients :
        channel[p] \in streams /\ stage[channel[p]] = "serving" =>
            LET s == Pending(channel[p])
            IN  /\ Events(s) = {} =>
                      view[p] = [has |-> TRUE, gen |-> generation, nodes |-> nodes]
                /\ \A i \in Events(s) : (\A j \in Events(s) : j <= i) =>
                      s[i].gen = generation /\ log[s[i].place] = nodes

\* A provider has a channel or a running reconnect timer, never neither (it
\* would stay disconnected) nor both (it would open a second channel).
ChannelOrTimer == \A p \in Clients : channel[p] = NoConn <=> timer[p]

\* The registry holds only connections that are being served: a connection
\* that ends in any way takes its stream with it.
NoStreamLeaks == \A c \in streams : stage[c] \in {"serving", "closing"}

\* A stream is cut because its own queue is full or its own connection
\* ends: a slow client costs nobody else the stream.
OnlySlowStreamsAreCut ==
    [][\A c \in streams \ streams' :
            stage[c] = "closing" \/ ~HasRoom(c) \/ ~up']_vars

\* Refreshes commit what they listed in the order they listed it: a listing
\* taken before another one is never committed after it.
CommitsInOrder == [][committed' >= committed]_vars

\* The cluster has more nodes than a frame has room for: no baseline of it
\* reaches a page.
ClusterTooLarge == Cardinality({n \in Nodes : slurm[n] # Gone}) > FrameRows

\* Once the cluster is quiet and the upsets are over, every page comes to
\* show the cluster as it is, and stays connected, unless the cluster is too
\* large for a frame (codec.go then refuses every baseline, and the page
\* reconnects for ever).  A change batch that is too large costs a reconnect
\* and no more.
ClientsConverge ==
    \A p \in Clients :
        <>[](\/ ClusterTooLarge
             \/ /\ view[p].has /\ channel[p] # NoConn
                /\ \A n \in Nodes : view[p].nodes[n].cond = slurm[n])
=============================================================================
