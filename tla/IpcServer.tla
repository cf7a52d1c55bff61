----------------------------- MODULE IpcServer -----------------------------
(***************************************************************************)
(* The life of the IPC server (internal/ipc/server.go) and of the          *)
(* connections it serves (internal/connection): the accept loop of Serve,  *)
(* one goroutine and one writer per connection, and Close, which runs      *)
(* concurrently with all of them once the service is told to stop.         *)
(*                                                                         *)
(* A connection is in up to three places that Close empties one after the  *)
(* other: the server's active sockets, the stream registry and the         *)
(* connection manager.  Its goroutine enters and leaves them on its own.   *)
(***************************************************************************)
EXTENDS Naturals, Sequences, FiniteSets

CONSTANTS
    Conns,       \* bound: connections that are ever made
    NoConn,      \* the accept loop holds no connection
    QueueSize,   \* capacity of an outbound queue
    CacheSize,   \* maxCachedRequestsPerConnection
    MaxInputs    \* bound: frames from the peers and published batches

ASSUME ServerAssumption ==
    /\ NoConn \notin Conns
    /\ QueueSize \in Nat \ {0}
    /\ CacheSize \in Nat \ {0}
    /\ MaxInputs \in Nat

VARIABLES
    stopping,   \* the context of main is done
    closed,     \* Server.closed
    listening,  \* the listener is open
    serve,      \* where Serve is
    accepted,   \* the connection it holds
    closer,     \* where Close is
    toClose,    \* what its current loop has still to close
    active,     \* Server.active
    manager,    \* the connection manager
    streams,    \* the stream registry
    stage,      \* where each connection's goroutine is
    done,       \* its context is done
    open,       \* its socket is open at this end
    peer,       \* its other end is
    entries,    \* how many requests its replay cache holds
    last,       \* closeAfterResponse
    writer,     \* where its writer is, or the message it is encoding
    outbound,   \* its outbound queue
    inputs

serveVars == <<closed, listening, serve, accepted>>
closeVars == <<closer, toClose>>
tableVars == <<active, manager, streams>>
writeVars == <<writer, outbound>>
requestVars == <<entries, last>>
vars == <<stopping, closed, listening, serve, accepted, closer, toClose,
          active, manager, streams, stage, done, open, peer, entries, last,
          writer, outbound, inputs>>

-----------------------------------------------------------------------------
\* In the order of serveConnection and of its deferred calls.
Stage == {"absent", "backlog", "accepted", "starting", "identified",
          "registered", "top", "decoding", "handling", "answering",
          "refusing", "unsubscribe", "closing", "joining", "leaving", "gone"}

\* The goroutine is counted in Server.wg.
Counted == Stage \ {"absent", "backlog", "accepted", "gone"}

Message == {"event", "reply", "refusal"}

Input == inputs < MaxInputs /\ inputs' = inputs + 1

Goto(c, s) == stage' = [stage EXCEPT ![c] = s]

\* Connection.Close cancels the context and then closes the socket.
Cancel(cs) == done' = [c \in Conns |-> done[c] \/ c \in cs]

SocketCloses(c) ==
    /\ done[c] /\ open[c]
    /\ open' = [open EXCEPT ![c] = FALSE]
    /\ UNCHANGED <<stopping, serveVars, closeVars, tableVars, stage, done, peer,
                   requestVars, writeVars, inputs>>

-----------------------------------------------------------------------------
\* The peers.
Dial(c) ==
    /\ listening /\ stage[c] = "absent"
    /\ Goto(c, "backlog")
    /\ open' = [open EXCEPT ![c] = TRUE]
    /\ peer' = [peer EXCEPT ![c] = TRUE]
    /\ UNCHANGED <<stopping, serveVars, closeVars, tableVars, done, requestVars,
                   writeVars, inputs>>

HangUp(c) ==
    /\ peer[c] /\ stage[c] # "gone"
    /\ peer' = [peer EXCEPT ![c] = FALSE]
    /\ UNCHANGED <<stopping, serveVars, closeVars, tableVars, stage, done, open,
                   requestVars, writeVars, inputs>>

-----------------------------------------------------------------------------
\* Serve.
Accept(c) ==
    /\ serve = "accept" /\ listening /\ stage[c] = "backlog"
    /\ serve' = "track"
    /\ accepted' = c
    /\ Goto(c, "accepted")
    /\ UNCHANGED <<stopping, closed, listening, closeVars, tableVars, done, open,
                   peer, requestVars, writeVars, inputs>>

AcceptEnds ==
    /\ serve = "accept" /\ ~listening
    /\ serve' = "returned"
    /\ UNCHANGED <<stopping, closed, listening, accepted, closeVars, tableVars,
                   stage, done, open, peer, requestVars, writeVars, inputs>>

\* Under Server.mu: the connection is tracked and its goroutine counted, or
\* the server has been closed meanwhile.
Track ==
    /\ serve = "track"
    /\ accepted' = NoConn
    /\ IF closed
       THEN /\ serve' = "returned"
            /\ open' = [open EXCEPT ![accepted] = FALSE]
            /\ Goto(accepted, "gone")
            /\ UNCHANGED active
       ELSE /\ serve' = "accept"
            /\ active' = active \cup {accepted}
            /\ Goto(accepted, "starting")
            /\ UNCHANGED open

TrackStep ==
    /\ Track
    /\ UNCHANGED <<stopping, closed, listening, closeVars, manager, streams, done,
                   peer, requestVars, writeVars, inputs>>

-----------------------------------------------------------------------------
\* serveConnection.

\* NewConnection asks the socket for the peer's identity; the lookup may fail.
Identify(c) ==
    /\ stage[c] = "starting"
    /\ \/ open[c] /\ Goto(c, "identified")
       \/ Goto(c, "leaving")
    /\ UNCHANGED <<stopping, serveVars, closeVars, tableVars, done, open, peer,
                   requestVars, writeVars, inputs>>

\* The manager takes the connection, and the writer starts.
Register(c) ==
    /\ stage[c] = "identified"
    /\ manager' = manager \cup {c}
    /\ writer' = [writer EXCEPT ![c] = "loop"]
    /\ Goto(c, "registered")
    /\ UNCHANGED <<stopping, serveVars, closeVars, active, streams, done, open,
                   peer, requestVars, outbound, inputs>>

\* The stream registry takes it, with the baseline as its first message.  If
\* the context is done, the select of enqueue may refuse the baseline.
Subscribe(c) ==
    /\ stage[c] = "registered"
    /\ \/ /\ streams' = streams \cup {c}
          /\ outbound' = [outbound EXCEPT ![c] = Append(@, "event")]
          /\ Goto(c, "top")
       \/ /\ done[c]
          /\ Goto(c, "closing")
          /\ UNCHANGED <<streams, outbound>>
    /\ UNCHANGED <<stopping, serveVars, closeVars, active, manager, done, open,
                   peer, requestVars, writer, inputs>>

Top(c) ==
    /\ stage[c] = "top"
    /\ Goto(c, IF done[c] THEN "unsubscribe" ELSE "decoding")
    /\ UNCHANGED <<stopping, serveVars, closeVars, tableVars, done, open, peer,
                   requestVars, writeVars, inputs>>

HasRoom_OffByOne(c) == Len(outbound[c]) <= QueueSize

HasRoom(c) == Len(outbound[c]) < QueueSize

\* A request is decoded, perhaps one that the peer sent before it hung up.  A
\* message ID that the replay cache knows is answered from it; a new one is
\* dispatched while the cache has room.
Decode(c) ==
    /\ stage[c] = "decoding" /\ open[c] /\ Input
    /\ \/ /\ entries[c] > 0
          /\ Goto(c, "answering") /\ UNCHANGED last
       \/ /\ entries[c] < CacheSize
          /\ Goto(c, "handling") /\ UNCHANGED last
       \/ /\ entries[c] >= CacheSize
          /\ Goto(c, "answering") /\ last' = [last EXCEPT ![c] = TRUE]
    /\ UNCHANGED <<stopping, serveVars, closeVars, tableVars, done, open, peer,
                   entries, writeVars>>

\* The handler of the dispatcher returns.
HandleReturns(c) ==
    /\ stage[c] = "handling"
    /\ entries' = [entries EXCEPT ![c] = @ + 1]
    /\ Goto(c, "answering")
    /\ UNCHANGED <<stopping, serveVars, closeVars, tableVars, done, open, peer, last,
                   writeVars, inputs>>

Reply(c) ==
    /\ stage[c] = "answering"
    /\ \/ /\ HasRoom(c)
          /\ outbound' = [outbound EXCEPT ![c] = Append(@, "reply")]
          /\ Goto(c, IF last[c] THEN "unsubscribe" ELSE "top")
          /\ Cancel(IF last[c] THEN {c} ELSE {})
       \/ /\ done[c] \/ ~HasRoom(c)
          /\ Goto(c, "unsubscribe")
          /\ Cancel({c})
          /\ UNCHANGED outbound
    /\ UNCHANGED <<stopping, serveVars, closeVars, tableVars, open, peer,
                   requestVars, writer, inputs>>

PeerEnds(c) ==
    /\ stage[c] = "decoding" /\ open[c] /\ ~peer[c]
    /\ Goto(c, "unsubscribe")
    /\ UNCHANGED <<stopping, serveVars, closeVars, tableVars, done, open, peer,
                   requestVars, writeVars, inputs>>

\* writeConnectionResponse, up to its first select.
Refuse(c) ==
    /\ \/ /\ HasRoom(c)
          /\ outbound' = [outbound EXCEPT ![c] = Append(@, "refusal")]
          /\ Goto(c, "refusing")
       \/ /\ done[c] \/ ~HasRoom(c)
          /\ Goto(c, "unsubscribe")
          /\ UNCHANGED outbound
    /\ UNCHANGED <<stopping, serveVars, closeVars, tableVars, done, open, peer,
                   requestVars, writer>>

\* Decode fails: on a bad frame, or because the socket was closed here.
BadFrame(c) ==
    /\ stage[c] = "decoding" /\ open[c] /\ Input
    /\ Refuse(c)

SocketClosed(c) ==
    /\ stage[c] = "decoding" /\ ~open[c]
    /\ Refuse(c)
    /\ UNCHANGED inputs

\* The refusal has been written, or never will be.
Refused(c) ==
    /\ stage[c] = "refusing"
    /\ \/ done[c]
       \/ /\ writer[c] # "refusal"
          /\ \A i \in 1..Len(outbound[c]) : outbound[c][i] # "refusal"
    /\ Goto(c, "unsubscribe")
    /\ UNCHANGED <<stopping, serveVars, closeVars, tableVars, done, open, peer,
                   requestVars, writeVars, inputs>>

Unsubscribe_Forgotten(c) == UNCHANGED streams

\* The deferred calls, last one first.
Unsubscribe(c) == streams' = streams \ {c}

UnsubscribeStep(c) ==
    /\ stage[c] = "unsubscribe"
    /\ Unsubscribe(c)
    /\ Goto(c, "closing")
    /\ UNCHANGED <<stopping, serveVars, closeVars, active, manager, done, open,
                   peer, requestVars, writeVars, inputs>>

CloseOwn_OnlyWaits(c) == UNCHANGED done

CloseOwn(c) == Cancel({c})

CloseOwnStep(c) ==
    /\ stage[c] = "closing"
    /\ CloseOwn(c)
    /\ Goto(c, "joining")
    /\ UNCHANGED <<stopping, serveVars, closeVars, tableVars, open, peer,
                   requestVars, writeVars, inputs>>

\* It waits for its writer, and leaves the manager.
Join(c) ==
    /\ stage[c] = "joining" /\ writer[c] = "done"
    /\ manager' = manager \ {c}
    /\ Goto(c, "leaving")
    /\ UNCHANGED <<stopping, serveVars, closeVars, active, streams, done, open, peer,
                   requestVars, writeVars, inputs>>

Leave(c) ==
    /\ stage[c] = "leaving"
    /\ open' = [open EXCEPT ![c] = FALSE]
    /\ active' = active \ {c}
    /\ Goto(c, "gone")
    /\ UNCHANGED <<stopping, serveVars, closeVars, manager, streams, done, peer,
                   requestVars, writeVars, inputs>>

-----------------------------------------------------------------------------
\* writeConnection: look at the context, then wait for it or for a message.
WriterLooks(c) ==
    /\ writer[c] = "loop"
    /\ writer' = [writer EXCEPT ![c] = IF done[c] THEN "done" ELSE "select"]
    /\ UNCHANGED <<stopping, serveVars, closeVars, tableVars, stage, done, open,
                   peer, requestVars, outbound, inputs>>

WriterStops(c) ==
    /\ writer[c] = "select" /\ done[c]
    /\ writer' = [writer EXCEPT ![c] = "done"]
    /\ UNCHANGED <<stopping, serveVars, closeVars, tableVars, stage, done, open,
                   peer, requestVars, outbound, inputs>>

WriterTakes(c) ==
    /\ writer[c] = "select" /\ outbound[c] # <<>>
    /\ writer' = [writer EXCEPT ![c] = Head(outbound[c])]
    /\ outbound' = [outbound EXCEPT ![c] = Tail(@)]
    /\ UNCHANGED <<stopping, serveVars, closeVars, tableVars, stage, done, open,
                   peer, requestVars, inputs>>

\* Encode succeeds when the peer reads; it may never do so.
Encode(c) ==
    /\ writer[c] \in Message /\ open[c] /\ peer[c]
    /\ writer' = [writer EXCEPT ![c] = "loop"]
    /\ UNCHANGED <<stopping, serveVars, closeVars, tableVars, stage, done, open,
                   peer, requestVars, outbound, inputs>>

\* The writer closes the connection and ends.
WriteError(c) ==
    /\ writer' = [writer EXCEPT ![c] = "done"]
    /\ Cancel({c})
    /\ UNCHANGED <<stopping, serveVars, closeVars, tableVars, stage, open, peer,
                   requestVars, outbound, inputs>>

EncodeFails(c) ==
    /\ writer[c] \in Message /\ ~(open[c] /\ peer[c])
    /\ WriteError(c)

\* A baseline, a batch or a response above MaxPayloadSize, whatever the peer
\* does.  Which ones are is left open, so nothing makes this happen.
FrameTooLarge(c) ==
    /\ writer[c] \in {"event", "reply"}
    /\ WriteError(c)

\* A batch of changes is published; a stream that cannot take it is cut.
Publish ==
    /\ streams # {} /\ Input
    /\ \E refused \in SUBSET streams :
          /\ \A c \in streams :
                /\ ~HasRoom(c) => c \in refused
                /\ c \in refused => done[c] \/ ~HasRoom(c)
          /\ streams' = streams \ refused
          /\ outbound' = [c \in Conns |-> IF c \in streams \ refused
                                          THEN Append(outbound[c], "event")
                                          ELSE outbound[c]]
          /\ Cancel(refused)
    /\ UNCHANGED <<stopping, serveVars, closeVars, active, manager, stage, open,
                   peer, requestVars, writer>>

-----------------------------------------------------------------------------
\* A signal, or a synchronizer that failed.
Stop ==
    /\ ~stopping
    /\ stopping' = TRUE
    /\ UNCHANGED <<serveVars, closeVars, tableVars, stage, done, open, peer,
                   requestVars, writeVars, inputs>>

\* Close.  It marks the server closed and lists the sockets under Server.mu.
CloseBegins ==
    /\ stopping /\ closer = "idle"
    /\ closed' = TRUE
    /\ toClose' = active
    /\ closer' = "listener"
    /\ UNCHANGED <<stopping, listening, serve, accepted, tableVars, stage, done,
                   open, peer, requestVars, writeVars, inputs>>

\* Connections that nobody accepted are reset with the listener.
CloseListener ==
    /\ closer = "listener"
    /\ listening' = FALSE
    /\ closer' = "sockets"
    /\ stage' = [c \in Conns |-> IF stage[c] = "backlog" THEN "gone" ELSE stage[c]]
    /\ open' = [c \in Conns |-> open[c] /\ stage[c] # "backlog"]
    /\ UNCHANGED <<stopping, closed, serve, accepted, toClose, tableVars, done,
                   peer, requestVars, writeVars, inputs>>

CloseSocket_Skipped(c) == UNCHANGED open

CloseSocket(c) == open' = [open EXCEPT ![c] = FALSE]

CloseSocketStep(c) ==
    /\ closer = "sockets" /\ c \in toClose
    /\ CloseSocket(c)
    /\ toClose' = toClose \ {c}
    /\ UNCHANGED <<stopping, serveVars, closer, tableVars, stage, done, peer,
                   requestVars, writeVars, inputs>>

\* NodeStreamRegistry.CloseAll empties the registry, then closes the streams.
CloseStreams ==
    /\ closer = "sockets" /\ toClose = {}
    /\ closer' = "streams"
    /\ toClose' = streams
    /\ streams' = {}
    /\ UNCHANGED <<stopping, serveVars, active, manager, stage, done, open, peer,
                   requestVars, writeVars, inputs>>

\* A stream that its own connection has unregistered is not closed again.
CloseStream(c) ==
    /\ closer = "streams" /\ c \in toClose
    /\ toClose' = toClose \ {c}
    /\ Cancel(IF stage[c] \in {"closing", "joining", "leaving", "gone"}
              THEN {} ELSE {c})
    /\ UNCHANGED <<stopping, serveVars, closer, tableVars, stage, open, peer,
                   requestVars, writeVars, inputs>>

CloseManager ==
    /\ closer = "streams" /\ toClose = {}
    /\ closer' = "manager"
    /\ toClose' = manager
    /\ manager' = {}
    /\ UNCHANGED <<stopping, serveVars, active, streams, stage, done, open, peer,
                   requestVars, writeVars, inputs>>

CloseConnection(c) ==
    /\ closer = "manager" /\ c \in toClose
    /\ toClose' = toClose \ {c}
    /\ Cancel({c})
    /\ UNCHANGED <<stopping, serveVars, closer, tableVars, stage, open, peer,
                   requestVars, writeVars, inputs>>

\* All closed: wait for the goroutines, then remove the socket file.
CloseWaits ==
    /\ closer = "manager" /\ toClose = {}
    /\ closer' = "wait"
    /\ UNCHANGED <<stopping, serveVars, toClose, tableVars, stage, done, open, peer,
                   requestVars, writeVars, inputs>>

CloseReturns ==
    /\ closer = "wait"
    /\ \A c \in Conns : stage[c] \notin Counted
    /\ closer' = "returned"
    /\ UNCHANGED <<stopping, serveVars, toClose, tableVars, stage, done, open, peer,
                   requestVars, writeVars, inputs>>

-----------------------------------------------------------------------------
Init ==
    /\ stopping = FALSE /\ closed = FALSE /\ listening = TRUE
    /\ serve = "accept" /\ accepted = NoConn
    /\ closer = "idle" /\ toClose = {}
    /\ active = {} /\ manager = {} /\ streams = {}
    /\ stage = [c \in Conns |-> "absent"]
    /\ done = [c \in Conns |-> FALSE]
    /\ open = [c \in Conns |-> FALSE]
    /\ peer = [c \in Conns |-> FALSE]
    /\ entries = [c \in Conns |-> 0]
    /\ last = [c \in Conns |-> FALSE]
    /\ writer = [c \in Conns |-> "none"]
    /\ outbound = [c \in Conns |-> <<>>]
    /\ inputs = 0

PeerStep(c) == Dial(c) \/ HangUp(c) \/ Decode(c) \/ BadFrame(c) \/ Encode(c)

ServeStep == (\E c \in Conns : Accept(c)) \/ AcceptEnds \/ TrackStep

\* What the connection's goroutine does without the help of the peer.
ConnStep(c) ==
    \/ Identify(c) \/ Register(c) \/ Subscribe(c) \/ Top(c)
    \/ HandleReturns(c) \/ Reply(c) \/ PeerEnds(c) \/ SocketClosed(c)
    \/ Refused(c) \/ UnsubscribeStep(c) \/ CloseOwnStep(c) \/ Join(c)
    \/ Leave(c)

WriterStep(c) ==
    WriterLooks(c) \/ WriterStops(c) \/ WriterTakes(c) \/ EncodeFails(c)

CloseStep ==
    \/ CloseBegins \/ CloseListener \/ CloseStreams \/ CloseManager
    \/ CloseWaits \/ CloseReturns
    \/ \E c \in Conns : CloseSocketStep(c) \/ CloseStream(c) \/ CloseConnection(c)

Next ==
    \/ \E c \in Conns : PeerStep(c) \/ ConnStep(c) \/ WriterStep(c)
                        \/ FrameTooLarge(c) \/ SocketCloses(c)
    \/ ServeStep \/ CloseStep \/ Stop \/ Publish

Spec == Init /\ [][Next]_vars

\* Every goroutine that can run is run, and a handler whose request goes on
\* returns.  Nothing is asked of the peers, who may neither send nor read.
Fairness ==
    /\ WF_vars(ServeStep) /\ WF_vars(CloseStep)
    /\ \A c \in Conns : /\ WF_vars(ConnStep(c))
                        /\ WF_vars(WriterStep(c))
                        /\ WF_vars(SocketCloses(c))

FairSpec == Spec /\ Fairness

-----------------------------------------------------------------------------
\* Every variable keeps its type, and no outbound queue exceeds its capacity.
TypeOK ==
    /\ {stopping, closed, listening} \subseteq BOOLEAN
    /\ serve \in {"accept", "track", "returned"}
    /\ accepted \in Conns \cup {NoConn}
    /\ closer \in {"idle", "listener", "sockets", "streams", "manager", "wait",
                   "returned"}
    /\ active \subseteq Conns /\ manager \subseteq Conns
    /\ streams \subseteq Conns /\ toClose \subseteq Conns
    /\ stage \in [Conns -> Stage]
    /\ {done, open, peer, last} \subseteq [Conns -> BOOLEAN]
    /\ entries \in [Conns -> 0..CacheSize]
    /\ writer \in [Conns -> Message \cup {"none", "loop", "select", "done"}]
    /\ \A c \in Conns : /\ outbound[c] \in Seq(Message)
                        /\ Len(outbound[c]) <= QueueSize
    /\ inputs \in 0..MaxInputs

\* When Close waits for the goroutines, the context of every request still
\* being handled is done, so that its handler gives up: a connection whose
\* goroutine enters the manager or the registry too late for CloseAll has no
\* socket left to read a request from.
HandlersCancelled ==
    closer \in {"wait", "returned"} =>
        \A c \in Conns : stage[c] = "handling" => done[c]

\* Close returns to a clean server: no goroutine, writer, open socket or table
\* entry of any connection is left, those that were being set up while it ran
\* included.
CleanAfterClose ==
    closer = "returned" =>
        /\ active = {} /\ manager = {} /\ streams = {}
        /\ \A c \in Conns : writer[c] \in {"none", "done"}
        /\ \A c \in Conns : open[c] => stage[c] = "accepted"

\* Once the service is told to stop, Close returns, whatever the connections
\* are doing and although no peer reads or hangs up.
ShutdownCompletes == stopping ~> closer = "returned"

\* A connection that was closed here or whose peer has gone ends, even if its
\* writer waits for a message or for a peer that does not read.
ConnectionsEnd ==
    \A c \in Conns :
        stage[c] \in Counted /\ (done[c] \/ ~peer[c]) ~> stage[c] = "gone"
=============================================================================
