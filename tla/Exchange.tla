------------------------------ MODULE Exchange ------------------------------
(***************************************************************************)
(* One connection between a peer and the service, from the frames the peer *)
(* writes to the scontrol command line and back to the page's promises:    *)
(*   - the page's IpcClient and FrameDecoder (src/ipc), or another program *)
(*     of the socket's group, which may write any frame;                   *)
(*   - serveConnection, its decoder, the replay cache and the writer       *)
(*     (internal/ipc, internal/protocol);                                  *)
(*   - the dispatcher and its handlers, with the checks of Requests;       *)
(*   - the node helper.                                                    *)
(* The ledger is the map CommandContract promises, without its faults and  *)
(* without a second handler on the same command: CommandService has those. *)
(* What a handler still does once its connection has ended is there too.   *)
(***************************************************************************)
EXTENDS Requests, FiniteSets, Functions

CONSTANTS
  Usual,       \* bodies of the well-formed requests
  Odd,         \* bodies that deviate in one place
  MessageIds,  \* the message IDs, in the order in which they come into use
  Users,       \* the accounts a peer may have; "" is one without a name
  Nodes,       \* the names in the node cache
  Usually,     \* what sacctmgr prints of an administrator
  Outputs,     \* what sacctmgr may print
  MaxSends,    \* frames a peer writes; an upset takes the place of one
  MaxInFlight, \* frames on their way to the service at a time
  MaxUpsets,   \* bound on what is out of the ordinary in one behaviour: an odd
               \* body, a change of the accounting data or of the cluster, a
               \* timeout, a peer that hangs up or has an unusable account
  CacheSize,   \* maxCachedRequestsPerConnection
  QueueSize    \* DefaultNodeStreamQueueSize

ASSUME ExchangeAssumption ==
  /\ MaxSends \in Nat /\ MaxInFlight \in Nat /\ MaxUpsets \in Nat \ {0}
  /\ CacheSize \in Nat \ {0} /\ QueueSize \in Nat \ {0}
  /\ MessageIds \in Seq(STRING) /\ Len(MessageIds) >= MaxSends

\* What a peer writes is a frame, whose fields are texts.
ASSUME BodiesAssumption ==
  \A body \in Usual \cup Odd :
    /\ body \in [length : {"zero", "ok", "huge"}, json : BOOLEAN, extra : BOOLEAN,
                 protocol : STRING, version : STRING, messageId : STRING, type : STRING,
                 payload : {body.payload}]
    /\ \A name \in DOMAIN body.payload.fields : IsText(body.payload.fields[name])

ASSUME OutputsAssumption ==
  /\ Usually \in Outputs
  /\ \A out \in Outputs : out.users \in Seq([name : STRING, levels : Seq(STRING)])

VARIABLES
  peer,      \* "page" or "other"
  user,      \* the account behind the socket, by SO_PEERCRED
  page,      \* the peer's end: "open" or "closed"
  sent,      \* every frame written so far
  up,        \* frames on their way to the service
  conn,      \* the service's end: "accepted", "open", "ending", "cut", "closed"
  replies,   \* requestReplayCache
  work,      \* the request being handled
  rows,      \* the caller's rows in the ledger
  jobs,      \* scontrol command lines, in the order run
  outbound,  \* the connection's outbound queue
  down,      \* headers and bodies on their way to the peer
  buffer,    \* FrameDecoder.buffer
  inbox,     \* messages the page's decoder has returned
  pending,   \* IpcClient.pending
  sacct,     \* what sacctmgr prints now
  big,       \* whether a snapshot is larger than MaxPayloadSize now
  upsets,    \* upsets so far
  handled,   \* history: the requests answered, with their answers
  written,   \* history: messages written in full
  proven,    \* history: commands whose caller was administrator since the claim
  shown      \* history: the capabilities last answered, while still current

clientVars == <<page, sent, up, buffer, inbox, pending>>
wireVars   == <<outbound, down, written>>
stateVars  == <<replies, rows, jobs>>
worldVars  == <<sacct, big>>
vars == <<peer, user, clientVars, conn, work, stateVars, wireVars, worldVars,
          upsets, handled, proven, shown>>

-----------------------------------------------------------------------------
(* Messages.                                                                *)

NoAnswer == [id |-> "", type |-> "", code |-> "", grants |-> {}, large |-> FALSE]
NewEnvelope(id, type) == [NoAnswer EXCEPT !.id = id, !.type = type]
NewErrorEnvelope(id, code) == [NoAnswer EXCEPT !.id = id, !.type = "error", !.code = code]
snapshotEnvelope(id, type) == [NewEnvelope(id, type) EXCEPT !.large = big]

Idle == [step |-> "idle", frame |-> <<>>, request |-> NoRequest]

\* requestFingerprint: everything but the message ID and the timestamp.
requestFingerprint(frame) == <<frame.protocol, frame.version, frame.type, frame.payload>>

\* The reference for "administrator": exactly one clean record, of this user.
IsAdministrator(out) ==
  /\ out.ran /\ out.json /\ out.usersIsArray /\ ~out.errors
  /\ \E level \in {"Administrator", "Admin"} :
       out.users = <<[name |-> user, levels |-> <<level>>]>>

\* A map with one entry more, or with another value for the one it has.
With(map, key, value) == [k \in DOMAIN map \cup {key} |-> IF k = key THEN value ELSE map[k]]

Upset == upsets < MaxUpsets /\ upsets' = upsets + 1

-----------------------------------------------------------------------------
(* The peer.                                                                *)

Frame(body, id) == [body EXCEPT !.messageId = IF @ = "" THEN "" ELSE id]

\* IpcClient.send: the page makes a fresh ID for every request and validates
\* the envelope; encodeFrame sets the length and JSON.stringify the fields.
\* Another program writes what it likes, under IDs old and new.
Writable(frame) ==
  peer = "page" =>
    /\ frame.messageId = MessageIds[Len(sent) + 1]
    /\ frame.length = "ok" /\ frame.json /\ ~frame.extra
    /\ validateEnvelope(frame) /\ frame.payload.shape # "missing"

SendOneOf(bodies) ==
  /\ page = "open" /\ Len(up) < MaxInFlight /\ Len(sent) + upsets' < MaxSends
  /\ \E body \in bodies, i \in 1 .. Len(sent) + 1 :
       LET frame == Frame(body, MessageIds[i])
       IN /\ Writable(frame)
          /\ sent' = Append(sent, frame)
          /\ up' = Append(up, frame)
          /\ pending' = IF peer = "page" THEN pending \cup {frame.messageId} ELSE pending
  /\ UNCHANGED <<peer, user, page, buffer, inbox, conn, work, stateVars, wireVars,
                 worldVars, handled, proven, shown>>

SendUsual == UNCHANGED upsets /\ SendOneOf(Usual)
SendOdd   == Upset /\ SendOneOf(Odd)

\* The timer of a request: the answer, when it comes, has no promise left.
TimesOut(id) ==
  /\ Upset /\ id \in pending
  /\ pending' = pending \ {id}
  /\ UNCHANGED <<peer, user, page, sent, up, buffer, inbox, conn, work, stateVars,
                 wireVars, worldVars, handled, proven, shown>>

\* IpcClient.close, or the peer's death.
HangUp ==
  /\ Upset /\ page = "open"
  /\ page' = "closed" /\ pending' = {}
  /\ UNCHANGED <<peer, user, sent, up, buffer, inbox, conn, work, stateVars, wireVars,
                 worldVars, handled, proven, shown>>

\* FrameDecoder.push on buffer \o chunk, a sequence that alternates headers and
\* bodies.  A header above the limit throws: the frames before it are lost and
\* the buffer keeps it.
push(data) ==
  LET bad   == {i \in DOMAIN data : data[i].part = "head" /\ data[i].answer.large}
      whole == Len(data) \div 2
  IN IF bad = {}
     THEN [thrown |-> FALSE, frames |-> [i \in 1 .. whole |-> data[2 * i].answer],
           rest |-> SubSeq(data, 2 * whole + 1, Len(data))]
     ELSE [thrown |-> TRUE, frames |-> <<>>,
           rest |-> SubSeq(data, CHOOSE i \in bad : \A j \in bad : i <= j, Len(data))]

\* channel.onmessage with a chunk: one write of the service, or all there is.
\* A throw rejects every pending request; the channel stays open.
Receive ==
  /\ page = "open" /\ down # <<>>
  /\ \E n \in {1, Len(down)} :
       LET pushed == push(buffer \o SubSeq(down, 1, n))
       IN /\ down' = SubSeq(down, n + 1, Len(down))
          /\ buffer' = pushed.rest
          /\ inbox' = inbox \o pushed.frames
          /\ pending' = IF pushed.thrown THEN {}
                        ELSE pending \ {pushed.frames[i].id : i \in DOMAIN pushed.frames}
  /\ UNCHANGED <<peer, user, page, sent, up, conn, work, stateVars, outbound,
                 written, worldVars, upsets, handled, proven, shown>>

\* channel.onclose, after everything the service wrote.
ChannelCloses ==
  /\ page = "open" /\ conn = "closed" /\ down = <<>>
  /\ page' = "closed" /\ pending' = {}
  /\ UNCHANGED <<peer, user, sent, up, buffer, inbox, conn, work, stateVars, wireVars,
                 worldVars, upsets, handled, proven, shown>>

-----------------------------------------------------------------------------
(* The connection's goroutines.                                             *)

\* NewConnection and the stream's registration: a peer without an account name
\* is refused; the node snapshot is the first message of every connection.
Accept ==
  /\ conn = "accepted"
  /\ IF user = "" THEN conn' = "closed" /\ UNCHANGED outbound
     ELSE conn' = "open" /\ outbound' = <<snapshotEnvelope("NODE", "event")>>
  /\ UNCHANGED <<peer, user, clientVars, work, stateVars, down, written,
                 worldVars, upsets, handled, proven, shown>>

Enqueue_AlwaysQueues(answer) == outbound' = Append(outbound, answer) /\ UNCHANGED conn

Enqueue_Drops(answer) ==
  /\ outbound' = IF Len(outbound) < QueueSize - 1 THEN Append(outbound, answer) ELSE outbound
  /\ UNCHANGED conn

\* enqueue: a full queue costs the peer its connection.
Enqueue(answer) ==
  IF Len(outbound) < QueueSize
  THEN outbound' = Append(outbound, answer) /\ UNCHANGED conn
  ELSE conn' = "closed" /\ UNCHANGED outbound

\* One request has its answer: the cache keeps it, the queue takes it.
Answered(frame, answer) ==
  /\ replies' = With(replies, frame.messageId,
                     [print |-> requestFingerprint(frame), answer |-> answer])
  /\ handled' = Append(handled, [frame |-> frame, answer |-> answer])
  /\ Enqueue(answer)
  /\ work' = Idle

Reading ==
  /\ conn = "open" /\ work = Idle /\ up # <<>>
  /\ up' = Tail(up)
  /\ UNCHANGED <<peer, user, page, sent, buffer, inbox, pending, down, written,
                 worldVars, upsets>>

\* A frame Decode refuses: the peer is told and the connection ends.
ReadBad ==
  LET decoded == Decode(Head(up))
      told    == decodeErrorEnvelope(decoded)
  IN /\ Reading /\ decoded.err # ""
     /\ IF Len(outbound) < QueueSize
        THEN /\ outbound' = Append(outbound, NewErrorEnvelope(told.id, told.code))
             /\ conn' = "ending"
        ELSE conn' = "closed" /\ UNCHANGED outbound
     /\ UNCHANGED <<work, stateVars, handled, proven, shown>>

ReadAgain_ByIdAlone ==
  LET answer == replies[Head(up).messageId].answer
  IN /\ Reading /\ Decode(Head(up)).err = "" /\ Head(up).messageId \in DOMAIN replies
     /\ handled' = Append(handled, [frame |-> Head(up), answer |-> answer])
     /\ Enqueue(answer)
     /\ UNCHANGED <<work, stateVars, proven, shown>>

\* A message ID the connection has seen: the same answer, or a conflict.
ReadAgain ==
  LET frame == Head(up)
      answer == IF replies[frame.messageId].print = requestFingerprint(frame)
                THEN replies[frame.messageId].answer
                ELSE NewErrorEnvelope(frame.messageId, "message-id-conflict")
  IN /\ Reading /\ Decode(frame).err = "" /\ frame.messageId \in DOMAIN replies
     /\ handled' = Append(handled, [frame |-> frame, answer |-> answer])
     /\ Enqueue(answer)
     /\ UNCHANGED <<work, stateVars, proven, shown>>

\* The cache is full: the refusal is queued and the connection closed behind
\* the writer's back, which may or may not get the queue out first.
ReadFull ==
  LET frame == Head(up)
  IN /\ Reading /\ Decode(frame).err = "" /\ frame.messageId \notin DOMAIN replies
     /\ Cardinality(DOMAIN replies) >= CacheSize
     /\ IF Len(outbound) < QueueSize
        THEN /\ outbound' = Append(outbound, NewErrorEnvelope(frame.messageId, "internal-error"))
             /\ conn' = "cut"
        ELSE conn' = "closed" /\ UNCHANGED outbound
     /\ UNCHANGED <<work, stateVars, handled, proven, shown>>

\* A message ID that is new to the connection.
ReadNew ==
  LET frame == Head(up)
  IN /\ Reading /\ Decode(frame).err = "" /\ frame.messageId \notin DOMAIN replies
     /\ Cardinality(DOMAIN replies) < CacheSize

\* The dispatcher's tables, and the handlers that answer at once.
handlers              == {"hello", "ping", "query"}
authenticatedHandlers == {"capabilities-request", "command"}

helloHandler(frame) == NewEnvelope(frame.messageId, "hello-response")
pingHandler(frame)  == NewEnvelope(frame.messageId, "pong")

QueryHandler(frame) ==
  IF QueryCode(frame.payload) # ""
  THEN NewErrorEnvelope(frame.messageId, QueryCode(frame.payload))
  ELSE snapshotEnvelope(frame.messageId, "query-response")

capabilityUnavailable(id) == NewErrorEnvelope(id, "capability-unavailable")

CapabilitiesHandler(frame) ==
  LET resolved == Resolve(user, sacct)
  IN IF ~DecodeCapabilitiesRequestPayload(frame.payload)
     THEN NewErrorEnvelope(frame.messageId, "invalid-payload")
     ELSE IF ~resolved.ok THEN capabilityUnavailable(frame.messageId)
     ELSE [NewEnvelope(frame.messageId, "capabilities-response")
             EXCEPT !.grants = resolved.capabilities]

\* dispatch of everything but a command; the envelope has been validated and a
\* connection has a user.
dispatch(frame) ==
  CASE frame.type \notin handlers \cup authenticatedHandlers ->
         NewErrorEnvelope(frame.messageId, "unsupported-message-type")
    [] frame.type = "hello"                -> helloHandler(frame)
    [] frame.type = "ping"                 -> pingHandler(frame)
    [] frame.type = "query"                -> QueryHandler(frame)
    [] frame.type = "capabilities-request" -> CapabilitiesHandler(frame)

ReadSimple ==
  LET frame  == Head(up)
      answer == dispatch(frame)
  IN /\ ReadNew /\ frame.type # "command"
     /\ Answered(frame, answer)
     /\ shown' = IF answer.type = "capabilities-response" THEN <<answer.grants>> ELSE shown
     /\ UNCHANGED <<rows, jobs, proven>>

\* Service.Handle up to the claim.  Claimable: the checks after the lookup.
Claimable(request) ==
  LET entry == NodeRegistry[operationFor(request.state)]
  IN /\ entry.resource = request.resource /\ entry.command = request.command
     /\ validateAgainstRegistry(entry, request)
     /\ BuildScontrolArgs(entry.operation, request.nodeName, request.reason) # NoArgs
     /\ request.nodeName \in Nodes

\* recordResponse for a row of this caller; here every row found is final.
recordResponse(id, row) ==
  IF row.status = "succeeded" THEN NewEnvelope(id, "command-response")
  ELSE NewErrorEnvelope(id,
    CASE row.status = "denied"               -> "authorization-denied"
      [] row.status = "authorization_failed" -> "user-lookup-failed"
      [] row.status = "failed"               -> "slurm-command-failed"
      [] OTHER                               -> "command-outcome-unknown")

\* A command that ends before a claim: the payload or the target is refused, or
\* the command ID has a row already.
ReadCommandRefused ==
  LET frame   == Head(up)
      request == DecodeNodeCommandRequestPayload(frame.payload)
      found   == request.valid /\ request.commandId \in DOMAIN rows
      row     == rows[request.commandId]
  IN /\ ReadNew /\ frame.type = "command"
     /\ request.valid => found \/ ~Claimable(request)
     /\ Answered(frame,
          IF found /\ row.request = request THEN recordResponse(frame.messageId, row)
          ELSE NewErrorEnvelope(frame.messageId,
                 IF found THEN "command-id-conflict" ELSE "invalid-payload"))
     /\ UNCHANGED <<rows, jobs, proven, shown>>

\* ReserveAuthorization of a command that passed every check.
ReadCommandClaimed ==
  LET frame   == Head(up)
      request == DecodeNodeCommandRequestPayload(frame.payload)
  IN /\ ReadNew /\ frame.type = "command"
     /\ request.valid /\ request.commandId \notin DOMAIN rows /\ Claimable(request)
     /\ rows' = With(rows, request.commandId,
                     [request |-> request, status |-> "authorization_pending",
                      claim |-> Claim(user, frame.messageId, request)])
     /\ work' = [step |-> "authorize", frame |-> frame, request |-> request]
     /\ proven' = IF IsAdministrator(sacct) THEN proven \cup {request.commandId} ELSE proven
     /\ UNCHANGED <<conn, outbound, replies, jobs, handled, shown>>

Handling(step) ==
  /\ conn = "open" /\ work.step = step
  /\ UNCHANGED <<peer, user, clientVars, down, written, worldVars, upsets, proven, shown>>

Concluded(status) ==
  LET row == [rows[work.request.commandId] EXCEPT !.status = status]
  IN /\ rows' = [rows EXCEPT ![work.request.commandId] = row]
     /\ Answered(work.frame, recordResponse(work.frame.messageId, row))

\* Authorize looks the user up again, for this command.
AuthorizeCommand ==
  LET verdict == Authorize(user, operationFor(work.request.state), sacct)
  IN /\ Handling("authorize")
     /\ IF verdict = "accepted"
        THEN /\ rows' = [rows EXCEPT ![work.request.commandId].status = "running"]
             /\ work' = [work EXCEPT !.step = "execute"]
             /\ UNCHANGED <<conn, outbound, replies, handled>>
        ELSE Concluded(verdict)
     /\ UNCHANGED jobs

\* Execute and the helper's SetNodeState: the helper builds the arguments again
\* and refuses what it cannot build; else scontrol runs, and its outcome may
\* get lost on the way back.
ExecuteCommand(outcome) ==
  LET args == BuildScontrolArgs(operationFor(work.request.state), work.request.nodeName,
                                work.request.reason)
  IN /\ Handling("execute")
     /\ IF args = NoArgs
        THEN outcome = "failed" /\ UNCHANGED jobs
        ELSE jobs' = Append(jobs, [commandId |-> work.request.commandId, args |-> args])
     /\ Concluded(outcome)

-----------------------------------------------------------------------------
(* The writer and the end of the connection.                                *)

Writing ==
  /\ conn \in {"open", "ending", "cut"}
  /\ UNCHANGED <<peer, user, clientVars, work, stateVars, worldVars, upsets, handled, proven,
                 shown>>

TooLarge_Unchecked(answer) == FALSE

\* Encoder.Encode writes the header and the body, and nothing at all of a message
\* that is too large: the connection ends instead.  So it does when the peer is
\* gone.  A chunk may end between the two.
TooLarge(answer) == answer.large

Units(answer) == <<[part |-> "head", answer |-> answer], [part |-> "body", answer |-> answer]>>

\* What another program makes of the bytes is its own affair: only the page's
\* reading side is modelled.
ToPage(units) == IF peer = "page" THEN units ELSE <<>>

Write ==
  /\ Writing /\ outbound # <<>> /\ page = "open" /\ ~TooLarge(Head(outbound))
  /\ outbound' = Tail(outbound)
  /\ down' = down \o ToPage(Units(Head(outbound)))
  /\ written' = written \o ToPage(<<Head(outbound)>>)
  /\ UNCHANGED conn

WriteFails ==
  /\ Writing /\ outbound # <<>>
  /\ page = "closed" \/ TooLarge(Head(outbound))
  /\ conn' = "closed"
  /\ UNCHANGED wireVars

\* The reader returns: the peer has hung up, or its bad frame has been answered,
\* or the connection was cut when the replay cache was full: then the header of
\* a message may get out without its body.
Ends ==
  /\ \/ conn = "open" /\ work = Idle /\ up = <<>> /\ page = "closed" /\ UNCHANGED down
     \/ conn = "ending" /\ outbound = <<>> /\ UNCHANGED down
     \/ conn = "cut" /\ UNCHANGED down
     \/ conn = "cut" /\ outbound # <<>> /\ ~TooLarge(Head(outbound))
        /\ down' = down \o ToPage(<<Head(Units(Head(outbound)))>>)
  /\ conn' = "closed"
  /\ UNCHANGED <<peer, user, clientVars, work, stateVars, outbound, written, worldVars,
                 upsets, handled, proven, shown>>

-----------------------------------------------------------------------------
(* The world.                                                               *)

SacctChanges(out) ==
  /\ Upset /\ out # sacct
  /\ sacct' = out /\ shown' = <<>>
  /\ proven' = IF IsAdministrator(out)
               THEN proven \cup {c \in DOMAIN rows : rows[c].status = "authorization_pending"}
               ELSE proven
  /\ UNCHANGED <<peer, user, clientVars, conn, work, stateVars, wireVars, big, handled>>

ClusterGrows ==
  /\ Upset /\ ~big
  /\ big' = TRUE
  /\ UNCHANGED <<peer, user, clientVars, conn, work, stateVars, wireVars, sacct, handled,
                 proven, shown>>

Init ==
  /\ peer \in {"page", "other"} /\ user \in Users
  /\ page = "open" /\ sent = <<>> /\ up = <<>> /\ conn = "accepted"
  /\ replies = <<>> /\ work = Idle /\ rows = <<>> /\ jobs = <<>>
  /\ outbound = <<>> /\ down = <<>> /\ written = <<>>
  /\ buffer = <<>> /\ inbox = <<>> /\ pending = {}
  /\ sacct = Usually /\ big = FALSE
  /\ upsets = IF validSlurmUsername(user) THEN 0 ELSE 1
  /\ handled = <<>> /\ proven = {} /\ shown = <<>>

ServiceStep ==
  \/ Accept \/ ReadBad \/ ReadAgain \/ ReadFull \/ ReadSimple
  \/ ReadCommandRefused \/ ReadCommandClaimed
  \/ AuthorizeCommand \/ \E o \in {"succeeded", "failed", "unknown"} : ExecuteCommand(o)

WriterStep == Write \/ WriteFails \/ Ends
SystemStep == Receive \/ ChannelCloses \/ WriterStep \/ ServiceStep

Next ==
  \/ SendUsual \/ SendOdd
  \/ \E id \in pending : TimesOut(id)
  \/ HangUp
  \/ SystemStep
  \/ \E out \in Outputs : SacctChanges(out)
  \/ ClusterGrows

Spec == Init /\ [][Next]_vars

\* As long as a goroutine or the browser has something to do, something is done:
\* sacctmgr and the helper have timeouts.  Nothing more is needed, since no part
\* of the system can keep another waiting for ever by its own steps.  The peer
\* need not send, hang up or time out.
FairSpec == Spec /\ WF_vars(SystemStep)

-----------------------------------------------------------------------------
(* Properties.                                                              *)

\* Every variable has its type: the connection, the queues and the cache stay
\* within their bounds (serveConnection, requestReplayCache).
TypeOK ==
  /\ peer \in {"page", "other"} /\ user \in Users /\ page \in {"open", "closed"}
  /\ conn \in {"accepted", "open", "ending", "cut", "closed"}
  /\ Len(sent) <= MaxSends /\ Len(outbound) <= QueueSize
  /\ DOMAIN replies \subseteq Range(MessageIds) /\ Cardinality(DOMAIN replies) <= CacheSize
  /\ pending \subseteq Range(MessageIds)
  /\ \A c \in DOMAIN rows :
       rows[c].status \in {"authorization_pending", "running", "succeeded", "failed",
                           "denied", "authorization_failed", "unknown"}
  /\ sacct \in Outputs /\ big \in BOOLEAN /\ upsets \in 0 .. MaxUpsets

\* The four sets of rules for a command agree: every command the service claims
\* fits the ledger's claim rules (validateClaim), is one the helper will build
\* arguments for (so that no row is burnt on a refusal), and fits the schema of
\* its registry entry, which the code never evaluates (registry.go only checks
\* it for consistency): the payload decoder must imply it, limits included.
ClaimsPassEveryCheck ==
  \A c \in DOMAIN rows :
    LET request == rows[c].request
        entry   == NodeRegistry[rows[c].claim.operation]
    IN /\ validateClaim(rows[c].claim)
       /\ BuildScontrolArgs(entry.operation, request.nodeName, request.reason) # NoArgs
       /\ FitsSpec(entry.target["nodeName"], request.nodeName)
       /\ FitsSpec(entry.parameters["state"], Text(request.state, 1))
       /\ "reason" \in DOMAIN entry.parameters
            => FitsSpec(entry.parameters["reason"], request.reason)
       /\ "reason" \notin DOMAIN entry.parameters => request.reason = Empty

\* What scontrol is told is what a peer asked for, word for word, about one
\* node of the cache (BuildScontrolArgs, operationFor): never a swapped state,
\* another command's reason or the name that stands for all nodes.
ScontrolMatchesRequest ==
  \A j \in DOMAIN jobs : \E i \in DOMAIN sent :
    LET fields == sent[i].payload.fields
    IN /\ sent[i].type = "command" /\ {"commandId", "nodeName", "state"} \subseteq DOMAIN fields
       /\ fields["commandId"] = jobs[j].commandId
       /\ fields["nodeName"] \in Nodes /\ fields["nodeName"].w # "ALL"
       /\ jobs[j].args = <<"update", fields["nodeName"], fields["state"].w>>
                           \o (IF "reason" \in DOMAIN fields THEN <<fields["reason"]>> ELSE <<>>)

\* A command line runs only if, at some moment after its command was claimed,
\* the accounting data held exactly one clean record of its caller and that
\* record said Administrator or Admin: never on an earlier lookup, somebody else's
\* record, an ambiguous answer or a lesser level (Authorize, parseSacctmgrUser).
FreshAuthority == \A j \in DOMAIN jobs : jobs[j].commandId \in proven

\* As long as the accounting data does not change, a command is let through
\* exactly if the capabilities last shown to the page contain its own
\* (CapabilitiesHandler and Authorizer read the data independently).
CapabilitiesAgree ==
  [][\A c \in DOMAIN rows :
       /\ shown # <<>> /\ rows[c].status = "authorization_pending"
       /\ rows'[c].status # "authorization_pending"
       => (rows'[c].status = "running") <=> (rows[c].claim.capability \in shown[1])]_vars

\* Over a whole connection, two requests with one message ID and one content
\* get the same answer, whatever changed between them, and a second content
\* gets a conflict (requestReplayCache.Dispatch).
ConsistentAnswers ==
  \A i, j \in DOMAIN handled :
    i < j /\ handled[i].frame.messageId = handled[j].frame.messageId =>
      IF requestFingerprint(handled[i].frame) = requestFingerprint(handled[j].frame)
      THEN handled[j].answer = handled[i].answer \/ handled[i].answer.code = "message-id-conflict"
      ELSE \/ handled[j].answer.code = "message-id-conflict"
           \/ handled[i].answer.code = "message-id-conflict"

\* The page's decoder returns every message the service wrote, complete and in
\* order, however the bytes were cut into chunks, and leaves at most a header in
\* its buffer: no header makes it throw (client.ts drops the frames decoded before
\* one that does, keeps its bytes and leaves the channel open).
Bodies(units) == [i \in 1 .. Len(units) \div 2 |-> units[2 * i].answer]
NothingLost == inbox \o Bodies(buffer \o down) = written /\ Len(buffer) <= 1

\* Every request the page has sent is settled: its promise is resolved, or
\* rejected because the connection ended.  No answer is lost in a full queue, a
\* refused frame, a full replay cache or an oversize snapshot while the page
\* keeps waiting (enqueue, writeConnection, IpcClient.rejectAll).
EverySendSettles ==
  \A i \in 1 .. MaxSends : (MessageIds[i] \in pending) ~> (MessageIds[i] \notin pending)
=============================================================================
