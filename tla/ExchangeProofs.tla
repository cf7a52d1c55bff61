--------------------------- MODULE ExchangeProofs ---------------------------
(***************************************************************************)
(* Proofs about one connection, from the frames its peer writes to the     *)
(* scontrol command lines and back, for any frames, message IDs, accounts, *)
(* nodes and outputs of sacctmgr, any number of requests and upsets and    *)
(* any size of the replay cache and of the outbound queue.                 *)
(***************************************************************************)
EXTENDS Exchange, FiniteSetTheorems, SequenceTheorems, TLAPS

Id   == {"", "NODE", "ERR"} \cup Range(MessageIds)
Type == {"", "event", "hello-response", "pong", "query-response",
         "capabilities-response", "command-response", "error"}
Code == {"", "INVALID_MESSAGE", "NOT_FOUND", "invalid-payload", "unsupported-message-type",
         "message-id-conflict", "internal-error", "capability-unavailable",
         "command-id-conflict", "authorization-denied", "user-lookup-failed",
         "slurm-command-failed", "command-outcome-unknown"}
Answer == [id : Id, type : Type, code : Code, grants : SUBSET {"nodes.drain", "nodes.resume"},
           large : BOOLEAN]

Frames == {Frame(body, id) : body \in Usual \cup Odd, id \in Range(MessageIds)}

\* The command in a frame, and the frames whose command passes every check.
Request(frame) == DecodeNodeCommandRequestPayload(frame.payload)
Commands ==
  {frame \in Range(sent) :
     /\ frame.type = "command" /\ Decode(frame).err = ""
     /\ Request(frame).valid /\ Claimable(Request(frame))}

\* The command line that a request stands for.
Line(request) ==
  [commandId |-> request.commandId,
   args |-> BuildScontrolArgs(operationFor(request.state), request.nodeName, request.reason)]

\* One write of the service: no message that is too large is among them.
Unit == [part : {"head", "body"}, answer : {a \in Answer : ~TooLarge(a)}]

-----------------------------------------------------------------------------
TypeInv ==
  /\ TypeOK
  /\ sent \in Seq(Frames) /\ up \in Seq(Range(sent))
  /\ outbound \in Seq(Answer)
  /\ handled \in Seq([frame : Frames, answer : Answer])

\* A peer without a name gets nowhere.
NamedInv == user = "" => conn \in {"accepted", "closed"} /\ DOMAIN rows = {}

\* Every row stands for a command that the peer has sent and that passed every
\* check, and its claim says so.
Status == {"authorization_pending", "running", "succeeded", "failed", "denied",
           "authorization_failed", "unknown"}
RowsOf(frame) ==
  [request : {Request(frame)}, status : Status,
   claim : {Claim(user, frame.messageId, Request(frame))}]
RowInv ==
  \A c \in DOMAIN rows : \E frame \in Commands :
    c = Request(frame).commandId /\ rows[c] \in RowsOf(frame)

\* The request being handled has its row, in the status its handler left it in,
\* and a place in the replay cache.
WorkInv ==
  work # Idle =>
    /\ work \in [step : {"authorize", "execute"}, frame : Commands,
                 request : {Request(work.frame)}]
    /\ work.request.commandId \in DOMAIN rows
    /\ rows[work.request.commandId].request = work.request
    /\ rows[work.request.commandId].status =
         IF work.step = "authorize" THEN "authorization_pending" ELSE "running"
    /\ work.frame.messageId \notin DOMAIN replies
    /\ Cardinality(DOMAIN replies) < CacheSize

\* A command whose caller is administrator now, or that is about to run, has
\* been proven.
ProvenInv ==
  \A c \in DOMAIN rows :
    \/ rows[c].status = "authorization_pending" /\ IsAdministrator(sacct)
    \/ rows[c].status = "running"
    => c \in proven

JobInv ==
  /\ jobs \in Seq({Line(Request(frame)) : frame \in Commands})
  /\ FreshAuthority

\* The page has been shown what a lookup would give now.
ShownInv ==
  shown # <<>> =>
    /\ Resolve(user, sacct).ok
    /\ shown = <<Resolve(user, sacct).capabilities>>

\* The replay cache knows every request that was answered: those that repeat
\* the cached one got the cached answer, the others a conflict.
ReplyInv ==
  /\ IsFiniteSet(DOMAIN replies)
  /\ \A id \in DOMAIN replies : replies[id].answer \in Answer
  /\ \A i \in DOMAIN handled :
       LET frame == handled[i].frame
           cached == replies[frame.messageId]
       IN /\ frame.messageId \in DOMAIN replies
          /\ IF cached.print = requestFingerprint(frame)
             THEN handled[i].answer = cached.answer
             ELSE handled[i].answer.code = "message-id-conflict"

\* Only the end of a connection leaves a header without its body.
WireInv ==
  /\ buffer \in Seq(Unit) /\ down \in Seq(Unit)
  /\ inbox \in Seq(Answer) /\ written \in Seq(Answer)
  /\ conn # "closed" => \E k \in Nat : Len(buffer) + Len(down) = 2 * k
  /\ NothingLost

ExchangeInv ==
  /\ TypeInv /\ NamedInv /\ RowInv /\ WorkInv /\ ProvenInv /\ JobInv /\ ShownInv
  /\ ReplyInv /\ WireInv

-----------------------------------------------------------------------------
(* Frames and requests.                                                     *)

\* A frame keeps the body it was made of, but for the message ID.
LEMMA FrameFacts ==
  ASSUME NEW frame \in Frames
  PROVE  /\ frame.messageId = "" \/ frame.messageId \in Range(MessageIds)
         /\ \A name \in DOMAIN frame.payload.fields : IsText(frame.payload.fields[name])
<1>1. PICK body \in Usual \cup Odd, id \in Range(MessageIds) : frame = Frame(body, id)
  BY DEF Frames
<1>2. /\ body \in [length : {"zero", "ok", "huge"}, json : BOOLEAN, extra : BOOLEAN,
                   protocol : STRING, version : STRING, messageId : STRING, type : STRING,
                   payload : {body.payload}]
      /\ \A name \in DOMAIN body.payload.fields : IsText(body.payload.fields[name])
  BY BodiesAssumption
<1>3. /\ frame.messageId = IF body.messageId = "" THEN "" ELSE id
      /\ frame.type = body.type /\ frame.payload = body.payload
  BY <1>1, <1>2 DEF Frame
<1> QED BY <1>2, <1>3

\* A frame that Decode accepts has a message ID.
LEMMA DecodedHasId ==
  ASSUME NEW frame \in Frames, Decode(frame).err = ""
  PROVE  frame.messageId \in Range(MessageIds) /\ frame.messageId # ""
<1>1. ValidateEnvelope(frame) = ""
  BY DEF Decode
<1>2. frame.messageId # ""
  BY <1>1 DEF ValidateEnvelope
<1> QED BY <1>2, FrameFacts

\* A command that the decoder accepts has its fields as the peer wrote them.
LEMMA RequestFacts ==
  ASSUME NEW frame \in Frames, Request(frame).valid
  PROVE  LET fields  == frame.payload.fields
             request == Request(frame)
         IN /\ {"commandId", "nodeName", "state"} \subseteq DOMAIN fields
            /\ request = [valid |-> TRUE, commandId |-> fields["commandId"],
                          resource |-> "node", command |-> "update",
                          nodeName |-> fields["nodeName"], state |-> fields["state"].w,
                          reason |-> Field(fields, "reason")]
            /\ request.commandId # Empty /\ request.nodeName # Empty
            /\ request.resource = "node" /\ request.command = "update"
            /\ request.reason = Field(fields, "reason")
            /\ \/ request.state = "DRAIN" /\ "reason" \in DOMAIN fields
               \/ request.state = "RESUME" /\ "reason" \notin DOMAIN fields
<1> DEFINE fields == frame.payload.fields
           text(name) == Decoded(fields, name)
           reason == Field(fields, "reason")
           request == Request(frame)
<1>1. validCommandID(text("commandId"))
  BY DEF Request, DecodeNodeCommandRequestPayload, NoRequest
<1>2. text("nodeName").n \in 1 .. MaxNodeName
  BY DEF Request, DecodeNodeCommandRequestPayload, NoRequest
<1>3. \/ text("state").w = "DRAIN" /\ "reason" \in DOMAIN fields
      \/ text("state").w = "RESUME" /\ "reason" \notin DOMAIN fields
  BY DEF Request, DecodeNodeCommandRequestPayload, NoRequest
<1>4. request = [valid |-> TRUE, commandId |-> text("commandId"), resource |-> "node",
                 command |-> "update", nodeName |-> text("nodeName"),
                 state |-> text("state").w, reason |-> reason]
  BY DEF Request, DecodeNodeCommandRequestPayload, NoRequest
<1>5. ASSUME NEW name, text(name) # Empty
      PROVE  name \in DOMAIN fields /\ text(name) = fields[name]
  BY <1>5 DEF Decoded, Field
<1>6. Empty.n = 0
  BY DEF Empty, Text
<1>0. Empty.w = ""
  BY DEF Empty, Text
<1> HIDE DEF text, fields, request, reason
<1>7. text("commandId") # Empty
  BY <1>1, <1>6 DEF validCommandID, MaxCommandID
<1>8. text("nodeName") # Empty
  BY <1>2, <1>6 DEF MaxNodeName
<1>9. text("state") # Empty
  BY <1>0, <1>3
<1>10. /\ {"commandId", "nodeName", "state"} \subseteq DOMAIN fields
       /\ text("commandId") = fields["commandId"] /\ text("nodeName") = fields["nodeName"]
       /\ text("state") = fields["state"]
  BY <1>5, <1>7, <1>8, <1>9
<1>11. /\ request = [valid |-> TRUE, commandId |-> fields["commandId"], resource |-> "node",
                     command |-> "update", nodeName |-> fields["nodeName"],
                     state |-> fields["state"].w, reason |-> reason]
       /\ request.commandId # Empty /\ request.nodeName # Empty
       /\ request.resource = "node" /\ request.command = "update"
       /\ request.reason = reason
       /\ \/ request.state = "DRAIN" /\ "reason" \in DOMAIN fields
          \/ request.state = "RESUME" /\ "reason" \notin DOMAIN fields
  BY <1>3, <1>4, <1>7, <1>8, <1>10
<1> QED BY <1>10, <1>11 DEF text, fields, request, reason

\* A request that is claimed is one that the helper builds arguments for, and
\* those are the words of the frame.
LEMMA ClaimableFacts ==
  ASSUME NEW frame \in Frames, Request(frame).valid, Claimable(Request(frame))
  PROVE  LET request == Request(frame)
         IN /\ request.nodeName \in Nodes /\ validNodeName(request.nodeName)
            /\ request.nodeName.w # "ALL"
            /\ Line(request).args # NoArgs
            /\ \/ /\ request.state = "DRAIN" /\ validateDrainReason(request.reason)
                  /\ Line(request).args = <<"update", request.nodeName, "DRAIN", request.reason>>
               \/ /\ request.state = "RESUME" /\ request.reason = Empty
                  /\ Line(request).args = <<"update", request.nodeName, "RESUME">>
<1> DEFINE request == Request(frame)
           op == operationFor(request.state)
           args == BuildScontrolArgs(op, request.nodeName, request.reason)
<1>1. request.state \in {"DRAIN", "RESUME"}
  BY RequestFacts
<1>2. op = IF request.state = "DRAIN" THEN "node.drain" ELSE "node.resume"
  BY DEF operationFor
<1>3. NodeRegistry[op].operation = op
  BY <1>1, <1>2 DEF NodeRegistry
<1>4. args # NoArgs /\ request.nodeName \in Nodes
  BY <1>3 DEF Claimable
<1>5. \/ /\ op = "node.drain" /\ validNodeName(request.nodeName)
         /\ validateDrainReason(request.reason)
         /\ args = <<"update", request.nodeName, "DRAIN", request.reason>>
      \/ /\ op = "node.resume" /\ validNodeName(request.nodeName) /\ request.reason = Empty
         /\ args = <<"update", request.nodeName, "RESUME">>
  BY <1>1, <1>2, <1>4 DEF BuildScontrolArgs
<1>6. validNodeName(request.nodeName) => request.nodeName.w # "ALL"
  BY DEF validNodeName, Plain
<1>7. Line(request).args = args
  BY DEF Line
<1> QED BY <1>1, <1>2, <1>4, <1>5, <1>6, <1>7

\* So the command line says what the frame says.
LEMMA LineIsAsked ==
  ASSUME NEW frame \in Frames, Request(frame).valid, Claimable(Request(frame))
  PROVE  LET fields == frame.payload.fields
         IN /\ {"commandId", "nodeName", "state"} \subseteq DOMAIN fields
            /\ fields["commandId"] = Line(Request(frame)).commandId
            /\ fields["nodeName"] \in Nodes /\ fields["nodeName"].w # "ALL"
            /\ Line(Request(frame)).args =
                 <<"update", fields["nodeName"], fields["state"].w>>
                   \o (IF "reason" \in DOMAIN fields THEN <<fields["reason"]>> ELSE <<>>)
<1> DEFINE fields == frame.payload.fields
           request == Request(frame)
<1>1. /\ {"commandId", "nodeName", "state"} \subseteq DOMAIN fields
      /\ request.commandId = fields["commandId"] /\ request.nodeName = fields["nodeName"]
      /\ request.state = fields["state"].w /\ request.reason = Field(fields, "reason")
      /\ \/ request.state = "DRAIN" /\ "reason" \in DOMAIN fields
         \/ request.state = "RESUME" /\ "reason" \notin DOMAIN fields
  BY RequestFacts
<1>2. Line(request).commandId = request.commandId
  BY DEF Line
<1>3. CASE request.state = "DRAIN"
  <2>1. request.reason = fields["reason"] /\ "reason" \in DOMAIN fields
    BY <1>1, <1>3 DEF Field
  <2>2. Line(request).args = <<"update", request.nodeName, "DRAIN", request.reason>>
    BY <1>3, ClaimableFacts
  <2>3. <<"update", request.nodeName, "DRAIN", request.reason>>
          = <<"update", request.nodeName, "DRAIN">> \o <<request.reason>>
    OBVIOUS
  <2> QED BY <1>1, <1>2, <1>3, <2>1, <2>2, <2>3, ClaimableFacts
<1>4. CASE request.state = "RESUME"
  <2>1. "reason" \notin DOMAIN fields
    BY <1>1, <1>4
  <2>2. Line(request).args = <<"update", request.nodeName, "RESUME">>
    BY <1>4, ClaimableFacts
  <2>3. <<"update", request.nodeName, "RESUME">>
          = <<"update", request.nodeName, "RESUME">> \o <<>>
    OBVIOUS
  <2> QED BY <1>1, <1>2, <1>4, <2>1, <2>2, <2>3, ClaimableFacts
<1> QED BY <1>1, <1>3, <1>4

LEMMA MaxReasonType == MaxReason \in Nat
BY DEF MaxReason

LEMMA UpTo == ASSUME NEW m \in Nat, NEW n \in Nat, n # 0, n <= m PROVE n \in 1 .. m
OBVIOUS

\* What the two schemas of the registry demand.
LEMMA StringSpec ==
  ASSUME NEW max, NEW t, t.n \in 1 .. max
  PROVE  FitsSpec([type |-> "string", min |-> 1, max |-> max, allowed |-> {}], t)
<1> DEFINE spec == [type |-> "string", min |-> 1, max |-> max, allowed |-> {}]
<1>1. spec.type = "string"
  OBVIOUS
<1>2. spec.min = 1 /\ spec.max = max
  OBVIOUS
<1> HIDE DEF spec
<1>3. t.n \in spec.min .. spec.max
  BY <1>2
<1>4. spec.type # "enum"
  BY <1>1
<1>5. FitsSpec(spec, t)
  BY <1>3, <1>4 DEF FitsSpec
<1> QED BY <1>5 DEF spec

LEMMA EnumSpec ==
  ASSUME NEW w, NEW t, t.w = w
  PROVE  FitsSpec([type |-> "enum", min |-> 0, max |-> 0, allowed |-> {w}], t)
<1> DEFINE spec == [type |-> "enum", min |-> 0, max |-> 0, allowed |-> {w}]
<1>1. spec.type = "enum"
  OBVIOUS
<1>2. spec.allowed = {w}
  OBVIOUS
<1> HIDE DEF spec
<1>3. spec.type # "string"
  BY <1>1
<1>4. FitsSpec(spec, t)
  BY <1>2, <1>3 DEF FitsSpec
<1> QED BY <1>4 DEF spec

LEMMA Registry ==
  LET drain  == NodeRegistry["node.drain"]
      resume == NodeRegistry["node.resume"]
  IN /\ drain.operation = "node.drain" /\ resume.operation = "node.resume"
     /\ drain.capability = "nodes.drain" /\ resume.capability = "nodes.resume"
     /\ \A entry \in {drain, resume} :
          entry.target["nodeName"] =
            [type |-> "string", min |-> 1, max |-> MaxNodeName, allowed |-> {}]
     /\ drain.parameters["state"] =
          [type |-> "enum", min |-> 0, max |-> 0, allowed |-> {"DRAIN"}]
     /\ resume.parameters["state"] =
          [type |-> "enum", min |-> 0, max |-> 0, allowed |-> {"RESUME"}]
     /\ "reason" \in DOMAIN drain.parameters
     /\ drain.parameters["reason"] =
          [type |-> "string", min |-> 1, max |-> MaxReason, allowed |-> {}]
     /\ "reason" \notin DOMAIN resume.parameters
<1> DEFINE drain  == NodeRegistry["node.drain"]
           resume == NodeRegistry["node.resume"]
<1>1. drain.operation = "node.drain" /\ resume.operation = "node.resume"
  BY DEF NodeRegistry
<1>2. drain.capability = "nodes.drain" /\ resume.capability = "nodes.resume"
  BY DEF NodeRegistry
<1>3. drain.target = nodeTargetSchema /\ resume.target = nodeTargetSchema
  BY DEF NodeRegistry
<1>4. nodeTargetSchema["nodeName"] =
        [type |-> "string", min |-> 1, max |-> MaxNodeName, allowed |-> {}]
  BY DEF nodeTargetSchema
<1>5. drain.parameters =
        [state  |-> [type |-> "enum", min |-> 0, max |-> 0, allowed |-> {"DRAIN"}],
         reason |-> [type |-> "string", min |-> 1, max |-> MaxReason, allowed |-> {}]]
  BY DEF NodeRegistry
<1>6. resume.parameters =
        [state |-> [type |-> "enum", min |-> 0, max |-> 0, allowed |-> {"RESUME"}]]
  BY DEF NodeRegistry
<1> HIDE DEF drain, resume
<1>7. /\ drain.parameters["state"] =
           [type |-> "enum", min |-> 0, max |-> 0, allowed |-> {"DRAIN"}]
      /\ drain.parameters["reason"] =
           [type |-> "string", min |-> 1, max |-> MaxReason, allowed |-> {}]
      /\ "reason" \in DOMAIN drain.parameters
  BY <1>5
<1>8. /\ resume.parameters["state"] =
           [type |-> "enum", min |-> 0, max |-> 0, allowed |-> {"RESUME"}]
      /\ "reason" \notin DOMAIN resume.parameters
  BY <1>6
<1>9. \A entry \in {drain, resume} :
        entry.target["nodeName"] =
          [type |-> "string", min |-> 1, max |-> MaxNodeName, allowed |-> {}]
  BY <1>3, <1>4
<1> QED BY <1>1, <1>2, <1>7, <1>8, <1>9, Zenon DEF drain, resume

\* The four sets of rules agree: what Handle lets through fits the ledger's
\* claim rules, the helper's and the schema of the registry.
LEMMA ClaimIsSound ==
  ASSUME NEW frame \in Frames, Decode(frame).err = "", Request(frame).valid,
         Claimable(Request(frame)), user # ""
  PROVE  LET request == Request(frame)
             claim   == Claim(user, frame.messageId, request)
             entry   == NodeRegistry[claim.operation]
         IN /\ validateClaim(claim)
            /\ BuildScontrolArgs(entry.operation, request.nodeName, request.reason) # NoArgs
            /\ FitsSpec(entry.target["nodeName"], request.nodeName)
            /\ FitsSpec(entry.parameters["state"], Text(request.state, 1))
            /\ "reason" \in DOMAIN entry.parameters
                 => FitsSpec(entry.parameters["reason"], request.reason)
            /\ "reason" \notin DOMAIN entry.parameters => request.reason = Empty
<1> DEFINE request == Request(frame)
           op      == operationFor(request.state)
           claim   == Claim(user, frame.messageId, request)
           entry   == NodeRegistry[op]
<1>1. request.commandId # Empty /\ request.nodeName # Empty
  BY RequestFacts
<1>2. request.resource = "node" /\ request.command = "update"
  BY RequestFacts
<1>3. frame.messageId # ""
  BY DecodedHasId
<1>4. \/ request.state = "DRAIN" /\ op = "node.drain" /\ entry.capability = "nodes.drain"
      \/ request.state = "RESUME" /\ op = "node.resume" /\ entry.capability = "nodes.resume"
  <2>1. request.state \in {"DRAIN", "RESUME"}
    BY RequestFacts
  <2> QED BY <2>1, Registry DEF operationFor
<1>5. claim = [commandId |-> request.commandId, username |-> user,
               messageId |-> frame.messageId, resource |-> request.resource,
               command |-> request.command, operation |-> op,
               capability |-> entry.capability, target |-> request.nodeName]
  BY DEF Claim
<1>6. entry.operation = op
  BY <1>4, Registry
<1>7. BuildScontrolArgs(op, request.nodeName, request.reason) # NoArgs
  BY ClaimableFacts DEF Line
<1>8. FitsSpec(entry.target["nodeName"], request.nodeName)
  <2>1. request.nodeName.n \in 1 .. MaxNodeName
    BY ClaimableFacts DEF validNodeName
  <2>2. entry.target["nodeName"] =
          [type |-> "string", min |-> 1, max |-> MaxNodeName, allowed |-> {}]
    BY <1>4, Registry
  <2> QED BY <2>1, <2>2, StringSpec
<1>9. Text(request.state, 1).w = request.state
  BY DEF Text
<1>10. FitsSpec(entry.parameters["state"], Text(request.state, 1))
  <2>1. entry.parameters["state"] =
          [type |-> "enum", min |-> 0, max |-> 0, allowed |-> {request.state}]
    BY <1>4, Registry
  <2> QED BY <1>9, <2>1, EnumSpec
<1>11. ASSUME "reason" \in DOMAIN entry.parameters
       PROVE  FitsSpec(entry.parameters["reason"], request.reason)
  <2>1. op = "node.drain" /\ request.state = "DRAIN"
    BY <1>4, <1>11, Registry
  <2>2. "reason" \in DOMAIN frame.payload.fields
    BY <2>1, RequestFacts
  <2>3. request.reason = frame.payload.fields["reason"]
    <3>1. request.reason = Field(frame.payload.fields, "reason")
      BY RequestFacts
    <3> QED BY <2>2, <3>1 DEF Field
  <2>4. IsText(request.reason)
    BY <2>2, <2>3, FrameFacts
  <2>5. validateDrainReason(request.reason)
    BY <2>1, ClaimableFacts
  <2>6. request.reason.n \in Nat /\ request.reason.n # 0
    BY <2>4, <2>5 DEF IsText, validateDrainReason, TrimSpaceEmpty
  <2>7. request.reason.n <= MaxReason
    BY <2>5 DEF validateDrainReason
  <2>8. request.reason.n \in 1 .. MaxReason
    BY <2>6, <2>7, MaxReasonType, UpTo
  <2>9. entry.parameters["reason"] =
          [type |-> "string", min |-> 1, max |-> MaxReason, allowed |-> {}]
    BY <2>1, Registry
  <2> QED BY <2>8, <2>9, StringSpec
<1>12. ASSUME "reason" \notin DOMAIN entry.parameters PROVE request.reason = Empty
  <2>1. request.state = "RESUME"
    BY <1>4, <1>12, Registry
  <2> QED BY <2>1, ClaimableFacts
<1> HIDE DEF request, op, claim, entry
<1>13. claim.operation = op /\ validateClaim(claim)
  BY <1>1, <1>2, <1>3, <1>4, <1>5 DEF validateClaim
<1> QED BY <1>6, <1>7, <1>8, <1>10, <1>11, <1>12, <1>13, Zenon DEF request, op, claim, entry

-----------------------------------------------------------------------------
(* Accounting.                                                              *)

LEMMA Singleton ==
  ASSUME NEW S, NEW s \in Seq(S), Len(s) = 1 \/ (s # <<>> /\ ~(Len(s) > 1))
  PROVE  s = <<Head(s)>> /\ Head(s) \in S
<1>1. Len(s) \in Nat
  OBVIOUS
<1>2. CASE Len(s) = 1
  <2>1. Head(s) \in S /\ Head(s) = s[1]
    BY <1>2
  <2>2. s = [i \in 1 .. 1 |-> s[i]]
    BY <1>2
  <2> QED BY <2>1, <2>2
<1>3. CASE s # <<>> /\ ~(Len(s) > 1)
  <2>1. Len(s) # 0
    BY <1>3
  <2>2. Len(s) = 1
    <3> DEFINE n == Len(s)
    <3>1. n \in Nat /\ n # 0 /\ ~(n > 1)
      BY <1>1, <1>3, <2>1
    <3> HIDE DEF n
    <3>2. n = 1
      BY <3>1
    <3> QED BY <3>2 DEF n
  <2> QED BY <1>2, <2>2
<1> QED BY <1>2, <1>3

\* One lookup gives the capabilities and the verdict on a command: a command is
\* accepted exactly if its capability is among those the lookup gives, and then
\* the lookup found one clean record that says administrator.
LEMMA LookupFacts ==
  ASSUME NEW out \in Outputs, NEW op \in {"node.drain", "node.resume"}
  PROVE  LET resolved == Resolve(user, out)
             verdict  == Authorize(user, op, out)
         IN /\ resolved.capabilities \in SUBSET {"nodes.drain", "nodes.resume"}
            /\ verdict \in {"accepted", "denied", "authorization_failed"}
            /\ verdict = "accepted" => IsAdministrator(out)
            /\ resolved.ok =>
                 (verdict = "accepted" <=> NodeRegistry[op].capability \in resolved.capabilities)
<1> DEFINE found    == LookupUser(out, user)
           level    == normalizeAdminLevel(found.level)
           resolved == Resolve(user, out)
           verdict  == Authorize(user, op, out)
<1>1. /\ resolved.capabilities =
           IF resolved.ok /\ resolved.level = "admin" THEN {"nodes.drain", "nodes.resume"} ELSE {}
      /\ resolved.ok => /\ found.ok /\ found.found /\ resolved.level = level
  BY DEF Resolve, NotResolved
<1>2. NodeRegistry[op].capability \in {"nodes.drain", "nodes.resume"}
  BY DEF NodeRegistry
<1>3. verdict = IF ~resolved.ok THEN "authorization_failed"
                ELSE IF NodeRegistry[op].capability \notin resolved.capabilities THEN "denied"
                ELSE IF resolved.level # "admin" THEN "authorization_failed"
                ELSE "accepted"
  BY DEF Authorize
<1>4. ASSUME verdict = "accepted" PROVE IsAdministrator(out)
  <2>1. found.ok /\ found.found /\ level = "admin"
    BY <1>1, <1>3, <1>4
  <2>2. found.level \in {"Administrator", "Admin"}
    BY <2>1 DEF normalizeAdminLevel
  <2>3. out.ran /\ out.json /\ out.usersIsArray /\ ~out.errors
    BY <2>1 DEF LookupUser, parseSacctmgrUser, LookupFailed
  <2>4. /\ Len(out.users) = 1 /\ Head(out.users).name = user
        /\ ~(Len(Head(out.users).levels) > 1)
    BY <2>1 DEF LookupUser, parseSacctmgrUser, LookupFailed, NotFound
  <2>5. found.level = IF Head(out.users).levels = <<>> THEN ""
                      ELSE Head(out.users).levels[1]
    BY <2>1 DEF LookupUser, parseSacctmgrUser, LookupFailed, NotFound, SlurmUser
  <2>6. out.users \in Seq([name : STRING, levels : Seq(STRING)])
    BY OutputsAssumption
  <2>7. out.users = <<Head(out.users)>> /\ Head(out.users) \in [name : STRING, levels : Seq(STRING)]
    <3> DEFINE R == [name : STRING, levels : Seq(STRING)]
    <3>1. Len(out.users) = 1
      BY <2>4
    <3>2. out.users \in Seq(R)
      BY <2>6
    <3> HIDE DEF R
    <3>3. out.users = <<Head(out.users)>> /\ Head(out.users) \in R
      BY <3>1, <3>2, Singleton
    <3> QED BY <3>3 DEF R
  <2>8. PICK record \in [name : STRING, levels : Seq(STRING)] : record = Head(out.users)
    BY <2>7
  <2>9. record.levels \in Seq(STRING) /\ record.levels # <<>>
    BY <2>2, <2>5, <2>8
  <2>10. record.levels = <<found.level>>
    <3>1. ~(Len(record.levels) > 1)
      BY <2>4, <2>8
    <3>2. record.levels = <<Head(record.levels)>>
      BY <2>9, <3>1, Singleton
    <3>3. record.levels[1] = found.level
      BY <2>5, <2>8, <2>9
    <3> QED BY <3>2, <3>3
  <2>11. record = [name |-> user, levels |-> <<found.level>>]
    BY <2>4, <2>8, <2>10
  <2> QED BY <2>2, <2>3, <2>7, <2>8, <2>11 DEF IsAdministrator
<1>5. verdict \in {"accepted", "denied", "authorization_failed"}
  BY <1>3
<1>6. resolved.capabilities \in SUBSET {"nodes.drain", "nodes.resume"}
  BY <1>1
<1>7. resolved.ok =>
        (verdict = "accepted" <=> NodeRegistry[op].capability \in resolved.capabilities)
  BY <1>1, <1>2, <1>3
<1> QED BY <1>4, <1>5, <1>6, <1>7

-----------------------------------------------------------------------------
(* Answers.                                                                 *)

LEMMA Envelopes ==
  ASSUME NEW id \in Id, NEW type \in Type, NEW code \in Code, big \in BOOLEAN
  PROVE  /\ NewEnvelope(id, type) \in Answer /\ NewEnvelope(id, type).type = type
         /\ NewErrorEnvelope(id, code) \in Answer /\ NewErrorEnvelope(id, code).code = code
         /\ NewErrorEnvelope(id, code).type = "error"
         /\ snapshotEnvelope(id, type) \in Answer /\ snapshotEnvelope(id, type).type = type
<1>1. "" \in Id /\ "" \in Code /\ {"", "error"} \subseteq Type
  BY DEF Id, Code, Type
<1>2. NoAnswer \in Answer
  BY <1>1 DEF NoAnswer, Answer
<1>3. NewEnvelope(id, type) \in Answer /\ NewEnvelope(id, type).type = type
  BY <1>2 DEF NewEnvelope, Answer
<1>4. NewErrorEnvelope(id, code) \in Answer
  BY <1>1, <1>2 DEF NewErrorEnvelope, Answer
<1>5. /\ NewErrorEnvelope(id, code).code = code
      /\ NewErrorEnvelope(id, code).type = "error"
  BY <1>1, <1>2 DEF NewErrorEnvelope, Answer
<1>6. snapshotEnvelope(id, type) \in Answer /\ snapshotEnvelope(id, type).type = type
  BY <1>3 DEF snapshotEnvelope, Answer
<1> QED BY <1>3, <1>4, <1>5, <1>6

\* What the dispatcher answers at once; capabilities are what a lookup gives now.
LEMMA Dispatched ==
  ASSUME NEW frame, frame.messageId \in Id, frame.type # "command", big \in BOOLEAN,
         sacct \in Outputs
  PROVE  LET answer == dispatch(frame)
         IN /\ answer \in Answer
            /\ answer.type = "capabilities-response" =>
                 /\ Resolve(user, sacct).ok
                 /\ answer.grants = Resolve(user, sacct).capabilities
<1> DEFINE answer == dispatch(frame)
           id == frame.messageId
<1>1. /\ {"hello-response", "pong", "query-response", "capabilities-response", "error"}
           \subseteq Type
      /\ {"INVALID_MESSAGE", "NOT_FOUND", "invalid-payload", "unsupported-message-type",
          "capability-unavailable"} \subseteq Code
  BY DEF Type, Code
<1>2. \A code \in Code : /\ NewErrorEnvelope(id, code) \in Answer
                         /\ NewErrorEnvelope(id, code).type = "error"
  BY <1>1, Envelopes
<1>3. \A type \in Type : /\ NewEnvelope(id, type) \in Answer
                         /\ NewEnvelope(id, type).type = type
  BY <1>1, Envelopes
<1>4. CASE frame.type \notin handlers \cup authenticatedHandlers
  <2>1. answer = NewErrorEnvelope(id, "unsupported-message-type")
    BY <1>4 DEF dispatch, handlers, authenticatedHandlers
  <2> QED BY <1>1, <1>2, <2>1
<1>5. CASE frame.type = "hello"
  <2>1. answer = NewEnvelope(id, "hello-response")
    BY <1>5 DEF dispatch, handlers, authenticatedHandlers, helloHandler
  <2> QED BY <1>1, <1>3, <2>1
<1>6. CASE frame.type = "ping"
  <2>1. answer = NewEnvelope(id, "pong")
    BY <1>6 DEF dispatch, handlers, authenticatedHandlers, pingHandler
  <2> QED BY <1>1, <1>3, <2>1
<1>7. CASE frame.type = "query"
  <2>1. answer = QueryHandler(frame)
    BY <1>7 DEF dispatch, handlers, authenticatedHandlers
  <2>2. QueryCode(frame.payload) \in {"", "INVALID_MESSAGE", "NOT_FOUND"}
    BY DEF QueryCode
  <2>3. snapshotEnvelope(id, "query-response") \in Answer
        /\ snapshotEnvelope(id, "query-response").type = "query-response"
    BY <1>1, Envelopes
  <2>4. \/ answer = snapshotEnvelope(id, "query-response")
        \/ answer = NewErrorEnvelope(id, "INVALID_MESSAGE")
        \/ answer = NewErrorEnvelope(id, "NOT_FOUND")
    BY <2>1, <2>2 DEF QueryHandler
  <2> QED BY <1>1, <1>2, <2>3, <2>4
<1>8. CASE frame.type = "capabilities-request"
  <2>1. answer = CapabilitiesHandler(frame)
    BY <1>8 DEF dispatch, handlers, authenticatedHandlers
  <2>2. \/ answer = NewErrorEnvelope(id, "invalid-payload")
        \/ answer = NewErrorEnvelope(id, "capability-unavailable")
        \/ /\ Resolve(user, sacct).ok
           /\ answer = [NewEnvelope(id, "capabilities-response")
                          EXCEPT !.grants = Resolve(user, sacct).capabilities]
    BY <2>1 DEF CapabilitiesHandler, capabilityUnavailable
  <2>3. ASSUME Resolve(user, sacct).ok,
               answer = [NewEnvelope(id, "capabilities-response")
                           EXCEPT !.grants = Resolve(user, sacct).capabilities]
        PROVE  answer \in Answer /\ answer.grants = Resolve(user, sacct).capabilities
    <3>1. NewEnvelope(id, "capabilities-response") \in Answer
      BY <1>1, <1>3
    <3>2. Resolve(user, sacct).capabilities \in SUBSET {"nodes.drain", "nodes.resume"}
      BY LookupFacts
    <3> QED BY <2>3, <3>1, <3>2 DEF Answer
  <2> QED BY <1>1, <1>2, <2>2, <2>3
<1> QED BY <1>4, <1>5, <1>6, <1>7, <1>8 DEF handlers, authenticatedHandlers

\* The answer for a row.
LEMMA Recorded ==
  ASSUME NEW id \in Id, NEW row, big \in BOOLEAN
  PROVE  recordResponse(id, row) \in Answer
<1>1. /\ "command-response" \in Type
      /\ {"authorization-denied", "user-lookup-failed", "slurm-command-failed",
          "command-outcome-unknown"} \subseteq Code
  BY DEF Type, Code
<1>2. /\ NewEnvelope(id, "command-response") \in Answer
      /\ \A code \in Code : NewErrorEnvelope(id, code) \in Answer
  BY <1>1, Envelopes
<1>3. \/ recordResponse(id, row) = NewEnvelope(id, "command-response")
      \/ \E code \in {"authorization-denied", "user-lookup-failed", "slurm-command-failed",
                      "command-outcome-unknown"} :
           recordResponse(id, row) = NewErrorEnvelope(id, code)
  BY DEF recordResponse
<1> QED BY <1>1, <1>2, <1>3

-----------------------------------------------------------------------------
(* Which actions change what.                                               *)

Sends   == SendUsual \/ SendOdd
Answers == ReadSimple \/ ReadCommandRefused
Handles == AuthorizeCommand \/ \E o \in {"succeeded", "failed", "unknown"} : ExecuteCommand(o)
Reads   == ReadBad \/ ReadAgain \/ ReadFull \/ Answers \/ ReadCommandClaimed

LEMMA WhoChanges ==
  ASSUME [Next]_vars
  PROVE  /\ UNCHANGED <<peer, user>>
         /\ Sends \/ UNCHANGED sent
         /\ Sends \/ Reads \/ UNCHANGED up
         /\ ReadCommandClaimed \/ Handles \/ UNCHANGED rows
         /\ (\E o \in {"succeeded", "failed", "unknown"} : ExecuteCommand(o)) \/ UNCHANGED jobs
         /\ Answers \/ Handles \/ UNCHANGED replies
         /\ ReadAgain \/ Answers \/ Handles \/ UNCHANGED handled
         /\ Answers \/ ReadCommandClaimed \/ Handles \/ UNCHANGED work
         /\ (\E out \in Outputs : SacctChanges(out)) \/ UNCHANGED sacct
         /\ ReadSimple \/ (\E out \in Outputs : SacctChanges(out)) \/ UNCHANGED shown
         /\ ReadCommandClaimed \/ (\E out \in Outputs : SacctChanges(out)) \/ UNCHANGED proven
         /\ Receive \/ Write \/ Ends \/ UNCHANGED <<buffer, down, inbox, written>>
         /\ Accept \/ Reads \/ Handles \/ Write \/ UNCHANGED outbound
         /\ Accept \/ Reads \/ Handles \/ WriteFails \/ Ends \/ UNCHANGED conn
<1> DEFINE World == \E out \in Outputs : SacctChanges(out)
           Runs == \E o \in {"succeeded", "failed", "unknown"} : ExecuteCommand(o)
           Goal ==
             /\ UNCHANGED <<peer, user>>
             /\ Sends \/ UNCHANGED sent
             /\ Sends \/ Reads \/ UNCHANGED up
             /\ ReadCommandClaimed \/ Handles \/ UNCHANGED rows
             /\ Runs \/ UNCHANGED jobs
             /\ Answers \/ Handles \/ UNCHANGED replies
             /\ ReadAgain \/ Answers \/ Handles \/ UNCHANGED handled
             /\ Answers \/ ReadCommandClaimed \/ Handles \/ UNCHANGED work
             /\ World \/ UNCHANGED sacct
             /\ ReadSimple \/ World \/ UNCHANGED shown
             /\ ReadCommandClaimed \/ World \/ UNCHANGED proven
             /\ Receive \/ Write \/ Ends \/ UNCHANGED <<buffer, down, inbox, written>>
             /\ Accept \/ Reads \/ Handles \/ Write \/ UNCHANGED outbound
             /\ Accept \/ Reads \/ Handles \/ WriteFails \/ Ends \/ UNCHANGED conn
<1> USE DEF clientVars, wireVars, stateVars, worldVars
<1>1. CASE Sends
  <2>1. UNCHANGED <<peer, user, page, buffer, inbox, conn, work, stateVars, wireVars,
                    worldVars, handled, proven, shown>>
    BY <1>1 DEF Sends, SendUsual, SendOdd, SendOneOf
  <2> QED BY <1>1, <2>1
<1>2. CASE \E id \in pending : TimesOut(id)
  BY <1>2 DEF TimesOut
<1>3. CASE HangUp \/ ChannelCloses
  BY <1>3 DEF HangUp, ChannelCloses
<1>4. CASE Receive
  <2>1. UNCHANGED <<peer, user, page, sent, up, conn, work, stateVars, outbound,
                    written, worldVars, upsets, handled, proven, shown>>
    BY <1>4 DEF Receive
  <2> QED BY <1>4, <2>1
<1>5. CASE Accept
  <2>1. UNCHANGED <<peer, user, clientVars, work, stateVars, down, written,
                    worldVars, upsets, handled, proven, shown>>
    BY <1>5 DEF Accept
  <2> QED BY <1>5, <2>1
<1>6. CASE ReadBad \/ ReadFull
  <2>1. /\ Reading /\ UNCHANGED <<work, stateVars, handled, proven, shown>>
    BY <1>6 DEF ReadBad, ReadFull
  <2> QED BY <1>6, <2>1 DEF Reading, Reads
<1>7. CASE ReadAgain
  <2>1. Reading /\ UNCHANGED <<work, stateVars, proven, shown>>
    BY <1>7 DEF ReadAgain
  <2> QED BY <1>7, <2>1 DEF Reading, Reads
<1>8. CASE ReadSimple
  <2>1. Reading /\ UNCHANGED <<rows, jobs, proven>>
    BY <1>8 DEF ReadSimple, ReadNew
  <2> QED BY <1>8, <2>1 DEF Reading, Reads, Answers
<1>9. CASE ReadCommandRefused
  <2>1. Reading /\ UNCHANGED <<rows, jobs, proven, shown>>
    BY <1>9 DEF ReadCommandRefused, ReadNew
  <2> QED BY <1>9, <2>1 DEF Reading, Reads, Answers
<1>10. CASE ReadCommandClaimed
  <2>1. Reading /\ UNCHANGED <<conn, outbound, replies, jobs, handled, shown>>
    BY <1>10 DEF ReadCommandClaimed, ReadNew
  <2> QED BY <1>10, <2>1 DEF Reading, Reads
<1>11. CASE AuthorizeCommand
  <2>1. Handling("authorize") /\ UNCHANGED jobs
    BY <1>11 DEF AuthorizeCommand
  <2> QED BY <1>11, <2>1 DEF Handling, Handles
<1>12. CASE Runs
  <2>1. Handling("execute")
    BY <1>12 DEF ExecuteCommand
  <2> QED BY <1>12, <2>1 DEF Handling, Handles
<1>13. CASE Write
  <2>1. Writing /\ UNCHANGED conn
    BY <1>13 DEF Write
  <2> QED BY <1>13, <2>1 DEF Writing
<1>14. CASE WriteFails
  <2>1. Writing /\ UNCHANGED wireVars
    BY <1>14 DEF WriteFails
  <2> QED BY <1>14, <2>1 DEF Writing
<1>15. CASE Ends
  <2>1. UNCHANGED <<peer, user, clientVars, work, stateVars, outbound, written, worldVars,
                    upsets, handled, proven, shown>>
    BY <1>15 DEF Ends
  <2> QED BY <1>15, <2>1
<1>16. CASE World
  <2>1. UNCHANGED <<peer, user, clientVars, conn, work, stateVars, wireVars, big, handled>>
    BY <1>16 DEF SacctChanges
  <2> QED BY <1>16, <2>1
<1>17. CASE ClusterGrows
  BY <1>17 DEF ClusterGrows
<1>18. CASE UNCHANGED vars
  BY <1>18 DEF vars
<1> QED
  BY <1>1, <1>2, <1>3, <1>4, <1>5, <1>6, <1>7, <1>8, <1>9, <1>10, <1>11, <1>12, <1>13,
     <1>14, <1>15, <1>16, <1>17, <1>18, Zenon
  DEF Next, SystemStep, WriterStep, ServiceStep, Sends

-----------------------------------------------------------------------------
(* The frames.                                                              *)

\* What a peer sends is a frame under one of the message IDs.
LEMMA SendStep ==
  ASSUME TypeInv, Sends
  PROVE  \E frame \in Frames :
           /\ sent' = Append(sent, frame) /\ up' = Append(up, frame)
           /\ pending' \subseteq pending \cup {frame.messageId}
           /\ pending' # pending => frame.messageId \in Range(MessageIds)
           /\ Len(sent) < MaxSends /\ upsets' \in 0 .. MaxUpsets
<1>1. upsets' \in 0 .. MaxUpsets /\ (SendOneOf(Usual) \/ SendOneOf(Odd))
  BY ExchangeAssumption DEF TypeInv, TypeOK, Sends, SendUsual, SendOdd, Upset
<1>2. PICK body \in Usual \cup Odd, i \in 1 .. Len(sent) + 1 :
        LET frame == Frame(body, MessageIds[i])
        IN /\ Writable(frame)
           /\ sent' = Append(sent, frame) /\ up' = Append(up, frame)
           /\ pending' = IF peer = "page" THEN pending \cup {frame.messageId} ELSE pending
  BY <1>1 DEF SendOneOf
<1> DEFINE frame == Frame(body, MessageIds[i])
<1>3. Len(sent) + upsets' < MaxSends
  BY <1>1 DEF SendOneOf
<1>4. Len(sent) \in Nat
  BY DEF TypeInv
<1>5. i \in 1 .. Len(MessageIds) /\ Len(sent) < MaxSends
  BY <1>1, <1>3, <1>4, ExchangeAssumption
<1>6. MessageIds[i] \in Range(MessageIds)
  BY <1>5, ExchangeAssumption DEF Range
<1>7. frame \in Frames
  BY <1>6 DEF Frames
<1>8. peer = "page" => frame.messageId \in Range(MessageIds)
  <2>1. SUFFICES ASSUME peer = "page" PROVE frame.messageId \in Range(MessageIds)
    OBVIOUS
  <2>2. frame.messageId = MessageIds[Len(sent) + 1] /\ Len(sent) + 1 \in 1 .. Len(MessageIds)
    BY <1>2, <1>4, <1>5, <2>1, ExchangeAssumption DEF Writable
  <2> QED BY <2>2, ExchangeAssumption DEF Range
<1> HIDE DEF frame
<1>9. /\ sent' = Append(sent, frame) /\ up' = Append(up, frame)
      /\ pending' = IF peer = "page" THEN pending \cup {frame.messageId} ELSE pending
  BY <1>2 DEF frame
<1>10. /\ pending' \subseteq pending \cup {frame.messageId}
       /\ pending' # pending => frame.messageId \in Range(MessageIds)
  BY <1>8, <1>9
<1> QED BY <1>1, <1>5, <1>7, <1>9, <1>10

LEMMA RangeAppend ==
  ASSUME NEW S, NEW s \in Seq(S), NEW e
  PROVE  Range(Append(s, e)) = Range(s) \cup {e}
<1> DEFINE t == Append(s, e)
<1>1. /\ DOMAIN t = 1 .. Len(s) + 1 /\ DOMAIN s = 1 .. Len(s) /\ Len(s) \in Nat
      /\ t[Len(s) + 1] = e /\ \A i \in 1 .. Len(s) : t[i] = s[i]
  OBVIOUS
<1> HIDE DEF t
<1>2. Range(t) = Range(s) \cup {e}
  BY <1>1 DEF Range
<1> QED BY <1>2 DEF t

LEMMA AppendElements ==
  ASSUME NEW S, NEW s \in Seq(S), NEW e
  PROVE  /\ DOMAIN Append(s, e) = DOMAIN s \cup {Len(s) + 1}
         /\ Append(s, e)[Len(s) + 1] = e /\ Len(s) + 1 \notin DOMAIN s
         /\ \A i \in DOMAIN s : i \in Nat /\ i < Len(s) + 1 /\ Append(s, e)[i] = s[i]
OBVIOUS

\* A frame read is one that the peer has written.
LEMMA FrameRead ==
  ASSUME ExchangeInv, Reading
  PROVE  /\ Head(up) \in Range(sent) /\ Head(up) \in Frames
         /\ up' = Tail(up) /\ work = Idle /\ conn = "open" /\ user # ""
<1>1. up \in Seq(Range(sent)) /\ up # <<>> /\ up' = Tail(up) /\ work = Idle /\ conn = "open"
  BY DEF ExchangeInv, TypeInv, Reading
<1>2. Head(up) \in Range(sent)
  BY <1>1
<1>3. Range(sent) \subseteq Frames
  BY DEF ExchangeInv, TypeInv, Range
<1>4. user # ""
  BY <1>1 DEF ExchangeInv, NamedInv
<1> QED BY <1>1, <1>2, <1>3, <1>4

LEMMA CommandFrames ==
  ASSUME ExchangeInv, NEW frame \in Commands
  PROVE  /\ frame \in Range(sent) /\ frame \in Frames /\ frame.type = "command"
         /\ Decode(frame).err = "" /\ Request(frame).valid /\ Claimable(Request(frame))
<1>1. Range(sent) \subseteq Frames
  BY DEF ExchangeInv, TypeInv, Range
<1> QED BY <1>1 DEF Commands

LEMMA ReadsRead == ASSUME Reads PROVE Reading
BY DEF Reads, ReadBad, ReadAgain, ReadFull, Answers, ReadSimple, ReadCommandRefused,
       ReadCommandClaimed, ReadNew

\* Frames are never forgotten, and those on their way have been sent.
LEMMA FramesStep ==
  ASSUME ExchangeInv, [Next]_vars
  PROVE  /\ sent' \in Seq(Frames) /\ up' \in Seq(Range(sent)')
         /\ Range(sent) \subseteq Range(sent)' /\ Commands \subseteq Commands'
<1>1. sent \in Seq(Frames) /\ up \in Seq(Range(sent))
  BY DEF ExchangeInv, TypeInv
<1>2. /\ sent' \in Seq(Frames) /\ Range(sent) \subseteq Range(sent)'
      /\ up' \in Seq(Range(sent)')
  <2>1. CASE Sends
    <3>1. PICK frame \in Frames : sent' = Append(sent, frame) /\ up' = Append(up, frame)
      BY <2>1, SendStep DEF ExchangeInv
    <3>2. Range(sent)' = Range(sent) \cup {frame}
      <4>1. Range(sent') = Range(sent) \cup {frame}
        BY <1>1, <3>1, RangeAppend
      <4> QED BY <4>1 DEF Range
    <3> DEFINE R == Range(sent)
               Q == Range(sent)'
    <3>3. R \subseteq Q /\ frame \in Q /\ up \in Seq(R)
      BY <1>1, <3>2
    <3> HIDE DEF R, Q
    <3>4. up \in Seq(Q)
      BY <3>3
    <3>5. up' \in Seq(Q)
      BY <3>1, <3>3, <3>4
    <3> QED BY <1>1, <3>1, <3>3, <3>5 DEF R, Q
  <2>2. CASE Reads
    <3>1. up' = Tail(up) /\ up # <<>>
      BY <2>2, ReadsRead DEF Reading
    <3>2. UNCHANGED sent
      BY <2>2, ReadsRead DEF Reading
    <3>3. Range(sent)' = Range(sent)
      BY <3>2 DEF Range
    <3> QED BY <1>1, <3>1, <3>2, <3>3
  <2>3. CASE UNCHANGED <<sent, up>>
    BY <1>1, <2>3 DEF Range
  <2>4. Sends \/ Reads \/ UNCHANGED <<sent, up>>
    BY WhoChanges
  <2> QED BY <2>1, <2>2, <2>3, <2>4
<1>3. Commands \subseteq Commands'
  BY <1>2 DEF Commands
<1> QED BY <1>2, <1>3

-----------------------------------------------------------------------------
(* Commands: what a claim, a verdict and an outcome do to the rows.         *)

LEMMA ClaimStep ==
  ASSUME ExchangeInv, ReadCommandClaimed
  PROVE  LET frame   == Head(up)
             request == Request(frame)
             c       == request.commandId
         IN /\ frame \in Commands /\ c \notin DOMAIN rows
            /\ DOMAIN rows' = DOMAIN rows \cup {c}
            /\ rows'[c] \in RowsOf(frame) /\ rows'[c].status = "authorization_pending"
            /\ \A d \in DOMAIN rows : rows'[d] = rows[d]
            /\ work' = [step |-> "authorize", frame |-> frame, request |-> request]
            /\ frame.messageId \notin DOMAIN replies /\ Cardinality(DOMAIN replies) < CacheSize
            /\ proven' = IF IsAdministrator(sacct) THEN proven \cup {c} ELSE proven
            /\ conn = "open" /\ UNCHANGED <<user, sent, replies, sacct>>
<1> DEFINE frame   == Head(up)
           request == Request(frame)
           c       == request.commandId
           row     == [request |-> request, status |-> "authorization_pending",
                       claim |-> Claim(user, frame.messageId, request)]
<1>1. ReadNew /\ frame.type = "command" /\ request.valid /\ Claimable(request)
  BY DEF ReadCommandClaimed, Request
<1>2. c \notin DOMAIN rows /\ rows' = With(rows, c, row)
  BY DEF ReadCommandClaimed, Request
<1>3. work' = [step |-> "authorize", frame |-> frame, request |-> request]
  BY DEF ReadCommandClaimed, Request
<1>4. proven' = IF IsAdministrator(sacct) THEN proven \cup {c} ELSE proven
  BY DEF ReadCommandClaimed, Request
<1>5. /\ Reading /\ Decode(frame).err = "" /\ frame.messageId \notin DOMAIN replies
      /\ Cardinality(DOMAIN replies) < CacheSize
  BY <1>1 DEF ReadNew
<1>6. frame \in Range(sent) /\ conn = "open"
  BY <1>5, FrameRead
<1>7. frame \in Commands
  BY <1>1, <1>5, <1>6 DEF Commands
<1>8. UNCHANGED <<user, sent, replies, sacct>>
  BY <1>5 DEF Reading, worldVars, ReadCommandClaimed
<1>9. row \in RowsOf(frame) /\ row.status = "authorization_pending"
  BY DEF RowsOf, Status
<1> HIDE DEF row, c
<1>10. /\ DOMAIN rows' = DOMAIN rows \cup {c} /\ rows'[c] = row
       /\ \A d \in DOMAIN rows : rows'[d] = rows[d]
  BY <1>2 DEF With
<1>11. rows'[c] \in RowsOf(frame) /\ rows'[c].status = "authorization_pending"
  BY <1>9, <1>10
<1> QED BY <1>2, <1>3, <1>4, <1>5, <1>6, <1>7, <1>8, <1>10, <1>11, Zenon DEF c

\* A row whose status changes keeps the rest.
LEMMA StatusChange ==
  ASSUME NEW frame, NEW row \in RowsOf(frame), NEW s \in Status
  PROVE  LET new == [row EXCEPT !.status = s]
         IN new \in RowsOf(frame) /\ new.status = s /\ new.request = row.request
BY DEF RowsOf

\* The handler of a command changes the status of its own row, to one that is
\* pending no more; only an accepted command becomes running.
LEMMA HandleStep ==
  ASSUME ExchangeInv, Handles
  PROVE  LET c == work.request.commandId
         IN /\ work # Idle /\ c \in DOMAIN rows /\ DOMAIN rows' = DOMAIN rows
            /\ \A d \in DOMAIN rows : d # c => rows'[d] = rows[d]
            /\ \E s \in Status \ {"authorization_pending"} :
                 /\ rows'[c] = [rows[c] EXCEPT !.status = s]
                 /\ \/ /\ s = "running" /\ work.step = "authorize"
                       /\ Authorize(user, operationFor(work.request.state), sacct) = "accepted"
                       /\ work' = [work EXCEPT !.step = "execute"]
                       /\ UNCHANGED <<conn, outbound, replies, handled>>
                    \/ /\ s # "running"
                       /\ work.step = "authorize" =>
                            Authorize(user, operationFor(work.request.state), sacct) # "accepted"
                       /\ Answered(work.frame, recordResponse(work.frame.messageId, rows'[c]))
            /\ conn = "open" /\ UNCHANGED <<user, sent, sacct, proven, shown>>
<1> DEFINE c == work.request.commandId
           op == operationFor(work.request.state)
           verdict == Authorize(user, op, sacct)
<1>1. /\ work.step \in {"authorize", "execute"} /\ conn = "open"
      /\ UNCHANGED <<user, sent, sacct, proven, shown>>
  BY DEF Handles, AuthorizeCommand, ExecuteCommand, Handling, clientVars, worldVars
<1>2. work # Idle
  BY <1>1 DEF Idle
<1>3. c \in DOMAIN rows
  BY <1>2 DEF ExchangeInv, WorkInv
<1>4. ASSUME NEW s \in Status \ {"authorization_pending", "running"}, Concluded(s),
             work.step = "authorize" => verdict # "accepted"
      PROVE  /\ rows' = [rows EXCEPT ![c] = [rows[c] EXCEPT !.status = s]]
             /\ s # "running" /\ (work.step = "authorize" => verdict # "accepted")
             /\ Answered(work.frame, recordResponse(work.frame.messageId, rows'[c]))
  BY <1>3, <1>4 DEF Concluded
<1>5. \E s \in Status \ {"authorization_pending"} :
        /\ rows' = [rows EXCEPT ![c] = [rows[c] EXCEPT !.status = s]]
        /\ \/ /\ s = "running" /\ work.step = "authorize" /\ verdict = "accepted"
              /\ work' = [work EXCEPT !.step = "execute"]
              /\ UNCHANGED <<conn, outbound, replies, handled>>
           \/ /\ s # "running" /\ (work.step = "authorize" => verdict # "accepted")
              /\ Answered(work.frame, recordResponse(work.frame.messageId, rows'[c]))
  <2>1. CASE AuthorizeCommand
    <3>1. work.step = "authorize"
      BY <2>1 DEF AuthorizeCommand, Handling
    <3>2. CASE verdict = "accepted"
      <4>1. /\ rows' = [rows EXCEPT ![c] = [rows[c] EXCEPT !.status = "running"]]
            /\ work' = [work EXCEPT !.step = "execute"]
            /\ UNCHANGED <<conn, outbound, replies, handled>>
        BY <2>1, <3>2 DEF AuthorizeCommand
      <4>2. "running" \in Status \ {"authorization_pending"}
        BY DEF Status
      <4> QED BY <3>1, <3>2, <4>1, <4>2
    <3>3. CASE verdict # "accepted"
      <4>1. Concluded(verdict)
        BY <2>1, <3>3 DEF AuthorizeCommand
      <4>2. verdict \in {"denied", "authorization_failed"}
        BY <3>3, LookupFacts DEF operationFor, ExchangeInv, TypeInv, TypeOK
      <4>3. verdict \in Status \ {"authorization_pending", "running"}
        BY <4>2 DEF Status
      <4> HIDE DEF verdict
      <4> QED BY <1>4, <3>3, <4>1, <4>3
    <3> QED BY <3>2, <3>3
  <2>2. CASE \E o \in {"succeeded", "failed", "unknown"} : ExecuteCommand(o)
    <3>1. PICK o \in {"succeeded", "failed", "unknown"} : ExecuteCommand(o)
      BY <2>2
    <3>2. Concluded(o) /\ work.step = "execute"
      BY <3>1 DEF ExecuteCommand, Handling
    <3>3. o \in Status \ {"authorization_pending", "running"}
      BY DEF Status
    <3> QED BY <1>4, <3>2, <3>3
  <2> QED BY <2>1, <2>2 DEF Handles
<1>6. PICK s \in Status \ {"authorization_pending"} :
        /\ rows' = [rows EXCEPT ![c] = [rows[c] EXCEPT !.status = s]]
        /\ \/ /\ s = "running" /\ work.step = "authorize" /\ verdict = "accepted"
              /\ work' = [work EXCEPT !.step = "execute"]
              /\ UNCHANGED <<conn, outbound, replies, handled>>
           \/ /\ s # "running" /\ (work.step = "authorize" => verdict # "accepted")
              /\ Answered(work.frame, recordResponse(work.frame.messageId, rows'[c]))
  BY <1>5
<1>7. /\ DOMAIN rows' = DOMAIN rows /\ rows'[c] = [rows[c] EXCEPT !.status = s]
      /\ \A d \in DOMAIN rows : d # c => rows'[d] = rows[d]
  BY <1>3, <1>6
<1> QED BY <1>1, <1>2, <1>3, <1>6, <1>7, Zenon

\* Every row goes on standing for a command that was sent.
LEMMA RowStep == ASSUME ExchangeInv, [Next]_vars PROVE RowInv'
<1>1. Commands \subseteq Commands' /\ user' = user
  BY FramesStep, WhoChanges
<1>2. \A frame : RowsOf(frame)' = RowsOf(frame)
  BY <1>1 DEF RowsOf
<1>3. \A c \in DOMAIN rows : \E frame \in Commands :
        c = Request(frame).commandId /\ rows[c] \in RowsOf(frame)
  BY DEF ExchangeInv, RowInv
<1>4. SUFFICES ASSUME NEW c \in DOMAIN rows'
               PROVE  \E frame \in Commands :
                        c = Request(frame).commandId /\ rows'[c] \in RowsOf(frame)
  BY <1>1, <1>2 DEF RowInv
<1>5. CASE ReadCommandClaimed
  <2>1. CASE c \in DOMAIN rows
    BY <1>3, <1>5, <2>1, ClaimStep
  <2>2. CASE c = Request(Head(up)).commandId
    BY <1>5, <2>2, ClaimStep
  <2> QED BY <1>4, <1>5, <2>1, <2>2, ClaimStep
<1>6. CASE Handles
  <2>1. c \in DOMAIN rows
    BY <1>4, <1>6, HandleStep
  <2>2. PICK frame \in Commands : c = Request(frame).commandId /\ rows[c] \in RowsOf(frame)
    BY <1>3, <2>1
  <2>3. CASE c = work.request.commandId
    <3>1. PICK s \in Status : rows'[c] = [rows[c] EXCEPT !.status = s]
      BY <1>6, <2>3, HandleStep
    <3> QED BY <2>2, <3>1, StatusChange
  <2>4. CASE c # work.request.commandId
    BY <1>6, <2>1, <2>2, <2>4, HandleStep
  <2> QED BY <2>3, <2>4
<1>7. CASE UNCHANGED rows
  BY <1>3, <1>4, <1>7
<1> QED BY <1>5, <1>6, <1>7, WhoChanges

\* The connection of a peer without a name is never opened.
LEMMA NamedStep == ASSUME ExchangeInv, [Next]_vars PROVE NamedInv'
<1>1. SUFFICES ASSUME user = "" PROVE conn' \in {"accepted", "closed"} /\ DOMAIN rows' = {}
  BY WhoChanges DEF NamedInv
<1>2. conn \in {"accepted", "closed"} /\ DOMAIN rows = {}
  BY <1>1 DEF ExchangeInv, NamedInv
<1>3. ~Reads /\ ~Handles
  BY <1>1, <1>2, ReadsRead, FrameRead, HandleStep
<1>4. DOMAIN rows' = {}
  BY <1>2, <1>3, WhoChanges DEF Reads
<1>5. CASE Accept
  BY <1>1, <1>4, <1>5 DEF Accept
<1>6. CASE WriteFails \/ Ends
  BY <1>4, <1>6 DEF WriteFails, Ends
<1> QED BY <1>2, <1>3, <1>4, <1>5, <1>6, WhoChanges

\* A command line runs only for a caller who was administrator since the claim:
\* whoever is administrator now is noted at the claim and at every change of the
\* accounting data.
LEMMA ProvenStep == ASSUME ExchangeInv, [Next]_vars PROVE ProvenInv' /\ proven \subseteq proven'
<1>1. /\ user' = user
      /\ \A c \in DOMAIN rows :
           \/ rows[c].status = "authorization_pending" /\ IsAdministrator(sacct)
           \/ rows[c].status = "running"
           => c \in proven
  BY WhoChanges DEF ExchangeInv, ProvenInv
<1>2. ASSUME UNCHANGED sacct PROVE IsAdministrator(sacct)' <=> IsAdministrator(sacct)
  BY <1>1, <1>2 DEF IsAdministrator
<1>3. CASE ReadCommandClaimed
  <2> DEFINE c == Request(Head(up)).commandId
  <2>1. /\ DOMAIN rows' = DOMAIN rows \cup {c} /\ \A d \in DOMAIN rows : rows'[d] = rows[d]
        /\ rows'[c].status = "authorization_pending" /\ UNCHANGED sacct
        /\ proven' = IF IsAdministrator(sacct) THEN proven \cup {c} ELSE proven
    BY <1>3, ClaimStep
  <2> HIDE DEF c
  <2> QED BY <1>1, <1>2, <2>1 DEF ProvenInv
<1>4. CASE Handles
  <2> DEFINE c == work.request.commandId
  <2>1. /\ DOMAIN rows' = DOMAIN rows /\ c \in DOMAIN rows
        /\ \A d \in DOMAIN rows : d # c => rows'[d] = rows[d]
        /\ UNCHANGED <<sacct, proven>>
    BY <1>4, HandleStep
  <2>2. PICK s \in Status \ {"authorization_pending"} :
          /\ rows'[c] = [rows[c] EXCEPT !.status = s]
          /\ s = "running" =>
               /\ work.step = "authorize"
               /\ Authorize(user, operationFor(work.request.state), sacct) = "accepted"
    BY <1>4, HandleStep
  <2>3. rows'[c].status = s
    <3>1. PICK frame : rows[c] \in RowsOf(frame)
      BY <2>1 DEF ExchangeInv, RowInv
    <3> QED BY <2>2, <3>1, StatusChange
  <2>4. s = "running" => c \in proven
    <3>1. SUFFICES ASSUME s = "running" PROVE c \in proven
      OBVIOUS
    <3>2. IsAdministrator(sacct)
      BY <2>2, <3>1, LookupFacts DEF operationFor, ExchangeInv, TypeInv, TypeOK
    <3>3. work # Idle
      BY <1>4, HandleStep
    <3>4. rows[c].status = "authorization_pending"
      BY <2>2, <3>1, <3>3 DEF ExchangeInv, WorkInv
    <3> QED BY <1>1, <2>1, <3>2, <3>4
  <2> HIDE DEF c
  <2> QED BY <1>1, <1>2, <2>1, <2>2, <2>3, <2>4 DEF ProvenInv
<1>5. CASE \E out \in Outputs : SacctChanges(out)
  <2>1. PICK out \in Outputs : SacctChanges(out)
    BY <1>5
  <2>2. /\ sacct' = out /\ UNCHANGED rows
        /\ proven' = IF IsAdministrator(out)
                     THEN proven \cup {c \in DOMAIN rows :
                                         rows[c].status = "authorization_pending"}
                     ELSE proven
    BY <2>1 DEF SacctChanges, stateVars
  <2>3. IsAdministrator(sacct)' <=> IsAdministrator(out)
    BY <1>1, <2>2 DEF IsAdministrator
  <2> QED BY <1>1, <2>2, <2>3 DEF ProvenInv
<1>6. CASE UNCHANGED <<rows, sacct, proven>>
  BY <1>1, <1>2, <1>6 DEF ProvenInv
<1> QED BY <1>3, <1>4, <1>5, <1>6, WhoChanges

\* What runs is the command line of a command that was sent.
LEMMA JobStep == ASSUME ExchangeInv, [Next]_vars PROVE JobInv'
<1> DEFINE J == {Line(Request(frame)) : frame \in Commands}
           K == {Line(Request(frame)) : frame \in Commands'}
<1>1. J \subseteq K /\ proven \subseteq proven'
  BY FramesStep, ProvenStep
<1>2. jobs \in Seq(J) /\ \A j \in DOMAIN jobs : jobs[j].commandId \in proven
  BY DEF ExchangeInv, JobInv, FreshAuthority
<1>3. SUFFICES jobs' \in Seq(K) /\ \A j \in DOMAIN jobs' : jobs'[j].commandId \in proven'
  BY DEF JobInv, FreshAuthority
<1>4. CASE \E o \in {"succeeded", "failed", "unknown"} : ExecuteCommand(o)
  <2> DEFINE line == Line(work.request)
  <2>1. jobs' = jobs \/ jobs' = Append(jobs, line)
    BY <1>4 DEF ExecuteCommand, Line
  <2>2. work.step = "execute"
    BY <1>4 DEF ExecuteCommand, Handling
  <2>3. work # Idle
    BY <2>2 DEF Idle
  <2>4. work.frame \in Commands /\ work.request = Request(work.frame)
    BY <2>3 DEF ExchangeInv, WorkInv
  <2>5. line \in J
    BY <2>4
  <2>6. line.commandId \in proven
    <3>1. line.commandId = work.request.commandId
      BY DEF Line
    <3>2. /\ work.request.commandId \in DOMAIN rows
          /\ rows[work.request.commandId].status = "running"
      BY <2>2, <2>3 DEF ExchangeInv, WorkInv
    <3> QED BY <3>1, <3>2 DEF ExchangeInv, ProvenInv
  <2> HIDE DEF line, J, K
  <2>7. jobs' \in Seq(J)
    BY <1>2, <2>1, <2>5
  <2>8. jobs' \in Seq(K)
    BY <1>1, <2>7
  <2>9. ASSUME NEW j \in DOMAIN jobs' PROVE jobs'[j].commandId \in proven
    <3>1. CASE j \in DOMAIN jobs /\ jobs'[j] = jobs[j]
      BY <1>2, <3>1
    <3>2. CASE jobs'[j] = line
      BY <2>6, <3>2
    <3>3. jobs \in Seq(J)
      BY <1>2
    <3> QED BY <2>1, <2>9, <3>1, <3>2, <3>3, AppendElements
  <2> QED BY <1>1, <2>8, <2>9
<1>5. CASE UNCHANGED jobs
  <2> HIDE DEF J, K
  <2>1. jobs \in Seq(K)
    BY <1>1, <1>2
  <2> QED BY <1>1, <1>2, <1>5, <2>1
<1> QED BY <1>4, <1>5, WhoChanges

\* What the page has been shown is what a lookup gives until the data changes.
LEMMA ShownStep == ASSUME ExchangeInv, [Next]_vars PROVE ShownInv'
<1>1. user' = user
  BY WhoChanges
<1>2. CASE \E out \in Outputs : SacctChanges(out)
  BY <1>2 DEF SacctChanges, ShownInv
<1>3. CASE ReadSimple /\ UNCHANGED sacct
  <2> DEFINE answer == dispatch(Head(up))
  <2>1. shown' = IF answer.type = "capabilities-response" THEN <<answer.grants>> ELSE shown
    BY <1>3 DEF ReadSimple
  <2>2. /\ Head(up) \in Frames /\ Decode(Head(up)).err = "" /\ Head(up).type # "command"
    BY <1>3, FrameRead DEF ReadSimple, ReadNew
  <2>3. Head(up).messageId \in Id
    BY <2>2, DecodedHasId DEF Id
  <2>4. answer.type = "capabilities-response" =>
          Resolve(user, sacct).ok /\ answer.grants = Resolve(user, sacct).capabilities
    BY <2>2, <2>3, Dispatched DEF ExchangeInv, TypeInv, TypeOK
  <2> HIDE DEF answer
  <2> QED BY <1>1, <1>3, <2>1, <2>4 DEF ExchangeInv, ShownInv
<1>4. CASE UNCHANGED <<shown, sacct>>
  BY <1>1, <1>4 DEF ExchangeInv, ShownInv
<1> QED BY <1>2, <1>3, <1>4, WhoChanges

-----------------------------------------------------------------------------
(* Answers.                                                                 *)

\* A message that finds room leaves the queue within its capacity.
LEMMA EnqueueStep ==
  ASSUME ExchangeInv, NEW answer \in Answer, Enqueue(answer)
  PROVE  outbound' \in Seq(Answer) /\ Len(outbound') <= QueueSize /\ conn' \in {conn, "closed"}
<1>1. outbound \in Seq(Answer) /\ Len(outbound) <= QueueSize /\ QueueSize \in Nat
  BY ExchangeAssumption DEF ExchangeInv, TypeInv, TypeOK
<1>2. CASE Len(outbound) < QueueSize
  <2>1. outbound' = Append(outbound, answer) /\ conn' = conn
    BY <1>2 DEF Enqueue
  <2>2. Append(outbound, answer) \in Seq(Answer) /\ Len(Append(outbound, answer)) <= QueueSize
    BY <1>1, <1>2
  <2> QED BY <2>1, <2>2
<1>3. CASE ~(Len(outbound) < QueueSize)
  BY <1>1, <1>3 DEF Enqueue
<1> QED BY <1>2, <1>3

\* A request that was answered has its own answer in the replay cache, and the
\* cache had none for its message ID before.
LEMMA AnswerStep ==
  ASSUME ExchangeInv, NEW frame \in Frames, NEW answer \in Answer,
         frame.messageId \in Range(MessageIds), frame.messageId \notin DOMAIN replies,
         Cardinality(DOMAIN replies) < CacheSize, Answered(frame, answer)
  PROVE  /\ ReplyInv' /\ work' = Idle
         /\ DOMAIN replies' \subseteq Range(MessageIds)
         /\ Cardinality(DOMAIN replies') <= CacheSize
         /\ handled' \in Seq([frame : Frames, answer : Answer])
         /\ outbound' \in Seq(Answer) /\ Len(outbound') <= QueueSize
         /\ conn' \in {conn, "closed"}
<1> DEFINE id == frame.messageId
           entry == [print |-> requestFingerprint(frame), answer |-> answer]
           item == [frame |-> frame, answer |-> answer]
           Item == [frame : Frames, answer : Answer]
<1>1. /\ replies' = With(replies, id, entry) /\ handled' = Append(handled, item)
      /\ Enqueue(answer) /\ work' = Idle
  BY DEF Answered
<1>2. /\ IsFiniteSet(DOMAIN replies) /\ Cardinality(DOMAIN replies) \in Nat
      /\ DOMAIN replies \subseteq Range(MessageIds)
  BY FS_CardinalityType DEF ExchangeInv, ReplyInv, TypeInv, TypeOK
<1>3. DOMAIN replies' = DOMAIN replies \cup {id}
  BY <1>1 DEF With
<1>4. replies'[id] = entry /\ \A x \in DOMAIN replies : replies'[x] = replies[x]
  BY <1>1 DEF With
<1>5. /\ IsFiniteSet(DOMAIN replies') /\ Cardinality(DOMAIN replies') <= CacheSize
      /\ DOMAIN replies' \subseteq Range(MessageIds)
  <2>1. /\ IsFiniteSet(DOMAIN replies \cup {id})
        /\ Cardinality(DOMAIN replies \cup {id}) = Cardinality(DOMAIN replies) + 1
    BY <1>2, FS_AddElement
  <2> QED BY <1>2, <1>3, <2>1, ExchangeAssumption
<1>6. handled \in Seq(Item) /\ item \in Item
  BY DEF ExchangeInv, TypeInv
<1>7. entry.answer = answer /\ entry.print = requestFingerprint(frame)
  OBVIOUS
<1>8. item.frame = frame /\ item.answer = answer
  OBVIOUS
<1>9. /\ outbound' \in Seq(Answer) /\ Len(outbound') <= QueueSize /\ conn' \in {conn, "closed"}
  BY <1>1, EnqueueStep
<1> HIDE DEF entry, item, Item
<1>10. handled' \in Seq(Item)
  BY <1>1, <1>6
<1>11. \A x \in DOMAIN replies' : replies'[x].answer \in Answer
  BY <1>3, <1>4, <1>7 DEF ExchangeInv, ReplyInv
<1>12. ASSUME NEW i \in DOMAIN handled'
       PROVE  LET f == handled'[i].frame
              IN /\ f.messageId \in DOMAIN replies'
                 /\ IF replies'[f.messageId].print = requestFingerprint(f)
                    THEN handled'[i].answer = replies'[f.messageId].answer
                    ELSE handled'[i].answer.code = "message-id-conflict"
  <2>1. CASE i \in DOMAIN handled /\ handled'[i] = handled[i]
    BY <1>3, <1>4, <2>1 DEF ExchangeInv, ReplyInv
  <2>2. CASE handled'[i] = item
    BY <1>3, <1>4, <1>7, <1>8, <2>2
  <2> QED BY <1>1, <1>6, <1>12, <2>1, <2>2, AppendElements
<1>13. ReplyInv'
  BY <1>5, <1>11, <1>12 DEF ReplyInv, requestFingerprint
<1> QED BY <1>1, <1>5, <1>9, <1>10, <1>13 DEF Item

\* A frame that is read as new: its answer, if it has one at once.
LEMMA NewStep ==
  ASSUME ExchangeInv, Answers
  PROVE  \E frame \in Frames, answer \in Answer :
           /\ frame.messageId \in Range(MessageIds) /\ frame.messageId \notin DOMAIN replies
           /\ Cardinality(DOMAIN replies) < CacheSize /\ Answered(frame, answer)
<1> DEFINE frame == Head(up)
<1>1. ReadNew
  BY DEF Answers, ReadSimple, ReadCommandRefused
<1>2. /\ frame \in Frames /\ Decode(frame).err = "" /\ frame.messageId \notin DOMAIN replies
      /\ Cardinality(DOMAIN replies) < CacheSize
  BY <1>1, FrameRead DEF ReadNew
<1>3. frame.messageId \in Range(MessageIds) /\ frame.messageId \in Id
  BY <1>2, DecodedHasId DEF Id
<1>4. big \in BOOLEAN /\ sacct \in Outputs
  BY DEF ExchangeInv, TypeInv, TypeOK
<1>5. CASE ReadSimple
  <2>1. Answered(frame, dispatch(frame)) /\ frame.type # "command"
    BY <1>5 DEF ReadSimple
  <2>2. dispatch(frame) \in Answer
    BY <1>3, <1>4, <2>1, Dispatched
  <2> QED BY <1>2, <1>3, <2>1, <2>2
<1>6. CASE ReadCommandRefused
  <2>1. "command-id-conflict" \in Code /\ "invalid-payload" \in Code /\ "error" \in Type
    BY DEF Code, Type
  <2>2. /\ NewErrorEnvelope(frame.messageId, "command-id-conflict") \in Answer
        /\ NewErrorEnvelope(frame.messageId, "invalid-payload") \in Answer
        /\ \A row : recordResponse(frame.messageId, row) \in Answer
    BY <1>3, <1>4, <2>1, Envelopes, Recorded
  <2>3. \E answer : answer \in Answer /\ Answered(frame, answer)
    BY <1>6, <2>2 DEF ReadCommandRefused
  <2> QED BY <1>2, <1>3, <2>3
<1> QED BY <1>5, <1>6 DEF Answers

\* A handler that concludes has its answer, too.
LEMMA ConcludeStep ==
  ASSUME ExchangeInv, Handles, ~UNCHANGED replies
  PROVE  \E frame \in Frames, answer \in Answer :
           /\ frame.messageId \in Range(MessageIds) /\ frame.messageId \notin DOMAIN replies
           /\ Cardinality(DOMAIN replies) < CacheSize /\ Answered(frame, answer)
<1>1. \E row : Answered(work.frame, recordResponse(work.frame.messageId, row))
  BY HandleStep
<1>2. work # Idle
  BY HandleStep
<1>3. /\ work.frame \in Commands /\ work.frame.messageId \notin DOMAIN replies
      /\ Cardinality(DOMAIN replies) < CacheSize
  BY <1>2 DEF ExchangeInv, WorkInv
<1>4. work.frame \in Frames /\ Decode(work.frame).err = ""
  BY <1>3, CommandFrames
<1>5. work.frame.messageId \in Range(MessageIds) /\ work.frame.messageId \in Id
  BY <1>4, DecodedHasId DEF Id
<1>6. \A row : recordResponse(work.frame.messageId, row) \in Answer
  BY <1>5, Recorded DEF ExchangeInv, TypeInv, TypeOK
<1> QED BY <1>1, <1>3, <1>4, <1>5, <1>6

\* A repeated message ID gets the cached answer, or a conflict.
LEMMA AgainStep ==
  ASSUME ExchangeInv, ReadAgain
  PROVE  /\ ReplyInv' /\ UNCHANGED replies
         /\ handled' \in Seq([frame : Frames, answer : Answer])
         /\ \E answer \in Answer : Enqueue(answer)
<1> DEFINE frame == Head(up)
           cached == replies[frame.messageId]
           conflict == NewErrorEnvelope(frame.messageId, "message-id-conflict")
           answer == IF cached.print = requestFingerprint(frame) THEN cached.answer ELSE conflict
           item == [frame |-> frame, answer |-> answer]
           Item == [frame : Frames, answer : Answer]
<1>1. /\ frame \in Frames /\ Decode(frame).err = "" /\ frame.messageId \in DOMAIN replies
      /\ handled' = Append(handled, item) /\ Enqueue(answer) /\ UNCHANGED replies
  BY FrameRead DEF ReadAgain, stateVars
<1>2. frame.messageId \in Id
  BY <1>1, DecodedHasId DEF Id
<1>3. conflict \in Answer /\ conflict.code = "message-id-conflict"
  <2>1. "message-id-conflict" \in Code /\ "error" \in Type
    BY DEF Code, Type
  <2> QED BY <1>2, <2>1, Envelopes DEF ExchangeInv, TypeInv, TypeOK
<1>4. cached.answer \in Answer
  BY <1>1 DEF ExchangeInv, ReplyInv
<1>5. answer \in Answer
  BY <1>3, <1>4
<1>6. item.frame = frame /\ item.answer = answer
  OBVIOUS
<1>7. handled \in Seq(Item) /\ item \in Item
  BY <1>1, <1>5 DEF ExchangeInv, TypeInv
<1>8. IF cached.print = requestFingerprint(frame)
      THEN answer = cached.answer ELSE answer.code = "message-id-conflict"
  BY <1>3
<1> HIDE DEF item, Item, answer, conflict
<1>9. handled' = Append(handled, item)
  BY <1>1 DEF item, answer, conflict
<1>12. handled' \in Seq(Item)
  BY <1>7, <1>9
<1>10. ASSUME NEW i \in DOMAIN handled'
       PROVE  LET f == handled'[i].frame
              IN /\ f.messageId \in DOMAIN replies
                 /\ IF replies[f.messageId].print = requestFingerprint(f)
                    THEN handled'[i].answer = replies[f.messageId].answer
                    ELSE handled'[i].answer.code = "message-id-conflict"
  <2>1. CASE i \in DOMAIN handled /\ handled'[i] = handled[i]
    BY <2>1 DEF ExchangeInv, ReplyInv
  <2>2. CASE handled'[i] = item
    BY <1>1, <1>6, <1>8, <2>2
  <2> QED BY <1>7, <1>9, <1>10, <2>1, <2>2, AppendElements
<1>11. ReplyInv'
  BY <1>1, <1>10 DEF ExchangeInv, ReplyInv, requestFingerprint
<1> QED BY <1>1, <1>5, <1>11, <1>12 DEF Item, answer, conflict

LEMMA ReplyStep == ASSUME ExchangeInv, [Next]_vars PROVE ReplyInv'
<1>1. CASE Answers
  BY <1>1, NewStep, AnswerStep
<1>2. CASE ReadAgain
  BY <1>2, AgainStep
<1>3. CASE Handles /\ ~UNCHANGED replies
  BY <1>3, ConcludeStep, AnswerStep
<1>4. CASE UNCHANGED <<replies, handled>>
  BY <1>4 DEF ExchangeInv, ReplyInv
<1>5. CASE Handles /\ UNCHANGED replies
  <2>1. CASE UNCHANGED handled
    BY <1>4, <1>5, <2>1
  <2>2. CASE ~UNCHANGED handled
    <3>1. \E row : Answered(work.frame, recordResponse(work.frame.messageId, row))
      BY <1>5, <2>2, HandleStep
    <3>2. DOMAIN replies' = DOMAIN replies \cup {work.frame.messageId}
      BY <3>1 DEF Answered, With
    <3>3. work.frame.messageId \notin DOMAIN replies
      BY <1>5, HandleStep DEF ExchangeInv, WorkInv
    <3> QED BY <1>5, <3>2, <3>3
  <2> QED BY <2>1, <2>2
<1> QED BY <1>1, <1>2, <1>3, <1>4, <1>5, WhoChanges

\* The request being handled keeps its row and its place in the cache: nothing
\* else is read meanwhile.
LEMMA WorkStep == ASSUME ExchangeInv, [Next]_vars PROVE WorkInv'
<1>1. Commands \subseteq Commands'
  BY FramesStep
<1>2. CASE Answers
  <2>1. work' = Idle
    BY <1>2, NewStep, AnswerStep
  <2> QED BY <2>1 DEF WorkInv, Idle
<1>3. CASE ReadCommandClaimed
  <2> DEFINE frame == Head(up)
             request == Request(frame)
             c == request.commandId
  <2>1. /\ frame \in Commands' /\ c \in DOMAIN rows' /\ rows'[c] \in RowsOf(frame)
        /\ rows'[c].status = "authorization_pending"
        /\ work' = [step |-> "authorize", frame |-> frame, request |-> request]
        /\ frame.messageId \notin DOMAIN replies' /\ Cardinality(DOMAIN replies') < CacheSize
    BY <1>1, <1>3, ClaimStep
  <2>2. rows'[c].request = request
    BY <2>1 DEF RowsOf
  <2>3. /\ work'.step = "authorize" /\ work'.frame = frame /\ work'.request = request
    BY <2>1
  <2>4. work' \in [step : {"authorize", "execute"}, frame : Commands',
                   request : {Request(work'.frame)}]
    BY <2>1, <2>3
  <2>5. Request(work.frame)' = Request(work'.frame)
    BY DEF Request
  <2> HIDE DEF frame, request
  <2> QED BY <2>1, <2>2, <2>3, <2>4, <2>5 DEF WorkInv
<1>4. CASE Handles
  <2> DEFINE c == work.request.commandId
  <2>1. PICK s \in Status \ {"authorization_pending"} :
          /\ rows'[c] = [rows[c] EXCEPT !.status = s]
          /\ \/ /\ s = "running" /\ work.step = "authorize"
                /\ work' = [work EXCEPT !.step = "execute"] /\ UNCHANGED replies
             \/ \E row : Answered(work.frame, recordResponse(work.frame.messageId, row))
    BY <1>4, HandleStep
  <2>2. work # Idle /\ c \in DOMAIN rows /\ DOMAIN rows' = DOMAIN rows
    BY <1>4, HandleStep
  <2>3. CASE work' = Idle
    BY <2>3 DEF WorkInv, Idle
  <2>4. CASE s = "running" /\ work' = [work EXCEPT !.step = "execute"] /\ UNCHANGED replies
    <3>1. /\ work \in [step : {"authorize", "execute"}, frame : Commands,
                       request : {Request(work.frame)}]
          /\ rows[c].request = work.request
          /\ work.frame.messageId \notin DOMAIN replies
          /\ Cardinality(DOMAIN replies) < CacheSize
      BY <2>2 DEF ExchangeInv, WorkInv
    <3>2. /\ work'.step = "execute" /\ work'.frame = work.frame /\ work'.request = work.request
          /\ work'.request = Request(work'.frame)
      BY <2>4, <3>1
    <3>3. work' \in [step : {"authorize", "execute"}, frame : Commands',
                     request : {Request(work'.frame)}]
      BY <1>1, <2>4, <3>1
    <3>4. rows'[c].status = "running" /\ rows'[c].request = work.request
      <4>1. PICK frame : rows[c] \in RowsOf(frame)
        BY <2>2 DEF ExchangeInv, RowInv
      <4> QED BY <2>1, <2>4, <3>1, <4>1, StatusChange
    <3>5. Request(work.frame)' = Request(work'.frame)
      BY DEF Request
    <3> QED BY <2>2, <2>4, <3>1, <3>2, <3>3, <3>4, <3>5 DEF WorkInv
  <2> QED BY <2>1, <2>3, <2>4 DEF Answered
<1>5. CASE UNCHANGED work /\ ~Answers /\ ~ReadCommandClaimed /\ ~Handles
  <2>1. UNCHANGED <<rows, replies>>
    BY <1>5, WhoChanges
  <2>2. CASE work = Idle
    BY <1>5, <2>2 DEF WorkInv, Idle
  <2>3. CASE work # Idle
    BY <1>1, <1>5, <2>1, <2>3 DEF ExchangeInv, WorkInv, Idle, Request
  <2> QED BY <2>2, <2>3
<1> QED BY <1>2, <1>3, <1>4, <1>5, WhoChanges

-----------------------------------------------------------------------------
(* Headers and bodies.                                                      *)

LEMMA ConcatAssoc ==
  ASSUME NEW S, NEW s \in Seq(S), NEW t \in Seq(S), NEW u \in Seq(S)
  PROVE  (s \o t) \o u = s \o (t \o u)
<1> DEFINE l == (s \o t) \o u
           r == s \o (t \o u)
<1>1. l \in Seq(S) /\ r \in Seq(S) /\ Len(l) = Len(r)
  OBVIOUS
<1>2. ASSUME NEW i \in 1 .. Len(l) PROVE l[i] = r[i]
  OBVIOUS
<1> QED BY <1>1, <1>2, SeqEqual

LEMMA UnitsAssoc == \A s, t, u \in Seq(Unit) : (s \o t) \o u = s \o (t \o u)
<1> SUFFICES ASSUME NEW s \in Seq(Unit), NEW t \in Seq(Unit), NEW u \in Seq(Unit)
             PROVE  (s \o t) \o u = s \o (t \o u)
  OBVIOUS
<1> QED BY ConcatAssoc

LEMMA AnswersAssoc == \A s, t, u \in Seq(Answer) : (s \o t) \o u = s \o (t \o u)
BY ConcatAssoc

LEMMA ConcatType ==
  ASSUME NEW S, NEW s \in Seq(S), NEW t \in Seq(S)
  PROVE  s \o t \in Seq(S) /\ Len(s \o t) = Len(s) + Len(t)
OBVIOUS

LEMMA ConcatFirst ==
  ASSUME NEW S, NEW s \in Seq(S), NEW t \in Seq(S), NEW i \in 1 .. Len(s)
  PROVE  (s \o t)[i] = s[i]
OBVIOUS

LEMMA ConcatSecond ==
  ASSUME NEW S, NEW s \in Seq(S), NEW t \in Seq(S), NEW i \in 1 .. Len(t)
  PROVE  (s \o t)[Len(s) + i] = t[i]
OBVIOUS

LEMMA Halves ==
  ASSUME NEW n \in Nat
  PROVE  /\ n \div 2 \in Nat /\ 2 * (n \div 2) <= n /\ n <= 2 * (n \div 2) + 1
         /\ \A k \in Nat : 2 * k <= n /\ n <= 2 * k + 1 => n \div 2 = k
OBVIOUS

LEMMA BodiesType ==
  ASSUME NEW s \in Seq(Unit)
  PROVE  /\ Bodies(s) \in Seq(Answer) /\ Len(Bodies(s)) = Len(s) \div 2
         /\ \A i \in 1 .. Len(s) \div 2 : Bodies(s)[i] = s[2 * i].answer
<1> DEFINE h == Len(s) \div 2
<1>1. h \in Nat /\ 2 * h <= Len(s)
  BY Halves
<1> HIDE DEF h
<1>2. \A i \in 1 .. h : 2 * i \in 1 .. Len(s)
  BY <1>1
<1>3. \A i \in 1 .. h : s[2 * i] \in Unit
  BY <1>2
<1>4. \A i \in 1 .. h : s[2 * i].answer \in Answer
  BY <1>3 DEF Unit
<1>5. Bodies(s) = [i \in 1 .. h |-> s[2 * i].answer]
  BY DEF Bodies, h
<1>6. Bodies(s) \in Seq(Answer) /\ Len(Bodies(s)) = h
  BY <1>1, <1>4, <1>5
<1> QED BY <1>5, <1>6 DEF h

\* Whole messages may be taken off the front.
LEMMA BodiesConcat ==
  ASSUME NEW p \in Seq(Unit), NEW q \in Seq(Unit), NEW k \in Nat, Len(p) = 2 * k
  PROVE  Bodies(p \o q) = Bodies(p) \o Bodies(q)
<1> DEFINE l == Bodies(p \o q)
           r == Bodies(p) \o Bodies(q)
           m == Len(q) \div 2
<1>1. p \o q \in Seq(Unit) /\ Len(p \o q) = 2 * k + Len(q)
  OBVIOUS
<1>2. m \in Nat /\ 2 * m <= Len(q) /\ Len(q) <= 2 * m + 1
  BY Halves
<1>3. Len(p) \div 2 = k
  BY Halves
<1>4. Len(p \o q) \div 2 = k + m
  <2> HIDE DEF m
  <2>1. /\ k + m \in Nat /\ Len(p \o q) \in Nat
        /\ 2 * (k + m) <= Len(p \o q) /\ Len(p \o q) <= 2 * (k + m) + 1
    BY <1>1, <1>2
  <2> QED BY <2>1, Halves
<1>5. /\ l \in Seq(Answer) /\ Len(l) = k + m
      /\ \A i \in 1 .. k + m : l[i] = (p \o q)[2 * i].answer
  BY <1>1, <1>4, BodiesType
<1>6. /\ Bodies(p) \in Seq(Answer) /\ Len(Bodies(p)) = k
      /\ \A i \in 1 .. k : Bodies(p)[i] = p[2 * i].answer
  BY <1>3, BodiesType
<1>7. /\ Bodies(q) \in Seq(Answer) /\ Len(Bodies(q)) = m
      /\ \A i \in 1 .. m : Bodies(q)[i] = q[2 * i].answer
  BY BodiesType
<1> HIDE DEF m, l
<1>8. r \in Seq(Answer) /\ Len(r) = k + m
  <2>1. Bodies(p) \in Seq(Answer) /\ Len(Bodies(p)) = k
    BY <1>6
  <2>2. Bodies(q) \in Seq(Answer) /\ Len(Bodies(q)) = m
    BY <1>7
  <2> QED BY <2>1, <2>2, ConcatType
<1>9. ASSUME NEW i \in 1 .. k + m PROVE l[i] = r[i]
  <2>1. CASE i <= k
    <3>1. 2 * i \in 1 .. Len(p) /\ i \in 1 .. k
      BY <1>2, <2>1
    <3>2. (p \o q)[2 * i] = p[2 * i]
      BY <3>1
    <3>3. r[i] = Bodies(p)[i]
      <4>1. Bodies(p) \in Seq(Answer) /\ i \in 1 .. Len(Bodies(p))
        BY <1>6, <3>1
      <4>2. Bodies(q) \in Seq(Answer)
        BY <1>7
      <4> QED BY <4>1, <4>2, ConcatFirst
    <3> QED BY <1>5, <1>6, <3>1, <3>2, <3>3
  <2>2. CASE i > k
    <3>1. i - k \in 1 .. m /\ 2 * (i - k) \in 1 .. Len(q) /\ 2 * i = Len(p) + 2 * (i - k)
      BY <1>2, <2>2
    <3>2. (p \o q)[2 * i] = q[2 * (i - k)]
      BY <1>2, <3>1
    <3>3. r[i] = Bodies(q)[i - k]
      <4>1. Bodies(p) \in Seq(Answer) /\ Len(Bodies(p)) = k
        BY <1>6
      <4>2. Bodies(q) \in Seq(Answer) /\ i - k \in 1 .. Len(Bodies(q))
        BY <1>7, <3>1
      <4>3. r[k + (i - k)] = Bodies(q)[i - k]
        BY <4>1, <4>2, ConcatSecond
      <4>4. k + (i - k) = i
        BY <1>2
      <4> QED BY <4>3, <4>4
    <3> QED BY <1>5, <1>7, <3>1, <3>2, <3>3
  <2>3. i <= k \/ i > k
    BY <1>2, <1>9
  <2> QED BY <2>1, <2>2, <2>3
<1> HIDE DEF r
<1>10. l = r
  BY <1>5, <1>8, <1>9, SeqEqual
<1> QED BY <1>10 DEF l, r

\* A header alone holds no message; a header and its body hold one.
LEMMA BodiesShort == ASSUME NEW r \in Seq(Unit), Len(r) <= 1 PROVE Bodies(r) = <<>>
<1>1. Len(r) \div 2 = 0
  BY Halves
<1>2. Bodies(r) \in Seq(Answer) /\ Len(Bodies(r)) = 0
  BY <1>1, BodiesType
<1> QED BY <1>2

LEMMA BodiesUnits ==
  ASSUME NEW a \in Answer, ~TooLarge(a)
  PROVE  /\ Units(a) \in Seq(Unit) /\ Len(Units(a)) = 2 /\ Bodies(Units(a)) = <<a>>
         /\ Head(Units(a)) \in Unit
<1> DEFINE head == [part |-> "head", answer |-> a]
           body == [part |-> "body", answer |-> a]
<1>1. head \in Unit /\ body \in Unit /\ body.answer = a
  BY DEF Unit
<1>2. Units(a) = <<head, body>>
  BY DEF Units
<1> HIDE DEF head, body
<1>3. Units(a) \in Seq(Unit) /\ Len(Units(a)) = 2 /\ Units(a)[2] = body /\ Head(Units(a)) = head
  BY <1>1, <1>2
<1>4. Len(Units(a)) \div 2 = 1
  BY <1>3, Halves
<1>5. /\ Bodies(Units(a)) \in Seq(Answer) /\ Len(Bodies(Units(a))) = 1
      /\ Bodies(Units(a))[1] = a
  <2>1. /\ Bodies(Units(a)) \in Seq(Answer) /\ Len(Bodies(Units(a))) = 1
        /\ \A i \in 1 .. 1 : Bodies(Units(a))[i] = Units(a)[2 * i].answer
    BY <1>3, <1>4, BodiesType
  <2>2. Bodies(Units(a))[1] = Units(a)[2 * 1].answer
    BY <2>1
  <2>3. Units(a)[2 * 1] = body
    BY <1>3
  <2> QED BY <1>1, <2>1, <2>2, <2>3
<1> HIDE DEF Unit
<1>6. Bodies(Units(a)) = <<a>>
  BY <1>5
<1> QED BY <1>1, <1>3, <1>6

\* No header is above the limit, so the decoder returns every whole message and
\* keeps the header that is left over.
LEMMA PushFacts ==
  ASSUME NEW data \in Seq(Unit)
  PROVE  LET whole == Len(data) \div 2
         IN /\ push(data).frames = Bodies(data)
            /\ push(data).rest = SubSeq(data, 2 * whole + 1, Len(data))
<1> DEFINE bad == {i \in DOMAIN data : data[i].part = "head" /\ data[i].answer.large}
           whole == Len(data) \div 2
<1>1. ASSUME NEW i \in DOMAIN data PROVE ~data[i].answer.large
  <2>1. data[i] \in Unit
    OBVIOUS
  <2> QED BY <2>1 DEF Unit, TooLarge
<1>2. bad = {}
  BY <1>1
<1>3. push(data) = [thrown |-> FALSE, frames |-> [i \in 1 .. whole |-> data[2 * i].answer],
                    rest |-> SubSeq(data, 2 * whole + 1, Len(data))]
  BY <1>2 DEF push
<1> QED BY <1>3 DEF Bodies

\* A sequence is its first n elements and the rest.
LEMMA SplitAt ==
  ASSUME NEW S, NEW s \in Seq(S), NEW n \in 0 .. Len(s)
  PROVE  /\ SubSeq(s, 1, n) \in Seq(S) /\ Len(SubSeq(s, 1, n)) = n
         /\ SubSeq(s, n + 1, Len(s)) \in Seq(S) /\ Len(SubSeq(s, n + 1, Len(s))) = Len(s) - n
         /\ SubSeq(s, 1, n) \o SubSeq(s, n + 1, Len(s)) = s
<1> DEFINE p == SubSeq(s, 1, n)
           q == SubSeq(s, n + 1, Len(s))
<1>1. p \in Seq(S) /\ Len(p) = n /\ \A i \in 1 .. n : p[i] = s[i]
  OBVIOUS
<1>2. q \in Seq(S) /\ Len(q) = Len(s) - n /\ \A i \in 1 .. Len(s) - n : q[i] = s[n + i]
  OBVIOUS
<1> HIDE DEF p, q
<1>3. p \o q \in Seq(S) /\ Len(p \o q) = Len(s)
  <2>1. p \o q \in Seq(S) /\ Len(p \o q) = n + (Len(s) - n)
    BY <1>1, <1>2, ConcatType
  <2>2. n + (Len(s) - n) = Len(s)
    OBVIOUS
  <2> QED BY <2>1, <2>2
<1>4. ASSUME NEW i \in 1 .. Len(p \o q) PROVE (p \o q)[i] = s[i]
  <2>1. i \in 1 .. Len(s)
    BY <1>3
  <2>2. CASE i <= n
    <3>1. i \in 1 .. n /\ (p \o q)[i] = p[i]
      BY <1>1, <1>2, <2>1, <2>2, ConcatFirst
    <3> QED BY <1>1, <3>1
  <2>3. CASE ~(i <= n)
    <3>1. i - n \in 1 .. Len(s) - n
      BY <2>1, <2>3
    <3>2. (p \o q)[n + (i - n)] = q[i - n]
      BY <1>1, <1>2, <3>1, ConcatSecond
    <3>3. q[i - n] = s[n + (i - n)]
      BY <1>2, <3>1
    <3>4. n + (i - n) = i
      BY <2>1
    <3> QED BY <3>2, <3>3, <3>4
  <2> QED BY <2>2, <2>3
<1>5. p \o q = s
  BY <1>3, <1>4, SeqEqual
<1> QED BY <1>1, <1>2, <1>5 DEF p, q

\* A chunk of any size moves whole messages from the socket to the page.
LEMMA ReceiveStep ==
  ASSUME WireInv, Receive
  PROVE  /\ buffer' \in Seq(Unit) /\ down' \in Seq(Unit) /\ inbox' \in Seq(Answer)
         /\ inbox' \o Bodies(buffer' \o down') = written /\ Len(buffer') <= 1
         /\ \E k \in Nat : Len(buffer) + Len(down) = 2 * k + Len(buffer') + Len(down')
         /\ UNCHANGED <<written, conn>>
<1>1. /\ buffer \in Seq(Unit) /\ down \in Seq(Unit) /\ inbox \in Seq(Answer)
      /\ inbox \o Bodies(buffer \o down) = written
  BY DEF WireInv, NothingLost
<1>2. PICK n \in {1, Len(down)} :
        LET pushed == push(buffer \o SubSeq(down, 1, n))
        IN /\ down' = SubSeq(down, n + 1, Len(down))
           /\ buffer' = pushed.rest
           /\ inbox' = inbox \o pushed.frames
  BY DEF Receive
<1>3. down # <<>> /\ UNCHANGED <<written, conn>>
  BY DEF Receive
<1>4. n \in 0 .. Len(down)
  BY <1>1, <1>3
<1> DEFINE chunk == SubSeq(down, 1, n)
           left  == SubSeq(down, n + 1, Len(down))
           data  == buffer \o chunk
           whole == Len(data) \div 2
           p     == SubSeq(data, 1, 2 * whole)
           r     == SubSeq(data, 2 * whole + 1, Len(data))
<1>5. chunk \in Seq(Unit) /\ left \in Seq(Unit) /\ chunk \o left = down
      /\ Len(chunk) + Len(left) = Len(down)
  <2>1. /\ chunk \in Seq(Unit) /\ Len(chunk) = n /\ left \in Seq(Unit)
        /\ Len(left) = Len(down) - n /\ chunk \o left = down
    BY <1>1, <1>4, SplitAt
  <2>2. n \in Nat /\ Len(down) \in Nat
    BY <1>1, <1>4
  <2> HIDE DEF chunk, left
  <2>3. Len(chunk) + Len(left) = Len(down)
    BY <2>1, <2>2
  <2> QED BY <2>1, <2>3
<1> HIDE DEF chunk, left
<1>6. data \in Seq(Unit) /\ Len(data) = Len(buffer) + Len(chunk)
  BY <1>1, <1>5, ConcatType
<1>7. data \o left = buffer \o down
  <2>1. buffer \in Seq(Unit) /\ chunk \in Seq(Unit) /\ left \in Seq(Unit)
    BY <1>1, <1>5
  <2>2. (buffer \o chunk) \o left = buffer \o (chunk \o left)
    BY <2>1, UnitsAssoc, Zenon
  <2> QED BY <1>5, <2>2, Zenon
<1> HIDE DEF data
<1>8. whole \in Nat /\ 2 * whole <= Len(data) /\ Len(data) <= 2 * whole + 1
  BY <1>6, Halves
<1>9. down' = left /\ buffer' = r /\ inbox' = inbox \o Bodies(data)
  BY <1>2, <1>6, PushFacts DEF chunk, left, data
<1> HIDE DEF whole
<1>10. 2 * whole \in 0 .. Len(data)
  BY <1>6, <1>8
<1>11. /\ p \in Seq(Unit) /\ Len(p) = 2 * whole /\ r \in Seq(Unit)
       /\ Len(r) = Len(data) - 2 * whole /\ p \o r = data
  BY <1>6, <1>10, SplitAt
<1> HIDE DEF p, r
<1>12. Len(r) <= 1 /\ Len(r) \in Nat
  BY <1>6, <1>8, <1>11
<1>13. Bodies(r) = <<>>
  BY <1>11, <1>12, BodiesShort
<1>14. Bodies(data) = Bodies(p) \o Bodies(r)
  BY <1>8, <1>11, BodiesConcat
<1>15. Bodies(p) \in Seq(Answer) /\ Bodies(data) = Bodies(p)
  <2>1. Bodies(p) \in Seq(Answer)
    BY <1>11, BodiesType
  <2> QED BY <1>13, <1>14, <2>1
<1>16. buffer \o down = p \o (r \o left)
  <2>1. p \in Seq(Unit) /\ r \in Seq(Unit) /\ left \in Seq(Unit)
    BY <1>5, <1>11
  <2>2. (p \o r) \o left = p \o (r \o left)
    BY <2>1, UnitsAssoc, Zenon
  <2> QED BY <1>7, <1>11, <2>2, Zenon
<1>17. r \o left \in Seq(Unit)
  BY <1>5, <1>11, ConcatType
<1>18. Bodies(buffer \o down) = Bodies(p) \o Bodies(r \o left)
  BY <1>8, <1>11, <1>16, <1>17, BodiesConcat
<1>19. Bodies(r \o left) \in Seq(Answer)
  BY <1>17, BodiesType
<1>20. inbox \o Bodies(buffer \o down) = (inbox \o Bodies(p)) \o Bodies(r \o left)
  <2>1. inbox \in Seq(Answer) /\ Bodies(p) \in Seq(Answer) /\ Bodies(r \o left) \in Seq(Answer)
    BY <1>1, <1>15, <1>19
  <2>2. (inbox \o Bodies(p)) \o Bodies(r \o left) = inbox \o (Bodies(p) \o Bodies(r \o left))
    BY <2>1, AnswersAssoc, Zenon
  <2> QED BY <1>18, <2>2, Zenon
<1>21. inbox' \in Seq(Answer)
  BY <1>1, <1>9, <1>15, ConcatType
<1>22. inbox' \o Bodies(buffer' \o down') = written
  BY <1>1, <1>9, <1>15, <1>20
<1>23. Len(buffer) + Len(down) = 2 * whole + Len(buffer') + Len(down')
  <2>1. /\ Len(buffer) \in Nat /\ Len(down) \in Nat /\ Len(chunk) \in Nat /\ Len(left) \in Nat
        /\ Len(r) \in Nat /\ Len(data) \in Nat /\ whole \in Nat
    BY <1>1, <1>5, <1>6, <1>8, <1>12
  <2>2. Len(buffer') = Len(r) /\ Len(down') = Len(left)
    BY <1>9
  <2>3. /\ Len(chunk) + Len(left) = Len(down) /\ Len(data) = Len(buffer) + Len(chunk)
        /\ Len(r) = Len(data) - 2 * whole
    BY <1>5, <1>6, <1>11
  <2>4. Len(buffer) + Len(down) = 2 * whole + Len(r) + Len(left)
    BY <2>1, <2>3
  <2> QED BY <2>2, <2>4
<1> QED BY <1>3, <1>5, <1>8, <1>9, <1>11, <1>12, <1>21, <1>22, <1>23

\* What the service writes comes behind everything that is on its way.
LEMMA WrittenStep ==
  ASSUME WireInv, conn # "closed", NEW units \in Seq(Unit), NEW answers \in Seq(Answer),
         Bodies(units) = answers, down' = down \o units, written' = written \o answers,
         UNCHANGED <<buffer, inbox>>
  PROVE  /\ down' \in Seq(Unit) /\ written' \in Seq(Answer)
         /\ inbox' \o Bodies(buffer' \o down') = written'
         /\ Len(buffer') + Len(down') = Len(buffer) + Len(down) + Len(units)
<1> DEFINE s == buffer \o down
<1>1. /\ buffer \in Seq(Unit) /\ down \in Seq(Unit) /\ inbox \in Seq(Answer)
      /\ written \in Seq(Answer) /\ inbox \o Bodies(s) = written
  BY DEF WireInv, NothingLost
<1>2. s \in Seq(Unit) /\ Len(s) = Len(buffer) + Len(down)
  BY <1>1, ConcatType
<1>3. PICK k \in Nat : Len(s) = 2 * k
  BY <1>2 DEF WireInv
<1>4. buffer' \o down' = s \o units
  <2>1. buffer \in Seq(Unit) /\ down \in Seq(Unit)
    BY <1>1
  <2>2. (buffer \o down) \o units = buffer \o (down \o units)
    BY <2>1, UnitsAssoc, Zenon
  <2> QED BY <2>2
<1> HIDE DEF s
<1>5. Bodies(s \o units) = Bodies(s) \o answers
  BY <1>2, <1>3, BodiesConcat
<1>6. Bodies(s) \in Seq(Answer)
  BY <1>2, BodiesType
<1>7. inbox \o (Bodies(s) \o answers) = written \o answers
  <2>1. (inbox \o Bodies(s)) \o answers = inbox \o (Bodies(s) \o answers)
    <3>1. inbox \in Seq(Answer)
      BY <1>1
    <3> QED BY <1>6, <3>1, AnswersAssoc, Zenon
  <2>2. inbox \o Bodies(s) = written
    BY <1>1
  <2> QED BY <2>1, <2>2, Zenon
<1>8. /\ down' \in Seq(Unit) /\ Len(down') = Len(down) + Len(units)
      /\ written' \in Seq(Answer)
  BY <1>1, ConcatType
<1>9. Len(buffer') + Len(down') = Len(buffer) + Len(down) + Len(units)
  <2>1. Len(buffer) \in Nat /\ Len(down) \in Nat /\ Len(units) \in Nat
    BY <1>1
  <2> QED BY <1>8, <2>1
<1>10. inbox' \o Bodies(buffer' \o down') = written'
  BY <1>4, <1>5, <1>7
<1> QED BY <1>8, <1>9, <1>10

LEMMA WireStep == ASSUME ExchangeInv, [Next]_vars PROVE WireInv'
<1>1. /\ WireInv /\ buffer \in Seq(Unit) /\ down \in Seq(Unit) /\ inbox \in Seq(Answer)
      /\ written \in Seq(Answer) /\ Len(buffer) <= 1
      /\ conn # "closed" => \E k \in Nat : Len(buffer) + Len(down) = 2 * k
      /\ outbound \in Seq(Answer)
  BY DEF ExchangeInv, TypeInv, WireInv, NothingLost
<1>2. Len(buffer) \in Nat /\ Len(down) \in Nat
  BY <1>1
<1>3. Bodies(buffer \o down)' = Bodies(buffer' \o down')
  BY DEF Bodies
<1>4. CASE Receive
  <2>1. /\ buffer' \in Seq(Unit) /\ down' \in Seq(Unit) /\ inbox' \in Seq(Answer)
        /\ inbox' \o Bodies(buffer' \o down') = written /\ Len(buffer') <= 1
        /\ UNCHANGED <<written, conn>>
    BY <1>1, <1>4, ReceiveStep
  <2>2. PICK k \in Nat : Len(buffer) + Len(down) = 2 * k + Len(buffer') + Len(down')
    BY <1>1, <1>4, ReceiveStep
  <2>3. ASSUME NEW m \in Nat, Len(buffer) + Len(down) = 2 * m
        PROVE  \E j \in Nat : Len(buffer') + Len(down') = 2 * j
    <3>1. Len(buffer') \in Nat /\ Len(down') \in Nat
      BY <2>1
    <3>2. m - k \in Nat /\ Len(buffer') + Len(down') = 2 * (m - k)
      BY <2>2, <2>3, <3>1
    <3> QED BY <3>2
  <2>4. conn' # "closed" => \E j \in Nat : Len(buffer') + Len(down') = 2 * j
    BY <1>1, <2>1, <2>3
  <2> QED BY <1>1, <1>3, <2>1, <2>4 DEF WireInv, NothingLost
<1>5. CASE Write
  <2> DEFINE a == Head(outbound)
             units == ToPage(Units(a))
             answers == ToPage(<<a>>)
  <2>1. /\ conn # "closed" /\ outbound # <<>> /\ ~TooLarge(a)
        /\ down' = down \o units /\ written' = written \o answers
        /\ UNCHANGED <<buffer, inbox, conn>>
    BY <1>5 DEF Write, Writing, clientVars
  <2>2. a \in Answer
    BY <1>1, <2>1
  <2>3. /\ units \in Seq(Unit) /\ answers \in Seq(Answer) /\ Bodies(units) = answers
        /\ Len(units) = 2 \/ Len(units) = 0
    <3>1. Bodies(<<>>) = <<>>
      <4>1. \A s \in Seq(Unit) : Len(s) <= 1 => Bodies(s) = <<>>
        BY BodiesShort
      <4>2. <<>> \in Seq(Unit)
        OBVIOUS
      <4>3. Len(<<>>) <= 1
        OBVIOUS
      <4> QED BY <4>1, <4>2, <4>3, Zenon
    <3>2. /\ Units(a) \in Seq(Unit) /\ Len(Units(a)) = 2 /\ Bodies(Units(a)) = <<a>>
          /\ <<a>> \in Seq(Answer)
      BY <2>1, <2>2, BodiesUnits
    <3>3. CASE peer = "page"
      BY <3>2, <3>3 DEF ToPage
    <3>4. CASE peer # "page"
      <4>1. units = <<>> /\ answers = <<>>
        BY <3>4 DEF ToPage
      <4> HIDE DEF units, answers
      <4> QED BY <3>1, <4>1
    <3> QED BY <3>3, <3>4
  <2> HIDE DEF a, units, answers
  <2>4. /\ down' \in Seq(Unit) /\ written' \in Seq(Answer)
        /\ inbox' \o Bodies(buffer' \o down') = written'
        /\ Len(buffer') + Len(down') = Len(buffer) + Len(down) + Len(units)
    BY <1>1, <2>1, <2>3, WrittenStep
  <2>5. PICK k \in Nat : Len(buffer) + Len(down) = 2 * k
    BY <1>1, <2>1
  <2>6. \E j \in Nat : Len(buffer') + Len(down') = 2 * j
    <3>1. Len(units) = 2 \/ Len(units) = 0
      BY <2>3
    <3>2. Len(buffer') + Len(down') = (Len(buffer) + Len(down)) + Len(units)
      BY <2>4
    <3>3. Len(buffer') + Len(down') = 2 * k + Len(units)
      BY <2>5, <3>2
    <3>4. CASE Len(units) = 0
      <4>1. Len(buffer') + Len(down') = 2 * k
        BY <3>3, <3>4
      <4> QED BY <4>1
    <3>5. CASE Len(units) = 2
      <4>1. 2 * k + 2 = 2 * (k + 1) /\ k + 1 \in Nat
        OBVIOUS
      <4>2. Len(buffer') + Len(down') = 2 * (k + 1)
        BY <3>3, <3>5, <4>1
      <4> QED BY <4>1, <4>2
    <3> QED BY <3>1, <3>4, <3>5
  <2> QED BY <1>1, <1>3, <2>1, <2>4, <2>6 DEF WireInv, NothingLost
<1>6. CASE Ends
  <2>1. conn' = "closed" /\ UNCHANGED <<buffer, inbox, written>>
    BY <1>6 DEF Ends, clientVars
  <2>2. CASE UNCHANGED down
    BY <1>1, <1>3, <2>1, <2>2 DEF WireInv, NothingLost
  <2>3. CASE /\ conn = "cut" /\ outbound # <<>> /\ ~TooLarge(Head(outbound))
             /\ down' = down \o ToPage(<<Head(Units(Head(outbound)))>>)
    <3> DEFINE unit == Head(Units(Head(outbound)))
               units == ToPage(<<unit>>)
    <3>1. Head(outbound) \in Answer
      BY <1>1, <2>3
    <3>2. unit \in Unit
      BY <2>3, <3>1, BodiesUnits
    <3>3. units \in Seq(Unit) /\ Len(units) <= 1
      <4> HIDE DEF unit
      <4> QED BY <3>2 DEF ToPage
    <3>4. Bodies(units) = <<>>
      BY <3>3, BodiesShort
    <3>5. written' = written \o <<>> /\ <<>> \in Seq(Answer)
      BY <1>1, <2>1
    <3> HIDE DEF units
    <3>6. down' = down \o units /\ conn # "closed"
      BY <2>3 DEF units
    <3>7. /\ down' \in Seq(Unit) /\ written' \in Seq(Answer)
          /\ inbox' \o Bodies(buffer' \o down') = written'
      BY <1>1, <2>1, <3>3, <3>4, <3>5, <3>6, WrittenStep
    <3> QED BY <1>1, <1>3, <2>1, <3>7 DEF WireInv, NothingLost
  <2> QED BY <1>6, <2>2, <2>3 DEF Ends
<1>7. CASE UNCHANGED <<buffer, down, inbox, written>>
  <2>1. conn' # "closed" => conn # "closed"
    <3>1. CASE Accept
      BY <3>1 DEF Accept
    <3>2. CASE Reads \/ Handles
      BY <3>2, ReadsRead, HandleStep DEF Reading
    <3>3. CASE WriteFails \/ Ends
      BY <3>3 DEF WriteFails, Ends
    <3> QED BY <3>1, <3>2, <3>3, WhoChanges
  <2> QED BY <1>1, <1>3, <1>7, <2>1 DEF WireInv, NothingLost
<1> QED BY <1>4, <1>5, <1>6, <1>7, WhoChanges

-----------------------------------------------------------------------------
(* Types.                                                                   *)

\* A handler that answers fills its place in the cache and the queue; one that
\* goes on to the next step leaves both alone.
LEMMA HandleEffect ==
  ASSUME ExchangeInv, Handles
  PROVE  \/ UNCHANGED <<conn, outbound, replies, handled>>
         \/ \E frame \in Frames, answer \in Answer :
              /\ frame.messageId \in Range(MessageIds) /\ frame.messageId \notin DOMAIN replies
              /\ Cardinality(DOMAIN replies) < CacheSize /\ Answered(frame, answer)
<1>1. CASE ~UNCHANGED replies
  BY <1>1, ConcludeStep
<1>2. CASE UNCHANGED replies
  <2>1. \/ UNCHANGED <<conn, outbound, replies, handled>>
        \/ \E row : Answered(work.frame, recordResponse(work.frame.messageId, row))
    BY HandleStep
  <2>2. ASSUME NEW answer, Answered(work.frame, answer) PROVE FALSE
    <3>1. DOMAIN replies' = DOMAIN replies \cup {work.frame.messageId}
      BY <2>2 DEF Answered, With
    <3>2. work.frame.messageId \notin DOMAIN replies
      BY HandleStep DEF ExchangeInv, WorkInv
    <3> QED BY <1>2, <3>1, <3>2
  <2> QED BY <2>1, <2>2
<1> QED BY <1>1, <1>2

\* The first message of a connection, and the last word to a peer whose frame is
\* refused or whose replay cache is full.
LEMMA ToldStep ==
  ASSUME ExchangeInv, Accept \/ ReadBad \/ ReadFull
  PROVE  /\ outbound' \in Seq(Answer) /\ Len(outbound') <= QueueSize
         /\ conn' \in {"open", "ending", "cut", "closed"}
<1>1. /\ outbound \in Seq(Answer) /\ Len(outbound) <= QueueSize /\ QueueSize \in Nat \ {0}
      /\ big \in BOOLEAN
  BY ExchangeAssumption DEF ExchangeInv, TypeInv, TypeOK
<1>2. ASSUME NEW answer \in Answer, Len(outbound) < QueueSize
      PROVE  Append(outbound, answer) \in Seq(Answer) /\ Len(Append(outbound, answer)) <= QueueSize
  BY <1>1, <1>2
<1>3. CASE Accept
  <2>1. "NODE" \in Id /\ "event" \in Type /\ "" \in Code
    BY DEF Id, Type, Code
  <2>2. snapshotEnvelope("NODE", "event") \in Answer
    BY <1>1, <2>1, Envelopes
  <2>3. \/ conn' = "closed" /\ UNCHANGED outbound
        \/ conn' = "open" /\ outbound' = <<snapshotEnvelope("NODE", "event")>>
    BY <1>3 DEF Accept
  <2>4. /\ <<snapshotEnvelope("NODE", "event")>> \in Seq(Answer)
        /\ Len(<<snapshotEnvelope("NODE", "event")>>) = 1
    BY <2>2
  <2>5. 1 <= QueueSize
    BY <1>1
  <2>6. CASE conn' = "closed" /\ UNCHANGED outbound
    BY <1>1, <2>6
  <2>7. CASE conn' = "open" /\ outbound' = <<snapshotEnvelope("NODE", "event")>>
    BY <2>4, <2>5, <2>7
  <2> QED BY <2>3, <2>6, <2>7
<1>4. CASE ReadBad
  <2> DEFINE decoded == Decode(Head(up))
             told == decodeErrorEnvelope(decoded)
             answer == NewErrorEnvelope(told.id, told.code)
  <2>1. \/ Len(outbound) < QueueSize /\ outbound' = Append(outbound, answer) /\ conn' = "ending"
        \/ conn' = "closed" /\ UNCHANGED outbound
    BY <1>4 DEF ReadBad
  <2>2. Head(up) \in Frames
    BY <1>4, FrameRead DEF ReadBad
  <2>3. decoded.id \in {"", Head(up).messageId}
    BY DEF Decode
  <2>4. decoded.id = "" \/ decoded.id \in Range(MessageIds)
    BY <2>2, <2>3, FrameFacts
  <2>5. told.id \in Id
    BY <2>4 DEF decodeErrorEnvelope, Id
  <2>6. told.code \in Code
    BY DEF decodeErrorEnvelope, Code
  <2>7. "error" \in Type
    BY DEF Type
  <2> HIDE DEF told
  <2>8. answer \in Answer
    BY <1>1, <2>5, <2>6, <2>7, Envelopes
  <2> QED BY <1>1, <1>2, <2>1, <2>8
<1>5. CASE ReadFull
  <2> DEFINE answer == NewErrorEnvelope(Head(up).messageId, "internal-error")
  <2>1. /\ Decode(Head(up)).err = "" /\ Reading
        /\ \/ Len(outbound) < QueueSize /\ outbound' = Append(outbound, answer) /\ conn' = "cut"
           \/ conn' = "closed" /\ UNCHANGED outbound
    BY <1>5 DEF ReadFull
  <2>2. Head(up) \in Frames
    BY <2>1, FrameRead
  <2>3. Head(up).messageId \in Id
    BY <2>1, <2>2, DecodedHasId DEF Id
  <2>4. "internal-error" \in Code /\ "error" \in Type
    BY DEF Code, Type
  <2>5. answer \in Answer
    BY <1>1, <2>3, <2>4, Envelopes
  <2> QED BY <1>1, <1>2, <2>1, <2>5
<1> QED BY <1>3, <1>4, <1>5

LEMMA QueueTypeStep ==
  ASSUME ExchangeInv, [Next]_vars
  PROVE  /\ outbound' \in Seq(Answer) /\ Len(outbound') <= QueueSize
         /\ conn' \in {"accepted", "open", "ending", "cut", "closed"}
         /\ DOMAIN replies' \subseteq Range(MessageIds) /\ Cardinality(DOMAIN replies') <= CacheSize
         /\ handled' \in Seq([frame : Frames, answer : Answer])
<1>1. /\ outbound \in Seq(Answer) /\ Len(outbound) <= QueueSize
      /\ conn \in {"accepted", "open", "ending", "cut", "closed"}
      /\ DOMAIN replies \subseteq Range(MessageIds) /\ Cardinality(DOMAIN replies) <= CacheSize
      /\ handled \in Seq([frame : Frames, answer : Answer])
  BY DEF ExchangeInv, TypeInv, TypeOK
<1>2. CASE \E frame \in Frames, answer \in Answer :
             /\ frame.messageId \in Range(MessageIds) /\ frame.messageId \notin DOMAIN replies
             /\ Cardinality(DOMAIN replies) < CacheSize /\ Answered(frame, answer)
  BY <1>1, <1>2, AnswerStep
<1>3. CASE UNCHANGED <<conn, outbound, replies, handled>>
  BY <1>1, <1>3
<1>4. CASE Answers \/ Handles
  BY <1>2, <1>3, <1>4, NewStep, HandleEffect
<1>5. CASE ReadAgain
  BY <1>1, <1>5, AgainStep, EnqueueStep
<1>6. CASE Accept \/ ReadBad \/ ReadFull
  <2>1. UNCHANGED <<replies, handled>>
    BY <1>6 DEF Accept, ReadBad, ReadFull, stateVars
  <2> QED BY <1>1, <1>6, <2>1, ToldStep
<1>7. CASE ReadCommandClaimed
  BY <1>3, <1>7 DEF ReadCommandClaimed
<1>8. CASE Write
  <2>1. outbound # <<>> /\ outbound' = Tail(outbound) /\ UNCHANGED <<conn, replies, handled>>
    BY <1>8 DEF Write, Writing, stateVars
  <2>2. Tail(outbound) \in Seq(Answer) /\ Len(Tail(outbound)) <= QueueSize
    BY <1>1, <2>1, ExchangeAssumption
  <2> QED BY <1>1, <2>1, <2>2
<1>9. CASE WriteFails \/ Ends
  <2>1. conn' = "closed" /\ UNCHANGED <<outbound, replies, handled>>
    BY <1>9 DEF WriteFails, Writing, Ends, stateVars, wireVars
  <2> QED BY <1>1, <2>1
<1> QED
  <2>1. Answers \/ Handles \/ ReadAgain \/ UNCHANGED <<replies, handled>>
    BY WhoChanges
  <2>2. \/ Accept \/ Reads \/ Handles \/ Write \/ WriteFails \/ Ends
        \/ UNCHANGED <<outbound, conn>>
    BY WhoChanges
  <2> QED BY <1>3, <1>4, <1>5, <1>6, <1>7, <1>8, <1>9, <2>1, <2>2 DEF Reads

\* The peer's end, its promises and the world.
LEMMA PeerTypeStep ==
  ASSUME ExchangeInv, [Next]_vars
  PROVE  /\ page' \in {"open", "closed"} /\ pending' \subseteq Range(MessageIds)
         /\ sacct' \in Outputs /\ big' \in BOOLEAN /\ upsets' \in 0 .. MaxUpsets
         /\ Len(sent') <= MaxSends
<1> DEFINE Goal ==
      /\ page' \in {"open", "closed"} /\ pending' \subseteq Range(MessageIds)
      /\ sacct' \in Outputs /\ big' \in BOOLEAN /\ upsets' \in 0 .. MaxUpsets
      /\ Len(sent') <= MaxSends
<1>1. /\ page \in {"open", "closed"} /\ pending \subseteq Range(MessageIds)
      /\ sacct \in Outputs /\ big \in BOOLEAN /\ upsets \in 0 .. MaxUpsets
      /\ Len(sent) <= MaxSends /\ sent \in Seq(Frames) /\ MaxUpsets \in Nat /\ MaxSends \in Nat
  BY ExchangeAssumption DEF ExchangeInv, TypeInv, TypeOK
<1>2. Upset => upsets' \in 0 .. MaxUpsets
  BY <1>1 DEF Upset
<1>3. CASE Sends
  <2>1. PICK frame \in Frames :
          /\ sent' = Append(sent, frame)
          /\ pending' \subseteq pending \cup {frame.messageId}
          /\ pending' # pending => frame.messageId \in Range(MessageIds)
          /\ Len(sent) < MaxSends /\ upsets' \in 0 .. MaxUpsets
    BY <1>3, SendStep DEF ExchangeInv
  <2>2. UNCHANGED <<page, sacct, big>>
    BY <1>3 DEF Sends, SendUsual, SendOdd, SendOneOf, worldVars
  <2>3. Len(sent') <= MaxSends
    BY <1>1, <2>1
  <2>4. pending' \subseteq Range(MessageIds)
    BY <1>1, <2>1
  <2> QED BY <1>1, <2>1, <2>2, <2>3, <2>4
<1>4. CASE \E id \in pending : TimesOut(id)
  <2>1. /\ Upset /\ pending' \subseteq pending /\ UNCHANGED <<page, sent, sacct, big>>
    BY <1>4 DEF TimesOut, worldVars
  <2> QED BY <1>1, <1>2, <2>1
<1>5. CASE HangUp
  <2>1. /\ Upset /\ page' = "closed" /\ pending' = {} /\ UNCHANGED <<sent, sacct, big>>
    BY <1>5 DEF HangUp, worldVars
  <2> QED BY <1>1, <1>2, <2>1
<1>6. CASE ChannelCloses
  <2>1. /\ page' = "closed" /\ pending' = {} /\ UNCHANGED <<sent, sacct, big, upsets>>
    BY <1>6 DEF ChannelCloses, worldVars
  <2> QED BY <1>1, <2>1
<1>7. CASE Receive
  <2>1. pending' \subseteq pending /\ UNCHANGED <<page, sent, sacct, big, upsets>>
    BY <1>7 DEF Receive, worldVars
  <2> QED BY <1>1, <2>1
<1>8. CASE \E out \in Outputs : SacctChanges(out)
  <2>1. /\ Upset /\ sacct' \in Outputs /\ UNCHANGED <<page, pending, sent, big>>
    BY <1>8 DEF SacctChanges, clientVars
  <2> QED BY <1>1, <1>2, <2>1
<1>9. CASE ClusterGrows
  <2>1. /\ Upset /\ big' = TRUE /\ UNCHANGED <<page, pending, sent, sacct>>
    BY <1>9 DEF ClusterGrows, clientVars
  <2> QED BY <1>1, <1>2, <2>1
<1>10. CASE Reads
  <2>1. UNCHANGED <<page, pending, sent, sacct, big, upsets>>
    BY <1>10, ReadsRead DEF Reading, worldVars
  <2> QED BY <1>1, <2>1
<1>11. CASE Handles
  <2>1. UNCHANGED <<page, pending, sent, sacct, big, upsets>>
    BY <1>11 DEF Handles, AuthorizeCommand, ExecuteCommand, Handling, clientVars, worldVars
  <2> QED BY <1>1, <2>1
<1>12. CASE Accept \/ Write \/ WriteFails \/ Ends \/ UNCHANGED vars
  <2>1. UNCHANGED <<page, pending, sent, sacct, big, upsets>>
    BY <1>12 DEF Accept, Write, WriteFails, Writing, Ends, vars, clientVars, worldVars
  <2> QED BY <1>1, <2>1
<1> HIDE DEF Goal
<1> QED
  BY <1>3, <1>4, <1>5, <1>6, <1>7, <1>8, <1>9, <1>10, <1>11, <1>12
     DEF Next, SystemStep, WriterStep, ServiceStep, Sends, Reads, Answers, Handles, Goal

LEMMA TypeStep == ASSUME ExchangeInv, [Next]_vars PROVE TypeInv'
<1>1. UNCHANGED <<peer, user>> /\ peer \in {"page", "other"} /\ user \in Users
  BY WhoChanges DEF ExchangeInv, TypeInv, TypeOK
<1>2. \A c \in DOMAIN rows' : rows'[c].status \in Status
  <2>1. RowInv'
    BY RowStep
  <2>2. ASSUME NEW c \in DOMAIN rows' PROVE rows'[c].status \in Status
    <3>1. PICK frame \in Commands' : rows'[c] \in RowsOf(frame)'
      BY <2>1 DEF RowInv
    <3> QED BY <3>1 DEF RowsOf
  <2> QED BY <2>2
<1>3. sent' \in Seq(Frames) /\ up' \in Seq(Range(sent)')
  BY FramesStep
<1>4. TypeOK'
  BY <1>1, <1>2, QueueTypeStep, PeerTypeStep DEF TypeOK, Status
<1> QED BY <1>3, <1>4, QueueTypeStep DEF TypeInv

-----------------------------------------------------------------------------
(* The inductive invariant.                                                 *)

LEMMA InitExchange == Init => ExchangeInv
<1> SUFFICES ASSUME Init PROVE ExchangeInv
  OBVIOUS
<1>1. /\ sent = <<>> /\ up = <<>> /\ jobs = <<>> /\ outbound = <<>> /\ down = <<>>
      /\ written = <<>> /\ buffer = <<>> /\ inbox = <<>> /\ handled = <<>> /\ shown = <<>>
      /\ replies = <<>> /\ rows = <<>> /\ pending = {} /\ work = Idle
      /\ conn = "accepted" /\ page = "open" /\ big = FALSE /\ sacct = Usually
      /\ peer \in {"page", "other"} /\ user \in Users
  BY DEF Init
<1>2. DOMAIN rows = {} /\ DOMAIN replies = {} /\ DOMAIN handled = {} /\ DOMAIN jobs = {}
  BY <1>1
<1>3. TypeInv
  <2>1. upsets \in 0 .. MaxUpsets
    BY ExchangeAssumption DEF Init
  <2>2. Len(sent) <= MaxSends /\ Len(outbound) <= QueueSize
    BY <1>1, ExchangeAssumption
  <2>3. Cardinality(DOMAIN replies) <= CacheSize
    BY <1>2, FS_EmptySet, ExchangeAssumption
  <2>4. sacct \in Outputs /\ big \in BOOLEAN
    BY <1>1, OutputsAssumption
  <2>5. TypeOK
    BY <1>1, <1>2, <2>1, <2>2, <2>3, <2>4 DEF TypeOK
  <2>6. /\ sent \in Seq(Frames) /\ up \in Seq(Range(sent)) /\ outbound \in Seq(Answer)
        /\ handled \in Seq([frame : Frames, answer : Answer])
    BY <1>1
  <2> QED BY <2>5, <2>6 DEF TypeInv
<1>4. NamedInv /\ RowInv /\ ProvenInv
  BY <1>1, <1>2 DEF NamedInv, RowInv, ProvenInv
<1>5. WorkInv
  BY <1>1 DEF WorkInv
<1>6. JobInv
  BY <1>1, <1>2 DEF JobInv, FreshAuthority
<1>7. ShownInv
  BY <1>1 DEF ShownInv
<1>8. ReplyInv
  BY <1>2, FS_EmptySet DEF ReplyInv
<1>9. WireInv
  <2>1. /\ buffer \in Seq(Unit) /\ down \in Seq(Unit)
        /\ inbox \in Seq(Answer) /\ written \in Seq(Answer)
    BY <1>1
  <2>2. Len(buffer) = 0 /\ Len(down) = 0
    BY <1>1
  <2>3. buffer \o down \in Seq(Unit) /\ Len(buffer \o down) <= 1
    BY <2>1, <2>2, ConcatType
  <2>4. Bodies(buffer \o down) = <<>>
    BY <2>3, BodiesShort
  <2>5. inbox \o <<>> = written
    BY <1>1
  <2>6. Len(buffer) + Len(down) = 2 * 0 /\ Len(buffer) <= 1
    BY <2>2
  <2>7. \E k \in Nat : Len(buffer) + Len(down) = 2 * k
    BY <2>6
  <2> QED BY <2>1, <2>4, <2>5, <2>6, <2>7 DEF WireInv, NothingLost
<1> QED BY <1>3, <1>4, <1>5, <1>6, <1>7, <1>8, <1>9 DEF ExchangeInv

LEMMA NextExchange == ExchangeInv /\ [Next]_vars => ExchangeInv'
BY TypeStep, NamedStep, RowStep, WorkStep, ProvenStep, JobStep, ShownStep, ReplyStep, WireStep
   DEF ExchangeInv

\* Every reachable state satisfies the inductive invariant.
THEOREM ExchangeInvariant == Spec => []ExchangeInv
BY InitExchange, NextExchange, PTL DEF Spec

-----------------------------------------------------------------------------
(* The properties.                                                          *)

\* The connection, its queue, its replay cache and the peer's promises stay
\* within their bounds (serveConnection, enqueue, requestReplayCache).
THEOREM ExchangeTypeCorrect == Spec => []TypeOK
<1>1. ExchangeInv => TypeOK
  BY DEF ExchangeInv, TypeInv
<1> QED BY <1>1, ExchangeInvariant, PTL

\* Every command that is claimed satisfies the ledger's rules, the helper's and
\* the schema of the registry, which the code never evaluates: the rules of the
\* payload decoder and of Handle imply the others (validateClaim,
\* BuildScontrolArgs, registry.go).
THEOREM ClaimedCommandsPassEveryCheck == Spec => []ClaimsPassEveryCheck
<1>1. ExchangeInv => ClaimsPassEveryCheck
  <2> SUFFICES ASSUME ExchangeInv, NEW c \in DOMAIN rows
               PROVE  LET request == rows[c].request
                          entry   == NodeRegistry[rows[c].claim.operation]
                      IN /\ validateClaim(rows[c].claim)
                         /\ BuildScontrolArgs(entry.operation, request.nodeName, request.reason)
                              # NoArgs
                         /\ FitsSpec(entry.target["nodeName"], request.nodeName)
                         /\ FitsSpec(entry.parameters["state"], Text(request.state, 1))
                         /\ "reason" \in DOMAIN entry.parameters
                              => FitsSpec(entry.parameters["reason"], request.reason)
                         /\ "reason" \notin DOMAIN entry.parameters => request.reason = Empty
    BY DEF ClaimsPassEveryCheck
  <2>1. PICK frame \in Commands : rows[c] \in RowsOf(frame)
    BY DEF ExchangeInv, RowInv
  <2>2. /\ rows[c].request = Request(frame)
        /\ rows[c].claim = Claim(user, frame.messageId, Request(frame))
    BY <2>1 DEF RowsOf
  <2>3. /\ frame \in Frames /\ Decode(frame).err = "" /\ Request(frame).valid
        /\ Claimable(Request(frame))
    BY CommandFrames
  <2>4. user # ""
    BY DEF ExchangeInv, NamedInv
  <2> QED BY <2>2, <2>3, <2>4, ClaimIsSound, Zenon
<1> QED BY <1>1, ExchangeInvariant, PTL

\* What scontrol is told is what a peer asked for, word for word, about one node
\* of the cache (BuildScontrolArgs, operationFor).
THEOREM ScontrolSaysWhatWasAsked == Spec => []ScontrolMatchesRequest
<1>1. ExchangeInv => ScontrolMatchesRequest
  <2> SUFFICES ASSUME ExchangeInv, NEW j \in DOMAIN jobs
               PROVE  \E i \in DOMAIN sent :
                        LET fields == sent[i].payload.fields
                        IN /\ sent[i].type = "command"
                           /\ {"commandId", "nodeName", "state"} \subseteq DOMAIN fields
                           /\ fields["commandId"] = jobs[j].commandId
                           /\ fields["nodeName"] \in Nodes /\ fields["nodeName"].w # "ALL"
                           /\ jobs[j].args =
                                <<"update", fields["nodeName"], fields["state"].w>>
                                  \o (IF "reason" \in DOMAIN fields
                                      THEN <<fields["reason"]>> ELSE <<>>)
    BY DEF ScontrolMatchesRequest
  <2>1. jobs[j] \in {Line(Request(frame)) : frame \in Commands}
    BY DEF ExchangeInv, JobInv
  <2>2. PICK frame \in Commands : jobs[j] = Line(Request(frame))
    BY <2>1
  <2>3. /\ frame \in Range(sent) /\ frame \in Frames /\ frame.type = "command"
        /\ Request(frame).valid /\ Claimable(Request(frame))
    BY CommandFrames
  <2>4. PICK i \in DOMAIN sent : sent[i] = frame
    BY <2>3 DEF Range
  <2> DEFINE fields == frame.payload.fields
  <2>5. /\ {"commandId", "nodeName", "state"} \subseteq DOMAIN fields
        /\ fields["commandId"] = Line(Request(frame)).commandId
        /\ fields["nodeName"] \in Nodes /\ fields["nodeName"].w # "ALL"
        /\ Line(Request(frame)).args =
             <<"update", fields["nodeName"], fields["state"].w>>
               \o (IF "reason" \in DOMAIN fields THEN <<fields["reason"]>> ELSE <<>>)
    BY <2>3, LineIsAsked
  <2> QED BY <2>2, <2>3, <2>4, <2>5, Zenon
<1> QED BY <1>1, ExchangeInvariant, PTL

\* A command line runs only if its caller was administrator at some moment after
\* the claim (Authorize, parseSacctmgrUser).
THEOREM AuthorityIsFresh == Spec => []FreshAuthority
<1>1. ExchangeInv => FreshAuthority
  BY DEF ExchangeInv, JobInv
<1> QED BY <1>1, ExchangeInvariant, PTL

\* Over a whole connection, one message ID and one content get one answer, and a
\* second content a conflict (requestReplayCache.Dispatch).
THEOREM AnswersAreConsistent == Spec => []ConsistentAnswers
<1>1. ExchangeInv => ConsistentAnswers
  <2> SUFFICES ASSUME ExchangeInv, NEW i \in DOMAIN handled, NEW j \in DOMAIN handled,
                      handled[i].frame.messageId = handled[j].frame.messageId
               PROVE  IF requestFingerprint(handled[i].frame) = requestFingerprint(handled[j].frame)
                      THEN \/ handled[j].answer = handled[i].answer
                           \/ handled[i].answer.code = "message-id-conflict"
                      ELSE \/ handled[j].answer.code = "message-id-conflict"
                           \/ handled[i].answer.code = "message-id-conflict"
    BY DEF ConsistentAnswers
  <2> DEFINE cached == replies[handled[i].frame.messageId]
  <2>1. IF cached.print = requestFingerprint(handled[i].frame)
        THEN handled[i].answer = cached.answer
        ELSE handled[i].answer.code = "message-id-conflict"
    BY DEF ExchangeInv, ReplyInv
  <2>2. IF cached.print = requestFingerprint(handled[j].frame)
        THEN handled[j].answer = cached.answer
        ELSE handled[j].answer.code = "message-id-conflict"
    BY DEF ExchangeInv, ReplyInv
  <2> HIDE DEF cached
  <2> QED BY <2>1, <2>2, Zenon
<1> QED BY <1>1, ExchangeInvariant, PTL

\* The page gets every message the service wrote, complete and in order, however
\* the bytes are cut into chunks (FrameDecoder.push, Encoder.Encode).
THEOREM NoMessageIsLost == Spec => []NothingLost
<1>1. ExchangeInv => NothingLost
  BY DEF ExchangeInv, WireInv
<1> QED BY <1>1, ExchangeInvariant, PTL

\* As long as the accounting data does not change, a command is let through
\* exactly if the capabilities last shown to the page contain its own
\* (CapabilitiesHandler, Authorizer).
THEOREM ShownCapabilitiesAgree == Spec => CapabilitiesAgree
<1> DEFINE Agree ==
      \A c \in DOMAIN rows :
        /\ shown # <<>> /\ rows[c].status = "authorization_pending"
        /\ rows'[c].status # "authorization_pending"
        => (rows'[c].status = "running") <=> (rows[c].claim.capability \in shown[1])
<1>1. ExchangeInv /\ [Next]_vars => [Agree]_vars
  <2> SUFFICES ASSUME ExchangeInv, [Next]_vars, NEW d \in DOMAIN rows, shown # <<>>,
                      rows[d].status = "authorization_pending",
                      rows'[d].status # "authorization_pending"
               PROVE  (rows'[d].status = "running") <=> (rows[d].claim.capability \in shown[1])
    OBVIOUS
  <2> DEFINE op == operationFor(work.request.state)
             verdict == Authorize(user, op, sacct)
             resolved == Resolve(user, sacct)
  <2>1. Handles /\ d = work.request.commandId
    <3>1. CASE ReadCommandClaimed
      BY <3>1, ClaimStep
    <3>2. CASE Handles
      BY <3>2, HandleStep
    <3>3. CASE UNCHANGED rows
      BY <3>3
    <3> QED BY <3>1, <3>2, <3>3, WhoChanges
  <2>2. work # Idle
    BY <2>1, HandleStep
  <2>3. /\ rows[d].request = work.request /\ work.step = "authorize"
        /\ work.step \in {"authorize", "execute"}
    BY <2>1, <2>2 DEF ExchangeInv, WorkInv
  <2>4. PICK frame \in Commands : rows[d] \in RowsOf(frame)
    BY DEF ExchangeInv, RowInv
  <2>5. /\ rows[d].request = Request(frame)
        /\ rows[d].claim = Claim(user, frame.messageId, Request(frame))
    BY <2>4 DEF RowsOf
  <2>6. rows[d].claim.capability = NodeRegistry[op].capability
    BY <2>3, <2>5 DEF Claim
  <2>7. op \in {"node.drain", "node.resume"}
    BY DEF operationFor
  <2>8. resolved.ok /\ shown[1] = resolved.capabilities
    BY DEF ExchangeInv, ShownInv
  <2>9. verdict = "accepted" <=> NodeRegistry[op].capability \in resolved.capabilities
    BY <2>7, <2>8, LookupFacts DEF ExchangeInv, TypeInv, TypeOK
  <2>10. rows'[d].status = "running" <=> verdict = "accepted"
    <3>1. PICK s \in Status \ {"authorization_pending"} :
            /\ rows'[d] = [rows[d] EXCEPT !.status = s]
            /\ \/ s = "running" /\ verdict = "accepted"
               \/ s # "running" /\ verdict # "accepted"
      BY <2>1, <2>3, HandleStep
    <3>2. rows'[d].status = s
      BY <2>4, <3>1, StatusChange
    <3> QED BY <3>1, <3>2
  <2> QED BY <2>6, <2>8, <2>9, <2>10
<1> QED BY <1>1, ExchangeInvariant, PTL DEF Spec, CapabilitiesAgree
=============================================================================
