------------------------------ MODULE Requests ------------------------------
(***************************************************************************)
(* The checks a request meets between the socket and scontrol, as pure     *)
(* operators: the frame decoder and the envelope rules (internal/protocol),*)
(* the command payload decoder, the operation registry and the authorizer  *)
(* (internal/authorization), the accounting lookup and the capabilities    *)
(* (internal/identity), the ledger's claim rules and the arguments the     *)
(* node helper builds.  The same limits are written down four times in     *)
(* this code (payload decoder, registry schema, ledger claim, helper);     *)
(* module Exchange checks that the four agree on everything a peer sends.  *)
(*                                                                         *)
(* Data.  A text is a record [w, n]: the word it stands for and its length *)
(* in bytes.  JSON objects are functions from the fields present to their  *)
(* values; the nested objects of a command payload are flattened, since no *)
(* two of their fields share a name.  NotText is a JSON value of another   *)
(* type, Null the JSON null.                                               *)
(***************************************************************************)
EXTENDS Naturals, Sequences

Text(w, n) == [w |-> w, n |-> n]
Empty   == Text("", 0)
Null    == Text("null", 4)
NotText == Text("number", 1)
IsText(t) == t \in [w : STRING, n : Nat] /\ (t.n = 0 => t = Empty)

\* Words made of ASCII letters and digits only; "ALL" is scontrol's name for
\* every node.  The other words used: "-n" (starts with a dash), "n 1" (holds
\* a space), "n\t" (holds a control character), " " (white space only).
Plain == {"node", "update", "job", "c1", "c2", "n1", "n2", "DRAIN", "RESUME",
          "DOWN", "nodes", "alice", "why", "MSG"}
TrimSpaceEmpty(t) == t = Empty \/ t.w = " "
HasControl(t)     == t.w = "n\t"

ProtocolName    == "cockpit-slurm"
ProtocolVersion == "1.0"
MaxCommandID    == 128
MaxNodeName     == 255
MaxReason       == 256

-----------------------------------------------------------------------------
(* Frames.  A frame is what its sender wrote: the length its header claims  *)
(* ("zero", "ok" or "huge"), whether its bytes are JSON without duplicate   *)
(* keys, whether it has fields the envelope does not know, and the fields   *)
(* of the envelope.                                                         *)

MessageTypes ==
  {"hello", "hello-response", "query", "query-response", "subscribe",
   "subscribe-response", "unsubscribe", "unsubscribe-response", "command",
   "command-response", "command-status", "capabilities-request",
   "capabilities-response", "event", "error", "ping", "pong", "close"}

IsKnown(type) == type \in MessageTypes

\* validateUniqueJSONKeys: the bytes are one JSON value, no object in it has a
\* key twice.
validateUniqueJSONKeys(frame) == frame.json

NoPayload == [shape |-> "missing", fields |-> <<>>]

\* ValidateEnvelope: the error, or "" for an envelope that passes.
ValidateEnvelope(e) ==
  IF e.protocol # ProtocolName THEN "invalid-protocol"
  ELSE IF e.version # ProtocolVersion THEN "invalid-version"
  ELSE IF e.messageId = "" \/ e.type = "" THEN "invalid-message"
  ELSE IF ~IsKnown(e.type) THEN "unknown-message"
  ELSE IF e.payload.shape = "missing" THEN "invalid-message"
  ELSE ""

\* Decoder.Decode: a zero or oversize length and broken or duplicate-key JSON
\* are found before the envelope is filled in, so its message ID is lost; an
\* unknown field is reported after encoding/json has filled in the others.
Decode(frame) ==
  IF frame.length # "ok" \/ ~validateUniqueJSONKeys(frame)
  THEN [err |-> "invalid-message", id |-> ""]
  ELSE [err |-> IF frame.extra THEN "unknown-field" ELSE ValidateEnvelope(frame),
        id  |-> frame.messageId]

\* decodeErrorEnvelope: what the peer of a connection that is about to end is told.
decodeErrorEnvelope(decoded) ==
  [id   |-> IF decoded.id = "" THEN "ERR" ELSE decoded.id,
   code |-> IF decoded.err = "unknown-message" THEN "unsupported-message-type"
            ELSE "invalid-payload"]

\* The page validates an envelope too before it sends it, and after it has
\* received one (validateEnvelope of framing.ts): the type need only be there.
validateEnvelope(e) ==
  /\ e.protocol = ProtocolName /\ e.version = ProtocolVersion
  /\ e.messageId # "" /\ e.type # ""

-----------------------------------------------------------------------------
(* Payloads.                                                                *)

\* A field encoding/json leaves out of the destination keeps its zero value.
Field(fields, name) == IF name \in DOMAIN fields THEN fields[name] ELSE Empty

\* decodeStrictPayload: an object with known fields of the right type only.
\* A null leaves a text field as it was, empty.
decodeStrictPayload(payload, known, typed) ==
  /\ payload.shape = "object"
  /\ DOMAIN payload.fields \subseteq known
  /\ \A name \in DOMAIN payload.fields \cap typed : payload.fields[name] # NotText

Decoded(fields, name) == IF Field(fields, name) = Null THEN Empty ELSE Field(fields, name)

DecodeCapabilitiesRequestPayload(payload) == decodeStrictPayload(payload, {}, {})

validCommandID(t) == t.n \in 1 .. MaxCommandID /\ t.w \in Plain \cup {"-n", "ALL"}

CommandFields == {"commandId", "resource", "command", "nodeName", "state", "reason"}
NoRequest == [valid |-> FALSE]

\* DecodeNodeCommandRequestPayload: the request, or NoRequest.  The reason is
\* kept as raw JSON first, so that an explicit null is not an absent field.
DecodeNodeCommandRequestPayload(payload) ==
  LET text(name) == Decoded(payload.fields, name)
      reason     == Field(payload.fields, "reason")
      hasReason  == "reason" \in DOMAIN payload.fields
      reasonFits ==
        IF text("state").w = "DRAIN"
        THEN /\ hasReason /\ reason \notin {Null, NotText}
             /\ ~TrimSpaceEmpty(reason) /\ reason.n <= MaxReason /\ ~HasControl(reason)
        ELSE text("state").w = "RESUME" /\ ~hasReason
  IN IF /\ decodeStrictPayload(payload, CommandFields, CommandFields \ {"reason"})
        /\ validCommandID(text("commandId"))
        /\ text("resource").w = "node" /\ text("command").w = "update"
        /\ text("nodeName").n \in 1 .. MaxNodeName
        /\ reasonFits
     THEN [valid |-> TRUE, commandId |-> text("commandId"), resource |-> "node",
           command |-> "update", nodeName |-> text("nodeName"),
           state |-> text("state").w, reason |-> reason]
     ELSE NoRequest

\* QueryHandler.Handle and NodeQueryService.Query: encoding/json is lenient
\* here, a null or an unknown field passes.
QueryCode(payload) ==
  LET resource == IF payload.shape = "object" THEN Decoded(payload.fields, "resource")
                  ELSE Empty
  IN IF payload.shape = "array" \/ resource \in {NotText, Empty} THEN "INVALID_MESSAGE"
     ELSE IF resource.w # "nodes" THEN "NOT_FOUND"
     ELSE ""

-----------------------------------------------------------------------------
(* The operation registry.                                                  *)

nodeTargetSchema ==
  [nodeName |-> [type |-> "string", min |-> 1, max |-> MaxNodeName, allowed |-> {}]]

NodeRegistry_ShortReason ==
  [op \in {"node.drain", "node.resume"} |->
    [operation |-> op, resource |-> "node", command |-> "update",
     capability |-> IF op = "node.drain" THEN "nodes.drain" ELSE "nodes.resume",
     target |-> nodeTargetSchema,
     parameters |->
       IF op = "node.drain"
       THEN [state  |-> [type |-> "enum", min |-> 0, max |-> 0, allowed |-> {"DRAIN"}],
             reason |-> [type |-> "string", min |-> 1, max |-> MaxReason - 1, allowed |-> {}]]
       ELSE [state  |-> [type |-> "enum", min |-> 0, max |-> 0, allowed |-> {"RESUME"}]],
     handler |-> "node.set_state", validator |-> "node.target"]]

NodeRegistry ==
  [op \in {"node.drain", "node.resume"} |->
    [operation |-> op, resource |-> "node", command |-> "update",
     capability |-> IF op = "node.drain" THEN "nodes.drain" ELSE "nodes.resume",
     target |-> nodeTargetSchema,
     parameters |->
       IF op = "node.drain"
       THEN [state  |-> [type |-> "enum", min |-> 0, max |-> 0, allowed |-> {"DRAIN"}],
             reason |-> [type |-> "string", min |-> 1, max |-> MaxReason, allowed |-> {}]]
       ELSE [state  |-> [type |-> "enum", min |-> 0, max |-> 0, allowed |-> {"RESUME"}]],
     handler |-> "node.set_state", validator |-> "node.target"]]

validateSchema(schema) ==
  \A name \in DOMAIN schema :
    LET spec == schema[name]
    IN /\ name # ""
       /\ spec.type \in {"string", "enum", "integer", "boolean"}
       /\ spec.max > 0 => spec.min <= spec.max
       /\ (spec.type = "enum") <=> (spec.allowed # {})

validateEntry(op, entry, handlers, validators) ==
  /\ op \in {"node.drain", "node.resume"}
  /\ entry.resource = "node" /\ entry.command = "update" /\ entry.capability # ""
  /\ entry.handler \in handlers
  /\ entry.validator # "" => entry.validator \in validators
  /\ validateSchema(entry.target) /\ validateSchema(entry.parameters)

\* NewGlobalRegistry: whether the service accepts the registry at start.
NewGlobalRegistry(entries, handlers, validators) ==
  /\ DOMAIN entries = {"node.drain", "node.resume"}
  /\ \A op \in DOMAIN entries :
       /\ entries[op].operation = op
       /\ validateEntry(op, entries[op], handlers, validators)
  /\ entries["node.drain"].capability = "nodes.drain"
  /\ entries["node.resume"].capability = "nodes.resume"

NewNodeRegistry == NewGlobalRegistry(NodeRegistry, {"node.set_state"}, {"node.target"})

operationFor(state) == IF state = "DRAIN" THEN "node.drain" ELSE "node.resume"

validateAgainstRegistry(entry, request) ==
  (entry.operation = "node.drain") <=> (request.reason # Empty)

\* What a schema of the registry says of a text; the code never evaluates it.
FitsSpec(spec, t) ==
  /\ spec.type = "string" => t.n \in spec.min .. spec.max
  /\ spec.type = "enum" => t.w \in spec.allowed

-----------------------------------------------------------------------------
(* The helper's arguments.                                                  *)

validNodeName(t)         == t.n \in 1 .. MaxNodeName /\ t.w \in Plain
validateDrainReason(t)   == ~TrimSpaceEmpty(t) /\ t.n <= MaxReason /\ ~HasControl(t)
NoArgs == <<>>

BuildScontrolArgs_SameState(op, nodeName, reason) ==
  CASE op = "node.drain" /\ validNodeName(nodeName) /\ validateDrainReason(reason) ->
         <<"update", nodeName, "DRAIN", reason>>
    [] op = "node.resume" /\ validNodeName(nodeName) /\ reason = Empty ->
         <<"update", nodeName, "DRAIN">>
    [] OTHER -> NoArgs

\* BuildScontrolArgs: the command line, or NoArgs when the helper refuses.
BuildScontrolArgs(op, nodeName, reason) ==
  CASE op = "node.drain" /\ validNodeName(nodeName) /\ validateDrainReason(reason) ->
         <<"update", nodeName, "DRAIN", reason>>
    [] op = "node.resume" /\ validNodeName(nodeName) /\ reason = Empty ->
         <<"update", nodeName, "RESUME">>
    [] OTHER -> NoArgs

-----------------------------------------------------------------------------
(* The ledger's own rules for a claim.                                      *)

Claim(user, id, request) ==
  LET op == operationFor(request.state)
  IN [commandId |-> request.commandId, username |-> user, messageId |-> id,
      resource |-> request.resource, command |-> request.command, operation |-> op,
      capability |-> NodeRegistry[op].capability, target |-> request.nodeName]

validateClaim(claim) ==
  /\ claim.commandId # Empty /\ claim.username # "" /\ claim.messageId # ""
  /\ claim.target # Empty
  /\ claim.resource = "node" /\ claim.command = "update"
  /\ <<claim.operation, claim.capability>> \in
       {<<"node.drain", "nodes.drain">>, <<"node.resume", "nodes.resume">>}

-----------------------------------------------------------------------------
(* Accounting.  What `sacctmgr show user` printed is a record: whether the  *)
(* command ran, whether its JSON has the expected shape, the errors and the *)
(* users it lists, each with the administrator levels sacctmgr printed.     *)

V0043User(name, levels) == [name |-> name, levels |-> levels]

V0043OpenapiUsersResp(users) ==
  [ran |-> TRUE, json |-> TRUE, usersIsArray |-> TRUE, errors |-> FALSE, users |-> users]

LookupFailed == [ok |-> FALSE, found |-> FALSE, level |-> ""]
NotFound     == [ok |-> TRUE, found |-> FALSE, level |-> ""]
SlurmUser(level) == [ok |-> TRUE, found |-> TRUE, level |-> level]

validSlurmUsername(name) == name \in Plain

parseSacctmgrUser_AnyRecord(out, name) ==
  IF ~out.json \/ ~out.usersIsArray \/ out.errors THEN LookupFailed
  ELSE IF out.users = <<>> THEN NotFound
  ELSE IF Len(out.users) # 1 \/ Len(Head(out.users).levels) > 1 THEN LookupFailed
  ELSE SlurmUser(IF Head(out.users).levels = <<>> THEN "" ELSE Head(out.users).levels[1])

parseSacctmgrUser(out, name) ==
  IF ~out.json \/ ~out.usersIsArray \/ out.errors THEN LookupFailed
  ELSE IF out.users = <<>> THEN NotFound
  ELSE IF \/ Len(out.users) # 1 \/ Head(out.users).name # name
          \/ Len(Head(out.users).levels) > 1
  THEN LookupFailed
  ELSE SlurmUser(IF Head(out.users).levels = <<>> THEN "" ELSE Head(out.users).levels[1])

LookupUser(out, name) ==
  IF ~validSlurmUsername(name) \/ ~out.ran THEN LookupFailed ELSE parseSacctmgrUser(out, name)

\* normalizeAdminLevel, with "" for a level it does not know.  Case and white
\* space around a level do not matter.
normalizeAdminLevel(level) ==
  CASE level = "None"                        -> "none"
    [] level = "Operator"                    -> "operator"
    [] level \in {"Administrator", "Admin"}  -> "admin"
    [] OTHER                                 -> ""

NotResolved == [ok |-> FALSE, level |-> "", capabilities |-> {}]

\* CapabilityResolver.Resolve: the capabilities one lookup gives a user.
Resolve(user, out) ==
  LET found == LookupUser(out, user)
      level == normalizeAdminLevel(found.level)
  IN IF user = "" \/ ~found.ok \/ ~found.found \/ level = ""
     THEN NotResolved
     ELSE [ok |-> TRUE, level |-> level,
           capabilities |-> IF level = "admin" THEN {"nodes.drain", "nodes.resume"} ELSE {}]

Authorize_AnyLevel(user, op, out) ==
  IF Resolve(user, out).ok THEN "accepted" ELSE "authorization_failed"

\* Authorizer.Authorize, with what Handle makes of its decision.
Authorize(user, op, out) ==
  LET resolved == Resolve(user, out)
  IN IF ~resolved.ok THEN "authorization_failed"
     ELSE IF NodeRegistry[op].capability \notin resolved.capabilities THEN "denied"
     ELSE IF resolved.level # "admin" THEN "authorization_failed"
     ELSE "accepted"
=============================================================================
