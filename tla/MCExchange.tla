----------------------------- MODULE MCExchange -----------------------------
(* Exchange with the bodies a peer writes: good requests, and every request *)
(* that deviates from a good one in one field.                              *)
EXTENDS Exchange, TLC

Object(fields) == [shape |-> "object", fields |-> fields]
Body(type, payload) ==
  [length |-> "ok", json |-> TRUE, extra |-> FALSE, protocol |-> ProtocolName,
   version |-> ProtocolVersion, messageId |-> "MSG", type |-> type, payload |-> payload]
Word(w) == Text(w, 2)

Target  == "commandId" :> Word("c1") @@ "resource" :> Word("node")
             @@ "command" :> Word("update") @@ "nodeName" :> Word("n1")
Drain   == Target @@ "state" :> Word("DRAIN") @@ "reason" :> Word("why")
Resume  == Target @@ "state" :> Word("RESUME")
Without(fields, name) == Restrict(fields, DOMAIN fields \ {name})

MCUsual ==
  {Body("command", Object(Drain)), Body("command", Object(Resume)),
   Body("capabilities-request", Object(<<>>))}

OddCommands ==
  {With(Drain, "commandId", t) : t \in {Empty, Text("c1", 128), Text("c1", 129), Word("n 1")}}
  \cup {With(Drain, "resource", Word("job")), With(Drain, "command", Word("job"))}
  \cup {With(Drain, "nodeName", t) : t \in {Null, Text("n1", 256), Word("ALL"), Word("-n"), Word("n2")}}
  \cup {With(Drain, "state", Word("DOWN"))}
  \cup {With(Drain, "reason", t) : t \in {Null, NotText, Word(" "), Word("n\t"), Text("why", 256),
                                          Text("why", 257)}}
  \cup {Without(Drain, "reason"), With(Drain, "uid", Word("c1"))}
  \cup {With(Resume, "reason", t) : t \in {Null, Word("why")}}

Ping == Body("ping", Object(<<>>))

MCOdd ==
  {Body("command", Object(fields)) : fields \in OddCommands}
  \cup {Body("command", [shape |-> "array", fields |-> <<>>])}
  \cup {Body("query", Object("resource" :> t)) : t \in {Word("nodes"), Word("job"), NotText}}
  \cup {Body("query", [shape |-> "null", fields |-> <<>>])}
  \cup {Body(type, Object(<<>>)) : type \in {"hello", "event", "no-such-type", ""}}
  \cup {Body("capabilities-request", Object("uid" :> Word("c1"))), Ping, Body("ping", NoPayload)}
  \cup {[Ping EXCEPT !.length = l] : l \in {"zero", "huge"}}
  \cup {[Ping EXCEPT !.json = FALSE], [Ping EXCEPT !.extra = TRUE], [Ping EXCEPT !.protocol = ""],
        [Ping EXCEPT !.version = "2.0"], [Ping EXCEPT !.messageId = ""]}

MCMessageIds == <<"m1", "m2", "m3">>
MCNodes == {Word("n1"), Word("-n"), Word("ALL")}
MCUsers == {"", "alice", "alice@site"}

Administrator == V0043OpenapiUsersResp(<<V0043User("alice", <<"Administrator">>)>>)
MCOutputs ==
  {Administrator, V0043OpenapiUsersResp(<<>>), V0043OpenapiUsersResp(<<V0043User("bob", <<"Administrator">>)>>),
   V0043OpenapiUsersResp(<<V0043User("alice", <<"Administrator">>), V0043User("bob", <<"None">>)>>),
   [Administrator EXCEPT !.ran = FALSE], [Administrator EXCEPT !.json = FALSE],
   [Administrator EXCEPT !.usersIsArray = FALSE], [Administrator EXCEPT !.errors = TRUE]}
  \cup {V0043OpenapiUsersResp(<<V0043User("alice", levels)>>) :
         levels \in {<<"Admin">>, <<"None">>, <<"Operator">>, <<"Not Set">>, <<>>,
                     <<"None", "Administrator">>}}
=============================================================================
