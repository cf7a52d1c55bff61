-------------------------- MODULE MCServiceStart --------------------------
(* ServiceStart with the databases of every earlier version and with what   *)
(* scontrol may print.                                                      *)
EXTENDS ServiceStart

Left(version, columns) == [version |-> version, table |-> version > 0, columns |-> columns]
MCDatabases ==
  {Left(0, {}), Left(1, {}), Left(2, V2Columns)}
  \cup {Left(version, V2Columns \cup ServiceColumns) : version \in {2, 3, 4}}

\* One node, with its name and in all combinations of two states.
Named(state) == V0043Node("n1", "h1", Nil, state)
MCUsual == V0043OpenapiNodesResp(<<Named(<<"IDLE">>)>>)
States  == {"IDLE", "DRAIN", "RESERVED"}

MCListings ==
  {MCUsual, [MCUsual EXCEPT !.ran = FALSE], [MCUsual EXCEPT !.shape = FALSE],
   [MCUsual EXCEPT !.errors = TRUE], V0043OpenapiNodesResp(<<>>)}
  \cup {V0043OpenapiNodesResp(<<Named(states)>>) :
          states \in {NoState, <<>>, <<"DRAIN">>, <<"MIXED", "IDLE">>} \cup (States \X States)}
  \cup {V0043OpenapiNodesResp(<<V0043Node(name, hostname, "n2", <<"IDLE">>), Named(<<"IDLE">>)>>) :
          name \in {Nil, "", "n1", "n2"}, hostname \in {Nil, "n1"}}
  \cup {V0043OpenapiNodesResp(<<V0043Node(Nil, Nil, "", <<"IDLE">>)>>)}
=============================================================================
