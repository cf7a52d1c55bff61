---------------------------- MODULE NodeMapping ----------------------------
(***************************************************************************)
(* What becomes of the nodes `scontrol show nodes --json` prints, as pure  *)
(* operators: the adapter's checks of the response, MapSlurmNode, the      *)
(* synchronizer's validation of the whole snapshot (internal/resource),    *)
(* and on the other side of the socket the page's own validation of that   *)
(* snapshot (framing.ts) and the actions it offers for a node              *)
(* (node-command-state.ts).                                                *)
(*                                                                         *)
(* Data.  A raw node has the optional texts name, hostname and address and *)
(* the optional list of its states; Nil is a field that is not there.  The *)
(* order of a node's state flags is layout: they are a set.  Load, memory  *)
(* and reason are copied and never looked at, so they are left out.        *)
(***************************************************************************)
EXTENDS Naturals, Sequences

Nil == "<nil>"
NoState == <<Nil>>
Present(text) == text \notin {Nil, ""}

\* The states Slurm's base states are printed as; all others are flags.
Primary == {"ALLOCATED", "DOWN", "ERROR", "FAIL", "FUTURE", "IDLE", "MIXED",
            "PLANNED", "UNKNOWN"}

V0043NodeState == Primary \cup
  {"CLOUD", "COMPLETING", "DRAIN", "DYNAMIC_FUTURE", "DYNAMIC_NORM", "INVALID",
   "INVALID_REG", "MAINTENANCE", "NOT_RESPONDING", "POWER_DOWN", "POWER_DRAIN",
   "POWERED_DOWN", "POWERING_DOWN", "POWERING_UP", "POWER_UP", "REBOOT_CANCELED",
   "REBOOT_ISSUED", "REBOOT_REQUESTED", "RESERVED", "RESUME", "UNDRAIN"}

V0043Node(name, hostname, address, state) ==
  [name |-> name, hostname |-> hostname, address |-> address, state |-> state]

\* What scontrol printed: whether it ran, whether its output has the expected
\* shape (JSON, with an array "nodes"), whether it lists errors, and the nodes.
V0043OpenapiNodesResp(nodes) ==
  [ran |-> TRUE, shape |-> TRUE, errors |-> FALSE, nodes |-> nodes]

-----------------------------------------------------------------------------
nodeNameFromGenerated(raw) ==
  IF Present(raw.name) THEN raw.name
  ELSE IF Present(raw.hostname) THEN raw.hostname
  ELSE IF Present(raw.address) THEN raw.address
  ELSE ""

summarizeNodeState(states) ==
  LET primaries == {i \in DOMAIN states : states[i] \in Primary}
  IN IF states = <<>> THEN ""
     ELSE IF \E i, j \in primaries : i # j THEN "MIXED"
     ELSE IF primaries # {} THEN states[CHOOSE i \in primaries : TRUE]
     ELSE states[1]

stateFlagsFromGenerated_DrainIsPrimary(states) ==
  {states[i] : i \in DOMAIN states} \ (Primary \cup {"DRAIN"})

stateFlagsFromGenerated(states) == {states[i] : i \in DOMAIN states} \ Primary

\* MapSlurmNode: NewNode with the best name there is; then a name that is
\* there, even an empty one, replaces it.
MapSlurmNode(raw) ==
  LET best == nodeNameFromGenerated(raw)
      name == IF raw.name # Nil THEN raw.name ELSE best
  IN [metadataName |-> name, nodeName |-> name,
      state |-> IF raw.state = NoState THEN "" ELSE summarizeNodeState(raw.state),
      stateFlags |-> IF raw.state = NoState THEN {} ELSE stateFlagsFromGenerated(raw.state)]

Identity(node) == IF node.nodeName # "" THEN node.nodeName ELSE node.metadataName

\* ListNodes: whether there is a snapshot at all, and the snapshot.
ListNodesOk(resp) == resp.ran /\ resp.shape /\ ~resp.errors
ListNodes(resp)   == [i \in DOMAIN resp.nodes |-> MapSlurmNode(resp.nodes[i])]

validateNodeSnapshot_DuplicatesPass(nodes) == \A i \in DOMAIN nodes : Identity(nodes[i]) # ""

validateNodeSnapshot(nodes) ==
  /\ \A i \in DOMAIN nodes : Identity(nodes[i]) # ""
  /\ \A i, j \in DOMAIN nodes : i # j => Identity(nodes[i]) # Identity(nodes[j])

-----------------------------------------------------------------------------
(* The page.                                                                *)

isNodeStreamNode(node) == node.metadataName # "" /\ node.nodeName # ""

isNodeSnapshotPayload(nodes) ==
  /\ \A i \in DOMAIN nodes : isNodeStreamNode(nodes[i])
  /\ \A i, j \in DOMAIN nodes : i # j => nodes[i].nodeName # nodes[j].nodeName

isDrained(node) == node.state = "DRAIN" \/ "DRAIN" \in node.stateFlags

\* nodeCommandBlockReason, as far as it looks at the node.
applicable(node, action) ==
  /\ node.state # ""
  /\ IF action = "DRAIN" THEN node.state = "IDLE" /\ ~isDrained(node) ELSE isDrained(node)
=============================================================================
