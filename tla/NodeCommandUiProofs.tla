------------------------ MODULE NodeCommandUiProofs ------------------------
(***************************************************************************)
(* Proofs about the commands and capabilities of the page, for any set of  *)
(* nodes and any number of channels, clicks, failures and timeouts.        *)
(***************************************************************************)
EXTENDS NodeCommandUi, TLAPS

\* A page without a channel has its reconnect timer running, and only then;
\* nothing is under way on a channel that is not there.
ChannelInv ==
    /\ channel = 0 <=> timer
    /\ channel = 0 => ~hasSnapshot /\ queries = NoQueries

\* Who waits: a node is in commandsInFlight exactly while submitCommand awaits
\* its answer, and there is an answer only for those who wait.
AwaitInv ==
    \A n \in Nodes :
        /\ sent[n] # 0 <=> n \in inFlight
        /\ reply[n] # "none" => sent[n] # 0
        /\ reply[n] # "pending"

\* An available node has no job: a command that the backend may still execute
\* keeps its node blocked, in the state and in what was rendered last, and no
\* answer that would free it is on its way.
JobInv ==
    \A n \in Nodes : jobs[n] # 0 =>
        /\ jobs[n] = 1
        /\ isCommandActive(state.command[n]) /\ isCommandActive(shown.command[n])
        /\ reply[n] \in {"none", "unknown"}

\* Capabilities, while there is a channel, are that channel's own; in what was
\* rendered last, only if that render shows a connection.
CapabilityInv ==
    channel # 0 =>
        /\ state.capabilities # NoCapabilities => state.capabilities.channel = channel
        /\ shown.connected /\ shown.capabilities # NoCapabilities
             => shown.capabilities.channel = channel

UiInv == ChannelInv /\ AwaitInv /\ JobInv /\ CapabilityInv
           /\ PendingIsAwaited /\ LoadingHasCause

-----------------------------------------------------------------------------
\* The first state satisfies the type invariant and the inductive one.
LEMMA InitUi == Init => TypeOK /\ UiInv
<1> SUFFICES ASSUME Init PROVE TypeOK /\ UiInv
  OBVIOUS
<1> USE UiAssumption DEF Init
<1>1. NoCapabilities \in Capabilities /\ [n \in Nodes |-> "none"] \in [Nodes -> CommandStatus]
  BY DEF Capabilities, CommandStatus
<1>2. state \in State
  BY <1>1 DEF State
<1>3. NoQueries \in [Asker -> Nat]
  BY DEF NoQueries
<1>4. TypeOK
  <2>1. timer \in BOOLEAN /\ hasSnapshot \in BOOLEAN
    OBVIOUS
  <2>2. sent \in [Nodes -> 0 .. MaxChannels] /\ jobs \in [Nodes -> Nat]
    OBVIOUS
  <2> QED BY <1>1, <1>2, <1>3, <2>1, <2>2 DEF TypeOK
<1>5. ChannelInv /\ AwaitInv /\ PendingIsAwaited /\ LoadingHasCause
  BY DEF ChannelInv, AwaitInv, PendingIsAwaited, LoadingHasCause
<1>6. JobInv /\ CapabilityInv
  BY DEF JobInv, CapabilityInv
<1> QED BY <1>4, <1>5, <1>6 DEF UiInv

\* The end of a channel: nobody waits any more, and every command somebody
\* waited for is unknown.
LEMMA ChannelLost ==
  ASSUME TypeOK, UiInv, LoseChannel, events' \in 0 .. MaxEvents,
         shown' \in State, shown'.command = shown.command
  PROVE  TypeOK' /\ UiInv'
<1> USE UiAssumption
<1>1. state.command \in [Nodes -> CommandStatus]
  BY DEF TypeOK, State
<1>2. Rejected(state) \in [Nodes -> CommandStatus]
  BY <1>1 DEF Rejected, RejectedStatus, CommandStatus
<1>3. /\ state' \in State /\ state'.command = Rejected(state)
      /\ state'.capabilities = state.capabilities
  BY <1>2 DEF LoseChannel, TypeOK, State
<1>4. TypeOK'
  <2>1. NoQueries \in [Asker -> Nat] /\ [n \in Nodes |-> "none"] \in [Nodes -> CommandStatus]
    BY DEF NoQueries, CommandStatus
  <2>2. timer' \in BOOLEAN /\ hasSnapshot' \in BOOLEAN
    BY DEF LoseChannel
  <2>3. sent' \in [Nodes -> 0 .. MaxChannels]
    BY DEF LoseChannel
  <2> QED BY <1>3, <2>1, <2>2, <2>3 DEF LoseChannel, TypeOK
<1>5. \A n \in Nodes : n \in inFlight <=> sent[n] # 0
  BY DEF UiInv, AwaitInv
<1>6. inFlight' = {}
  BY <1>5 DEF LoseChannel, TypeOK
<1>7. ChannelInv' /\ AwaitInv' /\ CapabilityInv' /\ LoadingHasCause'
  BY <1>6 DEF LoseChannel, ChannelInv, AwaitInv, CapabilityInv, LoadingHasCause
<1>8. PendingIsAwaited'
  BY <1>1, <1>3, <1>5, <1>6 DEF UiInv, PendingIsAwaited, Rejected, RejectedStatus
<1>9. JobInv'
  BY <1>1, <1>3 DEF UiInv, JobInv, LoseChannel, Rejected, RejectedStatus, isCommandActive
<1> QED BY <1>4, <1>7, <1>8, <1>9 DEF UiInv

\* A step that only changes the capabilities a page knows, waits for or shows:
\* the parts of the invariant about commands stay.
LEMMA CommandsKept ==
  ASSUME TypeOK, UiInv, UNCHANGED commandVars, channel' = channel \/ inFlight = {},
         state'.command = state.command,
         shown'.command \in {shown.command, state.command}
  PROVE  AwaitInv' /\ JobInv' /\ PendingIsAwaited'
  BY DEF commandVars, UiInv, AwaitInv, JobInv, PendingIsAwaited

\* openChannel keeps the invariant.
LEMMA OpenKeeps ==
  ASSUME TypeOK, UiInv, openChannel PROVE TypeOK' /\ UiInv'
<1> USE UiAssumption
<1>1. NoCapabilities \in Capabilities
  BY DEF Capabilities
<1>2. state' \in State
  BY <1>1 DEF openChannel, Reset, TypeOK, State
<1>3. /\ state'.command = state.command /\ state'.capabilities = NoCapabilities
      /\ state'.connected = FALSE
  BY <1>1 DEF openChannel, Reset, TypeOK, State
<1>4. timer /\ channel = 0 /\ ~hasSnapshot /\ queries = NoQueries
  BY DEF UiInv, ChannelInv, openChannel
<1>5. inFlight = {}
  BY <1>4 DEF UiInv, PendingIsAwaited, TypeOK
<1>6. AwaitInv' /\ JobInv' /\ PendingIsAwaited'
  BY <1>3, <1>5, CommandsKept DEF openChannel
<1>7. ~shown.connected /\ shown' = shown /\ hasSnapshot' = hasSnapshot /\ queries' = queries
  BY DEF openChannel
<1>8. CASE UNCHANGED <<opened, channel, timer>> /\ Event
  <2>1. TypeOK'
    BY <1>2, <1>8 DEF openChannel, Event, TypeOK, commandVars
  <2>2. ChannelInv' /\ CapabilityInv' /\ LoadingHasCause'
    BY <1>4, <1>7, <1>8 DEF ChannelInv, CapabilityInv, LoadingHasCause
  <2> QED BY <1>6, <2>1, <2>2 DEF UiInv
<1>9. CASE opened < MaxChannels /\ opened' = opened + 1 /\ channel' = opened' /\ timer' = FALSE
           /\ UNCHANGED events
  <2>1. opened' \in 0 .. MaxChannels /\ channel' \in 0 .. MaxChannels /\ channel' # 0
    BY <1>9 DEF TypeOK
  <2>2. TypeOK'
    BY <1>2, <1>9, <2>1 DEF openChannel, TypeOK, commandVars
  <2>3. ChannelInv' /\ CapabilityInv' /\ LoadingHasCause'
    BY <1>3, <1>4, <1>7, <1>9, <2>1 DEF ChannelInv, CapabilityInv, LoadingHasCause
  <2> QED BY <1>6, <2>2, <2>3 DEF UiInv
<1> QED BY <1>8, <1>9 DEF openChannel

\* The baseline keeps the invariant.
LEMMA SnapshotKeeps ==
  ASSUME TypeOK, UiInv, Snapshot PROVE TypeOK' /\ UiInv'
<1>1. state' \in State
  BY DEF Snapshot, TypeOK, State
<1>2. state'.command = state.command /\ state'.capabilities = state.capabilities
  BY DEF Snapshot, TypeOK, State
<1>3. queries' \in [Asker -> Nat] /\ queries'["baseline"] # 0
  BY DEF Snapshot, Asked, Asker, TypeOK
<1>4. TypeOK'
  BY <1>1, <1>3 DEF Snapshot, TypeOK, commandVars
<1>5. queries' # NoQueries
  BY <1>3 DEF NoQueries, Asker
<1>6. ChannelInv' /\ CapabilityInv' /\ LoadingHasCause'
  BY <1>2, <1>5 DEF Snapshot, UiInv, ChannelInv, CapabilityInv, LoadingHasCause
<1>7. AwaitInv' /\ JobInv' /\ PendingIsAwaited'
  BY <1>2, CommandsKept DEF Snapshot
<1> QED BY <1>4, <1>6, <1>7 DEF UiInv

\* The answer to a capability request, or its failure, keeps the invariant: it
\* can only belong to the current channel.
LEMMA AnsweredKeeps ==
  ASSUME TypeOK, UiInv, NEW a \in Asker, Answered(a) PROVE TypeOK' /\ UiInv'
<1>1. queries[a] > 0 /\ UNCHANGED <<channelVars, shown, commandVars, events>>
      /\ queries' = [queries EXCEPT ![a] = @ - 1]
  BY DEF Answered, CapabilitiesArrive, CapabilitiesFail
<1>2. channel # 0
  BY <1>1 DEF UiInv, ChannelInv, NoQueries, Asker
<1>3. channel \in 1 .. MaxChannels
  BY <1>2, UiAssumption DEF TypeOK
<1>4. PICK k \in Capabilities, e \in BOOLEAN :
        /\ state' = [state EXCEPT !.capabilities = k, !.loading = FALSE, !.error = e]
        /\ k # NoCapabilities => k.channel = channel
  <2>1. CASE CapabilitiesFail(a)
    BY <2>1 DEF CapabilitiesFail, Capabilities
  <2>2. ASSUME NEW granted \in BOOLEAN, CapabilitiesArrive(a, granted)
        PROVE  \E k \in Capabilities, e \in BOOLEAN :
                 /\ state' = [state EXCEPT !.capabilities = k, !.loading = FALSE, !.error = e]
                 /\ k # NoCapabilities => k.channel = channel
    <3>1. [channel |-> channel, granted |-> granted] \in Capabilities
      BY <1>3 DEF Capabilities
    <3>2. (state.error /\ a = "retry") \in BOOLEAN
      OBVIOUS
    <3> QED BY <2>2, <3>1, <3>2 DEF CapabilitiesArrive
  <2> QED BY <2>1, <2>2 DEF Answered
<1>5. /\ state' \in State /\ state'.command = state.command
      /\ state'.capabilities = k /\ state'.loading = FALSE
  BY <1>4 DEF TypeOK, State
<1>6. queries' \in [Asker -> Nat]
  BY <1>1 DEF TypeOK
<1>7. TypeOK'
  BY <1>1, <1>5, <1>6 DEF TypeOK, channelVars, commandVars
<1>8. ChannelInv' /\ CapabilityInv' /\ LoadingHasCause'
  BY <1>1, <1>2, <1>4, <1>5
  DEF UiInv, ChannelInv, CapabilityInv, LoadingHasCause, channelVars
<1>9. AwaitInv' /\ JobInv' /\ PendingIsAwaited'
  BY <1>1, <1>5, CommandsKept DEF channelVars
<1> QED BY <1>7, <1>8, <1>9 DEF UiInv

\* The Retry button keeps the invariant.
LEMMA RetryKeeps ==
  ASSUME TypeOK, UiInv, refreshCapabilities PROVE TypeOK' /\ UiInv'
<1> USE UiAssumption
<1>1. NoCapabilities \in Capabilities
  BY DEF Capabilities
<1>2. UNCHANGED <<channelVars, commandVars>> /\ events' \in 0 .. MaxEvents
  BY DEF refreshCapabilities, Event, TypeOK
<1>3. CASE channel = 0
  <2>1. /\ state' = RetryRefused(state) /\ shown' = RetryRefused(shown) /\ queries' = queries
    BY <1>3 DEF refreshCapabilities
  <2>2. /\ state' \in State /\ shown' \in State /\ state'.loading = FALSE
        /\ state'.command = state.command /\ shown'.command = shown.command
    BY <1>1, <2>1 DEF RetryRefused, TypeOK, State
  <2>3. TypeOK'
    BY <1>2, <2>1, <2>2 DEF TypeOK, channelVars, commandVars
  <2>4. ChannelInv' /\ CapabilityInv' /\ LoadingHasCause'
    BY <1>2, <1>3, <2>1, <2>2
    DEF UiInv, ChannelInv, CapabilityInv, LoadingHasCause, channelVars
  <2>5. AwaitInv' /\ JobInv' /\ PendingIsAwaited'
    BY <1>2, <2>2, CommandsKept DEF channelVars
  <2> QED BY <2>3, <2>4, <2>5 DEF UiInv
<1>4. CASE channel # 0
  <2>1. /\ state' = [state EXCEPT !.loading = TRUE, !.error = FALSE]
        /\ shown' = [shown EXCEPT !.loading = TRUE, !.error = FALSE]
        /\ queries' = [queries EXCEPT !["retry"] = @ + 1]
    BY <1>4 DEF refreshCapabilities, Asked
  <2>2. /\ state' \in State /\ shown' \in State
        /\ state'.capabilities = state.capabilities
        /\ shown'.capabilities = shown.capabilities /\ shown'.connected = shown.connected
        /\ state'.command = state.command /\ shown'.command = shown.command
    BY <2>1 DEF TypeOK, State
  <2>3. queries' \in [Asker -> Nat] /\ queries'["retry"] # 0
    BY <2>1 DEF Asker, TypeOK
  <2>4. queries' # NoQueries
    BY <2>3 DEF NoQueries, Asker
  <2>5. TypeOK'
    BY <1>2, <2>2, <2>3 DEF TypeOK, channelVars, commandVars
  <2>6. ChannelInv' /\ CapabilityInv' /\ LoadingHasCause'
    BY <1>2, <1>4, <2>2, <2>4
    DEF UiInv, ChannelInv, CapabilityInv, LoadingHasCause, channelVars
  <2>7. AwaitInv' /\ JobInv' /\ PendingIsAwaited'
    BY <1>2, <2>2, CommandsKept DEF channelVars
  <2> QED BY <2>5, <2>6, <2>7 DEF UiInv
<1> QED BY <1>3, <1>4

\* A render keeps the invariant.
LEMMA RenderKeeps ==
  ASSUME TypeOK, UiInv, Render PROVE TypeOK' /\ UiInv'
<1>1. TypeOK'
  BY DEF Render, TypeOK, channelVars, commandVars
<1>2. ChannelInv' /\ CapabilityInv' /\ LoadingHasCause'
  BY DEF Render, UiInv, ChannelInv, CapabilityInv, LoadingHasCause, channelVars
<1>3. AwaitInv' /\ JobInv' /\ PendingIsAwaited'
  BY CommandsKept DEF Render, channelVars
<1> QED BY <1>1, <1>2, <1>3 DEF UiInv

\* A step that changes commands only: the parts about the channel and the
\* capabilities stay.
LEMMA ChannelKept ==
  ASSUME UiInv, UNCHANGED <<channelVars, queries>>,
         state'.loading = state.loading, state'.capabilities = state.capabilities,
         shown'.connected = shown.connected, shown'.capabilities = shown.capabilities
  PROVE  ChannelInv' /\ CapabilityInv' /\ LoadingHasCause'
  BY DEF UiInv, ChannelInv, CapabilityInv, LoadingHasCause, channelVars

\* submitCommand keeps the invariant: it starts only from a status that says
\* that no job of this node is left.
LEMMA SubmitKeeps ==
  ASSUME TypeOK, UiInv, NEW n \in Nodes, submitCommand(n) PROVE TypeOK' /\ UiInv'
<1> USE UiAssumption
<1>1. "pending" \in CommandStatus /\ state \in State /\ shown \in State
  BY DEF CommandStatus, TypeOK
<1>2. /\ state' \in State /\ state'.command = [state.command EXCEPT ![n] = "pending"]
      /\ state.command \in [Nodes -> CommandStatus]
      /\ state'.loading = state.loading /\ state'.capabilities = state.capabilities
  BY <1>1 DEF submitCommand, State
<1>3. /\ shown' \in State /\ shown'.command = [shown.command EXCEPT ![n] = "pending"]
      /\ shown.command \in [Nodes -> CommandStatus]
      /\ shown'.connected = shown.connected /\ shown'.capabilities = shown.capabilities
  BY <1>1 DEF submitCommand, State
<1>4. channel # 0 /\ n \notin inFlight /\ ~isCommandActive(shown.command[n])
  BY DEF submitCommand, NotBlocked
<1>5. /\ UNCHANGED <<channelVars, queries>> /\ reply' = reply
      /\ sent' = [sent EXCEPT ![n] = channel] /\ inFlight' = inFlight \cup {n}
      /\ jobs' = [jobs EXCEPT ![n] = @ + 1] /\ events' \in 0 .. MaxEvents
  BY DEF submitCommand, Event, TypeOK
<1>6. sent \in [Nodes -> 0 .. MaxChannels] /\ jobs \in [Nodes -> Nat]
      /\ channel \in 0 .. MaxChannels
  BY DEF TypeOK
<1>7. TypeOK'
  BY <1>2, <1>3, <1>5, <1>6 DEF TypeOK, channelVars
<1>8. ChannelInv' /\ CapabilityInv' /\ LoadingHasCause'
  BY <1>2, <1>3, <1>5, ChannelKept
<1>9. reply[n] = "none" /\ sent[n] = 0 /\ jobs[n] = 0
  BY <1>4, <1>6 DEF UiInv, AwaitInv, JobInv
<1>10. AwaitInv'
  BY <1>4, <1>5, <1>6, <1>9 DEF UiInv, AwaitInv
<1>11. JobInv'
  BY <1>2, <1>3, <1>5, <1>6, <1>9 DEF UiInv, JobInv, isCommandActive
<1>12. PendingIsAwaited'
  BY <1>2, <1>4, <1>5, <1>6 DEF UiInv, PendingIsAwaited, channelVars
<1> QED BY <1>7, <1>8, <1>10, <1>11, <1>12 DEF UiInv

\* So does one that could not be sent.
LEMMA SubmitFailureKeeps ==
  ASSUME TypeOK, UiInv, NEW n \in Nodes, submitFails(n) PROVE TypeOK' /\ UiInv'
<1> USE UiAssumption
<1>1. {"pending", "unknown"} \subseteq CommandStatus /\ state \in State /\ shown \in State
  BY DEF CommandStatus, TypeOK
<1>2. /\ state' \in State /\ state'.command = [state.command EXCEPT ![n] = "unknown"]
      /\ state.command \in [Nodes -> CommandStatus]
      /\ state'.loading = state.loading /\ state'.capabilities = state.capabilities
  BY <1>1 DEF submitFails, State
<1>3. /\ shown' \in State /\ shown'.command = [shown.command EXCEPT ![n] = "pending"]
      /\ shown.command \in [Nodes -> CommandStatus]
      /\ shown'.connected = shown.connected /\ shown'.capabilities = shown.capabilities
  BY <1>1 DEF submitFails, State
<1>4. n \notin inFlight /\ UNCHANGED <<channelVars, queries>> /\ UNCHANGED commandVars
      /\ events' \in 0 .. MaxEvents
  BY DEF submitFails, NotBlocked, Event, TypeOK
<1>5. TypeOK'
  BY <1>2, <1>3, <1>4 DEF TypeOK, channelVars, commandVars
<1>6. ChannelInv' /\ CapabilityInv' /\ LoadingHasCause'
  BY <1>2, <1>3, <1>4, ChannelKept
<1>7. AwaitInv' /\ PendingIsAwaited'
  BY <1>2, <1>4 DEF UiInv, AwaitInv, PendingIsAwaited, channelVars, commandVars
<1>8. JobInv'
  BY <1>2, <1>3, <1>4 DEF UiInv, JobInv, isCommandActive, commandVars
<1> QED BY <1>5, <1>6, <1>7, <1>8 DEF UiInv

\* An answer or a timeout keeps the invariant, if the status it brings leaves a
\* node with a job blocked.
LEMMA SettleKeeps ==
  ASSUME TypeOK, UiInv, NEW n \in Nodes, NEW v \in CommandStatus,
         Settle(n, v), events' \in 0 .. MaxEvents, v # "pending",
         jobs[n] # 0 => v = "unknown"
  PROVE  TypeOK' /\ UiInv'
<1> USE UiAssumption
<1>1. /\ state' \in State /\ state'.command = [state.command EXCEPT ![n] = v]
      /\ state.command \in [Nodes -> CommandStatus]
      /\ state'.loading = state.loading /\ state'.capabilities = state.capabilities
  BY DEF Settle, TypeOK, State
<1>2. /\ UNCHANGED <<channelVars, queries>> /\ jobs' = jobs /\ shown' = shown
      /\ inFlight' = inFlight \ {n} /\ sent' = [sent EXCEPT ![n] = 0]
      /\ reply' = [reply EXCEPT ![n] = "none"]
  BY DEF Settle
<1>3. sent \in [Nodes -> 0 .. MaxChannels] /\ reply \in [Nodes -> CommandStatus]
      /\ "none" \in CommandStatus
  BY DEF TypeOK, CommandStatus
<1>4. TypeOK'
  BY <1>1, <1>2, <1>3 DEF TypeOK, channelVars
<1>5. ChannelInv' /\ CapabilityInv' /\ LoadingHasCause'
  BY <1>1, <1>2, ChannelKept
<1>6. AwaitInv'
  BY <1>2, <1>3 DEF UiInv, AwaitInv
<1>7. JobInv'
  BY <1>1, <1>2, <1>3 DEF UiInv, JobInv, isCommandActive
<1>8. PendingIsAwaited'
  BY <1>1, <1>2, <1>3 DEF UiInv, PendingIsAwaited, channelVars
<1> QED BY <1>4, <1>5, <1>6, <1>7, <1>8 DEF UiInv

\* What the backend does keeps the invariant: an answer that frees the node
\* comes with the end of the job.
LEMMA BackendKeeps ==
  ASSUME TypeOK, UiInv, NEW n \in Nodes, NEW v \in CommandStatus, v \notin {"pending", "none"},
         BackendSettles(n, v) \/ BackendGivesUp(n)
  PROVE  TypeOK' /\ UiInv'
<1>1. /\ UNCHANGED <<channelVars, state, shown, queries, inFlight, sent, events>>
      /\ jobs[n] > 0
  BY DEF BackendSettles, BackendGivesUp
<1>2. /\ jobs \in [Nodes -> Nat] /\ reply \in [Nodes -> CommandStatus]
      /\ "unknown" \in CommandStatus
  BY DEF TypeOK, CommandStatus
<1>3. jobs[n] = 1
  BY <1>1, <1>2 DEF UiInv, JobInv
<1>4. jobs' = [jobs EXCEPT ![n] = 0] \/ (jobs' = jobs /\ BackendGivesUp(n))
  BY <1>2, <1>3 DEF BackendSettles, BackendGivesUp
<1>5. PICK w \in CommandStatus :
        /\ reply' = [reply EXCEPT ![n] = w] /\ w # "pending"
        /\ w # "none" => sent[n] # 0
        /\ BackendGivesUp(n) => w = "unknown"
  <2>1. reply[n] \in CommandStatus /\ reply[n] # "pending" /\ (reply[n] # "none" => sent[n] # 0)
    BY <1>2 DEF UiInv, AwaitInv
  <2>2. CASE BackendGivesUp(n)
    BY <1>2, <2>2 DEF BackendGivesUp
  <2>3. CASE BackendSettles(n, v) /\ ~BackendGivesUp(n)
    BY <2>1, <2>3 DEF BackendSettles
  <2> QED BY <2>2, <2>3
<1>6. TypeOK'
  BY <1>1, <1>2, <1>4, <1>5 DEF TypeOK, channelVars
<1>7. ChannelInv' /\ CapabilityInv' /\ LoadingHasCause' /\ PendingIsAwaited'
  BY <1>1 DEF UiInv, ChannelInv, CapabilityInv, LoadingHasCause, PendingIsAwaited, channelVars
<1>8. AwaitInv'
  BY <1>1, <1>2, <1>5 DEF UiInv, AwaitInv
<1>9. JobInv'
  BY <1>1, <1>2, <1>4, <1>5 DEF UiInv, JobInv
<1> QED BY <1>6, <1>7, <1>8, <1>9 DEF UiInv

\* Every step keeps the types and the invariant.
LEMMA NextKeeps == TypeOK /\ UiInv /\ [Next]_vars => TypeOK' /\ UiInv'
<1> SUFFICES ASSUME TypeOK, UiInv, [Next]_vars PROVE TypeOK' /\ UiInv'
  OBVIOUS
<1>1. CASE ChannelEnds
  BY <1>1, ChannelLost, UiAssumption DEF ChannelEnds, Event, TypeOK
<1>2. CASE forceReconnect
  <2>1. shown' \in State /\ shown'.command = shown.command
    BY <1>2 DEF forceReconnect, TypeOK, State
  <2>2. events' \in 0 .. MaxEvents
    BY <1>2, UiAssumption DEF forceReconnect, Event, TypeOK
  <2> QED BY <1>2, <2>1, <2>2, ChannelLost DEF forceReconnect
<1>3. ASSUME NEW n \in Nodes, ReplyArrives(n) PROVE TypeOK' /\ UiInv'
  <2>1. reply[n] \in CommandStatus /\ events' \in 0 .. MaxEvents
    BY <1>3 DEF ReplyArrives, TypeOK
  <2>2. reply[n] # "pending" /\ (jobs[n] # 0 => reply[n] = "unknown")
    BY <1>3 DEF ReplyArrives, UiInv, AwaitInv, JobInv
  <2> QED BY <1>3, <2>1, <2>2, SettleKeeps DEF ReplyArrives
<1>4. ASSUME NEW n \in Nodes, RequestTimeout(n) PROVE TypeOK' /\ UiInv'
  <2>1. "unknown" \in CommandStatus /\ events' \in 0 .. MaxEvents
    BY <1>4, UiAssumption DEF RequestTimeout, Event, TypeOK, CommandStatus
  <2> QED BY <1>4, <2>1, SettleKeeps DEF RequestTimeout, RejectedStatus
<1>5. ASSUME NEW n \in Nodes, NEW v \in {"succeeded", "failed", "denied"},
             BackendSettles(n, v) \/ BackendGivesUp(n)
      PROVE  TypeOK' /\ UiInv'
  BY <1>5, BackendKeeps DEF CommandStatus
<1>6. CASE UNCHANGED vars
  BY <1>6 DEF vars, TypeOK, UiInv, ChannelInv, AwaitInv, JobInv, CapabilityInv,
              PendingIsAwaited, LoadingHasCause
<1> QED BY <1>1, <1>2, <1>3, <1>4, <1>5, <1>6, OpenKeeps, SnapshotKeeps, RetryKeeps,
           RenderKeeps, AnsweredKeeps, SubmitKeeps, SubmitFailureKeeps DEF Next

\* The types and the inductive invariant of the page hold always.
LEMMA UiInvariance == Spec => [](TypeOK /\ UiInv)
  BY InitUi, NextKeeps, PTL DEF Spec

-----------------------------------------------------------------------------
\* Every variable of the page keeps its type.
THEOREM TypeCorrect == Spec => []TypeOK
  BY UiInvariance, PTL

\* At most one command for a node may be under execution for this page, across
\* lost channels, timeouts and answers not rendered yet.
THEOREM CommandsNeverOverlap == Spec => []NoOverlap
<1>1. ASSUME TypeOK, UiInv PROVE NoOverlap
  <2>1. \A n \in Nodes : jobs[n] \in Nat /\ (jobs[n] = 0 \/ jobs[n] = 1)
    BY <1>1 DEF TypeOK, UiInv, JobInv
  <2>2. ASSUME NEW n \in Nodes PROVE jobs[n] <= 1
    BY <2>1
  <2> QED BY <2>2 DEF NoOverlap
<1> QED BY <1>1, UiInvariance, PTL

\* No spinner outlives its request.
THEOREM PendingIsAlwaysAwaited == Spec => []PendingIsAwaited
<1>1. UiInv => PendingIsAwaited
  BY DEF UiInv
<1> QED BY <1>1, UiInvariance, PTL

\* Capabilities shown as loading have something under way that will end it.
THEOREM LoadingAlwaysHasCause == Spec => []LoadingHasCause
<1>1. UiInv => LoadingHasCause
  BY DEF UiInv
<1> QED BY <1>1, UiInvariance, PTL

\* A command is submitted only with capabilities that the current channel
\* reported, though the decision is made from the last render.
THEOREM CapabilitiesAreCurrent == Spec => CurrentCapabilities
<1>1. ASSUME TypeOK, UiInv, [Next]_vars, NEW n \in inFlight' \ inFlight
      PROVE  shown.capabilities = [channel |-> channel, granted |-> TRUE]
  <2>1. n \in Nodes /\ submitCommand(n)
    BY <1>1 DEF Next, vars, TypeOK, ChannelEnds, forceReconnect, LoseChannel, openChannel,
                Snapshot, refreshCapabilities, Render, Answered, CapabilitiesArrive,
                CapabilitiesFail, submitCommand, submitFails, ReplyArrives, RequestTimeout,
                Settle, BackendSettles, BackendGivesUp, commandVars
  <2>2. channel # 0 /\ shown.connected /\ shown.capabilities.granted
    BY <2>1 DEF submitCommand, NotBlocked
  <2>3. shown.capabilities \in Capabilities
    BY <1>1 DEF TypeOK, State
  <2>4. shown.capabilities # NoCapabilities
    BY <2>2 DEF NoCapabilities
  <2>5. shown.capabilities.channel = channel
    BY <1>1, <2>2, <2>4 DEF UiInv, CapabilityInv
  <2> QED BY <2>2, <2>3, <2>4, <2>5 DEF Capabilities
<1>2. TypeOK /\ UiInv /\ [Next]_vars =>
        [\A n \in inFlight' \ inFlight :
            shown.capabilities = [channel |-> channel, granted |-> TRUE]]_vars
  BY <1>1
<1> QED BY <1>2, UiInvariance, PTL DEF Spec, CurrentCapabilities
=============================================================================
