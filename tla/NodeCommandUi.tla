--------------------------- MODULE NodeCommandUi ---------------------------
(***************************************************************************)
(* Commands and capabilities in the page (src/node-provider.tsx,           *)
(* src/node-command-state.ts, src/ipc/command-service.ts and client.ts):   *)
(* the requests a provider has under way on its current channel, what      *)
(* becomes of them when the channel ends, and the decisions submitCommand  *)
(* takes from the state its closure captured at the last render.           *)
(*                                                                         *)
(* state is React's pending state, shown the one last rendered.  React     *)
(* renders what a click handler sets before the next event, and everything *)
(* else some time later; a lost connection, before the reconnect timer.    *)
(***************************************************************************)
EXTENDS Naturals

CONSTANTS
    Nodes,         \* node names
    MaxChannels,   \* bound: channels ever opened
    MaxEvents      \* bound: clicks, failures and timeouts

ASSUME UiAssumption == MaxChannels \in Nat /\ MaxEvents \in Nat

VARIABLES
    channel,      \* the current channel (client, commandService.current), or 0
    opened,       \* how many channels have been opened
    timer,        \* the reconnect timer runs
    hasSnapshot,  \* the baseline of the current channel has arrived
    state, shown,
    queries,      \* capability requests pending on the current channel, by
                  \* who sent them
    inFlight,     \* commandsInFlight
    sent,         \* the channel on which submitCommand awaits an answer, or 0
    reply,        \* the answer on its way
    jobs,         \* commands of this page that the backend may still execute
    events

channelVars == <<channel, opened, timer, hasSnapshot>>
commandVars == <<inFlight, sent, reply, jobs>>
vars == <<channel, opened, timer, hasSnapshot, state, shown, queries,
          inFlight, sent, reply, jobs, events>>

-----------------------------------------------------------------------------
NoCapabilities == [channel |-> 0, granted |-> FALSE]

\* The answer to a capability request, and the channel that it came over.
Capabilities == [channel : 1..MaxChannels, granted : BOOLEAN]
                    \cup {NoCapabilities}

CommandStatus == {"none", "pending", "running", "succeeded", "failed", "denied",
                  "unknown"}

State == [connected : BOOLEAN, capabilities : Capabilities, loading : BOOLEAN,
          error : BOOLEAN, command : [Nodes -> CommandStatus]]

\* A capability request is sent when the baseline arrives, or by Retry.
Asker == {"baseline", "retry"}

NoQueries == [a \in Asker |-> 0]

isCommandActive(status) == status \in {"pending", "running", "unknown"}

Event == events < MaxEvents /\ events' = events + 1

-----------------------------------------------------------------------------
\* The channel.

\* IpcClient.rejectAll: every awaited command ends with an unknown outcome.
RejectedStatus == "unknown"

Rejected_None(s) == s.command

Rejected(s) == [n \in Nodes |-> IF sent[n] # 0 THEN RejectedStatus
                                               ELSE s.command[n]]

\* The current channel ends and the reconnect timer starts.  What is still
\* under way on it is never looked at again.
LoseChannel ==
    /\ channel' = 0
    /\ timer' = TRUE
    /\ hasSnapshot' = FALSE
    /\ state' = [state EXCEPT !.connected = FALSE, !.command = Rejected(state)]
    /\ queries' = NoQueries
    /\ inFlight' = {n \in inFlight : sent[n] = 0}
    /\ sent' = [n \in Nodes |-> 0]
    /\ reply' = [n \in Nodes |-> "none"]
    /\ UNCHANGED <<opened, jobs>>

\* The channel is closed by the other side, the baseline is late, or a stream
\* message does not apply.
ChannelEnds == channel # 0 /\ Event /\ LoseChannel /\ UNCHANGED shown

\* The user asks for a refresh: a click.
forceReconnect ==
    Event /\ LoseChannel /\ shown' = [shown EXCEPT !.connected = FALSE]

Reset_KeepsCapabilities(s) == [s EXCEPT !.connected = FALSE]

\* What openChannel resets.
Reset(s) == [s EXCEPT !.connected = FALSE, !.capabilities = NoCapabilities,
                      !.loading = TRUE, !.error = FALSE]

openChannel ==
    /\ timer /\ ~shown.connected
    /\ state' = Reset(state)
    /\ \/ /\ opened < MaxChannels
          /\ opened' = opened + 1
          /\ channel' = opened'
          /\ timer' = FALSE
          /\ UNCHANGED events
       \/ /\ Event   \* the channel cannot be created
          /\ UNCHANGED <<opened, channel, timer>>
    /\ UNCHANGED <<hasSnapshot, shown, queries, commandVars>>

Asked_OnlyFirst(asker) ==
    IF opened = 1 THEN [queries EXCEPT ![asker] = @ + 1] ELSE queries

\* CommandService.requestCapabilities sends its request.
Asked(asker) == [queries EXCEPT ![asker] = @ + 1]

\* The baseline arrives; the provider asks for the capabilities.
Snapshot ==
    /\ channel # 0 /\ ~hasSnapshot
    /\ hasSnapshot' = TRUE
    /\ state' = [state EXCEPT !.connected = TRUE]
    /\ queries' = Asked("baseline")
    /\ UNCHANGED <<channel, opened, timer, shown, commandVars, events>>

-----------------------------------------------------------------------------
\* Capabilities.
CapabilitiesArrive(asker, granted) ==
    /\ queries[asker] > 0
    /\ queries' = [queries EXCEPT ![asker] = @ - 1]
    /\ state' = [state EXCEPT
                   !.capabilities = [channel |-> channel, granted |-> granted],
                   !.loading = FALSE,
                   !.error = @ /\ asker = "retry"]
    /\ UNCHANGED <<channelVars, shown, commandVars, events>>

\* The request times out, or the answer is an error.
CapabilitiesFail(asker) ==
    /\ queries[asker] > 0
    /\ queries' = [queries EXCEPT ![asker] = @ - 1]
    /\ state' = [state EXCEPT !.capabilities = NoCapabilities,
                              !.loading = FALSE, !.error = TRUE]
    /\ UNCHANGED <<channelVars, shown, commandVars, events>>

RetryRefused(s) == [s EXCEPT !.capabilities = NoCapabilities,
                             !.loading = FALSE, !.error = TRUE]

\* The Retry button of the warning.
refreshCapabilities ==
    /\ shown.error /\ ~shown.loading /\ Event
    /\ IF channel = 0
       THEN /\ state' = RetryRefused(state)
            /\ shown' = RetryRefused(shown)
            /\ UNCHANGED queries
       ELSE /\ state' = [state EXCEPT !.loading = TRUE, !.error = FALSE]
            /\ shown' = [shown EXCEPT !.loading = TRUE, !.error = FALSE]
            /\ queries' = Asked("retry")
    /\ UNCHANGED <<channelVars, commandVars>>

-----------------------------------------------------------------------------
\* Commands.
NotBlocked_UnknownIgnored(n) ==
    /\ shown.connected /\ shown.capabilities.granted /\ ~shown.loading
    /\ n \notin inFlight /\ shown.command[n] # "pending"

\* nodeCommandBlockReason, for an action that suits the node's state.
NotBlocked(n) ==
    /\ shown.connected /\ shown.capabilities.granted /\ ~shown.loading
    /\ n \notin inFlight /\ ~isCommandActive(shown.command[n])

submitCommand(n) ==
    /\ channel # 0 /\ NotBlocked(n) /\ Event
    /\ inFlight' = inFlight \cup {n}
    /\ state' = [state EXCEPT !.command[n] = "pending"]
    /\ shown' = [shown EXCEPT !.command[n] = "pending"]
    /\ sent' = [sent EXCEPT ![n] = channel]
    /\ jobs' = [jobs EXCEPT ![n] = @ + 1]
    /\ UNCHANGED <<channelVars, queries, reply>>

\* It cannot be sent: no command ID, invalid parameters, the channel throws.
submitFails(n) ==
    /\ channel # 0 /\ NotBlocked(n) /\ Event
    /\ state' = [state EXCEPT !.command[n] = "unknown"]
    /\ shown' = [shown EXCEPT !.command[n] = "pending"]
    /\ UNCHANGED <<channelVars, queries, commandVars>>

\* submitCommand gets its answer.
Settle(n, status) ==
    /\ state' = [state EXCEPT !.command[n] = status]
    /\ inFlight' = inFlight \ {n}
    /\ sent' = [sent EXCEPT ![n] = 0]
    /\ reply' = [reply EXCEPT ![n] = "none"]
    /\ UNCHANGED <<channelVars, shown, queries, jobs>>

ReplyArrives(n) == reply[n] # "none" /\ Settle(n, reply[n]) /\ UNCHANGED events

\* The timer of IpcClient.send.  An answer that comes later is ignored.
RequestTimeout(n) == sent[n] # 0 /\ Event /\ Settle(n, RejectedStatus)

\* The backend ends the command, with an answer if anybody waits for it: what
\* commandFailureStatus makes of its codes.
BackendSettles(n, status) ==
    /\ jobs[n] > 0
    /\ jobs' = [jobs EXCEPT ![n] = @ - 1]
    /\ reply' = [reply EXCEPT ![n] = IF sent[n] # 0 THEN status ELSE @]
    /\ UNCHANGED <<channelVars, state, shown, queries, inFlight, sent, events>>

\* The backend reports that it does not know; the helper may still be at it.
BackendGivesUp(n) ==
    /\ jobs[n] > 0 /\ sent[n] # 0 /\ reply[n] = "none"
    /\ reply' = [reply EXCEPT ![n] = "unknown"]
    /\ UNCHANGED <<channelVars, state, shown, queries, inFlight, sent, jobs, events>>

Render ==
    /\ shown # state
    /\ shown' = state
    /\ UNCHANGED <<channelVars, state, queries, commandVars, events>>

-----------------------------------------------------------------------------
Init ==
    /\ channel = 0 /\ opened = 0 /\ timer = TRUE /\ hasSnapshot = FALSE
    /\ state = [connected |-> FALSE, capabilities |-> NoCapabilities,
                loading |-> TRUE, error |-> FALSE,
                command |-> [n \in Nodes |-> "none"]]
    /\ shown = state
    /\ queries = NoQueries
    /\ inFlight = {}
    /\ sent = [n \in Nodes |-> 0]
    /\ reply = [n \in Nodes |-> "none"]
    /\ jobs = [n \in Nodes |-> 0]
    /\ events = 0

Answered(asker) == (\E granted \in BOOLEAN : CapabilitiesArrive(asker, granted))
                       \/ CapabilitiesFail(asker)

Next ==
    \/ ChannelEnds \/ forceReconnect \/ openChannel \/ Snapshot
    \/ refreshCapabilities \/ Render
    \/ \E asker \in Asker : Answered(asker)
    \/ \E n \in Nodes :
          \/ submitCommand(n) \/ submitFails(n)
          \/ ReplyArrives(n) \/ RequestTimeout(n) \/ BackendGivesUp(n)
          \/ \E status \in {"succeeded", "failed", "denied"} :
                BackendSettles(n, status)

Spec == Init /\ [][Next]_vars

\* The reconnect timer fires, a live channel brings its baseline, every
\* capability request is answered or times out, and React renders.
Fairness ==
    /\ WF_vars(openChannel) /\ WF_vars(Snapshot)
    /\ WF_vars(Render)
    /\ \A asker \in Asker : WF_vars(Answered(asker))

FairSpec == Spec /\ Fairness

-----------------------------------------------------------------------------
\* Every variable keeps its type.
TypeOK ==
    /\ channel \in 0..MaxChannels /\ opened \in 0..MaxChannels
    /\ timer \in BOOLEAN /\ hasSnapshot \in BOOLEAN
    /\ state \in State /\ shown \in State
    /\ queries \in [Asker -> Nat]
    /\ inFlight \subseteq Nodes
    /\ sent \in [Nodes -> 0..MaxChannels]
    /\ reply \in [Nodes -> CommandStatus]
    /\ jobs \in [Nodes -> Nat]
    /\ events \in 0..MaxEvents

\* The page never has two commands for one node that the backend may still
\* execute: not after a lost channel, a timeout that raced the answer or an
\* answer that was not rendered yet.
NoOverlap == \A n \in Nodes : jobs[n] <= 1

\* A node shown as pending is waiting for an answer on the current channel:
\* no spinner outlives its request.
PendingIsAwaited ==
    \A n \in Nodes :
        /\ state.command[n] = "pending" <=> n \in inFlight
        /\ n \in inFlight => sent[n] # 0 /\ sent[n] = channel

\* While the capabilities are shown as loading, something is under way that
\* will end it: the reconnect timer, the baseline or a request.
LoadingHasCause == state.loading => timer \/ ~hasSnapshot \/ queries # NoQueries

\* A command is submitted only with capabilities that the current channel
\* reported, although the decision is made from the last render.
CurrentCapabilities ==
    [][\A n \in inFlight' \ inFlight :
            shown.capabilities = [channel |-> channel, granted |-> TRUE]]_vars

\* When the disturbances are over, the page is connected and knows its
\* capabilities, or that it could not get them.
CapabilitiesSettle == <>[](channel # 0 /\ shown = state /\ ~state.loading)
=============================================================================
