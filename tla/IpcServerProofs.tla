-------------------------- MODULE IpcServerProofs --------------------------
(***************************************************************************)
(* Proofs about the life of the server and its connections, for any number *)
(* of connections, any capacity of queues and replay caches and any number *)
(* of frames.                                                              *)
(***************************************************************************)
EXTENDS IpcServer, TLAPS

\* The connection has been in no table yet and has no writer.
Unregistered == {"absent", "backlog", "accepted", "starting", "identified"}

\* From Manager.Register to Manager.Unregister.
Registered == {"registered", "top", "decoding", "handling", "answering", "refusing",
               "unsubscribe", "closing", "joining"}

\* From NodeStreamRegistry.Register to Unregister.
Subscribed == {"top", "decoding", "handling", "answering", "refusing", "unsubscribe"}

\* How Serve and Close find each other: a connection is tracked exactly while
\* its goroutine is counted, and Close shuts both doors before it begins.
EntryInv ==
    /\ \A c \in Conns : stage[c] = "accepted" <=> serve = "track" /\ accepted = c
    /\ serve = "track" => accepted \in Conns
    /\ \A c \in Conns : c \in active <=> stage[c] \in Counted
    /\ \A c \in Conns : stage[c] = "backlog" => listening
    /\ closed <=> closer # "idle"
    /\ listening <=> closer \in {"idle", "listener"}

\* A connection's queue is empty until its baseline enters it; a request is
\* handled only if the replay cache has room for its answer.
QueueInv ==
    \A c \in Conns :
        /\ stage[c] \in Unregistered \cup {"registered"} => outbound[c] = <<>>
        /\ stage[c] = "handling" => entries[c] < CacheSize

\* The tables and the writer know no connection whose goroutine has left.
TableInv ==
    /\ \A c \in manager : stage[c] \in Registered
    /\ \A c \in streams : stage[c] \in Subscribed
    /\ \A c \in Conns :
          /\ stage[c] \in Unregistered => writer[c] = "none"
          /\ stage[c] \in {"leaving", "gone"} => writer[c] \in {"none", "done"}

\* Close gets every socket: what is open is still on its list, and nothing is
\* open once the list is empty.
SocketInv ==
    /\ \A c \in Conns : stage[c] \in {"absent", "gone"} => ~open[c]
    /\ closer \in {"listener", "sockets"} =>
          \A c \in Conns : stage[c] \in Counted /\ open[c] => c \in toClose
    /\ closer \in {"streams", "manager", "wait", "returned"} =>
          \A c \in Conns : stage[c] \in Counted => ~open[c]

\* Close reaches every request that was read before its socket was closed: the
\* connection is in the registry, or on Close's list, or its context is done.
CancelInv ==
    /\ closer \in {"idle", "listener", "sockets"} =>
          \A c \in Conns : stage[c] \in Subscribed => c \in streams \/ done[c]
    /\ closer = "streams" =>
          \A c \in Conns : stage[c] = "handling" => c \in toClose \/ done[c]
    /\ closer \in {"manager", "wait", "returned"} =>
          \A c \in Conns : stage[c] = "handling" => done[c]

\* No goroutine is left when Close returns, and none is started afterwards.
ReturnInv == closer = "returned" => \A c \in Conns : stage[c] \notin Counted

TypeInv == TypeOK /\ outbound \in [Conns -> Seq(Message)]

ServerInv ==
    /\ TypeInv /\ EntryInv /\ QueueInv /\ TableInv /\ SocketInv /\ CancelInv /\ ReturnInv

-----------------------------------------------------------------------------
\* A message that finds room leaves every queue within its capacity.
LEMMA Queued ==
  ASSUME ServerInv, NEW c \in Conns, NEW m \in Message, Len(outbound[c]) < QueueSize,
         outbound' = [outbound EXCEPT ![c] = Append(@, m)]
  PROVE  /\ outbound' \in [Conns -> Seq(Message)]
         /\ \A d \in Conns : Len(outbound'[d]) <= QueueSize
BY ServerAssumption DEF ServerInv, TypeInv, TypeOK

\* What Track does to the connection that Serve holds, and to no other.
LEMMA Tracks ==
  ASSUME ServerInv, TrackStep
  PROVE  /\ accepted \in Conns /\ stage[accepted] = "accepted" /\ accepted' = NoConn
         /\ serve' = IF closed THEN "returned" ELSE "accept"
         /\ active' = IF closed THEN active ELSE active \cup {accepted}
         /\ \A c \in Conns :
              /\ stage'[c] = IF c # accepted THEN stage[c]
                             ELSE IF closed THEN "gone" ELSE "starting"
              /\ open'[c] <=> open[c] /\ ~(closed /\ c = accepted)
         /\ UNCHANGED <<closed, listening, closer, toClose, manager, streams, done,
                        entries, writer, outbound>>
<1> USE DEF ServerInv, TypeInv, TypeOK, TrackStep, Track, Goto
<1>1. accepted \in Conns /\ stage[accepted] = "accepted"
  BY DEF EntryInv
<1>2. /\ serve' = IF closed THEN "returned" ELSE "accept"
      /\ active' = IF closed THEN active ELSE active \cup {accepted}
  OBVIOUS
<1>3. ASSUME NEW c \in Conns
      PROVE  /\ stage'[c] = IF c # accepted THEN stage[c]
                            ELSE IF closed THEN "gone" ELSE "starting"
             /\ open'[c] <=> open[c] /\ ~(closed /\ c = accepted)
  BY <1>1
<1>4. UNCHANGED <<closed, listening, closer, toClose, manager, streams, done, entries,
                  writer, outbound>>
  BY DEF closeVars, requestVars, writeVars
<1> QED BY <1>1, <1>2, <1>3, <1>4

\* Every step keeps the types, and the queues and replay caches within their
\* bounds.
LEMMA TypeStep == ASSUME ServerInv, [Next]_vars PROVE TypeInv'
<1> USE ServerAssumption DEF ServerInv, TypeInv, TypeOK, Goto, Stage, Counted,
        Message, serveVars, closeVars, tableVars, writeVars, requestVars
<1>1. ASSUME NEW c \in Conns, Dial(c) PROVE TypeInv'
  BY <1>1 DEF Dial
<1>2. ASSUME NEW c \in Conns, HangUp(c) PROVE TypeInv'
  BY <1>2 DEF HangUp
<1>3. ASSUME NEW c \in Conns, SocketCloses(c) PROVE TypeInv'
  BY <1>3 DEF SocketCloses
<1>4. ASSUME NEW c \in Conns, Identify(c) PROVE TypeInv'
  BY <1>4 DEF Identify
<1>5. ASSUME NEW c \in Conns, Top(c) PROVE TypeInv'
  BY <1>5 DEF Top
<1>6. ASSUME NEW c \in Conns, PeerEnds(c) PROVE TypeInv'
  BY <1>6 DEF PeerEnds
<1>7. ASSUME NEW c \in Conns, Refused(c) PROVE TypeInv'
  BY <1>7 DEF Refused
<1>8. ASSUME NEW c \in Conns, Decode(c) PROVE TypeInv'
  <2> USE <1>8 DEF Decode, Input
  <2>1. stage' \in [Conns -> Stage] /\ last' \in [Conns -> BOOLEAN]
    OBVIOUS
  <2> QED BY <2>1
<1>9. ASSUME NEW c \in Conns, BadFrame(c) \/ SocketClosed(c) PROVE TypeInv'
  <2> USE <1>9 DEF BadFrame, SocketClosed, Refuse, Input, HasRoom
  <2>1. stage' \in [Conns -> Stage]
    OBVIOUS
  <2>2. /\ outbound' \in [Conns -> Seq(Message)]
        /\ \A d \in Conns : Len(outbound'[d]) <= QueueSize
    <3>1. CASE UNCHANGED outbound
      BY <3>1
    <3>2. CASE HasRoom(c) /\ outbound' = [outbound EXCEPT ![c] = Append(@, "refusal")]
      BY <3>2, Queued
    <3> QED BY <3>1, <3>2
  <2> QED BY <2>1, <2>2, SMTT(30)
<1>10. ASSUME NEW c \in Conns, Register(c) PROVE TypeInv'
  BY <1>10 DEF Register
<1>11. ASSUME NEW c \in Conns, Join(c) PROVE TypeInv'
  BY <1>11 DEF Join
<1>12. ASSUME NEW c \in Conns, UnsubscribeStep(c) PROVE TypeInv'
  BY <1>12 DEF UnsubscribeStep, Unsubscribe
<1>13. ASSUME NEW c \in Conns, CloseOwnStep(c) PROVE TypeInv'
  BY <1>13 DEF CloseOwnStep, CloseOwn, Cancel
<1>14. ASSUME NEW c \in Conns, Leave(c) PROVE TypeInv'
  BY <1>14 DEF Leave
<1>15. ASSUME NEW c \in Conns, Subscribe(c) PROVE TypeInv'
  <2> USE <1>15 DEF Subscribe, QueueInv, Unregistered
  <2>1. outbound[c] = <<>>
    OBVIOUS
  <2>2. CASE UNCHANGED outbound
    BY <2>2
  <2>3. CASE outbound' = [outbound EXCEPT ![c] = Append(@, "event")]
    <3>1. Len(outbound[c]) < QueueSize
      BY <2>1
    <3>2. /\ outbound' \in [Conns -> Seq(Message)]
          /\ \A d \in Conns : Len(outbound'[d]) <= QueueSize
      BY <2>3, <3>1, Queued
    <3> QED BY <3>2
  <2> QED BY <2>2, <2>3
<1>16. ASSUME NEW c \in Conns, HandleReturns(c) PROVE TypeInv'
  BY <1>16 DEF HandleReturns, QueueInv
<1>17. ASSUME NEW c \in Conns, Reply(c) PROVE TypeInv'
  <2> USE <1>17 DEF Reply, Cancel, HasRoom
  <2>1. done' \in [Conns -> BOOLEAN] /\ stage' \in [Conns -> Stage]
    <3>1. done' \in [Conns -> BOOLEAN]
      OBVIOUS
    <3>2. stage' \in [Conns -> Stage]
      OBVIOUS
    <3> QED BY <3>1, <3>2
  <2>2. CASE UNCHANGED outbound
    BY <2>1, <2>2
  <2>3. CASE HasRoom(c) /\ outbound' = [outbound EXCEPT ![c] = Append(@, "reply")]
    <3>1. /\ outbound' \in [Conns -> Seq(Message)]
          /\ \A d \in Conns : Len(outbound'[d]) <= QueueSize
      BY <2>3, Queued
    <3> QED BY <2>1, <3>1
  <2> QED BY <2>2, <2>3
<1>18. ASSUME NEW c \in Conns, WriterLooks(c) PROVE TypeInv'
  BY <1>18 DEF WriterLooks
<1>19. ASSUME NEW c \in Conns, WriterStops(c) PROVE TypeInv'
  BY <1>19 DEF WriterStops
<1>20. ASSUME NEW c \in Conns, Encode(c) PROVE TypeInv'
  BY <1>20 DEF Encode
<1>21. ASSUME NEW c \in Conns, EncodeFails(c) \/ FrameTooLarge(c) PROVE TypeInv'
  <2>1. WriteError(c)
    BY <1>21 DEF EncodeFails, FrameTooLarge
  <2> QED BY <2>1 DEF WriteError, Cancel
<1>22. ASSUME NEW c \in Conns, WriterTakes(c) PROVE TypeInv'
  BY <1>22 DEF WriterTakes
<1>23. ASSUME NEW c \in Conns, Accept(c) PROVE TypeInv'
  BY <1>23 DEF Accept
<1>24. CASE AcceptEnds \/ Stop \/ UNCHANGED vars
  BY <1>24 DEF AcceptEnds, Stop, vars
<1>25. CASE TrackStep
  <2>1. accepted \in Conns
    BY <1>25, Tracks
  <2> USE <1>25 DEF TrackStep, Track
  <2>2. stage' \in [Conns -> Stage] /\ open' \in [Conns -> BOOLEAN]
    BY <2>1
  <2>3. active' \subseteq Conns /\ serve' \in {"accept", "returned"}
    BY <2>1
  <2> QED BY <2>2, <2>3
<1>26. CASE Publish
  <2> USE <1>26 DEF Publish, Cancel, Input, HasRoom
  <2>1. /\ outbound' \in [Conns -> Seq(Message)]
        /\ \A c \in Conns : Len(outbound'[c]) <= QueueSize
    OBVIOUS
  <2> QED BY <2>1
<1>27. CASE CloseBegins
  BY <1>27 DEF CloseBegins
<1>28. CASE CloseListener
  BY <1>28 DEF CloseListener
<1>29. CASE CloseStreams \/ CloseManager
  BY <1>29 DEF CloseStreams, CloseManager
<1>30. CASE CloseWaits \/ CloseReturns
  BY <1>30 DEF CloseWaits, CloseReturns
<1>31. ASSUME NEW c \in Conns, CloseSocketStep(c) PROVE TypeInv'
  BY <1>31 DEF CloseSocketStep, CloseSocket
<1>32. ASSUME NEW c \in Conns, CloseStream(c) PROVE TypeInv'
  BY <1>32 DEF CloseStream, Cancel
<1>33. ASSUME NEW c \in Conns, CloseConnection(c) PROVE TypeInv'
  BY <1>33 DEF CloseConnection, Cancel
<1> QED BY <1>1, <1>2, <1>3, <1>4, <1>5, <1>6, <1>7, <1>8, <1>9, <1>10, <1>11,
        <1>12, <1>13, <1>14, <1>15, <1>16, <1>17, <1>18, <1>19, <1>20, <1>21, <1>22,
        <1>23, <1>24, <1>25, <1>26, <1>27, <1>28, <1>29, <1>30, <1>31, <1>32, <1>33
        DEF Next, PeerStep, ConnStep, WriterStep, ServeStep, CloseStep

\* Serve and Close keep their agreement.
LEMMA EntryStep == ASSUME ServerInv, [Next]_vars PROVE EntryInv'
<1> USE ServerAssumption DEF ServerInv, TypeInv, TypeOK, Goto, Stage, Counted,
        EntryInv, serveVars, closeVars, tableVars, writeVars, requestVars
<1>1. ASSUME NEW c \in Conns, HangUp(c) \/ Encode(c) \/ WriterLooks(c) \/
         WriterStops(c) \/ WriterTakes(c) \/ EncodeFails(c) \/
         FrameTooLarge(c) \/ SocketCloses(c) \/
         CloseSocketStep(c) \/ CloseStream(c) \/ CloseConnection(c) PROVE EntryInv'
  BY <1>1 DEF HangUp, Encode, WriterLooks, WriterStops, WriterTakes, EncodeFails,
     FrameTooLarge, WriteError,
     Cancel, SocketCloses, CloseSocketStep, CloseSocket, CloseStream,
     CloseConnection
<1>2. CASE Stop \/ UNCHANGED vars
  BY <1>2 DEF Stop, vars
<1>3. CASE Publish
  BY <1>3 DEF Publish, Cancel, Input
<1>4. CASE CloseStreams \/ CloseManager
  BY <1>4 DEF CloseStreams, CloseManager
<1>5. CASE CloseWaits \/ CloseReturns
  BY <1>5 DEF CloseWaits, CloseReturns
<1>6. ASSUME NEW c \in Conns, Dial(c) PROVE EntryInv'
  BY <1>6 DEF Dial
<1>7. ASSUME NEW c \in Conns, Identify(c) PROVE EntryInv'
  <2> USE <1>7 DEF Identify
  <2>1. CASE Goto(c, "identified")
    BY <2>1
  <2>2. CASE Goto(c, "leaving")
    BY <2>2
  <2> QED BY <2>1, <2>2
<1>8. ASSUME NEW c \in Conns, Leave(c) PROVE EntryInv'
  BY <1>8 DEF Leave
<1>9. ASSUME NEW c \in Conns, Decode(c) PROVE EntryInv'
  <2> USE <1>9 DEF Decode, Input
  <2>1. CASE Goto(c, "answering")
    BY <2>1
  <2>2. CASE Goto(c, "handling")
    BY <2>2
  <2> QED BY <2>1, <2>2
<1>10. ASSUME NEW c \in Conns, BadFrame(c) PROVE EntryInv'
  <2> USE <1>10 DEF BadFrame, Refuse, Input
  <2>1. CASE Goto(c, "refusing")
    BY <2>1
  <2>2. CASE Goto(c, "unsubscribe")
    BY <2>2
  <2> QED BY <2>1, <2>2
<1>11. ASSUME NEW c \in Conns, SocketClosed(c) PROVE EntryInv'
  <2> USE <1>11 DEF SocketClosed, Refuse
  <2>1. CASE Goto(c, "refusing")
    BY <2>1
  <2>2. CASE Goto(c, "unsubscribe")
    BY <2>2
  <2> QED BY <2>1, <2>2
<1>12. ASSUME NEW c \in Conns, Register(c) PROVE EntryInv'
  BY <1>12 DEF Register
<1>13. ASSUME NEW c \in Conns, Top(c) PROVE EntryInv'
  BY <1>13 DEF Top
<1>14. ASSUME NEW c \in Conns, PeerEnds(c) PROVE EntryInv'
  BY <1>14 DEF PeerEnds
<1>15. ASSUME NEW c \in Conns, Refused(c) PROVE EntryInv'
  BY <1>15 DEF Refused
<1>16. ASSUME NEW c \in Conns, HandleReturns(c) PROVE EntryInv'
  BY <1>16 DEF HandleReturns
<1>17. ASSUME NEW c \in Conns, Subscribe(c) PROVE EntryInv'
  <2> USE <1>17 DEF Subscribe
  <2>1. CASE Goto(c, "top")
    BY <2>1
  <2>2. CASE Goto(c, "closing")
    BY <2>2
  <2> QED BY <2>1, <2>2
<1>18. ASSUME NEW c \in Conns, Reply(c) PROVE EntryInv'
  <2> USE <1>18 DEF Reply, Cancel
  <2>1. CASE Goto(c, "top")
    BY <2>1
  <2>2. CASE Goto(c, "unsubscribe")
    BY <2>2
  <2> QED BY <2>1, <2>2
<1>19. ASSUME NEW c \in Conns, UnsubscribeStep(c) PROVE EntryInv'
  BY <1>19 DEF UnsubscribeStep, Unsubscribe
<1>20. ASSUME NEW c \in Conns, CloseOwnStep(c) PROVE EntryInv'
  BY <1>20 DEF CloseOwnStep, CloseOwn, Cancel
<1>21. ASSUME NEW c \in Conns, Join(c) PROVE EntryInv'
  BY <1>21 DEF Join
<1>22. ASSUME NEW c \in Conns, Accept(c) PROVE EntryInv'
  BY <1>22 DEF Accept
<1>23. CASE AcceptEnds
  BY <1>23 DEF AcceptEnds
<1>24. CASE TrackStep
  <2>1. \A c \in Conns : c \in active' <=> stage'[c] \in Counted
    BY <1>24, Tracks
  <2>2. \A c \in Conns : stage'[c] # "accepted"
    BY <1>24, Tracks
  <2>3. \A c \in Conns : stage'[c] = "backlog" => listening'
    BY <1>24, Tracks
  <2>4. serve' # "track" /\ UNCHANGED <<closed, listening, closer>>
    BY <1>24, Tracks
  <2> QED BY <2>1, <2>2, <2>3, <2>4
<1>25. CASE CloseBegins
  BY <1>25 DEF CloseBegins
<1>26. CASE CloseListener
  BY <1>26 DEF CloseListener
<1> QED BY <1>1, <1>2, <1>3, <1>4, <1>5, <1>6, <1>7, <1>8, <1>9, <1>10, <1>11,
        <1>12, <1>13, <1>14, <1>15, <1>16, <1>17, <1>18, <1>19, <1>20, <1>21, <1>22,
        <1>23, <1>24, <1>25, <1>26 DEF Next, PeerStep, ConnStep, WriterStep,
        ServeStep, CloseStep

\* Queues stay empty before the baseline, and handlers have room for their
\* answer.
LEMMA QueueStep == ASSUME ServerInv, [Next]_vars PROVE QueueInv'
<1> USE ServerAssumption DEF ServerInv, TypeInv, TypeOK, Goto, Stage, Counted,
        EntryInv, QueueInv, TableInv, Unregistered, Subscribed, serveVars,
        closeVars, tableVars, writeVars, requestVars
<1>1. ASSUME NEW c \in Conns, HangUp(c) \/ Encode(c) \/ WriterLooks(c) \/
         WriterStops(c) \/ EncodeFails(c) \/ FrameTooLarge(c) \/
         SocketCloses(c) \/ CloseSocketStep(c)
         \/ CloseStream(c) \/ CloseConnection(c) PROVE QueueInv'
  BY <1>1 DEF HangUp, Encode, WriterLooks, WriterStops, EncodeFails,
     FrameTooLarge, WriteError, Cancel,
     SocketCloses, CloseSocketStep, CloseSocket, CloseStream, CloseConnection
<1>2. CASE Stop \/ UNCHANGED vars \/ CloseBegins \/ CloseListener \/ CloseStreams \/
         CloseManager \/ CloseWaits \/ CloseReturns \/ AcceptEnds
  BY <1>2 DEF Stop, vars, CloseBegins, CloseListener, CloseStreams, CloseManager,
     CloseWaits, CloseReturns, AcceptEnds
<1>3. ASSUME NEW c \in Conns, Dial(c) PROVE QueueInv'
  BY <1>3 DEF Dial
<1>4. ASSUME NEW c \in Conns, Identify(c) PROVE QueueInv'
  <2> USE <1>4 DEF Identify
  <2>1. CASE Goto(c, "identified")
    BY <2>1
  <2>2. CASE Goto(c, "leaving")
    BY <2>2
  <2> QED BY <2>1, <2>2
<1>5. ASSUME NEW c \in Conns, Leave(c) PROVE QueueInv'
  BY <1>5 DEF Leave
<1>6. ASSUME NEW c \in Conns, Decode(c) PROVE QueueInv'
  <2> USE <1>6 DEF Decode, Input
  <2>1. CASE Goto(c, "answering")
    BY <2>1
  <2>2. CASE Goto(c, "handling")
    BY <2>2
  <2> QED BY <2>1, <2>2
<1>7. ASSUME NEW c \in Conns, BadFrame(c) PROVE QueueInv'
  <2> USE <1>7 DEF BadFrame, Refuse, Input
  <2>1. CASE Goto(c, "refusing")
    BY <2>1
  <2>2. CASE Goto(c, "unsubscribe")
    BY <2>2
  <2> QED BY <2>1, <2>2
<1>8. ASSUME NEW c \in Conns, SocketClosed(c) PROVE QueueInv'
  <2> USE <1>8 DEF SocketClosed, Refuse
  <2>1. CASE Goto(c, "refusing")
    BY <2>1
  <2>2. CASE Goto(c, "unsubscribe")
    BY <2>2
  <2> QED BY <2>1, <2>2
<1>9. ASSUME NEW c \in Conns, Register(c) \/ Top(c) \/ PeerEnds(c) \/ Refused(c)
         PROVE QueueInv'
  BY <1>9 DEF Register, Top, PeerEnds, Refused
<1>10. ASSUME NEW c \in Conns, HandleReturns(c) PROVE QueueInv'
  BY <1>10 DEF HandleReturns
<1>11. ASSUME NEW c \in Conns, Subscribe(c) PROVE QueueInv'
  <2> USE <1>11 DEF Subscribe
  <2>1. CASE Goto(c, "top")
    BY <2>1
  <2>2. CASE Goto(c, "closing")
    BY <2>2
  <2> QED BY <2>1, <2>2
<1>12. ASSUME NEW c \in Conns, Reply(c) PROVE QueueInv'
  <2> USE <1>12 DEF Reply, Cancel
  <2>1. CASE Goto(c, "top")
    BY <2>1
  <2>2. CASE Goto(c, "unsubscribe")
    BY <2>2
  <2> QED BY <2>1, <2>2
<1>13. ASSUME NEW c \in Conns, WriterTakes(c) PROVE QueueInv'
  BY <1>13 DEF WriterTakes
<1>14. ASSUME NEW c \in Conns, UnsubscribeStep(c) PROVE QueueInv'
  BY <1>14 DEF UnsubscribeStep, Unsubscribe
<1>15. ASSUME NEW c \in Conns, CloseOwnStep(c) PROVE QueueInv'
  BY <1>15 DEF CloseOwnStep, CloseOwn, Cancel
<1>16. ASSUME NEW c \in Conns, Join(c) PROVE QueueInv'
  BY <1>16 DEF Join
<1>17. ASSUME NEW c \in Conns, Accept(c) PROVE QueueInv'
  BY <1>17 DEF Accept
<1>18. CASE TrackStep
  BY <1>18, Tracks
<1>19. CASE Publish
  <2>1. \A c \in Conns : outbound'[c] # outbound[c] => c \in streams
    BY <1>19 DEF Publish
  <2> QED BY <1>19, <2>1 DEF Publish
<1> QED BY <1>1, <1>2, <1>3, <1>4, <1>5, <1>6, <1>7, <1>8, <1>9, <1>10, <1>11,
        <1>12, <1>13, <1>14, <1>15, <1>16, <1>17, <1>18, <1>19 DEF Next, PeerStep,
        ConnStep, WriterStep, ServeStep, CloseStep

\* A connection leaves the tables and its writer before its goroutine ends.
LEMMA TableStep == ASSUME ServerInv, [Next]_vars PROVE TableInv'
<1> USE ServerAssumption DEF ServerInv, TypeInv, TypeOK, Goto, Stage, Counted,
        EntryInv, QueueInv, TableInv, Unregistered, Registered, Subscribed, Message,
        serveVars, closeVars, tableVars, writeVars, requestVars
<1>1. ASSUME NEW c \in Conns, HangUp(c) \/ Encode(c) \/ WriterLooks(c) \/
         WriterStops(c) \/ EncodeFails(c) \/ FrameTooLarge(c) \/
         WriterTakes(c) \/ SocketCloses(c) \/
         CloseSocketStep(c) \/ CloseStream(c) \/ CloseConnection(c) PROVE TableInv'
  BY <1>1 DEF HangUp, Encode, WriterLooks, WriterStops, EncodeFails,
     FrameTooLarge, WriteError, Cancel,
     WriterTakes, SocketCloses, CloseSocketStep, CloseSocket, CloseStream,
     CloseConnection
<1>2. CASE Stop \/ UNCHANGED vars \/ CloseBegins \/ CloseStreams \/ CloseManager \/
         CloseWaits \/ CloseReturns \/ AcceptEnds
  BY <1>2 DEF Stop, vars, CloseBegins, CloseStreams, CloseManager, CloseWaits,
     CloseReturns, AcceptEnds
<1>3. CASE CloseListener
  BY <1>3 DEF CloseListener
<1>4. ASSUME NEW c \in Conns, Dial(c) PROVE TableInv'
  BY <1>4 DEF Dial
<1>5. ASSUME NEW c \in Conns, Identify(c) PROVE TableInv'
  <2> USE <1>5 DEF Identify
  <2>1. CASE Goto(c, "identified")
    BY <2>1
  <2>2. CASE Goto(c, "leaving")
    BY <2>2
  <2> QED BY <2>1, <2>2
<1>6. ASSUME NEW c \in Conns, Leave(c) PROVE TableInv'
  BY <1>6 DEF Leave
<1>7. ASSUME NEW c \in Conns, Decode(c) PROVE TableInv'
  <2> USE <1>7 DEF Decode, Input
  <2>1. CASE Goto(c, "answering")
    BY <2>1
  <2>2. CASE Goto(c, "handling")
    BY <2>2
  <2> QED BY <2>1, <2>2
<1>8. ASSUME NEW c \in Conns, BadFrame(c) PROVE TableInv'
  <2> USE <1>8 DEF BadFrame, Refuse, Input
  <2>1. CASE Goto(c, "refusing")
    BY <2>1
  <2>2. CASE Goto(c, "unsubscribe")
    BY <2>2
  <2> QED BY <2>1, <2>2
<1>9. ASSUME NEW c \in Conns, SocketClosed(c) PROVE TableInv'
  <2> USE <1>9 DEF SocketClosed, Refuse
  <2>1. CASE Goto(c, "refusing")
    BY <2>1
  <2>2. CASE Goto(c, "unsubscribe")
    BY <2>2
  <2> QED BY <2>1, <2>2
<1>10. ASSUME NEW c \in Conns, Register(c) PROVE TableInv'
  BY <1>10 DEF Register
<1>11. ASSUME NEW c \in Conns, Top(c) PROVE TableInv'
  BY <1>11 DEF Top
<1>12. ASSUME NEW c \in Conns, PeerEnds(c) PROVE TableInv'
  BY <1>12 DEF PeerEnds
<1>13. ASSUME NEW c \in Conns, Refused(c) PROVE TableInv'
  BY <1>13 DEF Refused
<1>14. ASSUME NEW c \in Conns, HandleReturns(c) PROVE TableInv'
  BY <1>14 DEF HandleReturns
<1>15. ASSUME NEW c \in Conns, Subscribe(c) PROVE TableInv'
  <2> USE <1>15 DEF Subscribe
  <2>1. CASE Goto(c, "top")
    BY <2>1
  <2>2. CASE Goto(c, "closing")
    BY <2>2
  <2> QED BY <2>1, <2>2
<1>16. ASSUME NEW c \in Conns, Reply(c) PROVE TableInv'
  <2> USE <1>16 DEF Reply, Cancel
  <2>1. CASE Goto(c, "top")
    BY <2>1
  <2>2. CASE Goto(c, "unsubscribe")
    BY <2>2
  <2> QED BY <2>1, <2>2
<1>17. ASSUME NEW c \in Conns, UnsubscribeStep(c) PROVE TableInv'
  BY <1>17 DEF UnsubscribeStep, Unsubscribe
<1>18. ASSUME NEW c \in Conns, CloseOwnStep(c) PROVE TableInv'
  BY <1>18 DEF CloseOwnStep, CloseOwn, Cancel
<1>19. ASSUME NEW c \in Conns, Join(c) PROVE TableInv'
  BY <1>19 DEF Join
<1>20. ASSUME NEW c \in Conns, Accept(c) PROVE TableInv'
  BY <1>20 DEF Accept
<1>21. CASE TrackStep
  <2>1. \A c \in Conns : \/ stage'[c] = stage[c]
                         \/ stage[c] = "accepted" /\ stage'[c] \in {"gone", "starting"}
    BY <1>21, Tracks
  <2>2. UNCHANGED <<manager, streams, writer>>
    BY <1>21, Tracks
  <2> QED BY <2>1, <2>2
<1>22. CASE Publish
  BY <1>22 DEF Publish, Cancel, Input
<1> QED BY <1>1, <1>2, <1>3, <1>4, <1>5, <1>6, <1>7, <1>8, <1>9, <1>10, <1>11,
        <1>12, <1>13, <1>14, <1>15, <1>16, <1>17, <1>18, <1>19, <1>20, <1>21, <1>22
        DEF Next, PeerStep, ConnStep, WriterStep, ServeStep, CloseStep

\* Close gets every socket.
LEMMA SocketStep == ASSUME ServerInv, [Next]_vars PROVE SocketInv'
<1> USE ServerAssumption DEF ServerInv, TypeInv, TypeOK, Goto, Stage, Counted,
        EntryInv, SocketInv, serveVars, closeVars, tableVars, writeVars, requestVars
<1>1. ASSUME NEW c \in Conns, HangUp(c) \/ Encode(c) \/ WriterLooks(c) \/
         WriterStops(c) \/ WriterTakes(c) \/ EncodeFails(c) \/
         FrameTooLarge(c) \/ CloseStream(c) \/
         CloseConnection(c) PROVE SocketInv'
  BY <1>1 DEF HangUp, Encode, WriterLooks, WriterStops, WriterTakes, EncodeFails,
     FrameTooLarge, WriteError,
     Cancel, CloseStream, CloseConnection
<1>2. ASSUME NEW c \in Conns, SocketCloses(c) PROVE SocketInv'
  BY <1>2 DEF SocketCloses
<1>3. ASSUME NEW c \in Conns, CloseSocketStep(c) PROVE SocketInv'
  BY <1>3 DEF CloseSocketStep, CloseSocket
<1>4. CASE Stop \/ Publish \/ UNCHANGED vars \/ CloseManager \/ CloseWaits \/
         CloseReturns \/ AcceptEnds
  BY <1>4 DEF Stop, Publish, Cancel, Input, vars, CloseManager, CloseWaits,
     CloseReturns, AcceptEnds
<1>5. CASE CloseBegins
  BY <1>5 DEF CloseBegins
<1>6. CASE CloseListener
  BY <1>6 DEF CloseListener
<1>7. CASE CloseStreams
  BY <1>7 DEF CloseStreams
<1>8. ASSUME NEW c \in Conns, Dial(c) PROVE SocketInv'
  BY <1>8 DEF Dial
<1>9. ASSUME NEW c \in Conns, Identify(c) PROVE SocketInv'
  <2> USE <1>9 DEF Identify
  <2>1. CASE Goto(c, "identified")
    BY <2>1
  <2>2. CASE Goto(c, "leaving")
    BY <2>2
  <2> QED BY <2>1, <2>2
<1>10. ASSUME NEW c \in Conns, Leave(c) PROVE SocketInv'
  BY <1>10 DEF Leave
<1>11. ASSUME NEW c \in Conns, Decode(c) PROVE SocketInv'
  <2> USE <1>11 DEF Decode, Input
  <2>1. CASE Goto(c, "answering")
    BY <2>1
  <2>2. CASE Goto(c, "handling")
    BY <2>2
  <2> QED BY <2>1, <2>2
<1>12. ASSUME NEW c \in Conns, BadFrame(c) PROVE SocketInv'
  <2> USE <1>12 DEF BadFrame, Refuse, Input
  <2>1. CASE Goto(c, "refusing")
    BY <2>1
  <2>2. CASE Goto(c, "unsubscribe")
    BY <2>2
  <2> QED BY <2>1, <2>2
<1>13. ASSUME NEW c \in Conns, SocketClosed(c) PROVE SocketInv'
  <2> USE <1>13 DEF SocketClosed, Refuse
  <2>1. CASE Goto(c, "refusing")
    BY <2>1
  <2>2. CASE Goto(c, "unsubscribe")
    BY <2>2
  <2> QED BY <2>1, <2>2
<1>14. ASSUME NEW c \in Conns, Register(c) PROVE SocketInv'
  BY <1>14 DEF Register
<1>15. ASSUME NEW c \in Conns, Top(c) PROVE SocketInv'
  BY <1>15 DEF Top
<1>16. ASSUME NEW c \in Conns, PeerEnds(c) PROVE SocketInv'
  BY <1>16 DEF PeerEnds
<1>17. ASSUME NEW c \in Conns, Refused(c) PROVE SocketInv'
  BY <1>17 DEF Refused
<1>18. ASSUME NEW c \in Conns, HandleReturns(c) PROVE SocketInv'
  BY <1>18 DEF HandleReturns
<1>19. ASSUME NEW c \in Conns, Subscribe(c) PROVE SocketInv'
  <2> USE <1>19 DEF Subscribe
  <2>1. CASE Goto(c, "top")
    BY <2>1
  <2>2. CASE Goto(c, "closing")
    BY <2>2
  <2> QED BY <2>1, <2>2
<1>20. ASSUME NEW c \in Conns, Reply(c) PROVE SocketInv'
  <2> USE <1>20 DEF Reply, Cancel
  <2>1. CASE Goto(c, "top")
    BY <2>1
  <2>2. CASE Goto(c, "unsubscribe")
    BY <2>2
  <2> QED BY <2>1, <2>2
<1>21. ASSUME NEW c \in Conns, UnsubscribeStep(c) PROVE SocketInv'
  BY <1>21 DEF UnsubscribeStep, Unsubscribe
<1>22. ASSUME NEW c \in Conns, CloseOwnStep(c) PROVE SocketInv'
  BY <1>22 DEF CloseOwnStep, CloseOwn, Cancel
<1>23. ASSUME NEW c \in Conns, Join(c) PROVE SocketInv'
  BY <1>23 DEF Join
<1>24. ASSUME NEW c \in Conns, Accept(c) PROVE SocketInv'
  BY <1>24 DEF Accept
<1>25. CASE TrackStep
  BY <1>25, Tracks
<1> QED BY <1>1, <1>2, <1>3, <1>4, <1>5, <1>6, <1>7, <1>8, <1>9, <1>10, <1>11,
        <1>12, <1>13, <1>14, <1>15, <1>16, <1>17, <1>18, <1>19, <1>20, <1>21, <1>22,
        <1>23, <1>24, <1>25 DEF Next, PeerStep, ConnStep, WriterStep, ServeStep,
        CloseStep

\* Close reaches every request.
LEMMA CancelStep == ASSUME ServerInv, [Next]_vars PROVE CancelInv'
<1> USE ServerAssumption DEF ServerInv, TypeInv, TypeOK, Goto, Stage, Counted,
        EntryInv, SocketInv, CancelInv, Subscribed, serveVars, closeVars, tableVars,
        writeVars, requestVars
<1>1. ASSUME NEW c \in Conns, HangUp(c) \/ Encode(c) \/ WriterLooks(c) \/
         WriterStops(c) \/ WriterTakes(c) \/ SocketCloses(c) PROVE CancelInv'
  BY <1>1 DEF HangUp, Encode, WriterLooks, WriterStops, WriterTakes, SocketCloses
<1>2. ASSUME NEW c \in Conns, EncodeFails(c) \/ FrameTooLarge(c) PROVE CancelInv'
  BY <1>2 DEF EncodeFails, FrameTooLarge, WriteError, Cancel
<1>3. ASSUME NEW c \in Conns, CloseStream(c) PROVE CancelInv'
  BY <1>3 DEF CloseStream, Cancel
<1>4. ASSUME NEW c \in Conns, CloseConnection(c) PROVE CancelInv'
  BY <1>4 DEF CloseConnection, Cancel
<1>5. ASSUME NEW c \in Conns, CloseSocketStep(c) PROVE CancelInv'
  BY <1>5 DEF CloseSocketStep, CloseSocket
<1>6. CASE Stop \/ UNCHANGED vars \/ CloseWaits \/ CloseReturns \/ AcceptEnds \/
         CloseBegins
  BY <1>6 DEF Stop, vars, CloseWaits, CloseReturns, AcceptEnds, CloseBegins
<1>7. CASE CloseListener
  BY <1>7 DEF CloseListener
<1>8. CASE CloseStreams
  BY <1>8 DEF CloseStreams
<1>9. CASE CloseManager
  BY <1>9 DEF CloseManager
<1>10. ASSUME NEW c \in Conns, Dial(c) PROVE CancelInv'
  BY <1>10 DEF Dial
<1>11. ASSUME NEW c \in Conns, Identify(c) PROVE CancelInv'
  <2> USE <1>11 DEF Identify
  <2>1. CASE Goto(c, "identified")
    BY <2>1
  <2>2. CASE Goto(c, "leaving")
    BY <2>2
  <2> QED BY <2>1, <2>2
<1>12. ASSUME NEW c \in Conns, Leave(c) PROVE CancelInv'
  BY <1>12 DEF Leave
<1>13. ASSUME NEW c \in Conns, Decode(c) PROVE CancelInv'
  <2> USE <1>13 DEF Decode, Input
  <2>1. CASE Goto(c, "answering")
    BY <2>1
  <2>2. CASE Goto(c, "handling")
    BY <2>2
  <2> QED BY <2>1, <2>2
<1>14. ASSUME NEW c \in Conns, BadFrame(c) PROVE CancelInv'
  <2> USE <1>14 DEF BadFrame, Refuse, Input
  <2>1. CASE Goto(c, "refusing")
    BY <2>1
  <2>2. CASE Goto(c, "unsubscribe")
    BY <2>2
  <2> QED BY <2>1, <2>2
<1>15. ASSUME NEW c \in Conns, SocketClosed(c) PROVE CancelInv'
  <2> USE <1>15 DEF SocketClosed, Refuse
  <2>1. CASE Goto(c, "refusing")
    BY <2>1
  <2>2. CASE Goto(c, "unsubscribe")
    BY <2>2
  <2> QED BY <2>1, <2>2
<1>16. ASSUME NEW c \in Conns, Register(c) PROVE CancelInv'
  BY <1>16 DEF Register
<1>17. ASSUME NEW c \in Conns, Top(c) PROVE CancelInv'
  BY <1>17 DEF Top
<1>18. ASSUME NEW c \in Conns, PeerEnds(c) PROVE CancelInv'
  BY <1>18 DEF PeerEnds
<1>19. ASSUME NEW c \in Conns, Refused(c) PROVE CancelInv'
  BY <1>19 DEF Refused
<1>20. ASSUME NEW c \in Conns, HandleReturns(c) PROVE CancelInv'
  BY <1>20 DEF HandleReturns
<1>21. ASSUME NEW c \in Conns, Subscribe(c) PROVE CancelInv'
  <2> USE <1>21 DEF Subscribe
  <2>1. CASE Goto(c, "top")
    BY <2>1
  <2>2. CASE Goto(c, "closing")
    BY <2>2
  <2> QED BY <2>1, <2>2
<1>22. ASSUME NEW c \in Conns, Reply(c) PROVE CancelInv'
  <2> USE <1>22 DEF Reply, Cancel
  <2>1. CASE Goto(c, "top")
    BY <2>1
  <2>2. CASE Goto(c, "unsubscribe")
    BY <2>2
  <2> QED BY <2>1, <2>2
<1>23. ASSUME NEW c \in Conns, UnsubscribeStep(c) PROVE CancelInv'
  BY <1>23 DEF UnsubscribeStep, Unsubscribe
<1>24. ASSUME NEW c \in Conns, CloseOwnStep(c) PROVE CancelInv'
  BY <1>24 DEF CloseOwnStep, CloseOwn, Cancel
<1>25. ASSUME NEW c \in Conns, Join(c) PROVE CancelInv'
  BY <1>25 DEF Join
<1>26. ASSUME NEW c \in Conns, Accept(c) PROVE CancelInv'
  BY <1>26 DEF Accept
<1>27. CASE TrackStep
  BY <1>27, Tracks
<1>28. CASE Publish
  BY <1>28 DEF Publish, Cancel, Input
<1> QED BY <1>1, <1>2, <1>3, <1>4, <1>5, <1>6, <1>7, <1>8, <1>9, <1>10, <1>11,
        <1>12, <1>13, <1>14, <1>15, <1>16, <1>17, <1>18, <1>19, <1>20, <1>21, <1>22,
        <1>23, <1>24, <1>25, <1>26, <1>27, <1>28 DEF Next, PeerStep, ConnStep,
        WriterStep, ServeStep, CloseStep

\* No goroutine starts after Close has returned.
LEMMA ReturnStep == ASSUME ServerInv, [Next]_vars PROVE ReturnInv'
<1> USE ServerAssumption DEF ServerInv, TypeInv, TypeOK, Goto, Stage, Counted,
        EntryInv, ReturnInv, serveVars, closeVars, tableVars, writeVars, requestVars
<1>1. ASSUME NEW c \in Conns, HangUp(c) \/ Encode(c) \/ WriterLooks(c) \/
         WriterStops(c) \/ WriterTakes(c) \/ EncodeFails(c) \/
         FrameTooLarge(c) \/ SocketCloses(c) \/
         CloseStream(c) \/ CloseConnection(c) \/ CloseSocketStep(c) PROVE ReturnInv'
  BY <1>1 DEF HangUp, Encode, WriterLooks, WriterStops, WriterTakes, EncodeFails,
     FrameTooLarge, WriteError,
     Cancel, SocketCloses, CloseStream, CloseConnection, CloseSocketStep,
     CloseSocket
<1>2. CASE Stop \/ Publish \/ UNCHANGED vars \/ CloseWaits \/ AcceptEnds \/
         CloseBegins \/ CloseListener \/ CloseStreams \/ CloseManager
  BY <1>2 DEF Stop, Publish, Cancel, Input, vars, CloseWaits, AcceptEnds,
     CloseBegins, CloseListener, CloseStreams, CloseManager
<1>3. CASE CloseReturns
  BY <1>3 DEF CloseReturns
<1>4. ASSUME NEW c \in Conns, Dial(c) PROVE ReturnInv'
  BY <1>4 DEF Dial
<1>5. ASSUME NEW c \in Conns, Identify(c) PROVE ReturnInv'
  <2> USE <1>5 DEF Identify
  <2>1. CASE Goto(c, "identified")
    BY <2>1
  <2>2. CASE Goto(c, "leaving")
    BY <2>2
  <2> QED BY <2>1, <2>2
<1>6. ASSUME NEW c \in Conns, Leave(c) PROVE ReturnInv'
  BY <1>6 DEF Leave
<1>7. ASSUME NEW c \in Conns, Decode(c) PROVE ReturnInv'
  <2> USE <1>7 DEF Decode, Input
  <2>1. CASE Goto(c, "answering")
    BY <2>1
  <2>2. CASE Goto(c, "handling")
    BY <2>2
  <2> QED BY <2>1, <2>2
<1>8. ASSUME NEW c \in Conns, BadFrame(c) PROVE ReturnInv'
  <2> USE <1>8 DEF BadFrame, Refuse, Input
  <2>1. CASE Goto(c, "refusing")
    BY <2>1
  <2>2. CASE Goto(c, "unsubscribe")
    BY <2>2
  <2> QED BY <2>1, <2>2
<1>9. ASSUME NEW c \in Conns, SocketClosed(c) PROVE ReturnInv'
  <2> USE <1>9 DEF SocketClosed, Refuse
  <2>1. CASE Goto(c, "refusing")
    BY <2>1
  <2>2. CASE Goto(c, "unsubscribe")
    BY <2>2
  <2> QED BY <2>1, <2>2
<1>10. ASSUME NEW c \in Conns, Register(c) PROVE ReturnInv'
  BY <1>10 DEF Register
<1>11. ASSUME NEW c \in Conns, Top(c) PROVE ReturnInv'
  BY <1>11 DEF Top
<1>12. ASSUME NEW c \in Conns, PeerEnds(c) PROVE ReturnInv'
  BY <1>12 DEF PeerEnds
<1>13. ASSUME NEW c \in Conns, Refused(c) PROVE ReturnInv'
  BY <1>13 DEF Refused
<1>14. ASSUME NEW c \in Conns, HandleReturns(c) PROVE ReturnInv'
  BY <1>14 DEF HandleReturns
<1>15. ASSUME NEW c \in Conns, Subscribe(c) PROVE ReturnInv'
  <2> USE <1>15 DEF Subscribe
  <2>1. CASE Goto(c, "top")
    BY <2>1
  <2>2. CASE Goto(c, "closing")
    BY <2>2
  <2> QED BY <2>1, <2>2
<1>16. ASSUME NEW c \in Conns, Reply(c) PROVE ReturnInv'
  <2> USE <1>16 DEF Reply, Cancel
  <2>1. CASE Goto(c, "top")
    BY <2>1
  <2>2. CASE Goto(c, "unsubscribe")
    BY <2>2
  <2> QED BY <2>1, <2>2
<1>17. ASSUME NEW c \in Conns, UnsubscribeStep(c) PROVE ReturnInv'
  BY <1>17 DEF UnsubscribeStep, Unsubscribe
<1>18. ASSUME NEW c \in Conns, CloseOwnStep(c) PROVE ReturnInv'
  BY <1>18 DEF CloseOwnStep, CloseOwn, Cancel
<1>19. ASSUME NEW c \in Conns, Join(c) PROVE ReturnInv'
  BY <1>19 DEF Join
<1>20. ASSUME NEW c \in Conns, Accept(c) PROVE ReturnInv'
  BY <1>20 DEF Accept
<1>21. CASE TrackStep
  BY <1>21, Tracks
<1> QED BY <1>1, <1>2, <1>3, <1>4, <1>5, <1>6, <1>7, <1>8, <1>9, <1>10, <1>11,
        <1>12, <1>13, <1>14, <1>15, <1>16, <1>17, <1>18, <1>19, <1>20, <1>21 DEF
        Next, PeerStep, ConnStep, WriterStep, ServeStep, CloseStep

\* The server starts with no connection, both doors open.
LEMMA InitServer == Init => ServerInv
<1> SUFFICES ASSUME Init PROVE ServerInv
  OBVIOUS
<1> USE ServerAssumption DEF Init
<1>1. TypeInv
  <2>1. {stopping, closed, listening} \subseteq BOOLEAN
    OBVIOUS
  <2>2. {done, open, peer, last} \subseteq [Conns -> BOOLEAN]
    OBVIOUS
  <2>3. outbound \in [Conns -> Seq(Message)] /\ \A c \in Conns : Len(outbound[c]) = 0
    OBVIOUS
  <2>4. stage \in [Conns -> Stage] /\ entries \in [Conns -> 0..CacheSize]
    BY DEF Stage
  <2> QED BY <2>1, <2>2, <2>3, <2>4 DEF TypeInv, TypeOK
<1>2. EntryInv /\ QueueInv /\ TableInv
  BY DEF EntryInv, QueueInv, TableInv, Counted, Stage, Unregistered
<1>3. SocketInv /\ CancelInv /\ ReturnInv
  BY DEF SocketInv, CancelInv, ReturnInv, Subscribed
<1> QED BY <1>1, <1>2, <1>3 DEF ServerInv

\* Every step preserves the inductive invariant.
LEMMA ServerStep == ServerInv /\ [Next]_vars => ServerInv'
BY TypeStep, EntryStep, QueueStep, TableStep, SocketStep, CancelStep, ReturnStep
   DEF ServerInv

\* The inductive invariant holds in every reachable state.
LEMMA Invariance == Spec => []ServerInv
BY InitServer, ServerStep, PTL DEF Spec

\* Every variable of the server keeps its type, and no outbound queue and no
\* replay cache ever exceeds its capacity (enqueue, requestReplayCache).
THEOREM TypeCorrect == Spec => []TypeOK
<1>1. ServerInv => TypeOK
  BY DEF ServerInv, TypeInv
<1> QED BY <1>1, Invariance, PTL

\* When Close waits for the goroutines, every request still being handled has
\* had its context cancelled, however many connections were being set up,
\* served or torn down while Close went through its three tables.
THEOREM HandlersAreCancelled == Spec => []HandlersCancelled
<1>1. ServerInv => HandlersCancelled
  BY DEF ServerInv, CancelInv, HandlersCancelled
<1> QED BY <1>1, Invariance, PTL

\* When Close has returned, no table entry, writer, goroutine or open socket is
\* left, but for the one connection Serve may have accepted and not yet turned
\* away.
THEOREM ServerIsClean == Spec => []CleanAfterClose
<1>1. ASSUME ServerInv, closer = "returned" PROVE CleanAfterClose
  <2> USE <1>1 DEF ServerInv, TypeInv, ReturnInv
  <2>1. \A c \in Conns : stage[c] \in {"absent", "accepted", "gone"}
    BY DEF EntryInv, TypeOK, Counted
  <2>2. active = {}
    BY <2>1 DEF TypeOK, EntryInv, Counted
  <2>3. manager = {} /\ streams = {}
    BY <2>1 DEF TypeOK, TableInv, Registered, Subscribed
  <2>4. \A c \in Conns : writer[c] \in {"none", "done"}
    BY <2>1 DEF TableInv, Unregistered
  <2>5. \A c \in Conns : open[c] => stage[c] = "accepted"
    BY <2>1 DEF SocketInv
  <2> QED BY <2>2, <2>3, <2>4, <2>5 DEF CleanAfterClose
<1>2. ServerInv => CleanAfterClose
  BY <1>1 DEF CleanAfterClose
<1> QED BY <1>2, Invariance, PTL

=============================================================================
