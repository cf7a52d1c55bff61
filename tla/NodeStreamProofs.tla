-------------------------- MODULE NodeStreamProofs --------------------------
(***************************************************************************)
(* Proofs about the node stream, from the cache to the pages, for any      *)
(* number of nodes, refreshes, connections and pages, any capacity of the  *)
(* queues and sockets and any number of upsets.                            *)
(***************************************************************************)
EXTENDS NodeStream, SequenceTheorems, TLAPS

Change == [kind : {"added", "updated", "removed"}, row : Row \cup {NoRow}]
Changes == UNION {[D -> Change] : D \in SUBSET Nodes}

Message == [kind : {"snapshot", "changes", "response"}, gen : Nat,
            changes : Changes, rows : Rows, place : Nat]

View == [has : BOOLEAN, gen : Nat, nodes : Rows]

\* A change batch leads from one state to another: patching the first gives the
\* second, and the batch calls a node added exactly if the first lacks it.
Leads(changes, before, after) ==
    /\ Patched([nodes |-> before], changes) = after
    /\ \A n \in DOMAIN changes : changes[n].kind = "added" <=> before[n] = NoRow

\* The messages that are true of the log: a baseline is the state at its place,
\* a batch leads to the state at its place from the one before.
Sound ==
    {m \in Message :
        /\ m.kind = "snapshot" => /\ m.place \in 1 .. Len(log)
                                  /\ m.rows = log[m.place]
        /\ m.kind = "changes" => /\ m.place \in 2 .. Len(log)
                                 /\ Leads(m.changes, log[m.place - 1], log[m.place])}

\* What is on its way to a page, given what the page has: at most one baseline,
\* which comes first and only to a page that waits for it, and batches, each of
\* which follows the event before it, or else what the page has applied.
Chain(s, v, a) ==
    /\ \A i, j \in Events(s) : i < j => s[i].place < s[j].place
    /\ v.has => \A i \in Events(s) : a < s[i].place
    /\ \A i \in Events(s) : s[i].kind = "snapshot" =>
          /\ ~v.has /\ a <= s[i].place
          /\ \A j \in Events(s) : i <= j
    /\ \A i \in Events(s) : s[i].kind = "changes" =>
          \/ v.has /\ s[i].place = a + 1 /\ s[i].gen = v.gen + 1
          \/ \E j \in Events(s) : s[i].place = s[j].place + 1 /\ s[i].gen = s[j].gen + 1

\* The end of what is on its way is the cache as it is.
Current(s, v, a) ==
    \/ v.has /\ a = Len(log) /\ v.gen = generation
    \/ \E i \in Events(s) : s[i].place = Len(log) /\ s[i].gen = generation

-----------------------------------------------------------------------------
TypeInv ==
    /\ TypeOK
    /\ queue \in [Conns -> Seq(Message)] /\ wire \in [Conns -> Seq(Message)]
    /\ view \in [Clients -> View]
    /\ at \in [Clients -> Nat]
    /\ log \in Seq(Rows)

\* One refresh at a time has a listing, and it is no older than the cache.
RefreshInv ==
    /\ version >= 1 /\ committed <= version
    /\ \A r \in Refreshers : listed[r] # NoListing =>
          /\ up /\ refreshMu = r
          /\ committed <= listed[r].version /\ listed[r].version <= version

\* A connection has a stream, is about to lose one or has messages queued only
\* while its goroutine serves it; a stopped service has no connection.
ServeInv ==
    /\ \A c \in streams \cup slow : stage[c] \in {"serving", "closing"}
    /\ \A c \in Conns : stage[c] \in {"free", "accepted"} => queue[c] = <<>>
    /\ \A c \in Conns : ~up => stage[c] = "free"

\* A channel has one page.  Nothing is on its way on a connection that no page
\* looks at, or that has just been accepted.
ChannelInv ==
    /\ ChannelOrTimer
    /\ \A p, q \in Clients : channel[p] = channel[q] => p = q \/ channel[p] = NoConn
    /\ \A c \in Conns : Abandoned(c) \/ stage[c] = "accepted" => wire[c] = <<>>
    /\ \A p \in Clients : channel[p] # NoConn /\ stage[channel[p]] = "accepted" =>
          ~view[p].has

\* The log ends in the cache, and every page shows the state it is at.
LogInv ==
    /\ log # <<>> /\ log[Len(log)] = nodes
    /\ \A p \in Clients :
          /\ at[p] <= Len(log)
          /\ view[p].has => at[p] # 0
          /\ view[p].nodes = IF at[p] = 0 THEN NoNodes ELSE log[at[p]]

MessageInv == \A c \in Conns : queue[c] \in Seq(Sound) /\ wire[c] \in Seq(Sound)

ChainInv ==
    \A p \in Clients :
        channel[p] # NoConn => Chain(Pending(channel[p]), view[p], at[p])

CurrentInv ==
    \A p \in Clients :
        channel[p] \in streams /\ stage[channel[p]] = "serving" =>
            Current(Pending(channel[p]), view[p], at[p])

StreamInv ==
    /\ TypeInv /\ RefreshInv /\ ServeInv /\ ChannelInv /\ LogInv /\ MessageInv
    /\ ChainInv /\ CurrentInv

-----------------------------------------------------------------------------
\* Sequences: what a writer, a reader and a publisher do to wire \o queue.
LEMMA MoveHead ==
  ASSUME NEW S, NEW s \in Seq(S), NEW t \in Seq(S), t # <<>>
  PROVE  Append(s, Head(t)) \o Tail(t) = s \o t
<1> DEFINE l == Append(s, Head(t)) \o Tail(t)
           r == s \o t
<1>1. Head(t) \in S /\ Tail(t) \in Seq(S) /\ Append(s, Head(t)) \in Seq(S)
  OBVIOUS
<1>2. l \in Seq(S) /\ r \in Seq(S) /\ Len(l) = Len(r)
  BY <1>1
<1>3. ASSUME NEW i \in 1 .. Len(l) PROVE l[i] = r[i]
  BY <1>1
<1> QED BY <1>2, <1>3, SeqEqual

LEMMA TailOfConcat ==
  ASSUME NEW S, NEW s \in Seq(S), NEW t \in Seq(S), s # <<>>
  PROVE  /\ s \o t # <<>> /\ Head(s \o t) = Head(s)
         /\ Tail(s \o t) = Tail(s) \o t
<1> DEFINE l == Tail(s \o t)
           r == Tail(s) \o t
<1>1. s \o t \in Seq(S) /\ Len(s \o t) = Len(s) + Len(t) /\ Len(s) > 0
  OBVIOUS
<1>2. s \o t # <<>> /\ Head(s \o t) = Head(s)
  BY <1>1
<1>3. l \in Seq(S) /\ r \in Seq(S) /\ Len(l) = Len(r)
  BY <1>1, <1>2
<1>4. ASSUME NEW i \in 1 .. Len(l) PROVE l[i] = r[i]
  BY <1>1, <1>2
<1>5. l = r
  BY <1>3, <1>4, SeqEqual
<1> QED BY <1>2, <1>5

LEMMA ConcatAppend ==
  ASSUME NEW S, NEW s \in Seq(S), NEW t \in Seq(S), NEW e \in S
  PROVE  s \o Append(t, e) = Append(s \o t, e)
<1> DEFINE l == s \o Append(t, e)
           r == Append(s \o t, e)
<1>1. l \in Seq(S) /\ r \in Seq(S) /\ Len(l) = Len(r)
  OBVIOUS
<1>2. ASSUME NEW i \in 1 .. Len(l) PROVE l[i] = r[i]
  OBVIOUS
<1> QED BY <1>1, <1>2, SeqEqual

-----------------------------------------------------------------------------
\* Chains: an empty one, and one that holds nothing but its baseline.
LEMMA ChainEmpty == ASSUME NEW v, NEW a PROVE Chain(<<>>, v, a)
BY DEF Chain, Events

LEMMA ChainBaseline ==
  ASSUME NEW m \in Message, NEW v \in View, NEW a \in Nat,
         m.kind = "snapshot", ~v.has, a <= m.place
  PROVE  Chain(<<m>>, v, a)
<1>1. \A i \in Events(<<m>>) : i = 1 /\ <<m>>[i] = m
  BY DEF Events
<1> QED BY <1>1 DEF Chain

\* A response may be added, and the first message may be one.
LEMMA ChainAppendResponse ==
  ASSUME NEW s \in Seq(Message), NEW m \in Message, NEW v \in View, NEW a \in Nat,
         m.kind = "response", Chain(s, v, a)
  PROVE  Chain(Append(s, m), v, a)
<1> DEFINE u == Append(s, m)
<1>1. Events(u) = Events(s)
  BY DEF Events
<1>2. \A i \in Events(s) : u[i] = s[i]
  BY DEF Events
<1> HIDE DEF u
<1>3. Chain(u, v, a)
  BY <1>1, <1>2 DEF Chain
<1> QED BY <1>3 DEF u

\* The indices of a tail are those of the whole, shifted.
LEMMA TailEvents ==
  ASSUME NEW s \in Seq(Message), s # <<>>
  PROVE  /\ \A i \in Events(Tail(s)) :
              i \in Nat /\ i + 1 \in Events(s) /\ Tail(s)[i] = s[i + 1]
         /\ \A i \in Events(s) :
              i \in Nat /\ (i # 1 => i - 1 \in Events(Tail(s)) /\ Tail(s)[i - 1] = s[i])
BY DEF Events

LEMMA ChainDropResponse ==
  ASSUME NEW s \in Seq(Message), NEW v \in View, NEW a \in Nat,
         s # <<>>, Head(s).kind = "response", Chain(s, v, a)
  PROVE  Chain(Tail(s), v, a)
<1> DEFINE t == Tail(s)
<1>1. 1 \notin Events(s)
  BY DEF Events
<1>2. \A i \in Events(t) : i \in Nat /\ i + 1 \in Events(s) /\ t[i] = s[i + 1]
  BY TailEvents
<1>3. \A i \in Events(s) : i \in Nat /\ i - 1 \in Events(t) /\ t[i - 1] = s[i]
  BY <1>1, <1>2, TailEvents
<1> HIDE DEF t
<1>4. \A i, j \in Events(t) : i < j => t[i].place < t[j].place
  BY <1>2 DEF Chain
<1>5. v.has => \A i \in Events(t) : a < t[i].place
  BY <1>2 DEF Chain
<1>6. \A i \in Events(t) : t[i].kind = "snapshot" =>
         ~v.has /\ a <= t[i].place /\ \A j \in Events(t) : i <= j
  BY <1>2 DEF Chain
<1>7. ASSUME NEW i \in Events(t), t[i].kind = "changes"
      PROVE  \/ v.has /\ t[i].place = a + 1 /\ t[i].gen = v.gen + 1
             \/ \E j \in Events(t) : t[i].place = t[j].place + 1 /\ t[i].gen = t[j].gen + 1
  <2>1. i + 1 \in Events(s) /\ t[i] = s[i + 1]
    BY <1>2
  <2>2. CASE \E j \in Events(s) : t[i].place = s[j].place + 1 /\ t[i].gen = s[j].gen + 1
    BY <1>3, <2>2
  <2> QED BY <1>7, <2>1, <2>2 DEF Chain
<1> QED BY <1>4, <1>5, <1>6, <1>7 DEF Chain, t

\* A page that applies the first event finds the rest to be a chain of its own.
LEMMA ChainApply ==
  ASSUME NEW s \in Seq(Message), NEW v \in View, NEW a \in Nat, NEW w \in View,
         s # <<>>, Head(s).kind # "response", Chain(s, v, a),
         w.has, w.gen = Head(s).gen
  PROVE  Chain(Tail(s), w, Head(s).place)
<1> DEFINE t == Tail(s)
           m == Head(s)
<1>1. 1 \in Events(s) /\ s[1] = m /\ m \in Message
  BY DEF Events
<1>2. \A i \in Events(t) : i \in Nat /\ i + 1 \in Events(s) /\ t[i] = s[i + 1]
  BY TailEvents
<1>3. \A i \in Events(s) : i \in Nat /\ (i # 1 => i - 1 \in Events(t) /\ t[i - 1] = s[i])
  BY <1>1, <1>2, TailEvents
<1>4. \A i \in Events(s) : i >= 1 /\ s[i] \in Message
  BY DEF Events
<1> HIDE DEF t, m
<1>5. \A i \in Events(t) : 1 < i + 1 /\ m.place < t[i].place
  <2>1. \A i \in Events(t) : i >= 1
    BY DEF Events
  <2> QED BY <1>1, <1>2, <2>1 DEF Chain
<1>6. \A i, j \in Events(t) : i < j => t[i].place < t[j].place
  BY <1>2 DEF Chain
<1>7. \A i \in Events(t) : t[i].kind # "snapshot"
  BY <1>1, <1>2, <1>5 DEF Chain
<1>8. ASSUME NEW i \in Events(t), t[i].kind = "changes"
      PROVE  \/ w.has /\ t[i].place = m.place + 1 /\ t[i].gen = w.gen + 1
             \/ \E j \in Events(t) : t[i].place = t[j].place + 1 /\ t[i].gen = t[j].gen + 1
  <2>1. i + 1 \in Events(s) /\ t[i] = s[i + 1]
    BY <1>2
  <2>2. CASE \E j \in Events(s) : t[i].place = s[j].place + 1 /\ t[i].gen = s[j].gen + 1
    <3>1. PICK j \in Events(s) : t[i].place = s[j].place + 1 /\ t[i].gen = s[j].gen + 1
      BY <2>2
    <3>2. CASE j = 1
      BY <1>1, <3>1, <3>2 DEF m
    <3>3. CASE j # 1
      BY <1>3, <3>1, <3>3
    <3> QED BY <3>2, <3>3
  <2>3. CASE v.has /\ t[i].place = a + 1
    BY <1>1, <1>4, <1>5, <2>1, <2>3 DEF Chain, View, Message
  <2> QED BY <1>8, <2>1, <2>2, <2>3 DEF Chain
<1> QED BY <1>5, <1>6, <1>7, <1>8 DEF Chain, t, m

\* What is left when the end is lost is still a chain.
LEMMA ChainPrefix ==
  ASSUME NEW s \in Seq(Message), NEW t \in Seq(Message), NEW v \in View, NEW a \in Nat,
         Chain(s \o t, v, a)
  PROVE  Chain(s, v, a)
<1> DEFINE u == s \o t
<1>1. \A i \in Events(s) : i \in Nat /\ i \in Events(u) /\ u[i] = s[i] /\ s[i] \in Message
  BY DEF Events
<1>2. \A i \in Events(s) : \A j \in Events(u) : j < i => j \in Events(s)
  BY DEF Events
<1>3. \A j \in Events(u) : j \in Nat /\ u[j] \in Message
  BY DEF Events
<1> HIDE DEF u
<1>4. \A i, j \in Events(s) : i < j => s[i].place < s[j].place
  BY <1>1 DEF Chain, u
<1>5. v.has => \A i \in Events(s) : a < s[i].place
  BY <1>1 DEF Chain, u
<1>6. \A i \in Events(s) : s[i].kind = "snapshot" =>
         ~v.has /\ a <= s[i].place /\ \A j \in Events(s) : i <= j
  BY <1>1 DEF Chain, u
<1>7. ASSUME NEW i \in Events(s), NEW j \in Events(u), s[i].place = u[j].place + 1
      PROVE  j < i
  <2>1. i < j => u[i].place < u[j].place
    BY <1>1 DEF Chain, u
  <2>2. u[i].place \in Nat /\ u[j].place \in Nat /\ i \in Nat /\ j \in Nat /\ u[i] = s[i]
    BY <1>1, <1>3 DEF Message
  <2> QED BY <1>7, <2>1, <2>2
<1>8. ASSUME NEW i \in Events(s), s[i].kind = "changes"
      PROVE  \/ v.has /\ s[i].place = a + 1 /\ s[i].gen = v.gen + 1
             \/ \E j \in Events(s) : s[i].place = s[j].place + 1 /\ s[i].gen = s[j].gen + 1
  <2>1. CASE \E j \in Events(u) : s[i].place = u[j].place + 1 /\ s[i].gen = u[j].gen + 1
    <3>1. PICK j \in Events(u) : s[i].place = u[j].place + 1 /\ s[i].gen = u[j].gen + 1
      BY <2>1
    <3>2. j \in Events(s)
      BY <1>2, <1>7, <3>1
    <3> QED BY <1>1, <3>1, <3>2
  <2>2. i \in Events(u) /\ u[i] = s[i]
    BY <1>1
  <2>3. \/ v.has /\ u[i].place = a + 1 /\ u[i].gen = v.gen + 1
        \/ \E j \in Events(u) : u[i].place = u[j].place + 1 /\ u[i].gen = u[j].gen + 1
    BY <1>8, <2>2 DEF Chain, u
  <2> QED BY <2>1, <2>2, <2>3
<1> QED BY <1>4, <1>5, <1>6, <1>8 DEF Chain

\* A batch may be added that follows the end.
LEMMA ChainAppendChanges ==
  ASSUME NEW s \in Seq(Message), NEW m \in Message, NEW v \in View, NEW a \in Nat,
         Chain(s, v, a), m.kind = "changes", \A i \in Events(s) : s[i].place < m.place,
         \/ v.has /\ m.place = a + 1 /\ m.gen = v.gen + 1
         \/ \E j \in Events(s) : m.place = s[j].place + 1 /\ m.gen = s[j].gen + 1,
         v.has => a < m.place
  PROVE  Chain(Append(s, m), v, a)
<1> DEFINE u == Append(s, m)
           e == Len(s) + 1
<1>1. e \in Events(u) /\ u[e] = m /\ e \in Nat
  BY DEF Events
<1>2. \A i \in Events(s) : i \in Events(u) /\ u[i] = s[i] /\ i \in Nat /\ i < e
  BY DEF Events
<1>3. \A i \in Events(u) : i = e \/ i \in Events(s)
  BY DEF Events
<1> HIDE DEF u, e
<1>4. \A i, j \in Events(u) : i < j => u[i].place < u[j].place
  BY <1>1, <1>2, <1>3 DEF Chain
<1>5. v.has => \A i \in Events(u) : a < u[i].place
  BY <1>1, <1>2, <1>3 DEF Chain
<1>6. \A i \in Events(u) : u[i].kind = "snapshot" =>
         ~v.has /\ a <= u[i].place /\ \A j \in Events(u) : i <= j
  BY <1>1, <1>2, <1>3 DEF Chain
<1>7. ASSUME NEW i \in Events(u), u[i].kind = "changes"
      PROVE  \/ v.has /\ u[i].place = a + 1 /\ u[i].gen = v.gen + 1
             \/ \E j \in Events(u) : u[i].place = u[j].place + 1 /\ u[i].gen = u[j].gen + 1
  <2>1. CASE i = e
    BY <1>1, <1>2, <2>1
  <2>2. CASE i \in Events(s)
    <3>1. \/ v.has /\ s[i].place = a + 1 /\ s[i].gen = v.gen + 1
          \/ \E j \in Events(s) : s[i].place = s[j].place + 1 /\ s[i].gen = s[j].gen + 1
      BY <1>2, <1>7, <2>2 DEF Chain
    <3> QED BY <1>2, <2>2, <3>1
  <2> QED BY <1>3, <2>1, <2>2
<1> QED BY <1>4, <1>5, <1>6, <1>7 DEF Chain, u

-----------------------------------------------------------------------------
\* The cache: what a listing makes of it, and what is published of that.
LEMMA RowsTyped == NoRow \in Row \cup {NoRow} /\ NoNodes \in Rows /\ NoChanges \in Changes
<1>1. NoChanges \in [{} -> Change]
  BY DEF NoChanges
<1>2. NoChanges \in Changes
  BY <1>1 DEF Changes
<1> QED BY <1>2 DEF NoNodes, Rows

LEMMA StampedRow ==
  ASSUME NEW cond \in Conditions, NEW gen \in Nat PROVE Stamped(cond, gen) \in Row
BY DEF Stamped, Row

LEMMA FirstRowsTyped ==
  ASSUME NEW cond \in [Nodes -> Conditions \cup {Gone}]
  PROVE  FirstRows(cond) \in Rows /\ FirstGeneration(cond) \in Nat
<1>1. ASSUME NEW n \in Nodes
      PROVE  (IF cond[n] = Gone THEN NoRow ELSE Stamped(cond[n], 1)) \in Row \cup {NoRow}
  BY StampedRow, 1 \in Nat
<1>2. FirstGeneration(cond) \in Nat
  BY DEF FirstGeneration
<1> QED BY <1>1, <1>2 DEF FirstRows, Rows

LEMMA UpdatedRowsTyped ==
  ASSUME CacheTypeOK, NEW cond \in [Nodes -> Conditions \cup {Gone}]
  PROVE  updatedNodes(cond) \in Rows
<1>1. generation + 1 \in Nat /\ \A n \in Nodes : nodes[n] \in Row \cup {NoRow}
  BY DEF CacheTypeOK, Rows
<1>2. ASSUME NEW n \in Nodes, cond[n] # Gone
      PROVE  Stamped(cond[n], generation + 1) \in Row
  BY <1>1, <1>2, StampedRow
<1> QED BY <1>1, <1>2 DEF updatedNodes, Rows

\* A listing that changes no node leaves the cache as it is.
LEMMA QuietListing ==
  ASSUME CacheTypeOK, NEW cond \in [Nodes -> Conditions \cup {Gone}], Changed(cond) = {}
  PROVE  updatedNodes(cond) = nodes
<1>1. \A n \in Nodes : sameNodeState(nodes[n], cond[n])
  BY DEF Changed
<1>2. updatedNodes(cond) = [n \in Nodes |-> nodes[n]]
  BY <1>1 DEF updatedNodes
<1> QED BY <1>2 DEF CacheTypeOK, Rows

\* What a commit publishes is a message, and it leads from the old contents of
\* the cache to the new ones.
LEMMA BatchLeads ==
  ASSUME CacheTypeOK, CacheAssumption, NEW cond \in [Nodes -> Conditions \cup {Gone}]
  PROVE  /\ nodeChanges(cond) \in Changes
         /\ Leads(nodeChanges(cond), nodes, updatedNodes(cond))
<1> DEFINE ch == nodeChanges(cond)
<1>1. DOMAIN ch = Changed(cond) /\ Changed(cond) \subseteq Nodes
  BY DEF nodeChanges, Changed
<1>2. ASSUME NEW n \in Changed(cond)
      PROVE  /\ ch[n].kind = changeKind(n, cond)
             /\ ch[n].row = IF cond[n] = Gone THEN nodes[n]
                                              ELSE Stamped(cond[n], generation + 1)
             /\ ch[n] = [kind |-> ch[n].kind, row |-> ch[n].row]
  BY DEF nodeChanges
<1>3. ASSUME NEW n \in Changed(cond)
      PROVE  /\ n \in Nodes /\ nodes[n].cond # cond[n]
             /\ nodes[n] \in Row \cup {NoRow} /\ cond[n] \in Conditions \cup {Gone}
  BY DEF Changed, sameNodeState, CacheTypeOK, Rows
<1>4. ASSUME NEW n \in Changed(cond)
      PROVE  /\ changeKind(n, cond) = "added" <=> nodes[n] = NoRow
             /\ changeKind(n, cond) = "removed" <=> cond[n] = Gone
             /\ changeKind(n, cond) \in {"added", "updated", "removed"}
  <2>1. ~(nodes[n] = NoRow /\ cond[n] = Gone)
    BY <1>3 DEF NoRow
  <2> QED BY <2>1 DEF changeKind
<1>5. ASSUME NEW n \in Changed(cond) PROVE ch[n] \in Change
  <2>1. ch[n].row \in Row \cup {NoRow}
    <3>1. CASE cond[n] = Gone
      BY <1>2, <1>3, <3>1
    <3>2. CASE cond[n] # Gone
      <4>1. cond[n] \in Conditions /\ generation + 1 \in Nat
        BY <1>3, <3>2 DEF CacheTypeOK
      <4> QED BY <1>2, <3>2, <4>1, StampedRow
    <3> QED BY <3>1, <3>2
  <2>2. ch[n].kind \in {"added", "updated", "removed"}
    BY <1>2, <1>4
  <2>3. ch[n] = [kind |-> ch[n].kind, row |-> ch[n].row]
    BY <1>2
  <2> HIDE DEF ch
  <2> QED BY <2>1, <2>2, <2>3 DEF Change
<1>6. ch \in Changes
  <2>1. ch \in [Changed(cond) -> Change]
    BY <1>1, <1>5 DEF nodeChanges
  <2> QED BY <1>1, <2>1 DEF Changes
<1>7. Patched([nodes |-> nodes], ch) = updatedNodes(cond)
  <2> HIDE DEF ch
  <2>1. ASSUME NEW n \in Nodes
        PROVE  (IF n \notin DOMAIN ch THEN nodes[n]
                ELSE IF ch[n].kind = "removed" THEN NoRow ELSE ch[n].row)
               = (IF sameNodeState(nodes[n], cond[n]) THEN nodes[n]
                  ELSE IF cond[n] = Gone THEN NoRow
                  ELSE Stamped(cond[n], generation + 1))
    <3>1. CASE n \in Changed(cond)
      BY <1>1, <1>2, <1>3, <1>4, <3>1 DEF sameNodeState
    <3>2. CASE n \notin Changed(cond)
      BY <1>1, <3>2 DEF Changed
    <3> QED BY <3>1, <3>2
  <2> QED BY <2>1 DEF Patched, updatedNodes
<1>8. \A n \in DOMAIN ch : ch[n].kind = "added" <=> nodes[n] = NoRow
  BY <1>1, <1>2, <1>4
<1> QED BY <1>6, <1>7, <1>8 DEF Leads

\* Every message that is true of the log stays true as the log grows.
LEMMA SoundGrows ==
  ASSUME log \in Seq(Rows), NEW rows \in Rows, log' = Append(log, rows)
  PROVE  Sound \subseteq Sound'
<1>1. Len(log') = Len(log) + 1 /\ \A i \in 1 .. Len(log) : log'[i] = log[i]
  OBVIOUS
<1>2. ASSUME NEW m \in Sound PROVE m \in Sound'
  <2>1. m \in Message /\ m.place \in Nat
    BY DEF Sound, Message
  <2>2. m.kind = "snapshot" => m.place \in 1 .. Len(log') /\ m.rows = log'[m.place]
    BY <1>1, <2>1 DEF Sound
  <2>3. ASSUME m.kind = "changes"
        PROVE  m.place \in 2 .. Len(log') /\ Leads(m.changes, log'[m.place - 1], log'[m.place])
    <3>1. m.place \in 2 .. Len(log) /\ Leads(m.changes, log[m.place - 1], log[m.place])
      BY <2>3 DEF Sound
    <3>2. log'[m.place - 1] = log[m.place - 1] /\ log'[m.place] = log[m.place]
      BY <1>1, <3>1
    <3> QED BY <1>1, <3>1, <3>2
  <2> QED BY <2>1, <2>2, <2>3 DEF Sound
<1> QED BY <1>2

-----------------------------------------------------------------------------
\* Types, action by action.
LEMMA InitTypes == ASSUME Init PROVE TypeInv
<1> USE CacheAssumption, StreamAssumption, RowsTyped DEF Init, CacheInit
<1>1. CacheTypeOK
  <2>1. NoListing \in Listing
    BY DEF NoListing, Listing
  <2>2. nodes \in Rows /\ generation \in Nat
    BY FirstRowsTyped
  <2> QED BY <2>1, <2>2 DEF CacheTypeOK
<1>2. view \in [Clients -> View]
  BY DEF NoView, View
<1>3. log \in Seq(Rows)
  BY <1>1 DEF CacheTypeOK
<1>4. stage \in [Conns -> Stage] /\ channel \in [Clients -> Conns \cup {NoConn}]
  BY DEF Stage
<1>5. /\ queue \in [Conns -> Seq(Message)] /\ wire \in [Conns -> Seq(Message)]
      /\ \A c \in Conns : Len(queue[c]) = 0 /\ Len(wire[c]) = 0
  OBVIOUS
<1>6. up \in BOOLEAN /\ timer \in [Clients -> BOOLEAN] /\ at \in [Clients -> Nat]
  OBVIOUS
<1>7. \A p \in Clients : view[p].has \in BOOLEAN /\ view[p].nodes \in Rows
  BY <1>2 DEF View
<1> QED BY <1>1, <1>2, <1>3, <1>4, <1>5, <1>6, <1>7 DEF TypeInv, TypeOK

\* The refreshes leave everything but their own state and the cache alone.
LEMMA RefreshTypes ==
  ASSUME TypeInv, NEW r \in Refreshers, StartRefresh(r) \/ AbandonRefresh(r)
  PROVE  TypeInv'
<1> USE DEF TypeInv, TypeOK, CacheTypeOK, slurmVars, cacheVars, connVars, clientVars
<1>1. NoListing \in Listing
  BY DEF NoListing, Listing
<1>2. CASE StartRefresh(r)
  <2>1. [cond |-> slurm, version |-> version] \in Listing
    BY DEF Listing
  <2> QED BY <1>2, <2>1 DEF StartRefresh, ListNodes
<1>3. CASE AbandonRefresh(r)
  BY <1>1, <1>3, StreamAssumption DEF AbandonRefresh, RefreshFails, Unlock, Upset
<1> QED BY <1>2, <1>3

LEMMA SlurmTypes ==
  ASSUME TypeInv, NEW n \in Nodes, NEW cond \in Conditions \cup {Gone}, SlurmStep(n, cond)
  PROVE  TypeInv'
BY StreamAssumption
   DEF TypeInv, TypeOK, CacheTypeOK, SlurmStep, SlurmChanges, Upset, cacheVars, refreshVars,
       connVars, clientVars

\* The messages are messages.
LEMMA MessagesTyped ==
  ASSUME TypeInv
  PROVE  /\ Snapshot \in Message /\ Response \in Message
         /\ \A cond \in [Nodes -> Conditions \cup {Gone}] : ChangeBatch(cond) \in Message
<1> USE RowsTyped DEF TypeInv, TypeOK, CacheTypeOK
<1>1. Snapshot \in Message /\ Response \in Message
  BY DEF Snapshot, Response, Message
<1>2. ASSUME NEW cond \in [Nodes -> Conditions \cup {Gone}] PROVE ChangeBatch(cond) \in Message
  <2>1. nodeChanges(cond) \in Changes
    BY BatchLeads, CacheAssumption
  <2> QED BY <2>1 DEF ChangeBatch, Message
<1> QED BY <1>1, <1>2

\* A commit, with what it does to the cache.
LEMMA CommitCache ==
  ASSUME TypeInv, NEW r \in Refreshers, Commit(r)
  PROVE  /\ listed[r].cond \in [Nodes -> Conditions \cup {Gone}]
         /\ listed[r].version \in Nat
         /\ nodes' = updatedNodes(listed[r].cond) /\ nodes' \in Rows
         /\ generation' \in Nat /\ committed' = listed[r].version
         /\ listed' = [listed EXCEPT ![r] = NoListing] /\ refreshMu' = NoRefresher
         /\ CacheTypeOK'
<1> USE DEF TypeInv, TypeOK, Commit, RefreshCommits, replaceSnapshot, Unlock
<1>1. listed[r] \in Listing
  BY DEF CacheTypeOK
<1>2. listed[r].cond \in [Nodes -> Conditions \cup {Gone}] /\ listed[r].version \in Nat
  BY <1>1 DEF Listing
<1>3. nodes' = updatedNodes(listed[r].cond) /\ nodes' \in Rows
  BY <1>2, UpdatedRowsTyped
<1>4. generation' \in Nat
  BY DEF CacheTypeOK
<1>5. NoListing \in Listing
  BY DEF NoListing, Listing
<1>6. CacheTypeOK'
  BY <1>2, <1>3, <1>4, <1>5 DEF CacheTypeOK, slurmVars
<1> QED BY <1>2, <1>3, <1>4, <1>6

\* A batch enters only queues that have room.
LEMMA PublishTypes ==
  ASSUME TypeInv, NEW m \in Message, Publish(m)
  PROVE  /\ queue' \in [Conns -> Seq(Message)]
         /\ \A c \in Conns : Len(queue'[c]) <= QueueSize
         /\ streams' \subseteq streams
         /\ slow' \subseteq streams \cup slow
         /\ \A c \in streams' : stage[c] = "serving" =>
               Len(queue[c]) < QueueSize /\ queue'[c] = Append(queue[c], m)
         /\ \A c \in Conns : \/ queue'[c] = queue[c]
                             \/ c \in streams' /\ stage[c] = "serving"
         /\ \A c \in streams \ streams' : stage[c] = "closing" \/ ~HasRoom(c)
<1> USE StreamAssumption DEF TypeInv, TypeOK
<1>1. PICK refused \in Refusals :
        /\ streams' = streams \ refused
        /\ slow' = slow \cup refused
        /\ queue' = [c \in Conns |->
                       IF c \in streams \ refused /\ stage[c] = "serving"
                       THEN Append(queue[c], m) ELSE queue[c]]
  BY DEF Publish
<1>2. /\ \A c \in streams : stage[c] = "serving" /\ ~HasRoom(c) => c \in refused
      /\ refused \subseteq streams
      /\ \A c \in refused : stage[c] = "closing" \/ ~HasRoom(c)
  BY DEF Refusals
<1>3. \A c \in streams \ refused : stage[c] = "serving" => Len(queue[c]) < QueueSize
  BY <1>2 DEF HasRoom
<1>4. ASSUME NEW c \in Conns
      PROVE  queue'[c] \in Seq(Message) /\ Len(queue'[c]) <= QueueSize
  BY <1>1, <1>3
<1>5. queue' \in [Conns -> Seq(Message)]
  BY <1>1, <1>4
<1> QED BY <1>1, <1>2, <1>3, <1>4, <1>5

LEMMA CommitTypes ==
  ASSUME TypeInv, NEW r \in Refreshers, Commit(r)
  PROVE  TypeInv'
<1>1. CacheTypeOK' /\ nodes' \in Rows
  BY CommitCache
<1>2. /\ queue' \in [Conns -> Seq(Message)]
      /\ \A c \in Conns : Len(queue'[c]) <= QueueSize
      /\ streams' \subseteq Conns /\ slow' \subseteq Conns
      /\ log' \in Seq(Rows)
  <2>1. CASE Changed(listed[r].cond) = {}
    BY <2>1 DEF Commit, TypeInv, TypeOK
  <2>2. CASE Changed(listed[r].cond) # {}
    <3>1. Publish(ChangeBatch(listed[r].cond)) /\ log' = Append(log, nodes')
      BY <2>2 DEF Commit
    <3>2. ChangeBatch(listed[r].cond) \in Message
      BY CommitCache, MessagesTyped
    <3> HIDE DEF ChangeBatch
    <3> QED BY <1>1, <3>1, <3>2, PublishTypes DEF TypeInv, TypeOK
  <2> QED BY <2>1, <2>2
<1>3. UNCHANGED <<up, stage, wire, channel, timer, view, at, upsets>>
  BY DEF Commit, clientVars
<1> QED BY <1>1, <1>2, <1>3 DEF TypeInv, TypeOK

LEMMA ConnTypes ==
  ASSUME TypeInv, NEW c \in Conns, ConnStep(c) \/ Respond(c)
  PROVE  TypeInv'
<1> USE StreamAssumption DEF TypeInv, TypeOK, CacheTypeOK, slurmVars, cacheVars, refreshVars,
        clientVars, Stage, CloseConnection
<1>1. CASE SlowStep(c)
  BY <1>1 DEF SlowStep, CloseSlow
<1>2. CASE Register(c)
  <2>1. Snapshot \in Message
    BY MessagesTyped
  <2>2. /\ queue' \in [Conns -> Seq(Message)]
        /\ \A d \in Conns : Len(queue'[d]) <= QueueSize
    BY <1>2, <2>1 DEF Register
  <2> QED BY <1>2, <2>2 DEF Register
<1>3. CASE Write(c)
  <2>1. /\ queue' \in [Conns -> Seq(Message)] /\ wire' \in [Conns -> Seq(Message)]
        /\ \A d \in Conns : Len(queue'[d]) <= QueueSize /\ Len(wire'[d]) <= WireSize
    BY <1>3 DEF Write
  <2> QED BY <1>3, <2>1 DEF Write
<1>4. CASE EncodeFails(c) \/ PeerGone(c)
  BY <1>4 DEF EncodeFails, PeerGone
<1>5. CASE EndConnection(c)
  BY <1>5 DEF EndConnection
<1>6. CASE Respond(c)
  <2>1. Response \in Message
    BY MessagesTyped
  <2>2. /\ queue' \in [Conns -> Seq(Message)]
        /\ \A d \in Conns : Len(queue'[d]) <= QueueSize
    <3>1. CASE HasRoom(c)
      <4>1. queue' = [queue EXCEPT ![c] = Append(@, Response)] /\ Len(queue[c]) < QueueSize
        BY <1>6, <3>1 DEF Respond, HasRoom
      <4> QED BY <2>1, <4>1
    <3>2. CASE ~HasRoom(c)
      BY <1>6, <3>2 DEF Respond
    <3> QED BY <3>1, <3>2
  <2>3. stage' \in [Conns -> Stage]
    <3>1. UNCHANGED stage \/ CloseConnection(c)
      BY <1>6 DEF Respond
    <3> QED BY <3>1
  <2>4. upsets' \in 0 .. MaxUpsets
    BY <1>6 DEF Respond, Upset
  <2>5. UNCHANGED <<log, slurmVars, cacheVars, refreshVars, up, streams, slow, wire, clientVars>>
    BY <1>6 DEF Respond
  <2> QED BY <2>2, <2>3, <2>4, <2>5
<1> QED BY <1>1, <1>2, <1>3, <1>4, <1>5, <1>6 DEF ConnStep

\* A page gives up its channel and starts its timer.
GivesUp(p) ==
    /\ closeCurrentChannel(p)
    /\ upsets' \in 0 .. MaxUpsets
    /\ UNCHANGED <<log, slurmVars, cacheVars, refreshVars, up, connVars, view, at>>

LEMMA GivesUpTypes ==
  ASSUME TypeInv, NEW p \in Clients, GivesUp(p)
  PROVE  TypeInv'
<1> USE DEF TypeInv, TypeOK, CacheTypeOK, GivesUp, closeCurrentChannel, Abandon,
        scheduleReconnect, slurmVars, cacheVars, refreshVars, connVars
<1>1. /\ wire' \in [Conns -> Seq(Message)]
      /\ \A c \in Conns : Len(wire'[c]) <= WireSize
  BY StreamAssumption
<1>2. channel' \in [Clients -> Conns \cup {NoConn}] /\ timer' \in [Clients -> BOOLEAN]
  OBVIOUS
<1> QED BY <1>1, <1>2

\* The steps of a page, other than reading, either give up or open.
LEMMA PageSteps ==
  ASSUME TypeInv, NEW p \in Clients,
         ChannelCloses(p) \/ SnapshotTimeout(p) \/ forceReconnect(p)
  PROVE  GivesUp(p)
BY StreamAssumption
   DEF TypeInv, TypeOK, GivesUp, ChannelCloses, onclose, SnapshotTimeout, forceReconnect,
       closeCurrentChannel, Upset

LEMMA OpenTypes ==
  ASSUME TypeInv, NEW p \in Clients, openChannel(p) \/ openFails(p)
  PROVE  TypeInv'
<1> USE StreamAssumption DEF TypeInv, TypeOK, CacheTypeOK, slurmVars, cacheVars, refreshVars,
        connVars
<1>1. Baseline(p) \in View
  <2>1. view[p] \in View
    OBVIOUS
  <2> QED BY ONLY <2>1 DEF Baseline, View
<1>2. [view EXCEPT ![p] = Baseline(p)] \in [Clients -> View]
  BY <1>1
<1>3. ASSUME NEW w \in [Clients -> View], NEW q \in Clients
      PROVE  w[q].has \in BOOLEAN /\ w[q].nodes \in Rows
  BY DEF View
<1>4. CASE openChannel(p)
  <2>1. stage' \in [Conns -> Stage] /\ channel' \in [Clients -> Conns \cup {NoConn}]
    BY <1>4 DEF openChannel, Stage
  <2>2. timer' \in [Clients -> BOOLEAN] /\ view' \in [Clients -> View]
    BY <1>2, <1>4 DEF openChannel
  <2> QED BY <1>3, <1>4, <2>1, <2>2 DEF openChannel
<1>5. CASE openFails(p)
  <2>1. timer' \in [Clients -> BOOLEAN] /\ view' \in [Clients -> View]
    BY <1>2, <1>5 DEF openFails, scheduleReconnect
  <2>2. upsets' \in 0 .. MaxUpsets
    BY <1>5 DEF openFails, Upset
  <2> QED BY <1>3, <1>5, <2>1, <2>2 DEF openFails
<1> QED BY <1>4, <1>5

LEMMA CrashTypes == ASSUME TypeInv, Crash PROVE TypeInv'
<1> USE StreamAssumption DEF TypeInv, TypeOK, slurmVars, cacheVars, clientVars
<1>1. NoListing \in Listing
  BY DEF NoListing, Listing
<1>2. CacheTypeOK'
  BY <1>1 DEF CacheTypeOK, Crash, RefreshDies
<1>3. /\ stage' \in [Conns -> Stage] /\ queue' \in [Conns -> Seq(Message)]
      /\ \A c \in Conns : Len(queue'[c]) <= QueueSize
  BY DEF Stage, Crash
<1>4. upsets' \in 0 .. MaxUpsets
  BY DEF Crash, Upset
<1>5. up' \in BOOLEAN /\ streams' \subseteq Conns /\ slow' \subseteq Conns
  BY DEF Crash
<1>6. UNCHANGED <<log, wire, channel, timer, view, at>>
  BY DEF Crash
<1> QED BY <1>2, <1>3, <1>4, <1>5, <1>6

LEMMA RestartTypes == ASSUME TypeInv, Restart PROVE TypeInv' /\ nodes' \in Rows
<1> USE DEF TypeInv, TypeOK, slurmVars, refreshVars, connVars, clientVars, Restart, CacheRestart
<1>1. nodes' \in Rows /\ generation' \in Nat
  BY FirstRowsTyped DEF CacheTypeOK
<1>2. CacheTypeOK'
  BY <1>1 DEF CacheTypeOK
<1> QED BY <1>1, <1>2

-----------------------------------------------------------------------------
\* What a step of the cluster, of a connection or of a page leaves alone.
LEMMA ClusterFrame ==
  ASSUME \/ \E n \in Nodes, cond \in Conditions \cup {Gone} : SlurmStep(n, cond)
         \/ \E r \in Refreshers : StartRefresh(r) \/ AbandonRefresh(r)
  PROVE  /\ UNCHANGED <<log, nodes, generation, committed, up, stage, streams, slow, queue>>
         /\ UNCHANGED <<wire, channel, timer, view, at>>
BY DEF SlurmStep, StartRefresh, AbandonRefresh, RefreshFails, cacheVars, connVars, clientVars

LEMMA ConnFrame ==
  ASSUME NEW c \in Conns, ConnStep(c) \/ Respond(c)
  PROVE  UNCHANGED <<log, slurm, version, nodes, generation, committed, refreshMu, listed, up,
                     channel, timer, view, at>>
BY DEF ConnStep, SlowStep, Register, Write, EncodeFails, PeerGone, EndConnection, Respond,
       slurmVars, cacheVars, refreshVars, clientVars

LEMMA PageFrame ==
  ASSUME NEW p \in Clients,
         ClientStep(p) \/ openFails(p) \/ SnapshotTimeout(p) \/ forceReconnect(p)
  PROVE  UNCHANGED <<log, slurm, version, nodes, generation, committed, refreshMu, listed, up,
                     streams, slow, queue>>
BY DEF ClientStep, openChannel, openFails, ChannelCloses, Receive, SnapshotTimeout,
       forceReconnect, slurmVars, cacheVars, refreshVars, connVars

LEMMA CrashFrame ==
  ASSUME Crash
  PROVE  UNCHANGED <<log, slurm, version, nodes, generation, committed, wire, channel, timer,
                     view, at>>
BY DEF Crash, slurmVars, cacheVars, clientVars

LEMMA RestartFrame ==
  ASSUME Restart
  PROVE  UNCHANGED <<slurm, version, refreshMu, listed, stage, streams, slow, queue, wire,
                     channel, timer, view, at, upsets>>
BY DEF Restart, CacheRestart, slurmVars, refreshVars, connVars, clientVars

\* What a step of a connection does to it, and to no other.
LEMMA ConnSteps ==
  ASSUME TypeInv, NEW c \in Conns, ConnStep(c) \/ Respond(c)
  PROVE  /\ \A d \in Conns : d # c => /\ stage'[d] = stage[d] /\ queue'[d] = queue[d]
                                      /\ wire'[d] = wire[d]
                                      /\ d \in streams' <=> d \in streams
                                      /\ d \in slow' <=> d \in slow
         /\ stage'[c] # "accepted"
BY DEF TypeInv, TypeOK, ConnStep, SlowStep, CloseSlow, Register, Write, EncodeFails, PeerGone,
       EndConnection, Respond, CloseConnection

-----------------------------------------------------------------------------
\* A page finds the first message on its channel to be one it can apply, and
\* comes to show the state of the log at its place.
LEMMA HeadApplies ==
  ASSUME StreamInv, NEW p \in Clients, channel[p] # NoConn, wire[channel[p]] # <<>>,
         NEW m, m = Head(wire[channel[p]])
  PROVE  /\ m \in Sound
         /\ m.kind # "response" =>
               /\ Applicable(view[p], m)
               /\ m.place \in 1 .. Len(log) /\ at[p] <= m.place
               /\ applyNodeStreamMessage(view[p], m)
                    = [has |-> TRUE, gen |-> m.gen, nodes |-> log[m.place]]
<1> DEFINE c == channel[p]
           s == Pending(c)
           v == view[p]
           a == at[p]
<1>1. /\ c \in Conns /\ wire[c] \in Seq(Message) /\ queue[c] \in Seq(Message)
      /\ v \in View /\ a \in Nat /\ log \in Seq(Rows)
  BY DEF StreamInv, TypeInv, TypeOK
<1>2. m \in Sound
  <2>1. wire[c] \in Seq(Sound) /\ wire[c] # <<>>
    BY <1>1 DEF StreamInv, MessageInv
  <2> QED BY <2>1
<1>3. m \in Message /\ m.place \in Nat /\ m.kind \in {"snapshot", "changes", "response"}
  BY <1>2 DEF Sound, Message
<1>4. s \in Seq(Message) /\ s # <<>> /\ s[1] = m /\ Len(s) \in Nat
  <2>1. s # <<>> /\ Head(s) = m
    BY <1>1, TailOfConcat DEF Pending
  <2>2. s \in Seq(Message)
    BY <1>1 DEF Pending
  <2> HIDE DEF s
  <2> QED BY <2>1, <2>2
<1>5. Chain(s, v, a)
  BY DEF StreamInv, ChainInv
<1>6. m.kind # "response" => 1 \in Events(s)
  BY <1>4 DEF Events
<1>7. \A i \in Events(s) : i \in Nat /\ i >= 1 /\ s[i].place \in Nat
  <2> HIDE DEF s
  <2>1. \A i \in Events(s) : i \in 1 .. Len(s)
    BY DEF Events
  <2>2. \A i \in 1 .. Len(s) : s[i] \in Message
    BY <1>4
  <2> QED BY <2>1, <2>2 DEF Message
<1> HIDE DEF s
<1>8. CASE m.kind = "snapshot"
  <2>1. ~v.has /\ a <= m.place
    BY <1>4, <1>5, <1>6, <1>8 DEF Chain
  <2>2. m.place \in 1 .. Len(log) /\ m.rows = log[m.place]
    BY <1>2, <1>8 DEF Sound
  <2> QED BY <1>2, <1>8, <2>1, <2>2 DEF Applicable, applyNodeStreamMessage
<1>9. CASE m.kind = "changes"
  <2>1. ~ \E j \in Events(s) : m.place = s[j].place + 1
    BY <1>3, <1>4, <1>5, <1>6, <1>7, <1>9 DEF Chain
  <2>2. v.has /\ m.place = a + 1 /\ m.gen = v.gen + 1
    BY <1>4, <1>5, <1>6, <1>9, <2>1 DEF Chain
  <2>3. m.place \in 2 .. Len(log) /\ Leads(m.changes, log[m.place - 1], log[m.place])
    BY <1>2, <1>9 DEF Sound
  <2>4. v.nodes = log[a] /\ m.place - 1 = a
    BY <1>1, <2>2 DEF StreamInv, LogInv
  <2>5. Leads(m.changes, v.nodes, log[m.place])
    BY <2>3, <2>4
  <2>6. Patched(v, m.changes) = log[m.place]
    BY <2>5 DEF Leads, Patched
  <2>7. Applicable(v, m)
    BY <1>9, <2>2, <2>5 DEF Applicable, Leads
  <2>8. m.place \in 1 .. Len(log) /\ a <= m.place
    BY <1>1, <2>2, <2>3
  <2>9. applyNodeStreamMessage(v, m) = [has |-> TRUE, gen |-> m.gen, nodes |-> log[m.place]]
    BY <1>9, <2>6 DEF applyNodeStreamMessage
  <2> QED BY <1>2, <2>7, <2>8, <2>9
<1> QED BY <1>2, <1>3, <1>8, <1>9

\* So a page that reads never closes its channel.
LEMMA ReceiveSteps ==
  ASSUME StreamInv, NEW p \in Clients, Receive(p), NEW m, m = Head(wire[channel[p]])
  PROVE  /\ channel[p] # NoConn /\ wire[channel[p]] # <<>>
         /\ UNCHANGED <<stage, channel, timer, upsets>>
         /\ wire' = [wire EXCEPT ![channel[p]] = Tail(@)]
         /\ \/ m.kind = "response" /\ UNCHANGED <<view, at>>
            \/ /\ m.kind # "response"
               /\ view' = [view EXCEPT ![p] = [has |-> TRUE, gen |-> m.gen,
                                               nodes |-> log[m.place]]]
               /\ at' = [at EXCEPT ![p] = m.place]
<1>1. channel[p] # NoConn /\ wire[channel[p]] # <<>> /\ UNCHANGED <<stage, upsets>>
  BY DEF Receive, connVars
<1>2. CASE m.kind = "response"
  BY <1>1, <1>2 DEF Receive
<1>3. CASE m.kind # "response"
  <2>1. /\ Applicable(view[p], m)
        /\ applyNodeStreamMessage(view[p], m)
             = [has |-> TRUE, gen |-> m.gen, nodes |-> log[m.place]]
    BY <1>1, <1>3, HeadApplies
  <2>2. view' = [view EXCEPT ![p] = applyNodeStreamMessage(view[p], m)]
    BY <1>3, <2>1 DEF Receive
  <2> QED BY <1>1, <1>3, <2>1, <2>2 DEF Receive
<1> QED BY <1>2, <1>3

LEMMA ReceiveTypes ==
  ASSUME StreamInv, NEW p \in Clients, Receive(p) PROVE TypeInv'
<1> DEFINE m == Head(wire[channel[p]])
           c == channel[p]
<1> USE DEF StreamInv, TypeInv, TypeOK
<1>1. c \in Conns /\ wire[c] # <<>> /\ wire' = [wire EXCEPT ![c] = Tail(@)]
  BY ReceiveSteps
<1>2. wire' \in [Conns -> Seq(Message)] /\ \A d \in Conns : Len(wire'[d]) <= WireSize
  BY <1>1, StreamAssumption
<1>3. view' \in [Clients -> View] /\ at' \in [Clients -> Nat]
  <2>1. CASE m.kind = "response"
    BY <2>1, ReceiveSteps
  <2>2. CASE m.kind # "response"
    <3>1. m \in Message /\ m.place \in 1 .. Len(log)
      BY <2>2, ReceiveSteps, HeadApplies DEF Sound
    <3>2. log[m.place] \in Rows /\ m.gen \in Nat /\ m.place \in Nat
      BY <3>1 DEF Message
    <3>3. [has |-> TRUE, gen |-> m.gen, nodes |-> log[m.place]] \in View
      BY <3>2 DEF View
    <3>4. /\ view' = [view EXCEPT ![p] = [has |-> TRUE, gen |-> m.gen,
                                          nodes |-> log[m.place]]]
          /\ at' = [at EXCEPT ![p] = m.place]
      BY <2>2, ReceiveSteps
    <3> QED BY <3>2, <3>3, <3>4
  <2> QED BY <2>1, <2>2
<1>4. \A q \in Clients : view'[q].has \in BOOLEAN /\ view'[q].nodes \in Rows
  BY <1>3 DEF View
<1>5. UNCHANGED <<stage, channel, timer, upsets>>
  BY ReceiveSteps
<1>6. UNCHANGED <<log, slurm, version, nodes, generation, committed, refreshMu, listed, up,
                  streams, slow, queue>>
  BY PageFrame DEF ClientStep
<1> QED BY <1>2, <1>3, <1>4, <1>5, <1>6 DEF CacheTypeOK

LEMMA TypeStep == ASSUME StreamInv, Next PROVE TypeInv'
<1>1. TypeInv
  BY DEF StreamInv
<1>2. CASE \E n \in Nodes, cond \in Conditions \cup {Gone} : SlurmStep(n, cond)
  BY <1>1, <1>2, SlurmTypes
<1>3. ASSUME NEW r \in Refreshers, StartRefresh(r) \/ AbandonRefresh(r) \/ Commit(r)
      PROVE  TypeInv'
  BY <1>1, <1>3, RefreshTypes, CommitTypes
<1>4. ASSUME NEW c \in Conns, ConnStep(c) \/ Respond(c) PROVE TypeInv'
  BY <1>1, <1>4, ConnTypes
<1>5. ASSUME NEW p \in Clients, ClientStep(p) \/ openFails(p) \/ SnapshotTimeout(p)
                                \/ forceReconnect(p)
      PROVE  TypeInv'
  BY <1>1, <1>5, PageSteps, GivesUpTypes, OpenTypes, ReceiveTypes DEF ClientStep
<1>6. CASE Crash \/ Restart
  BY <1>1, <1>6, CrashTypes, RestartTypes
<1> QED BY <1>2, <1>3, <1>4, <1>5, <1>6 DEF Next

-----------------------------------------------------------------------------
\* Who may list and commit: refreshMu is held from the listing to the commit.
LEMMA RefreshStep == ASSUME StreamInv, Next PROVE RefreshInv'
<1> USE CacheAssumption DEF StreamInv, TypeInv, TypeOK, CacheTypeOK, RefreshInv
<1>1. CASE \E n \in Nodes, cond \in Conditions \cup {Gone} : SlurmStep(n, cond)
  <2>1. version' = version + 1 /\ UNCHANGED <<committed, refreshMu, listed, up>>
    BY <1>1 DEF SlurmStep, SlurmChanges, cacheVars, refreshVars
  <2> QED BY <2>1 DEF Listing
<1>2. ASSUME NEW r \in Refreshers, StartRefresh(r) PROVE RefreshInv'
  <2>1. /\ up /\ UNCHANGED <<version, committed, up>>
        /\ refreshMu = NoRefresher /\ refreshMu' = r
        /\ listed' = [listed EXCEPT ![r] = [cond |-> slurm, version |-> version]]
    BY <1>2 DEF StartRefresh, ListNodes, slurmVars, cacheVars
  <2>2. \A q \in Refreshers : listed[q] = NoListing
    BY <2>1
  <2> QED BY <2>1, <2>2
<1>3. ASSUME NEW r \in Refreshers, AbandonRefresh(r) PROVE RefreshInv'
  <2>1. /\ UNCHANGED <<version, committed, up>>
        /\ refreshMu = r /\ listed' = [listed EXCEPT ![r] = NoListing]
    BY <1>3 DEF AbandonRefresh, RefreshFails, Unlock, slurmVars, cacheVars
  <2>2. \A q \in Refreshers : listed'[q] = NoListing
    BY <2>1
  <2> QED BY <2>1, <2>2
<1>4. ASSUME NEW r \in Refreshers, Commit(r) PROVE RefreshInv'
  <2>1. /\ UNCHANGED <<version, up>> /\ listed[r] # NoListing
        /\ committed' = listed[r].version /\ listed' = [listed EXCEPT ![r] = NoListing]
    BY <1>4, CommitCache DEF Commit, RefreshCommits, slurmVars
  <2>2. \A q \in Refreshers : listed'[q] = NoListing
    BY <2>1
  <2> QED BY <2>1, <2>2
<1>5. ASSUME NEW c \in Conns, ConnStep(c) \/ Respond(c) PROVE RefreshInv'
  BY <1>5, ConnFrame
<1>6. ASSUME NEW p \in Clients, ClientStep(p) \/ openFails(p) \/ SnapshotTimeout(p)
                                \/ forceReconnect(p)
      PROVE  RefreshInv'
  BY <1>6, PageFrame
<1>7. CASE Crash
  BY <1>7, CrashFrame DEF Crash, RefreshDies
<1>8. CASE Restart
  <2>1. UNCHANGED <<version, listed>> /\ committed' = version /\ ~up
    BY <1>8, RestartFrame DEF Restart, CacheRestart
  <2> QED BY <2>1
<1> QED BY <1>1, <1>2, <1>3, <1>4, <1>5, <1>6, <1>7, <1>8 DEF Next

\* A batch changes queues of connections that are being served, and no stage.
LEMMA CommitSteps ==
  ASSUME TypeInv, NEW r \in Refreshers, Commit(r)
  PROVE  /\ UNCHANGED <<up, stage, wire, channel, timer, view, at>>
         /\ streams' \subseteq streams /\ slow' \subseteq streams \cup slow
         /\ \A c \in Conns : \/ queue'[c] = queue[c]
                             \/ c \in streams' /\ stage[c] = "serving"
         /\ \A c \in streams \ streams' : stage[c] = "closing" \/ ~HasRoom(c)
<1>1. UNCHANGED <<up, stage, wire, channel, timer, view, at>>
  BY DEF Commit, clientVars
<1>2. CASE Changed(listed[r].cond) = {}
  BY <1>1, <1>2 DEF Commit
<1>3. CASE Changed(listed[r].cond) # {}
  <2>1. Publish(ChangeBatch(listed[r].cond)) /\ ChangeBatch(listed[r].cond) \in Message
    BY <1>3, CommitCache, MessagesTyped DEF Commit
  <2> HIDE DEF ChangeBatch
  <2> QED BY <1>1, <2>1, PublishTypes
<1> QED BY <1>2, <1>3

LEMMA ServeStep == ASSUME StreamInv, Next PROVE ServeInv'
<1> USE DEF StreamInv, TypeInv, TypeOK, ServeInv
<1>1. CASE \/ \E n \in Nodes, cond \in Conditions \cup {Gone} : SlurmStep(n, cond)
           \/ \E r \in Refreshers : StartRefresh(r) \/ AbandonRefresh(r)
  BY <1>1, ClusterFrame
<1>2. ASSUME NEW r \in Refreshers, Commit(r) PROVE ServeInv'
  <2>1. /\ UNCHANGED <<up, stage>>
        /\ streams' \subseteq streams /\ slow' \subseteq streams \cup slow
        /\ \A c \in Conns : queue'[c] = queue[c] \/ stage[c] = "serving"
    BY <1>2, CommitSteps
  <2> QED BY <2>1
<1>3. ASSUME NEW c \in Conns, ConnStep(c) \/ Respond(c) PROVE ServeInv'
  <2>1. /\ \A d \in Conns : d # c => /\ stage'[d] = stage[d] /\ queue'[d] = queue[d]
                                     /\ d \in streams' <=> d \in streams
                                     /\ d \in slow' <=> d \in slow
        /\ up' = up /\ streams' \subseteq Conns /\ slow' \subseteq Conns
    BY <1>3, ConnSteps, ConnFrame, ConnTypes
  <2>2. /\ c \in streams' \cup slow' => stage'[c] \in {"serving", "closing"}
        /\ stage'[c] \in {"free", "accepted"} => queue'[c] = <<>>
        /\ ~up => stage'[c] = "free"
    <3>1. CASE SlowStep(c)
      BY <3>1 DEF SlowStep, CloseSlow, CloseConnection
    <3>2. CASE Register(c)
      BY <3>2 DEF Register
    <3>3. CASE Write(c)
      BY <3>3 DEF Write
    <3>4. CASE EncodeFails(c) \/ PeerGone(c)
      BY <3>4 DEF EncodeFails, PeerGone, CloseConnection
    <3>5. CASE EndConnection(c)
      BY <3>5 DEF EndConnection
    <3>6. CASE Respond(c)
      BY <3>6 DEF Respond, CloseConnection
    <3> QED BY <1>3, <3>1, <3>2, <3>3, <3>4, <3>5, <3>6 DEF ConnStep
  <2> QED BY <2>1, <2>2
<1>4. ASSUME NEW p \in Clients, ClientStep(p) \/ openFails(p) \/ SnapshotTimeout(p)
                                \/ forceReconnect(p)
      PROVE  ServeInv'
  <2>1. UNCHANGED <<up, streams, slow, queue>>
    BY <1>4, PageFrame
  <2>2. \A c \in Conns : \/ stage'[c] = stage[c]
                         \/ stage[c] = "free" /\ stage'[c] = IF up THEN "accepted" ELSE "free"
    BY <1>4 DEF ClientStep, openChannel, openFails, ChannelCloses, Receive, SnapshotTimeout,
                forceReconnect, connVars
  <2> QED BY <2>1, <2>2
<1>5. CASE Crash
  BY <1>5 DEF Crash
<1>6. CASE Restart
  BY <1>6, RestartFrame DEF Restart
<1> QED BY <1>1, <1>2, <1>3, <1>4, <1>5, <1>6 DEF Next

-----------------------------------------------------------------------------
\* The channels of the pages: what giving one up and opening one do.
LEMMA GivesUpSteps ==
  ASSUME TypeInv, ChannelInv, NEW p \in Clients, GivesUp(p)
  PROVE  /\ UNCHANGED <<stage, view, at>>
         /\ channel'[p] = NoConn /\ timer'[p]
         /\ \A q \in Clients : q # p =>
               /\ channel'[q] = channel[q] /\ timer'[q] = timer[q]
               /\ channel[q] # NoConn => wire'[channel[q]] = wire[channel[q]]
         /\ \A c \in Conns : wire'[c] = IF c = channel[p] THEN <<>> ELSE wire[c]
BY DEF TypeInv, TypeOK, ChannelInv, GivesUp, closeCurrentChannel, Abandon, scheduleReconnect,
       connVars

LEMMA OpenSteps ==
  ASSUME TypeInv, NEW p \in Clients, openChannel(p)
  PROVE  /\ UNCHANGED <<wire, at>> /\ ~timer'[p] /\ channel[p] = NoConn
         /\ channel'[p] \in Conns /\ Abandoned(channel'[p])
         /\ stage[channel'[p]] = "free" /\ stage'[channel'[p]] \in {"free", "accepted"}
         /\ \A c \in Conns : c # channel'[p] => stage'[c] = stage[c]
         /\ ~view'[p].has /\ view'[p].nodes = view[p].nodes
         /\ \A q \in Clients : q # p =>
               channel'[q] = channel[q] /\ timer'[q] = timer[q] /\ view'[q] = view[q]
<1> USE DEF TypeInv, TypeOK
<1>1. Baseline(p).has = FALSE /\ Baseline(p).nodes = view[p].nodes
  BY DEF Baseline, View
<1>2. view' = [view EXCEPT ![p] = Baseline(p)]
  BY DEF openChannel
<1>3. PICK c \in Conns : /\ stage[c] = "free" /\ Abandoned(c)
                         /\ channel' = [channel EXCEPT ![p] = c]
                         /\ stage' = [stage EXCEPT ![c] = IF up THEN "accepted" ELSE "free"]
  BY DEF openChannel
<1>4. channel'[p] = c /\ \A q \in Clients : q # p => channel'[q] = channel[q]
  BY <1>3
<1>5. stage'[c] \in {"free", "accepted"} /\ \A d \in Conns : d # c => stage'[d] = stage[d]
  BY <1>3
<1>6. ~view'[p].has /\ view'[p].nodes = view[p].nodes
  BY <1>1, <1>2
<1>7. \A q \in Clients : q # p => view'[q] = view[q] /\ timer'[q] = timer[q]
  BY <1>2 DEF openChannel
<1>8. UNCHANGED <<wire, at>> /\ ~timer'[p] /\ channel[p] = NoConn
  BY DEF openChannel
<1> QED BY <1>3, <1>4, <1>5, <1>6, <1>7, <1>8

LEMMA OpenFailsSteps ==
  ASSUME TypeInv, NEW p \in Clients, openFails(p)
  PROVE  /\ UNCHANGED <<stage, wire, channel, at>> /\ timer'[p] /\ channel[p] = NoConn
         /\ ~view'[p].has /\ view'[p].nodes = view[p].nodes
         /\ \A q \in Clients : q # p => timer'[q] = timer[q] /\ view'[q] = view[q]
<1> USE DEF TypeInv, TypeOK
<1>1. Baseline(p).has = FALSE /\ Baseline(p).nodes = view[p].nodes
  BY DEF Baseline, View
<1>2. view' = [view EXCEPT ![p] = Baseline(p)]
  BY DEF openFails
<1>3. ~view'[p].has /\ view'[p].nodes = view[p].nodes
  BY <1>1, <1>2
<1>4. \A q \in Clients : q # p => view'[q] = view[q] /\ timer'[q] = timer[q]
  BY <1>2 DEF openFails, scheduleReconnect
<1> QED BY <1>3, <1>4 DEF openFails, scheduleReconnect, connVars

\* What a page does is one of these and reading.
LEMMA PageCases ==
  ASSUME TypeInv, NEW p \in Clients,
         ClientStep(p) \/ openFails(p) \/ SnapshotTimeout(p) \/ forceReconnect(p)
  PROVE  GivesUp(p) \/ openChannel(p) \/ openFails(p) \/ Receive(p)
BY PageSteps DEF ClientStep

LEMMA ChannelStep == ASSUME StreamInv, Next PROVE ChannelInv'
<1> USE DEF StreamInv, ChannelInv, ChannelOrTimer
<1>0. /\ TypeInv /\ channel \in [Clients -> Conns \cup {NoConn}] /\ NoConn \notin Conns
      /\ channel' \in [Clients -> Conns \cup {NoConn}]
  BY TypeStep, StreamAssumption DEF TypeInv, TypeOK
<1>1. CASE \/ \E n \in Nodes, cond \in Conditions \cup {Gone} : SlurmStep(n, cond)
           \/ \E r \in Refreshers : StartRefresh(r) \/ AbandonRefresh(r)
  BY <1>1, ClusterFrame DEF Abandoned
<1>2. ASSUME NEW r \in Refreshers, Commit(r) PROVE ChannelInv'
  <2>1. UNCHANGED <<stage, wire, channel, timer, view>>
    BY <1>0, <1>2, CommitSteps
  <2> QED BY <2>1 DEF Abandoned
<1>3. ASSUME NEW c \in Conns, ConnStep(c) \/ Respond(c) PROVE ChannelInv'
  <2>1. /\ UNCHANGED <<channel, timer, view>> /\ stage'[c] # "accepted"
        /\ \A d \in Conns : d # c => stage'[d] = stage[d] /\ wire'[d] = wire[d]
    BY <1>0, <1>3, ConnFrame, ConnSteps
  <2>2. Abandoned(c) => wire'[c] = wire[c]
    BY <1>3 DEF ConnStep, SlowStep, Register, Write, EncodeFails, PeerGone, EndConnection, Respond
  <2> QED BY <1>0, <2>1, <2>2 DEF Abandoned
<1>4. ASSUME NEW p \in Clients, GivesUp(p) PROVE ChannelInv'
  <2>1. /\ UNCHANGED <<stage, view>> /\ channel'[p] = NoConn /\ timer'[p]
        /\ \A q \in Clients : q # p => channel'[q] = channel[q] /\ timer'[q] = timer[q]
        /\ \A c \in Conns : wire'[c] = IF c = channel[p] THEN <<>> ELSE wire[c]
    BY <1>0, <1>4, GivesUpSteps
  <2>2. \A c \in Conns : Abandoned(c)' => Abandoned(c) \/ c = channel[p]
    BY <2>1 DEF Abandoned
  <2> QED BY <1>0, <2>1, <2>2
<1>5. ASSUME NEW p \in Clients, openChannel(p) PROVE ChannelInv'
  <2> DEFINE c == channel'[p]
  <2>1. /\ UNCHANGED wire /\ ~timer'[p] /\ channel[p] = NoConn
        /\ c \in Conns /\ Abandoned(c) /\ ~view'[p].has
        /\ \A d \in Conns : d # c => stage'[d] = stage[d]
        /\ \A q \in Clients : q # p =>
              channel'[q] = channel[q] /\ timer'[q] = timer[q] /\ view'[q] = view[q]
    BY <1>0, <1>5, OpenSteps
  <2>2. \A q \in Clients : q # p => channel'[q] # c
    BY <2>1 DEF Abandoned
  <2>3. \A d \in Conns : Abandoned(d)' => Abandoned(d)
    BY <1>0, <2>1 DEF Abandoned
  <2>4. wire'[c] = <<>>
    BY <2>1
  <2> HIDE DEF c
  <2>5. ChannelOrTimer'
    BY <1>0, <2>1 DEF c
  <2>6. \A p1, q \in Clients : channel'[p1] = channel'[q] => p1 = q \/ channel'[p1] = NoConn
    BY <2>1, <2>2 DEF c
  <2>7. \A d \in Conns : Abandoned(d)' \/ stage'[d] = "accepted" => wire'[d] = <<>>
    BY <2>1, <2>3, <2>4
  <2>8. \A q \in Clients : channel'[q] # NoConn /\ stage'[channel'[q]] = "accepted" =>
           ~view'[q].has
    BY <1>0, <2>1, <2>2
  <2> QED BY <2>5, <2>6, <2>7, <2>8
<1>6. ASSUME NEW p \in Clients, openFails(p) PROVE ChannelInv'
  <2>1. /\ UNCHANGED <<stage, wire, channel>> /\ timer'[p] /\ channel[p] = NoConn
        /\ \A q \in Clients : q # p => timer'[q] = timer[q] /\ view'[q] = view[q]
    BY <1>0, <1>6, OpenFailsSteps
  <2> QED BY <2>1 DEF Abandoned
<1>7. ASSUME NEW p \in Clients, Receive(p) PROVE ChannelInv'
  <2> DEFINE c == channel[p]
  <2>1. /\ c \in Conns /\ wire[c] # <<>> /\ UNCHANGED <<stage, channel, timer>>
        /\ \A d \in Conns : d # c => wire'[d] = wire[d]
        /\ \A q \in Clients : q # p => view'[q] = view[q]
    <3>1. /\ c # NoConn /\ wire[c] # <<>> /\ UNCHANGED <<stage, channel, timer>>
          /\ wire' = [wire EXCEPT ![c] = Tail(@)]
      BY <1>7, ReceiveSteps
    <3>2. \A q \in Clients : q # p => view'[q] = view[q]
      <4> DEFINE m == Head(wire[channel[p]])
      <4>1. \/ view' = view
            \/ view' = [view EXCEPT ![p] = [has |-> TRUE, gen |-> m.gen,
                                           nodes |-> log[m.place]]]
        BY <1>7, ReceiveSteps
      <4> HIDE DEF m
      <4> QED BY <1>0, <4>1 DEF TypeInv
    <3> QED BY <1>0, <3>1, <3>2 DEF TypeInv
  <2>2. ~Abandoned(c) /\ stage[c] # "accepted"
    BY <2>1
  <2> QED BY <2>1, <2>2 DEF Abandoned
<1>8. ASSUME NEW p \in Clients, ClientStep(p) \/ openFails(p) \/ SnapshotTimeout(p)
                                \/ forceReconnect(p)
      PROVE  ChannelInv'
  BY <1>0, <1>4, <1>5, <1>6, <1>7, <1>8, PageCases
<1>9. CASE Crash
  <2>1. /\ UNCHANGED <<wire, channel, timer, view>>
        /\ \A c \in Conns : stage'[c] = "free"
    BY <1>9, CrashFrame DEF Crash
  <2> QED BY <1>0, <2>1 DEF Abandoned
<1>10. CASE Restart
  BY <1>10, RestartFrame DEF Abandoned
<1> QED BY <1>1, <1>2, <1>3, <1>8, <1>9, <1>10 DEF Next

-----------------------------------------------------------------------------
\* The log only grows, by the cache as a commit or a restart leaves it.
LEMMA LogSteps ==
  ASSUME StreamInv, Next
  PROVE  \/ /\ UNCHANGED <<log, nodes>>
         \/ /\ log' = Append(log, nodes') /\ nodes' \in Rows
            /\ UNCHANGED <<wire, channel, view, at>>
<1>1. TypeInv
  BY DEF StreamInv
<1>2. ASSUME NEW r \in Refreshers, Commit(r), Changed(listed[r].cond) = {}
      PROVE  UNCHANGED <<log, nodes>>
  <2>1. nodes' = updatedNodes(listed[r].cond)
        /\ listed[r].cond \in [Nodes -> Conditions \cup {Gone}]
    BY <1>1, <1>2, CommitCache
  <2> QED BY <1>1, <1>2, <2>1, QuietListing DEF Commit, TypeInv, TypeOK
<1>3. ASSUME NEW r \in Refreshers, Commit(r), Changed(listed[r].cond) # {}
      PROVE  log' = Append(log, nodes') /\ nodes' \in Rows
  BY <1>1, <1>3, CommitCache DEF Commit
<1>4. ASSUME NEW r \in Refreshers, Commit(r)
      PROVE  UNCHANGED <<wire, channel, view, at>>
  BY <1>1, <1>4, CommitSteps
<1>5. CASE Restart
  BY <1>1, <1>5, RestartTypes, RestartFrame DEF Restart
<1> QED BY <1>2, <1>3, <1>4, <1>5, ClusterFrame, ConnFrame, PageFrame, CrashFrame DEF Next

LEMMA LogStep == ASSUME StreamInv, Next PROVE LogInv'
<1> USE DEF StreamInv, TypeInv, LogInv
<1>1. TypeInv /\ log \in Seq(Rows) /\ at \in [Clients -> Nat]
  OBVIOUS
<1>2. ASSUME UNCHANGED <<log, nodes, at>>,
             \A p \in Clients : /\ view'[p].nodes = view[p].nodes
                                /\ view'[p].has => view[p].has
      PROVE  LogInv'
  BY <1>2
<1>3. ASSUME UNCHANGED <<log, nodes, at, view>> PROVE LogInv'
  BY <1>3
<1>4. ASSUME log' = Append(log, nodes'), nodes' \in Rows, UNCHANGED <<view, at>>
      PROVE  LogInv'
  <2>1. /\ log' # <<>> /\ Len(log') = Len(log) + 1 /\ log'[Len(log')] = nodes'
        /\ \A i \in 1 .. Len(log) : log'[i] = log[i]
    BY <1>1, <1>4
  <2>2. \A p \in Clients : at[p] # 0 => at[p] \in 1 .. Len(log)
    BY <1>1
  <2> QED BY <1>1, <1>4, <2>1, <2>2
<1>5. ASSUME NEW p \in Clients, Receive(p) PROVE LogInv'
  <2> DEFINE m == Head(wire[channel[p]])
  <2>1. UNCHANGED <<log, nodes>>
    BY <1>5, PageFrame DEF ClientStep
  <2>2. CASE m.kind = "response"
    BY <1>3, <1>5, <2>1, <2>2, ReceiveSteps
  <2>3. CASE m.kind # "response"
    <3>1. /\ view' = [view EXCEPT ![p] = [has |-> TRUE, gen |-> m.gen,
                                          nodes |-> log[m.place]]]
          /\ at' = [at EXCEPT ![p] = m.place]
      BY <1>5, <2>3, ReceiveSteps
    <3>2. m.place \in 1 .. Len(log)
      BY <1>5, <2>3, ReceiveSteps, HeadApplies
    <3> HIDE DEF m
    <3>3. /\ view'[p].nodes = log[m.place] /\ at'[p] = m.place /\ m.place # 0
          /\ m.place <= Len(log)
      BY <1>1, <3>1, <3>2
    <3>4. \A q \in Clients : q # p => view'[q] = view[q] /\ at'[q] = at[q]
      BY <1>1, <3>1
    <3> QED BY <2>1, <3>3, <3>4
  <2> QED BY <2>2, <2>3
<1>6. ASSUME NEW p \in Clients, openChannel(p) \/ openFails(p) PROVE LogInv'
  <2>1. UNCHANGED <<log, nodes>>
    BY <1>6, PageFrame DEF ClientStep
  <2>2. UNCHANGED at /\ ~view'[p].has /\ view'[p].nodes = view[p].nodes
        /\ \A q \in Clients : q # p => view'[q] = view[q]
    BY <1>1, <1>6, OpenSteps, OpenFailsSteps
  <2> QED BY <1>2, <2>1, <2>2
<1>7. ASSUME NEW p \in Clients, GivesUp(p) PROVE LogInv'
  <2>1. UNCHANGED <<log, nodes, view, at>>
    BY <1>7 DEF GivesUp, cacheVars
  <2> QED BY <1>3, <2>1
<1>8. ASSUME NEW p \in Clients, ClientStep(p) \/ openFails(p) \/ SnapshotTimeout(p)
                                \/ forceReconnect(p)
      PROVE  LogInv'
  BY <1>1, <1>5, <1>6, <1>7, <1>8, PageCases
<1>9. CASE \E r \in Refreshers : Commit(r)
  <2>1. UNCHANGED <<view, at>>
    BY <1>1, <1>9, CommitSteps
  <2> QED BY <1>3, <1>4, <2>1, LogSteps
<1>10. CASE Restart
  BY <1>1, <1>4, <1>10, RestartTypes, RestartFrame DEF Restart
<1>11. CASE \/ \E n \in Nodes, cond \in Conditions \cup {Gone} : SlurmStep(n, cond)
            \/ \E r \in Refreshers : StartRefresh(r) \/ AbandonRefresh(r)
            \/ \E c \in Conns : ConnStep(c) \/ Respond(c)
            \/ Crash
  <2>1. UNCHANGED <<log, nodes, at, view>>
    BY <1>11, ClusterFrame, ConnFrame, CrashFrame
  <2> QED BY <1>3, <2>1
<1> QED BY <1>8, <1>9, <1>10, <1>11 DEF Next

-----------------------------------------------------------------------------
\* The messages that the service sends are true of the log.
LEMMA MessagesSound ==
  ASSUME TypeInv, LogInv
  PROVE  Snapshot \in Sound /\ Response \in Sound
<1>1. Snapshot \in Message /\ Response \in Message
  BY MessagesTyped
<1>2. Len(log) \in 1 .. Len(log) /\ log[Len(log)] = nodes
  BY DEF TypeInv, LogInv
<1>3. /\ Snapshot.kind = "snapshot" /\ Snapshot.place = Len(log) /\ Snapshot.rows = nodes
      /\ Response.kind = "response"
  BY DEF Snapshot, Response
<1> QED BY <1>1, <1>2, <1>3 DEF Sound

LEMMA BatchSound ==
  ASSUME TypeInv, LogInv, NEW r \in Refreshers, Commit(r), Changed(listed[r].cond) # {}
  PROVE  ChangeBatch(listed[r].cond) \in Sound'
<1> DEFINE cond == listed[r].cond
           m == ChangeBatch(cond)
<1>1. /\ cond \in [Nodes -> Conditions \cup {Gone}]
      /\ nodes' = updatedNodes(cond) /\ nodes' \in Rows
  BY CommitCache
<1>2. m \in Message /\ Leads(nodeChanges(cond), nodes, updatedNodes(cond))
  BY <1>1, MessagesTyped, BatchLeads, CacheAssumption DEF TypeInv, TypeOK
<1>3. /\ m.kind = "changes" /\ m.place = Len(log) + 1
      /\ m.changes = nodeChanges(cond)
  BY DEF ChangeBatch
<1>4. log' = Append(log, nodes') /\ log \in Seq(Rows) /\ log # <<>> /\ log[Len(log)] = nodes
  BY DEF Commit, TypeInv, LogInv
<1>5. /\ Len(log) \in Nat /\ Len(log) >= 1 /\ Len(log') = Len(log) + 1
      /\ log'[Len(log) + 1] = nodes' /\ log'[Len(log)] = nodes
  BY <1>1, <1>4
<1> HIDE DEF m, cond
<1>6. m.place \in 2 .. Len(log') /\ m.place - 1 = Len(log)
  BY <1>3, <1>5
<1>7. Leads(m.changes, log'[m.place - 1], log'[m.place])
  BY <1>1, <1>2, <1>3, <1>5, <1>6
<1>8. m \in Sound'
  BY <1>2, <1>3, <1>6, <1>7 DEF Sound
<1> QED BY <1>8 DEF m, cond

LEMMA MessageStep == ASSUME StreamInv, Next PROVE MessageInv'
<1> USE DEF MessageInv
<1>1. /\ TypeInv /\ LogInv /\ MessageInv /\ queue \in [Conns -> Seq(Message)]
      /\ wire \in [Conns -> Seq(Message)]
  BY DEF StreamInv, TypeInv
<1>2. Sound \subseteq Sound'
  <2>1. CASE UNCHANGED log
    BY <2>1 DEF Sound
  <2>2. CASE log' = Append(log, nodes') /\ nodes' \in Rows
    BY <1>1, <2>2, SoundGrows DEF TypeInv
  <2> QED BY <2>1, <2>2, LogSteps
<1>3. \A c \in Conns : queue[c] \in Seq(Sound') /\ wire[c] \in Seq(Sound')
  BY <1>1, <1>2, SeqMonotonic
<1> DEFINE S == Sound'
<1> HIDE DEF S
<1>4. \A c \in Conns : queue[c] \in Seq(S) /\ wire[c] \in Seq(S)
  BY <1>3 DEF S
<1>5. ASSUME \A c \in Conns : queue'[c] \in Seq(S) /\ wire'[c] \in Seq(S) PROVE MessageInv'
  BY <1>5 DEF S
<1>6. CASE \/ \E n \in Nodes, cond \in Conditions \cup {Gone} : SlurmStep(n, cond)
           \/ \E r \in Refreshers : StartRefresh(r) \/ AbandonRefresh(r)
           \/ Restart
  BY <1>4, <1>5, <1>6, ClusterFrame, RestartFrame
<1>7. ASSUME NEW r \in Refreshers, Commit(r) PROVE MessageInv'
  <2>1. UNCHANGED wire
    BY <1>1, <1>7, CommitSteps
  <2>2. CASE Changed(listed[r].cond) = {}
    BY <1>4, <1>5, <1>7, <2>1, <2>2 DEF Commit
  <2>3. CASE Changed(listed[r].cond) # {}
    <3> DEFINE m == ChangeBatch(listed[r].cond)
    <3>1. m \in S /\ m \in Message /\ Publish(m)
      BY <1>1, <1>7, <2>3, BatchSound, MessagesTyped, CommitCache DEF S, Commit
    <3> HIDE DEF m
    <3>2. \A c \in Conns : queue'[c] = queue[c] \/ queue'[c] = Append(queue[c], m)
      BY <1>1, <3>1, PublishTypes DEF TypeInv, TypeOK
    <3>3. ASSUME NEW c \in Conns PROVE queue'[c] \in Seq(S)
      <4>1. queue[c] \in Seq(S) /\ Append(queue[c], m) \in Seq(S)
        BY <1>4, <3>1
      <4> QED BY <3>2, <4>1
    <3> QED BY <1>4, <1>5, <2>1, <3>3
  <2> QED BY <2>2, <2>3
<1>8. ASSUME NEW c \in Conns, ConnStep(c) \/ Respond(c) PROVE MessageInv'
  <2>1. Snapshot \in S /\ Response \in S
    BY <1>1, <1>2, MessagesSound DEF S
  <2>2. \A d \in Conns : d # c => queue'[d] = queue[d] /\ wire'[d] = wire[d]
    BY <1>1, <1>8, ConnSteps
  <2>3. queue'[c] \in Seq(S) /\ wire'[c] \in Seq(S)
    <3>1. CASE SlowStep(c) \/ EncodeFails(c) \/ PeerGone(c)
      BY <1>4, <3>1 DEF SlowStep, EncodeFails, PeerGone
    <3>2. CASE Register(c)
      <4>1. queue'[c] = <<Snapshot>> /\ UNCHANGED wire
        BY <1>1, <3>2 DEF Register
      <4> QED BY <1>4, <2>1, <4>1
    <3>3. CASE Write(c)
      <4>1. /\ wire'[c] = Append(wire[c], Head(queue[c])) /\ queue'[c] = Tail(queue[c])
            /\ queue[c] # <<>>
        BY <1>1, <3>3 DEF Write
      <4>2. Head(queue[c]) \in S /\ Tail(queue[c]) \in Seq(S)
        BY <1>4, <4>1
      <4> QED BY <1>4, <4>1, <4>2
    <3>4. CASE EndConnection(c)
      BY <1>1, <1>4, <3>4 DEF EndConnection
    <3>5. CASE Respond(c)
      <4>1. queue'[c] = queue[c] \/ queue'[c] = Append(queue[c], Response)
        BY <1>1, <3>5 DEF Respond
      <4>2. UNCHANGED wire
        BY <3>5 DEF Respond
      <4>3. queue[c] \in Seq(S) /\ Append(queue[c], Response) \in Seq(S)
        BY <1>4, <2>1
      <4> QED BY <1>4, <4>1, <4>2, <4>3
    <3> QED BY <1>8, <3>1, <3>2, <3>3, <3>4, <3>5 DEF ConnStep
  <2> QED BY <1>4, <1>5, <2>2, <2>3
<1>9. ASSUME NEW p \in Clients, ClientStep(p) \/ openFails(p) \/ SnapshotTimeout(p)
                                \/ forceReconnect(p)
      PROVE  MessageInv'
  <2>1. UNCHANGED queue
    BY <1>9, PageFrame
  <2>2. CASE GivesUp(p)
    <3>1. \A c \in Conns : wire'[c] = <<>> \/ wire'[c] = wire[c]
      BY <1>1, <2>2 DEF GivesUp, closeCurrentChannel, Abandon
    <3>2. ASSUME NEW c \in Conns PROVE wire'[c] \in Seq(S)
      <4>1. wire[c] \in Seq(S) /\ <<>> \in Seq(S)
        BY <1>4
      <4> QED BY <3>1, <4>1
    <3> QED BY <1>4, <1>5, <2>1, <3>2
  <2>3. CASE openChannel(p) \/ openFails(p)
    BY <1>1, <1>4, <1>5, <2>1, <2>3, OpenSteps, OpenFailsSteps
  <2>4. CASE Receive(p)
    <3>1. wire' = [wire EXCEPT ![channel[p]] = Tail(@)] /\ wire[channel[p]] # <<>>
      BY <2>4, ReceiveSteps
    <3>2. \A c \in Conns : wire'[c] = wire[c] \/ (wire'[c] = Tail(wire[c]) /\ wire[c] # <<>>)
      BY <1>1, <3>1
    <3>3. ASSUME NEW c \in Conns PROVE wire'[c] \in Seq(S)
      <4>1. wire[c] \in Seq(S) /\ (wire[c] # <<>> => Tail(wire[c]) \in Seq(S))
        BY <1>4
      <4> QED BY <3>2, <4>1
    <3> QED BY <1>4, <1>5, <2>1, <3>3
  <2> QED BY <1>1, <1>9, <2>2, <2>3, <2>4, PageCases
<1>10. CASE Crash
  <2>1. \A c \in Conns : queue'[c] = <<>> /\ wire'[c] = wire[c]
    BY <1>10, CrashFrame DEF Crash
  <2>2. <<>> \in Seq(S)
    OBVIOUS
  <2> QED BY <1>4, <1>5, <2>1, <2>2
<1> QED BY <1>6, <1>7, <1>8, <1>9, <1>10 DEF Next

-----------------------------------------------------------------------------
\* What is on its way to a page, and what the steps make of it.
LEMMA PendingTyped ==
  ASSUME StreamInv, NEW c \in Conns
  PROVE  /\ wire[c] \in Seq(Message) /\ queue[c] \in Seq(Message)
         /\ Pending(c) \in Seq(Message)
         /\ \A i \in Events(Pending(c)) :
               /\ i \in 1 .. Len(Pending(c)) /\ Pending(c)[i] \in Message
               /\ Pending(c)[i].place \in Nat /\ Pending(c)[i].place <= Len(log)
<1> DEFINE s == Pending(c)
<1>1. /\ wire[c] \in Seq(Message) /\ queue[c] \in Seq(Message)
      /\ wire[c] \in Seq(Sound) /\ queue[c] \in Seq(Sound)
  BY DEF StreamInv, TypeInv, MessageInv
<1>2. s \in Seq(Message) /\ s \in Seq(Sound)
  BY <1>1 DEF Pending
<1> HIDE DEF s
<1>3. ASSUME NEW i \in Events(s)
      PROVE  /\ i \in 1 .. Len(s) /\ s[i] \in Message
             /\ s[i].place \in Nat /\ s[i].place <= Len(log)
  <2>1. i \in 1 .. Len(s) /\ s[i].kind # "response"
    BY DEF Events
  <2>2. s[i] \in Sound /\ s[i] \in Message
    BY <1>2, <2>1
  <2>3. s[i].kind \in {"snapshot", "changes", "response"} /\ s[i].place \in Nat
    BY <2>2 DEF Message
  <2>4. s[i].place <= Len(log)
    BY <2>1, <2>2, <2>3 DEF Sound
  <2> QED BY <2>1, <2>2, <2>3, <2>4
<1> QED BY <1>1, <1>2, <1>3 DEF s

LEMMA CurrentKept ==
  ASSUME NEW s \in Seq(Message), NEW m \in Message, NEW v, NEW a, Current(s, v, a)
  PROVE  Current(Append(s, m), v, a)
<1> DEFINE u == Append(s, m)
<1>1. \A i \in Events(s) : i \in Events(u) /\ u[i] = s[i]
  BY DEF Events
<1> HIDE DEF u
<1>2. Current(u, v, a)
  BY <1>1 DEF Current
<1> QED BY <1>2 DEF u

LEMMA CurrentDropResponse ==
  ASSUME NEW s \in Seq(Message), NEW v, NEW a, s # <<>>, Head(s).kind = "response",
         Current(s, v, a)
  PROVE  Current(Tail(s), v, a)
<1> DEFINE t == Tail(s)
<1>1. 1 \notin Events(s)
  BY DEF Events
<1>2. \A i \in Events(s) : i - 1 \in Events(t) /\ t[i - 1] = s[i]
  BY <1>1, TailEvents
<1> HIDE DEF t
<1>3. Current(t, v, a)
  BY <1>2 DEF Current
<1> QED BY <1>3 DEF t

LEMMA CurrentApply ==
  ASSUME NEW s \in Seq(Message), NEW v, NEW a \in Nat, NEW w \in View,
         s # <<>>, Head(s).kind # "response", Chain(s, v, a), Current(s, v, a),
         Len(log) \in Nat, Head(s).place \in Nat, Head(s).place <= Len(log),
         w.has, w.gen = Head(s).gen
  PROVE  Current(Tail(s), w, Head(s).place)
<1> DEFINE t == Tail(s)
<1>1. 1 \in Events(s) /\ s[1] = Head(s)
  BY DEF Events
<1>2. \A i \in Events(s) : i # 1 => i - 1 \in Events(t) /\ t[i - 1] = s[i]
  BY TailEvents
<1> HIDE DEF t
<1>3. ~(v.has /\ a = Len(log))
  BY <1>1 DEF Chain
<1>4. PICK i \in Events(s) : s[i].place = Len(log) /\ s[i].gen = generation
  BY <1>3 DEF Current
<1>5. CASE i = 1
  BY <1>1, <1>4, <1>5 DEF Current
<1>6. CASE i # 1
  BY <1>2, <1>4, <1>6 DEF Current, t
<1> QED BY <1>5, <1>6

\* A batch joins what is on its way on every stream that takes it, and follows it.
LEMMA PublishPending ==
  ASSUME StreamInv, NEW r \in Refreshers, Commit(r), Changed(listed[r].cond) # {},
         NEW p \in Clients, channel[p] # NoConn, NEW m, m = ChangeBatch(listed[r].cond)
  PROVE  /\ m \in Message /\ m.kind = "changes" /\ m.place = Len(log) + 1
         /\ m.gen = generation + 1 /\ generation' = generation + 1
         /\ Len(log') = Len(log) + 1
         /\ \/ /\ channel[p] \in streams' /\ stage[channel[p]] = "serving"
               /\ Pending(channel[p])' = Append(Pending(channel[p]), m)
            \/ /\ ~(channel[p] \in streams' /\ stage[channel[p]] = "serving")
               /\ Pending(channel[p])' = Pending(channel[p])
<1> DEFINE c == channel[p]
<1>1. TypeInv /\ c \in Conns /\ log \in Seq(Rows)
  BY DEF StreamInv, TypeInv, TypeOK
<1>2. m \in Message /\ Publish(m)
  BY <1>1, CommitCache, MessagesTyped DEF Commit
<1>3. m.kind = "changes" /\ m.place = Len(log) + 1 /\ m.gen = generation + 1
  BY DEF ChangeBatch
<1>4. generation' = generation + 1 /\ log' = Append(log, nodes') /\ nodes' \in Rows
  BY <1>1, CommitCache DEF Commit, RefreshCommits, replaceSnapshot
<1>5. Len(log') = Len(log) + 1
  BY <1>1, <1>4
<1>6. UNCHANGED <<wire, channel>>
  BY <1>1, CommitSteps
<1>7. wire[c] \in Seq(Message) /\ queue[c] \in Seq(Message)
  BY <1>1, PendingTyped
<1>8. CASE c \in streams' /\ stage[c] = "serving"
  <2>1. queue'[c] = Append(queue[c], m)
    BY <1>1, <1>2, <1>8, PublishTypes
  <2>2. Pending(c)' = wire[c] \o Append(queue[c], m)
    BY <1>6, <2>1 DEF Pending
  <2>3. wire[c] \o Append(queue[c], m) = Append(wire[c] \o queue[c], m)
    <3>1. \A s, t \in Seq(Message) : \A e \in Message :
             s \o Append(t, e) = Append(s \o t, e)
      BY ConcatAppend
    <3> QED BY <1>2, <1>7, <3>1, Zenon
  <2>4. Pending(c)' = Append(Pending(c), m)
    BY <2>2, <2>3 DEF Pending
  <2> QED BY <1>2, <1>3, <1>4, <1>5, <1>8, <2>4
<1>9. CASE ~(c \in streams' /\ stage[c] = "serving")
  <2>1. queue'[c] = queue[c]
    BY <1>1, <1>2, <1>9, PublishTypes
  <2>2. Pending(c)' = Pending(c)
    BY <1>6, <2>1 DEF Pending
  <2> QED BY <1>2, <1>3, <1>4, <1>5, <1>9, <2>2
<1> QED BY <1>8, <1>9

\* A step of a connection, seen by the page that has it as its channel.
LEMMA ConnPending ==
  ASSUME StreamInv, NEW c \in Conns, ConnStep(c) \/ Respond(c)
  PROVE  \/ /\ Pending(c)' = Pending(c)
            /\ c \in streams' /\ stage'[c] = "serving" => c \in streams /\ stage[c] = "serving"
         \/ /\ Pending(c)' = Append(Pending(c), Response)
            /\ c \in streams' /\ stage'[c] = "serving" => c \in streams /\ stage[c] = "serving"
         \/ stage[c] = "accepted" /\ Pending(c)' = <<Snapshot>>
         \/ Pending(c)' = wire[c] /\ c \notin streams'
<1>1. /\ wire[c] \in Seq(Message) /\ queue[c] \in Seq(Message)
      /\ wire \in [Conns -> Seq(Message)] /\ queue \in [Conns -> Seq(Message)]
      /\ stage \in [Conns -> Stage]
  BY PendingTyped DEF StreamInv, TypeInv, TypeOK
<1>2. CASE SlowStep(c) \/ EncodeFails(c) \/ PeerGone(c)
  <2>1. UNCHANGED <<wire, queue, streams>> /\ stage'[c] = "closing"
    BY <1>1, <1>2 DEF SlowStep, CloseSlow, EncodeFails, PeerGone, CloseConnection
  <2> QED BY <2>1 DEF Pending
<1>3. CASE Register(c)
  <2>1. queue'[c] = <<Snapshot>> /\ UNCHANGED wire /\ stage[c] = "accepted"
    BY <1>1, <1>3 DEF Register
  <2>2. wire[c] = <<>>
    BY <2>1 DEF StreamInv, ChannelInv
  <2>3. Pending(c)' = <<>> \o <<Snapshot>>
    BY <2>1, <2>2 DEF Pending
  <2>4. Snapshot \in Message
    BY MessagesTyped DEF StreamInv
  <2>5. <<>> \o <<Snapshot>> = <<Snapshot>>
    <3> HIDE DEF Snapshot
    <3> QED BY <2>4
  <2> QED BY <2>1, <2>2, <2>3, <2>5
<1>4. CASE Write(c)
  <2>1. /\ wire'[c] = Append(wire[c], Head(queue[c])) /\ queue'[c] = Tail(queue[c])
        /\ queue[c] # <<>> /\ UNCHANGED <<streams, stage>>
    BY <1>1, <1>4 DEF Write
  <2>2. Pending(c)' = Append(wire[c], Head(queue[c])) \o Tail(queue[c])
    BY <2>1 DEF Pending
  <2> QED BY <1>1, <2>1, <2>2, MoveHead DEF Pending
<1>5. CASE EndConnection(c)
  <2>1. queue'[c] = <<>> /\ UNCHANGED wire /\ c \notin streams'
    BY <1>1, <1>5 DEF EndConnection
  <2>2. Pending(c)' = wire[c] \o <<>>
    BY <2>1 DEF Pending
  <2> QED BY <1>1, <2>1, <2>2
<1>6. CASE Respond(c)
  <2>1. UNCHANGED <<streams, wire>> /\ stage[c] = "serving"
    BY <1>6 DEF Respond
  <2>2. queue'[c] = queue[c] \/ queue'[c] = Append(queue[c], Response)
    BY <1>1, <1>6 DEF Respond
  <2>3. Response \in Message
    BY MessagesTyped DEF StreamInv
  <2>4. CASE queue'[c] = queue[c]
    BY <2>1, <2>4 DEF Pending
  <2>5. CASE queue'[c] = Append(queue[c], Response)
    <3>1. Pending(c)' = wire[c] \o Append(queue[c], Response)
      BY <2>1, <2>5 DEF Pending
    <3>2. wire[c] \o Append(queue[c], Response) = Append(wire[c] \o queue[c], Response)
      BY <1>1, <2>3, ConcatAppend
    <3> QED BY <2>1, <3>1, <3>2 DEF Pending
  <2> QED BY <2>2, <2>4, <2>5
<1> QED BY <1>2, <1>3, <1>4, <1>5, <1>6, ConnStep(c) \/ Respond(c) DEF ConnStep

\* A reading page takes the first of what is on its way, and leaves what is on
\* its way to the other pages.
LEMMA ReceivePending ==
  ASSUME StreamInv, NEW p \in Clients, Receive(p), NEW s, s = Pending(channel[p])
  PROVE  /\ s \in Seq(Message) /\ s # <<>> /\ Head(s) = Head(wire[channel[p]])
         /\ Pending(channel[p])' = Tail(s)
         /\ \A q \in Clients : q # p /\ channel[q] # NoConn =>
               /\ Pending(channel[q])' = Pending(channel[q])
               /\ view'[q] = view[q] /\ at'[q] = at[q]
<1> DEFINE c == channel[p]
           m == Head(wire[c])
<1>1. /\ c \in Conns /\ wire[c] # <<>> /\ wire' = [wire EXCEPT ![c] = Tail(@)]
      /\ UNCHANGED <<queue, channel>>
  BY ReceiveSteps, PageFrame DEF ClientStep, StreamInv, TypeInv, TypeOK
<1>2. /\ wire[c] \in Seq(Message) /\ queue[c] \in Seq(Message) /\ s \in Seq(Message)
      /\ wire \in [Conns -> Seq(Message)]
  BY <1>1, PendingTyped DEF StreamInv, TypeInv
<1>3. s # <<>> /\ Head(s) = m /\ Tail(s) = Tail(wire[c]) \o queue[c]
  BY <1>1, <1>2, TailOfConcat DEF Pending
<1>4. Pending(c)' = Tail(s)
  BY <1>1, <1>2, <1>3 DEF Pending
<1>5. ASSUME NEW q \in Clients, q # p, channel[q] # NoConn
      PROVE  Pending(channel[q])' = Pending(channel[q])
  <2>1. channel[q] # c /\ channel[q] \in Conns
    BY <1>5 DEF StreamInv, ChannelInv, TypeInv, TypeOK
  <2>2. wire'[channel[q]] = wire[channel[q]]
    BY <1>1, <1>2, <2>1
  <2> QED BY <1>1, <2>2 DEF Pending
<1>6. ASSUME NEW q \in Clients, q # p PROVE view'[q] = view[q] /\ at'[q] = at[q]
  <2>1. \/ UNCHANGED <<view, at>>
        \/ /\ view' = [view EXCEPT ![p] = [has |-> TRUE, gen |-> m.gen,
                                           nodes |-> log[m.place]]]
           /\ at' = [at EXCEPT ![p] = m.place]
    BY ReceiveSteps
  <2> HIDE DEF m
  <2> QED BY <1>6, <2>1 DEF StreamInv, TypeInv
<1> QED BY <1>2, <1>3, <1>4, <1>5, <1>6

-----------------------------------------------------------------------------
\* What is on its way to a page stays a chain that starts where the page is.
LEMMA ChainStep == ASSUME StreamInv, Next PROVE ChainInv'
<1>1. /\ TypeInv /\ NoConn \notin Conns /\ channel \in [Clients -> Conns \cup {NoConn}]
      /\ \A p \in Clients : view[p] \in View /\ at[p] \in Nat
  BY StreamAssumption DEF StreamInv, TypeInv, TypeOK
<1>2. \A p \in Clients : channel[p] # NoConn => Chain(Pending(channel[p]), view[p], at[p])
  BY DEF StreamInv, ChainInv
<1>3. ASSUME UNCHANGED <<wire, queue, channel, view, at>> PROVE ChainInv'
  BY <1>2, <1>3 DEF ChainInv, Pending
<1>4. CASE \/ \E n \in Nodes, cond \in Conditions \cup {Gone} : SlurmStep(n, cond)
           \/ \E r \in Refreshers : StartRefresh(r) \/ AbandonRefresh(r)
           \/ Restart
  BY <1>3, <1>4, ClusterFrame, RestartFrame
<1>5. ASSUME NEW r \in Refreshers, Commit(r) PROVE ChainInv'
  <2>1. UNCHANGED <<wire, channel, view, at>>
    BY <1>1, <1>5, CommitSteps
  <2>2. CASE Changed(listed[r].cond) = {}
    BY <1>3, <1>5, <2>1, <2>2 DEF Commit
  <2>3. CASE Changed(listed[r].cond) # {}
    <3>1. ASSUME NEW p \in Clients, channel[p] # NoConn
          PROVE  Chain(Pending(channel[p])', view[p], at[p])
      <4> DEFINE c == channel[p]
                 s == Pending(c)
                 m == ChangeBatch(listed[r].cond)
      <4>1. CASE Pending(c)' = s
        BY <1>2, <3>1, <4>1
      <4>2. CASE c \in streams' /\ stage[c] = "serving" /\ Pending(c)' = Append(s, m)
        <5>1. /\ m \in Message /\ m.kind = "changes" /\ m.place = Len(log) + 1
              /\ m.gen = generation + 1
          BY <1>5, <2>3, <3>1, PublishPending
        <5>2. c \in Conns /\ c \in streams
          BY <1>1, <1>5, <3>1, <4>2, CommitSteps
        <5>3. /\ s \in Seq(Message) /\ Len(log) \in Nat
              /\ \A i \in Events(s) : s[i].place \in Nat /\ s[i].place <= Len(log)
          BY <5>2, PendingTyped DEF StreamInv, TypeInv
        <5>4. Current(s, view[p], at[p]) /\ at[p] <= Len(log)
          BY <4>2, <5>2 DEF StreamInv, CurrentInv, LogInv
        <5>5. Chain(s, view[p], at[p])
          BY <1>2, <3>1
        <5> HIDE DEF s, m
        <5>6. \/ view[p].has /\ m.place = at[p] + 1 /\ m.gen = view[p].gen + 1
              \/ \E j \in Events(s) : m.place = s[j].place + 1 /\ m.gen = s[j].gen + 1
          BY <5>1, <5>4 DEF Current
        <5>7. \A i \in Events(s) : s[i].place < m.place
          BY <5>1, <5>3
        <5>8. at[p] < m.place
          BY <1>1, <5>1, <5>3, <5>4
        <5>9. Chain(Append(s, m), view[p], at[p])
          BY <1>1, <5>1, <5>3, <5>5, <5>6, <5>7, <5>8, ChainAppendChanges
        <5> QED BY <4>2, <5>9
      <4> QED BY <1>5, <2>3, <3>1, <4>1, <4>2, PublishPending
    <3> QED BY <2>1, <3>1 DEF ChainInv, Pending
  <2> QED BY <2>2, <2>3
<1>6. ASSUME NEW c \in Conns, ConnStep(c) \/ Respond(c) PROVE ChainInv'
  <2>1. UNCHANGED <<channel, view, at>>
    BY <1>6, ConnFrame
  <2>2. ASSUME NEW p \in Clients, channel[p] # NoConn
        PROVE  Chain(Pending(channel[p])', view[p], at[p])
    <3> DEFINE s == Pending(c)
    <3>1. CASE channel[p] # c
      <4>1. Pending(channel[p])' = Pending(channel[p])
        BY <1>1, <1>6, <2>1, <2>2, <3>1, ConnSteps DEF Pending
      <4> QED BY <1>2, <2>2, <4>1
    <3>2. CASE channel[p] = c
      <4>1. Chain(s, view[p], at[p]) /\ s \in Seq(Message)
        BY <1>2, <2>2, <3>2, PendingTyped
      <4>2. CASE Pending(c)' = s
        BY <2>1, <3>2, <4>1, <4>2
      <4>3. CASE Pending(c)' = Append(s, Response)
        <5>1. Response \in Message /\ Response.kind = "response"
          BY <1>1, MessagesTyped DEF Response
        <5>2. Chain(Append(s, Response), view[p], at[p])
          BY <1>1, <4>1, <5>1, ChainAppendResponse
        <5> QED BY <2>1, <3>2, <4>3, <5>2
      <4>4. CASE stage[c] = "accepted" /\ Pending(c)' = <<Snapshot>>
        <5>1. Snapshot \in Message /\ Snapshot.kind = "snapshot" /\ Snapshot.place = Len(log)
          BY <1>1, MessagesTyped DEF Snapshot
        <5>2. ~view[p].has /\ at[p] <= Len(log)
          BY <2>2, <3>2, <4>4 DEF StreamInv, ChannelInv, LogInv
        <5> HIDE DEF Snapshot
        <5>3. Chain(<<Snapshot>>, view[p], at[p])
          BY <1>1, <5>1, <5>2, ChainBaseline
        <5> QED BY <2>1, <3>2, <4>4, <5>3
      <4>5. CASE Pending(c)' = wire[c]
        <5>1. wire[c] \in Seq(Message) /\ queue[c] \in Seq(Message)
          BY PendingTyped
        <5>2. Chain(wire[c], view[p], at[p])
          BY <1>1, <4>1, <5>1, ChainPrefix DEF Pending
        <5> QED BY <2>1, <3>2, <4>5, <5>2
      <4> QED BY <1>6, <4>2, <4>3, <4>4, <4>5, ConnPending
    <3> QED BY <3>1, <3>2
  <2> QED BY <2>1, <2>2 DEF ChainInv, Pending
<1>7. ASSUME NEW p \in Clients, ClientStep(p) \/ openFails(p) \/ SnapshotTimeout(p)
                                \/ forceReconnect(p)
      PROVE  ChainInv'
  <2>1. UNCHANGED queue
    BY <1>7, PageFrame
  <2>2. CASE GivesUp(p)
    <3>1. /\ UNCHANGED <<view, at>> /\ channel'[p] = NoConn
          /\ \A q \in Clients : q # p =>
               /\ channel'[q] = channel[q]
               /\ channel[q] # NoConn => wire'[channel[q]] = wire[channel[q]]
      BY <1>1, <2>2, GivesUpSteps DEF StreamInv
    <3> QED BY <1>2, <2>1, <3>1 DEF ChainInv, Pending
  <2>3. CASE openChannel(p)
    <3> DEFINE c == channel'[p]
    <3>1. /\ UNCHANGED <<wire, at>> /\ c \in Conns /\ Abandoned(c) /\ stage[c] = "free"
          /\ \A q \in Clients : q # p => channel'[q] = channel[q] /\ view'[q] = view[q]
      BY <1>1, <2>3, OpenSteps
    <3>2. wire[c] = <<>> /\ queue[c] = <<>>
      BY <3>1 DEF StreamInv, ChannelInv, ServeInv
    <3>3. wire'[c] \o queue'[c] = <<>>
      BY <2>1, <3>1, <3>2
    <3>4. Chain(Pending(channel[p])', view'[p], at'[p])
      BY <3>3, ChainEmpty DEF Pending
    <3>5. ASSUME NEW q \in Clients, q # p, channel[q] # NoConn
          PROVE  Chain(Pending(channel[q])', view'[q], at'[q])
      <4>1. Pending(channel[q])' = Pending(channel[q])
        BY <2>1, <3>1, <3>5 DEF Pending
      <4> QED BY <1>2, <3>1, <3>5, <4>1
    <3> QED BY <3>1, <3>4, <3>5 DEF ChainInv
  <2>4. CASE openFails(p)
    <3>1. /\ UNCHANGED <<wire, channel, at>> /\ channel[p] = NoConn
          /\ \A q \in Clients : q # p => view'[q] = view[q]
      BY <1>1, <2>4, OpenFailsSteps
    <3> QED BY <1>2, <2>1, <3>1 DEF ChainInv, Pending
  <2>5. CASE Receive(p)
    <3> DEFINE s == Pending(channel[p])
               m == Head(wire[channel[p]])
    <3>1. UNCHANGED channel /\ channel[p] # NoConn
      BY <2>5, ReceiveSteps
    <3>2. s \in Seq(Message) /\ s # <<>> /\ Head(s) = m /\ Pending(channel[p])' = Tail(s)
      BY <2>5, ReceivePending
    <3>3. Chain(s, view[p], at[p])
      BY <1>2, <3>1
    <3>4. Chain(Tail(s), view'[p], at'[p])
      <4>1. CASE m.kind = "response"
        <5>1. UNCHANGED <<view, at>>
          BY <2>5, <4>1, ReceiveSteps
        <5> QED BY <1>1, <3>2, <3>3, <4>1, <5>1, ChainDropResponse
      <4>2. CASE m.kind # "response"
        <5>1. /\ view' = [view EXCEPT ![p] = [has |-> TRUE, gen |-> m.gen,
                                              nodes |-> log[m.place]]]
              /\ at' = [at EXCEPT ![p] = m.place]
          BY <2>5, <4>2, ReceiveSteps
        <5>2. view' \in [Clients -> View]
          BY <2>5, ReceiveTypes DEF TypeInv
        <5> HIDE DEF m, s
        <5>3. view'[p] \in View /\ view'[p].has /\ view'[p].gen = m.gen /\ at'[p] = m.place
          BY <5>1, <5>2, <1>1 DEF TypeInv
        <5> QED BY <1>1, <3>2, <3>3, <4>2, <5>3, ChainApply
      <4> QED BY <4>1, <4>2
    <3>5. ASSUME NEW q \in Clients, q # p, channel[q] # NoConn
          PROVE  Chain(Pending(channel[q])', view'[q], at'[q])
      BY <1>2, <2>5, <3>5, ReceivePending
    <3> QED BY <3>1, <3>2, <3>4, <3>5 DEF ChainInv
  <2> QED BY <1>1, <1>7, <2>2, <2>3, <2>4, <2>5, PageCases
<1>8. CASE Crash
  <2>1. UNCHANGED <<wire, channel, view, at>> /\ \A c \in Conns : queue'[c] = <<>>
    BY <1>8, CrashFrame DEF Crash
  <2>2. ASSUME NEW p \in Clients, channel[p] # NoConn
        PROVE  Chain(Pending(channel[p])', view[p], at[p])
    <3> DEFINE c == channel[p]
    <3>1. c \in Conns /\ wire[c] \in Seq(Message) /\ queue[c] \in Seq(Message)
      BY <1>1, <2>2, PendingTyped
    <3>2. Chain(wire[c], view[p], at[p])
      BY <1>1, <1>2, <2>2, <3>1, ChainPrefix DEF Pending
    <3>3. Pending(c)' = wire[c] \o <<>>
      BY <2>1, <3>1 DEF Pending
    <3>4. wire[c] \o <<>> = wire[c]
      BY <3>1
    <3> QED BY <3>2, <3>3, <3>4
  <2> QED BY <2>1, <2>2 DEF ChainInv, Pending
<1> QED BY <1>4, <1>5, <1>6, <1>7, <1>8 DEF Next

\* A subscribed page's chain ends in the cache as it is.
LEMMA CurrentStep == ASSUME StreamInv, Next PROVE CurrentInv'
<1> DEFINE Subscribed(p) == channel[p] \in streams /\ stage[channel[p]] = "serving"
<1>1. /\ TypeInv /\ NoConn \notin Conns /\ channel \in [Clients -> Conns \cup {NoConn}]
      /\ streams \subseteq Conns /\ log \in Seq(Rows)
      /\ \A p \in Clients : view[p] \in View /\ at[p] \in Nat
  BY StreamAssumption DEF StreamInv, TypeInv, TypeOK
<1>2. \A p \in Clients : Subscribed(p) => Current(Pending(channel[p]), view[p], at[p])
  BY DEF StreamInv, CurrentInv
<1>3. ASSUME UNCHANGED <<wire, queue, channel, view, at, log, generation, streams, stage>>
      PROVE  CurrentInv'
  BY <1>2, <1>3 DEF CurrentInv, Pending, Current
<1>4. CASE \/ \E n \in Nodes, cond \in Conditions \cup {Gone} : SlurmStep(n, cond)
           \/ \E r \in Refreshers : StartRefresh(r) \/ AbandonRefresh(r)
  BY <1>3, <1>4, ClusterFrame
<1>5. ASSUME NEW r \in Refreshers, Commit(r) PROVE CurrentInv'
  <2>1. UNCHANGED <<wire, channel, view, at, stage>>
    BY <1>1, <1>5, CommitSteps
  <2>2. CASE Changed(listed[r].cond) = {}
    BY <1>3, <1>5, <2>1, <2>2 DEF Commit, RefreshCommits, replaceSnapshot
  <2>3. CASE Changed(listed[r].cond) # {}
    <3>1. ASSUME NEW p \in Clients, channel[p] \in streams', stage[channel[p]] = "serving"
          PROVE  Current(Pending(channel[p]), view[p], at[p])'
      <4> DEFINE s == Pending(channel[p])
                 m == ChangeBatch(listed[r].cond)
                 u == Append(s, m)
      <4>1. channel[p] \in Conns /\ channel[p] # NoConn /\ s \in Seq(Message)
        BY <1>1, <1>5, <3>1, CommitSteps, PendingTyped
      <4>2. /\ m \in Message /\ m.kind = "changes" /\ m.place = Len(log')
            /\ m.gen = generation' /\ Pending(channel[p])' = u
        BY <1>5, <2>3, <3>1, <4>1, PublishPending
      <4> HIDE DEF s, m
      <4>3. Len(s) + 1 \in Events(u) /\ u[Len(s) + 1] = m
        BY <4>1, <4>2 DEF Events
      <4> QED BY <4>2, <4>3 DEF Current
    <3> QED BY <2>1, <3>1 DEF CurrentInv
  <2> QED BY <2>2, <2>3
<1>6. ASSUME NEW c \in Conns, ConnStep(c) \/ Respond(c) PROVE CurrentInv'
  <2>1. UNCHANGED <<channel, view, at, log, generation>>
    BY <1>6, ConnFrame
  <2>2. ASSUME NEW p \in Clients, channel[p] \in streams', stage'[channel[p]] = "serving"
        PROVE  Current(Pending(channel[p])', view[p], at[p])
    <3> DEFINE s == Pending(c)
    <3>1. CASE channel[p] # c
      <4>1. channel[p] \in Conns
        BY <1>1, <1>6, <2>2, ConnTypes DEF TypeInv, TypeOK
      <4>2. Subscribed(p) /\ Pending(channel[p])' = Pending(channel[p])
        BY <1>1, <1>6, <2>1, <2>2, <3>1, <4>1, ConnSteps DEF Pending
      <4> QED BY <1>2, <4>2
    <3>2. CASE channel[p] = c
      <4>1. s \in Seq(Message)
        BY PendingTyped
      <4>2. CASE Subscribed(p) /\ Pending(c)' = s
        BY <1>2, <2>1, <3>2, <4>2
      <4>3. CASE Subscribed(p) /\ Pending(c)' = Append(s, Response)
        <5>1. Response \in Message
          BY <1>1, MessagesTyped
        <5>2. Current(Append(s, Response), view[p], at[p])
          BY <1>2, <3>2, <4>1, <4>3, <5>1, CurrentKept
        <5> QED BY <2>1, <3>2, <4>3, <5>2
      <4>4. CASE Pending(c)' = <<Snapshot>>
        <5>1. Snapshot.kind # "response" /\ Snapshot.place = Len(log)
              /\ Snapshot.gen = generation
          BY DEF Snapshot
        <5> HIDE DEF Snapshot
        <5>2. 1 \in Events(<<Snapshot>>) /\ <<Snapshot>>[1] = Snapshot
          BY <5>1 DEF Events
        <5>3. Current(<<Snapshot>>, view[p], at[p])
          BY <5>1, <5>2 DEF Current
        <5> QED BY <2>1, <3>2, <4>4, <5>3
      <4> QED BY <1>6, <2>2, <3>2, <4>2, <4>3, <4>4, ConnPending
    <3> QED BY <3>1, <3>2
  <2> QED BY <2>1, <2>2 DEF CurrentInv, Current
<1>7. ASSUME NEW p \in Clients, ClientStep(p) \/ openFails(p) \/ SnapshotTimeout(p)
                                \/ forceReconnect(p)
      PROVE  CurrentInv'
  <2>1. UNCHANGED <<queue, log, generation, streams>>
    BY <1>7, PageFrame
  <2>2. CASE GivesUp(p)
    <3>1. /\ UNCHANGED <<view, at, stage>> /\ channel'[p] = NoConn
          /\ \A q \in Clients : q # p =>
               /\ channel'[q] = channel[q]
               /\ channel[q] # NoConn => wire'[channel[q]] = wire[channel[q]]
      BY <1>1, <2>2, GivesUpSteps DEF StreamInv
    <3>2. ASSUME NEW q \in Clients, channel'[q] \in streams, stage[channel'[q]] = "serving"
          PROVE  Current(Pending(channel[q])', view[q], at[q])
      <4>1. q # p /\ channel'[q] = channel[q] /\ channel[q] # NoConn
        BY <1>1, <3>1, <3>2
      <4>2. Pending(channel[q])' = Pending(channel[q])
        BY <2>1, <3>1, <4>1 DEF Pending
      <4> QED BY <1>2, <3>2, <4>1, <4>2
    <3> QED BY <2>1, <3>1, <3>2 DEF CurrentInv, Current
  <2>3. CASE openChannel(p)
    <3> DEFINE c == channel'[p]
    <3>1. /\ UNCHANGED <<wire, at>> /\ c \in Conns /\ Abandoned(c) /\ stage'[c] # "serving"
          /\ \A d \in Conns : d # c => stage'[d] = stage[d]
          /\ \A q \in Clients : q # p => channel'[q] = channel[q] /\ view'[q] = view[q]
      BY <1>1, <2>3, OpenSteps
    <3>2. ASSUME NEW q \in Clients, channel'[q] \in streams, stage'[channel'[q]] = "serving"
          PROVE  Current(Pending(channel[q])', view'[q], at'[q])
      <4>1. q # p /\ channel'[q] = channel[q] /\ channel[q] # c /\ channel[q] \in Conns
        BY <1>1, <3>1, <3>2 DEF Abandoned
      <4>2. Pending(channel[q])' = Pending(channel[q]) /\ Subscribed(q)
        BY <2>1, <3>1, <3>2, <4>1 DEF Pending
      <4> QED BY <1>2, <3>1, <4>1, <4>2
    <3> QED BY <2>1, <3>2 DEF CurrentInv, Current
  <2>4. CASE openFails(p)
    <3>1. /\ UNCHANGED <<wire, channel, at, stage>> /\ channel[p] = NoConn
          /\ \A q \in Clients : q # p => view'[q] = view[q]
      BY <1>1, <2>4, OpenFailsSteps
    <3>2. ASSUME NEW q \in Clients, Subscribed(q)
          PROVE  Current(Pending(channel[q])', view'[q], at'[q])
      <4>1. q # p
        BY <1>1, <3>1, <3>2
      <4>2. Pending(channel[q])' = Pending(channel[q])
        BY <2>1, <3>1 DEF Pending
      <4> QED BY <1>2, <3>1, <3>2, <4>1, <4>2
    <3> QED BY <2>1, <3>1, <3>2 DEF CurrentInv, Current
  <2>5. CASE Receive(p)
    <3> DEFINE s == Pending(channel[p])
               m == Head(wire[channel[p]])
    <3>1. UNCHANGED <<channel, stage>> /\ channel[p] # NoConn /\ wire[channel[p]] # <<>>
      BY <2>5, ReceiveSteps
    <3>2. s \in Seq(Message) /\ s # <<>> /\ Head(s) = m /\ Pending(channel[p])' = Tail(s)
      BY <2>5, ReceivePending
    <3>3. ASSUME Subscribed(p) PROVE Current(Tail(s), view'[p], at'[p])
      <4>1. Current(s, view[p], at[p]) /\ Chain(s, view[p], at[p])
        BY <1>2, <3>1, <3>3 DEF StreamInv, ChainInv
      <4>2. CASE m.kind = "response"
        <5>1. UNCHANGED <<view, at>>
          BY <2>5, <4>2, ReceiveSteps
        <5> QED BY <3>2, <4>1, <4>2, <5>1, CurrentDropResponse
      <4>3. CASE m.kind # "response"
        <5>1. /\ view' = [view EXCEPT ![p] = [has |-> TRUE, gen |-> m.gen,
                                              nodes |-> log[m.place]]]
              /\ at' = [at EXCEPT ![p] = m.place]
          BY <2>5, <4>3, ReceiveSteps
        <5>2. view' \in [Clients -> View]
          BY <2>5, ReceiveTypes DEF TypeInv
        <5>3. m.place \in 1 .. Len(log)
          BY <3>1, <4>3, HeadApplies
        <5> HIDE DEF m, s
        <5>4. view'[p] \in View /\ view'[p].has /\ view'[p].gen = m.gen /\ at'[p] = m.place
          BY <5>1, <5>2, <1>1 DEF TypeInv
        <5>5. m.place \in Nat /\ m.place <= Len(log) /\ Len(log) \in Nat
          BY <1>1, <5>3
        <5> QED BY <1>1, <3>2, <4>1, <4>3, <5>4, <5>5, CurrentApply
      <4> QED BY <4>2, <4>3
    <3>4. ASSUME NEW q \in Clients, q # p, Subscribed(q)
          PROVE  Current(Pending(channel[q])', view'[q], at'[q])
      <4>1. channel[q] # NoConn
        BY <1>1, <3>4
      <4> QED BY <1>2, <2>5, <3>4, <4>1, ReceivePending
    <3> QED BY <2>1, <3>1, <3>2, <3>3, <3>4 DEF CurrentInv, Current
  <2> QED BY <1>1, <1>7, <2>2, <2>3, <2>4, <2>5, PageCases
<1>8. CASE Crash
  BY <1>8 DEF Crash, CurrentInv
<1>9. CASE Restart
  <2>1. ~up /\ UNCHANGED <<stage, streams, channel>>
    BY <1>9, RestartFrame DEF Restart
  <2>2. \A p \in Clients : ~Subscribed(p)
    BY <1>1, <2>1 DEF StreamInv, ServeInv
  <2> QED BY <2>1, <2>2 DEF CurrentInv
<1> QED BY <1>4, <1>5, <1>6, <1>7, <1>8, <1>9 DEF Next

-----------------------------------------------------------------------------
\* The invariant holds at the start, and every step keeps it.
LEMMA InitInv == ASSUME Init PROVE StreamInv
<1>1. TypeInv
  BY InitTypes
<1>2. RefreshInv
  BY DEF Init, CacheInit, RefreshInv
<1>3. ServeInv
  BY DEF Init, ServeInv
<1>4. ChannelInv
  BY StreamAssumption DEF Init, ChannelInv, ChannelOrTimer
<1>5. LogInv
  <2>1. log = <<nodes>> /\ nodes \in Rows
    BY <1>1 DEF Init, TypeInv, TypeOK, CacheTypeOK
  <2>2. log # <<>> /\ Len(log) = 1 /\ log[Len(log)] = nodes
    BY <2>1
  <2>3. \A p \in Clients : at[p] = 0 /\ ~view[p].has /\ view[p].nodes = NoNodes
    BY DEF Init, NoView
  <2> QED BY <2>2, <2>3 DEF LogInv
<1>6. MessageInv
  <2>1. <<>> \in Seq(Sound)
    OBVIOUS
  <2> QED BY <2>1 DEF Init, MessageInv
<1>7. ChainInv /\ CurrentInv
  BY DEF Init, ChainInv, CurrentInv
<1> QED BY <1>1, <1>2, <1>3, <1>4, <1>5, <1>6, <1>7 DEF StreamInv

LEMMA StreamStep == ASSUME StreamInv, [Next]_vars PROVE StreamInv'
<1>1. CASE Next
  BY <1>1, TypeStep, RefreshStep, ServeStep, ChannelStep, LogStep, MessageStep, ChainStep,
     CurrentStep DEF StreamInv
<1>2. CASE UNCHANGED vars
  <2> USE <1>2 DEF StreamInv, vars
  <2>1. TypeInv'
    BY DEF TypeInv, TypeOK, CacheTypeOK
  <2>2. RefreshInv'
    BY DEF RefreshInv
  <2>3. ServeInv'
    BY DEF ServeInv
  <2>4. ChannelInv'
    BY DEF ChannelInv, ChannelOrTimer, Abandoned
  <2>5. LogInv'
    BY DEF LogInv
  <2>6. MessageInv'
    BY DEF MessageInv, Sound
  <2>7. ChainInv'
    BY DEF ChainInv, Pending
  <2>8. CurrentInv'
    BY DEF CurrentInv, Pending, Current
  <2> QED BY <2>1, <2>2, <2>3, <2>4, <2>5, <2>6, <2>7, <2>8
<1> QED BY <1>1, <1>2

\* The inductive invariant of the node stream.
LEMMA StreamInvariant == Spec => []StreamInv
BY InitInv, StreamStep, PTL DEF Spec

\* Every variable of the cache, the registry, the connections and the pages
\* keeps its type, and no outbound queue or socket ever exceeds its capacity.
THEOREM TypeCorrect == Spec => []TypeOK
<1>1. StreamInv => TypeOK
  BY DEF StreamInv, TypeInv
<1> QED BY <1>1, StreamInvariant, PTL

\* applyNodeStreamMessage never throws: no page ever finds a second baseline, a
\* change before the baseline, a generation gap, an added node that it has or
\* an updated node that it lacks, whatever was cut, lost or restarted.
THEOREM StreamIsNeverBroken == Spec => []StreamNeverBreaks
<1>1. StreamInv => StreamNeverBreaks
  BY HeadApplies DEF StreamNeverBreaks
<1> QED BY <1>1, StreamInvariant, PTL

\* A page whose stream is registered and served shows the cache as it is once it
\* has applied what is on its way: Publish never skips a stream that it keeps.
THEOREM NothingIsMissed == Spec => []NothingMissed
<1>1. ASSUME StreamInv PROVE NothingMissed
  <2>1. SUFFICES ASSUME NEW p \in Clients,
                        channel[p] \in streams, stage[channel[p]] = "serving",
                        NEW s, s = Pending(channel[p])
                 PROVE  /\ Events(s) = {} =>
                             view[p] = [has |-> TRUE, gen |-> generation, nodes |-> nodes]
                        /\ \A i \in Events(s) : (\A j \in Events(s) : j <= i) =>
                             s[i].gen = generation /\ log[s[i].place] = nodes
    BY DEF NothingMissed
  <2>2. /\ channel[p] \in Conns /\ channel[p] # NoConn
        /\ view[p] \in View /\ at[p] \in Nat /\ log \in Seq(Rows)
    BY <1>1, <2>1, StreamAssumption DEF StreamInv, TypeInv, TypeOK
  <2>3. Current(s, view[p], at[p]) /\ Chain(s, view[p], at[p])
    BY <1>1, <2>1, <2>2 DEF StreamInv, CurrentInv, ChainInv
  <2>4. \A i \in Events(s) : i \in Nat /\ s[i].place \in Nat /\ s[i].place <= Len(log)
    BY <1>1, <2>1, <2>2, PendingTyped
  <2>5. log # <<>> /\ log[Len(log)] = nodes /\ Len(log) \in Nat /\ Len(log) # 0
    BY <1>1, <2>2 DEF StreamInv, LogInv
  <2>6. ASSUME Events(s) = {}
        PROVE  view[p] = [has |-> TRUE, gen |-> generation, nodes |-> nodes]
    <3>1. view[p].has /\ at[p] = Len(log) /\ view[p].gen = generation
      BY <2>3, <2>6 DEF Current
    <3>2. view[p].nodes = nodes
      BY <1>1, <2>5, <3>1 DEF StreamInv, LogInv
    <3> QED BY <2>2, <3>1, <3>2 DEF View
  <2>7. ASSUME NEW i \in Events(s), \A j \in Events(s) : j <= i
        PROVE  s[i].gen = generation /\ log[s[i].place] = nodes
    <3>1. ~(view[p].has /\ at[p] = Len(log))
      BY <2>2, <2>3, <2>4, <2>5 DEF Chain
    <3>2. PICK j \in Events(s) : s[j].place = Len(log) /\ s[j].gen = generation
      BY <2>3, <3>1 DEF Current
    <3>3. ~(j < i)
      BY <2>3, <2>4, <2>5, <3>2 DEF Chain
    <3>4. i = j
      BY <2>4, <2>7, <3>3
    <3> QED BY <2>5, <3>2, <3>4
  <2> QED BY <2>6, <2>7
<1> QED BY <1>1, StreamInvariant, PTL

\* A page always has a channel or a running reconnect timer, and never both.
THEOREM PagesKeepTrying == Spec => []ChannelOrTimer
<1>1. StreamInv => ChannelOrTimer
  BY DEF StreamInv, ChannelInv
<1> QED BY <1>1, StreamInvariant, PTL

\* The registry never holds the stream of a connection that has ended.
THEOREM StreamsDoNotLeak == Spec => []NoStreamLeaks
<1>1. StreamInv => NoStreamLeaks
  BY DEF StreamInv, ServeInv, NoStreamLeaks
<1> QED BY <1>1, StreamInvariant, PTL

\* Refreshes commit in the order in which they listed, restarts included.
THEOREM RefreshesCommitInOrder == Spec => CommitsInOrder
<1>1. ASSUME StreamInv, [Next]_vars PROVE [committed' >= committed]_vars
  <2>1. committed \in Nat /\ version \in Nat /\ TypeInv
    BY <1>1 DEF StreamInv, TypeInv, TypeOK, CacheTypeOK
  <2>2. ASSUME UNCHANGED committed PROVE committed' >= committed
    BY <2>1, <2>2
  <2>3. ASSUME NEW r \in Refreshers, Commit(r) PROVE committed' >= committed
    <3>1. /\ committed' = listed[r].version /\ listed[r].version \in Nat
          /\ listed[r] # NoListing
      BY <2>1, <2>3, CommitCache DEF Commit, RefreshCommits
    <3>2. committed <= listed[r].version
      BY <1>1, <3>1 DEF StreamInv, RefreshInv
    <3> QED BY <2>1, <3>1, <3>2
  <2>4. CASE Restart
    BY <1>1, <2>1, <2>4 DEF Restart, CacheRestart, StreamInv, RefreshInv
  <2> QED BY <1>1, <2>2, <2>3, <2>4, ClusterFrame, ConnFrame, PageFrame, CrashFrame DEF Next
<1> QED BY <1>1, StreamInvariant, PTL DEF Spec, CommitsInOrder

\* Publish cuts a stream only because its own queue is full or its own connection
\* is ending, and nothing else cuts one while the service runs.
THEOREM OtherStreamsAreKept == Spec => OnlySlowStreamsAreCut
<1> DEFINE Cut == \A c \in streams \ streams' : stage[c] = "closing" \/ ~HasRoom(c) \/ ~up'
<1>1. ASSUME StreamInv, [Next]_vars PROVE [Cut]_vars
  <2>1. TypeInv
    BY <1>1 DEF StreamInv
  <2>2. ASSUME streams \subseteq streams' PROVE Cut
    BY <2>2
  <2>3. ASSUME NEW r \in Refreshers, Commit(r) PROVE Cut
    BY <2>1, <2>3, CommitSteps
  <2>4. ASSUME NEW c \in Conns, ConnStep(c) \/ Respond(c) PROVE Cut
    BY <2>4 DEF ConnStep, SlowStep, Register, Write, EncodeFails, PeerGone, EndConnection, Respond
  <2>5. CASE Crash
    BY <2>5 DEF Crash
  <2> QED BY <1>1, <2>2, <2>3, <2>4, <2>5, ClusterFrame, PageFrame, RestartFrame DEF Next
<1> QED BY <1>1, StreamInvariant, PTL DEF Spec, OnlySlowStreamsAreCut

-----------------------------------------------------------------------------
\* Only a page that reads an event comes to show something else, and that is a
\* state of the log that is not older than the one it showed.
LEMMA ShownSteps ==
  ASSUME StreamInv, Next
  PROVE  \/ UNCHANGED at /\ \A q \in Clients : view'[q].nodes = view[q].nodes
         \/ /\ UNCHANGED log
            /\ \E p \in Clients : \E i \in 1 .. Len(log) :
                  /\ i >= at[p] /\ at' = [at EXCEPT ![p] = i] /\ view'[p].nodes = log[i]
                  /\ \A q \in Clients : q # p => view'[q].nodes = view[q].nodes
<1> DEFINE Same == UNCHANGED at /\ \A q \in Clients : view'[q].nodes = view[q].nodes
<1>1. TypeInv /\ ChannelInv /\ view \in [Clients -> View] /\ at \in [Clients -> Nat]
  BY DEF StreamInv, TypeInv
<1>2. ASSUME UNCHANGED <<view, at>> PROVE Same
  BY <1>2
<1>3. ASSUME NEW p \in Clients, GivesUp(p) PROVE Same
  BY <1>3 DEF GivesUp
<1>4. ASSUME NEW p \in Clients, openChannel(p) \/ openFails(p) PROVE Same
  <2>1. /\ UNCHANGED at /\ view'[p].nodes = view[p].nodes
        /\ \A q \in Clients : q # p => view'[q] = view[q]
    BY <1>1, <1>4, OpenSteps, OpenFailsSteps
  <2> QED BY <2>1
<1>5. ASSUME NEW p \in Clients, Receive(p), ~Same
      PROVE  /\ UNCHANGED log
             /\ \E i \in 1 .. Len(log) :
                  /\ i >= at[p] /\ at' = [at EXCEPT ![p] = i] /\ view'[p].nodes = log[i]
                  /\ \A q \in Clients : q # p => view'[q].nodes = view[q].nodes
  <2> DEFINE m == Head(wire[channel[p]])
  <2>1. m.kind # "response"
    BY <1>2, <1>5, ReceiveSteps
  <2>2. /\ view' = [view EXCEPT ![p] = [has |-> TRUE, gen |-> m.gen, nodes |-> log[m.place]]]
        /\ at' = [at EXCEPT ![p] = m.place]
    BY <1>5, <2>1, ReceiveSteps
  <2>3. m.place \in 1 .. Len(log) /\ at[p] <= m.place
    BY <1>5, <2>1, ReceiveSteps, HeadApplies
  <2>4. UNCHANGED log
    BY <1>5, PageFrame DEF ClientStep
  <2> HIDE DEF m
  <2>5. view'[p].nodes = log[m.place] /\ \A q \in Clients : q # p => view'[q] = view[q]
    BY <1>1, <2>2
  <2>6. m.place >= at[p]
    BY <1>1, <2>3
  <2> QED BY <2>2, <2>3, <2>4, <2>5, <2>6
<1>6. ASSUME NEW p \in Clients, ~Same,
             ClientStep(p) \/ openFails(p) \/ SnapshotTimeout(p) \/ forceReconnect(p)
      PROVE  Receive(p)
  BY <1>1, <1>3, <1>4, <1>6, PageCases
<1>7. CASE \E p \in Clients : ClientStep(p) \/ openFails(p) \/ SnapshotTimeout(p)
                              \/ forceReconnect(p)
  BY <1>5, <1>6, <1>7
<1>8. CASE \/ \E n \in Nodes, cond \in Conditions \cup {Gone} : SlurmStep(n, cond)
           \/ \E r \in Refreshers : StartRefresh(r) \/ AbandonRefresh(r) \/ Commit(r)
           \/ \E c \in Conns : ConnStep(c) \/ Respond(c)
           \/ Crash \/ Restart
  <2>1. UNCHANGED <<view, at>>
    BY <1>1, <1>8, ClusterFrame, CommitSteps, ConnFrame, CrashFrame, RestartFrame
  <2> QED BY <1>2, <2>1
<1> QED BY <1>7, <1>8 DEF Next

\* The node stream implements NodeFeed: whatever is cut, lost, reordered by a
\* reconnect or restarted, every page shows exactly one state that the cache
\* has had, never a mixture of two, and never goes back to an older one.
THEOREM StreamImplementsFeed == Spec => PagesFollowFeed
<1> DEFINE shown == [p \in Clients |-> view[p].nodes]
<1>1. ASSUME Init PROVE Feed!Init
  <2>1. log = <<nodes>> /\ nodes \in Rows
    BY <1>1, InitTypes DEF Init, TypeInv, TypeOK, CacheTypeOK
  <2>2. Len(log) = 1 /\ log[1] \in Rows
    BY <2>1
  <2>3. shown = [p \in Clients |-> NoNodes]
    BY <1>1 DEF Init, NoView
  <2> QED BY <1>1, <2>2, <2>3 DEF Feed!Init, Init
<1>2. ASSUME StreamInv, [Next]_vars PROVE [Feed!Next]_Feed!vars
  <2>1. CASE UNCHANGED vars
    BY <2>1 DEF vars, Feed!vars
  <2>2. CASE Next /\ ~UNCHANGED log
    <3>1. log' = Append(log, nodes') /\ nodes' \in Rows /\ UNCHANGED <<view, at>>
      BY <1>2, <2>2, LogSteps
    <3>2. log \in Seq(Rows)
      BY <1>2 DEF StreamInv, TypeInv
    <3>3. Len(log') = Len(log) + 1 /\ log'[Len(log')] = nodes'
      BY <3>1, <3>2
    <3>4. UNCHANGED shown
      BY <3>1
    <3>5. Feed!Commit
      BY <3>1, <3>3, <3>4 DEF Feed!Commit
    <3> QED BY <3>5 DEF Feed!Next
  <2>3. CASE Next /\ UNCHANGED log
    <3>1. CASE UNCHANGED at /\ \A q \in Clients : view'[q].nodes = view[q].nodes
      <4>1. UNCHANGED shown
        BY <3>1
      <4> QED BY <2>3, <3>1, <4>1 DEF Feed!vars
    <3>2. ASSUME NEW p \in Clients, NEW i \in 1 .. Len(log),
                 i >= at[p], at' = [at EXCEPT ![p] = i], view'[p].nodes = log[i],
                 \A q \in Clients : q # p => view'[q].nodes = view[q].nodes
          PROVE  Feed!Show(p)
      <4>1. shown' = [shown EXCEPT ![p] = log[i]]
        BY <3>2
      <4> QED BY <2>3, <3>2, <4>1 DEF Feed!Show
    <3> QED BY <1>2, <2>3, <3>1, <3>2, ShownSteps DEF Feed!Next
  <2> QED BY <1>2, <2>1, <2>2, <2>3
<1> QED BY <1>1, <1>2, StreamInvariant, PTL DEF Spec, PagesFollowFeed, Feed!Spec

=============================================================================
