-------------------------- MODULE RealtimeProofs --------------------------
(***************************************************************************)
(* Proofs about Realtime for any channels, any places for sockets and any  *)
(* number of events and faults: a channel sends what its page publishes in *)
(* order and once.  That needs that two channels never share a socket and  *)
(* that nothing waits while a socket is open.                              *)
(***************************************************************************)
EXTENDS Realtime, SequenceTheorems, FiniteSetTheorems, TLAPS

USE RealtimeAssumption

BrowserStates == {"unused", "connecting", "open", "closing", "closed"}

ChannelTypes ==
  /\ ws \in [Channels -> Sockets \cup {NoSocket}]
  /\ closed \in [Channels -> BOOLEAN] /\ timer \in [Channels -> BOOLEAN]
  /\ queue \in [Channels -> Seq(Nat)] /\ sent \in [Channels -> Seq(Nat)]
  /\ published \in [Channels -> Nat] /\ shown \in [Channels -> Nat]

SocketTypes ==
  /\ browser \in [Sockets -> BrowserStates]
  /\ server \in [Sockets -> {"none", "open", "gone"}]
  /\ line \in [Sockets -> BOOLEAN]
  /\ up \in [Sockets -> Nat] /\ down \in [Sockets -> Seq(Nat)]
  /\ behind \in SUBSET Sockets

CountTypes == recount \in Nat /\ pushed \in Nat /\ faults \in Nat

RealtimeTypeOK == ChannelTypes /\ SocketTypes /\ CountTypes

\* A socket belongs to the channel that dialled it.
OwnSockets ==
  \A c, d \in Channels : ws[c] = ws[d] /\ ws[c] # NoSocket => c = d

\* onopen empties the queue, and publish fills it only while no socket is open.
NothingWaits == \A c \in Channels : IsOpen(c) => queue[c] = <<>>

\* Inductive.
RealtimeInv ==
  RealtimeTypeOK /\ OwnSockets /\ NothingWaits /\ PublishedInOrder

-----------------------------------------------------------------------------
(* Helpers.                                                                *)

\* One more number at the end of 1 .. n, however the sequence is cut in two.
LEMMA CountOneMore ==
  ASSUME NEW n \in Nat, NEW s \in Seq(Nat), NEW q \in Seq(Nat),
         s \o q = [i \in 1 .. n |-> i]
  PROVE  s \o Append(q, n + 1) = [i \in 1 .. n + 1 |-> i]
<1> DEFINE a == Append(q, n + 1)
           t == [i \in 1 .. n + 1 |-> i]
<1>1. a \in Seq(Nat) /\ Len(a) = Len(q) + 1 /\ a[Len(q) + 1] = n + 1
  OBVIOUS
<1>2. \A i \in 1 .. Len(q) : a[i] = q[i] OBVIOUS
<1>3. t \in Seq(Nat) /\ Len(t) = n + 1 OBVIOUS
<1> HIDE DEF a
<1>4. Len(s) \in Nat /\ Len(q) \in Nat OBVIOUS
<1>5. Len(s) + Len(q) = n
  <2>1. Len(s \o q) = Len(s) + Len(q) BY ConcatProperties
  <2> QED BY <2>1
<1>6. /\ s \o a \in Seq(Nat)
      /\ Len(s \o a) = n + 1
      /\ \A i \in 1 .. n + 1 : (s \o a)[i] = IF i <= Len(s) THEN s[i] ELSE a[i - Len(s)]
  BY <1>1, <1>4, <1>5, ConcatProperties
<1>7. \A i \in 1 .. n : (IF i <= Len(s) THEN s[i] ELSE q[i - Len(s)]) = i
  <2>1. \A i \in 1 .. n : (s \o q)[i] = IF i <= Len(s) THEN s[i] ELSE q[i - Len(s)]
    <3>1. \A i \in 1 .. Len(s) + Len(q) :
            (s \o q)[i] = IF i <= Len(s) THEN s[i] ELSE q[i - Len(s)]
      BY ConcatProperties
    <3> QED BY <3>1, <1>5
  <2>2. \A i \in 1 .. n : (s \o q)[i] = i OBVIOUS
  <2> QED BY <2>1, <2>2
<1>8. ASSUME NEW i \in 1 .. n + 1 PROVE (s \o a)[i] = i
  <2>1. CASE i <= Len(s) BY <2>1, <1>4, <1>5, <1>6, <1>7
  <2>2. CASE i > Len(s) /\ i <= n
    <3>1. i - Len(s) \in 1 .. Len(q) BY <2>2, <1>4, <1>5
    <3>2. a[i - Len(s)] = q[i - Len(s)] BY <3>1, <1>2
    <3>3. (s \o a)[i] = a[i - Len(s)] BY <2>2, <1>4, <1>6
    <3>4. q[i - Len(s)] = i BY <2>2, <1>4, <1>7
    <3> QED BY <3>2, <3>3, <3>4
  <2>3. CASE i = n + 1
    <3>1. i - Len(s) = Len(q) + 1 /\ ~(i <= Len(s)) BY <2>3, <1>4, <1>5
    <3> QED BY <2>3, <3>1, <1>1, <1>6
  <2>4. i <= Len(s) \/ (i > Len(s) /\ i <= n) \/ i = n + 1 BY <1>4
  <2> QED BY <2>1, <2>2, <2>3, <2>4
<1>9. \A i \in 1 .. n + 1 : t[i] = i OBVIOUS
<1> HIDE DEF t
<1>10. s \o a = t BY <1>3, <1>6, <1>8, <1>9, SeqEqual
<1> QED BY <1>10 DEF a, t

\* How many of the sockets are in a set is a number.
LEMMA CountIsNat == ASSUME NEW all \in SUBSET Sockets PROVE Cardinality(all) \in Nat
BY FS_Subset, FS_CardinalityType

\* A broadcast gives sockets frames, and counts those it drops.
LEMMA BroadcastTypes ==
  ASSUME RealtimeTypeOK, NEW frame \in Nat, NEW to \in SUBSET Sockets, Broadcast(frame, to)
  PROVE  /\ down' \in [Sockets -> Seq(Nat)] /\ behind' \in SUBSET Sockets
         /\ faults' \in Nat
<1>1. PICK full \in SUBSET {s \in to : Reachable(s) /\ down[s] # <<>>} :
        /\ faults' = faults + Cardinality(full)
        /\ down' = [s \in Sockets |->
                      IF s \in to \ full /\ Reachable(s) THEN Append(down[s], frame) ELSE down[s]]
        /\ behind' = IF frame = 0 THEN behind ELSE (behind \ to) \cup full
  BY DEF Broadcast
<1>2. \A s \in Sockets :
        down[s] \in Seq(Nat) /\ Append(down[s], frame) \in Seq(Nat)
  BY DEF RealtimeTypeOK, SocketTypes
<1>3. Cardinality(full) \in Nat
  <2>1. full \in SUBSET Sockets OBVIOUS
  <2>2. QED BY <2>1, CountIsNat
<1>4. faults' \in Nat BY <1>1, <1>3 DEF RealtimeTypeOK, CountTypes
<1>5. down' \in [Sockets -> Seq(Nat)] BY <1>1, <1>2
<1>6. behind' \in SUBSET Sockets
  BY <1>1 DEF RealtimeTypeOK, SocketTypes
<1>7. QED BY <1>4, <1>5, <1>6

\* What a step of the server leaves alone.
LEMMA ServerSteps ==
  ASSUME RealtimeInv, UNCHANGED channelVars, UNCHANGED browser
  PROVE  ChannelTypes' /\ OwnSockets' /\ NothingWaits' /\ PublishedInOrder'
BY DEF RealtimeInv, RealtimeTypeOK, ChannelTypes, OwnSockets, NothingWaits, PublishedInOrder,
       channelVars, IsOpen

\* A dialled socket takes a free place, and there is nothing left on it.
LEMMA DialTakesFree ==
  ASSUME RealtimeInv, NEW c \in Channels, Dial(c),
         UNCHANGED <<queue, up, down, behind>>
  PROVE  /\ ws' \in [Channels -> Sockets \cup {NoSocket}]
         /\ browser' \in [Sockets -> BrowserStates]
         /\ server' \in [Sockets -> {"none", "open", "gone"}]
         /\ line' \in [Sockets -> BOOLEAN]
         /\ OwnSockets' /\ NothingWaits'
<1> DEFINE s == CHOOSE s \in Free(c) : TRUE
<1>1. s \in Free(c) BY DEF Dial
<1>2. /\ s \in Sockets /\ browser[s] \in {"unused", "closed"}
      /\ \A d \in Channels \ {c} : ws[d] # s
  BY <1>1 DEF Free
<1>3. /\ ws' = [ws EXCEPT ![c] = s]
      /\ browser' = [browser EXCEPT ![s] = "connecting"]
      /\ server' = [server EXCEPT ![s] = "none"]
      /\ line' = [line EXCEPT ![s] = TRUE]
  BY DEF Dial
<1> HIDE DEF s
<1>4. /\ ws' \in [Channels -> Sockets \cup {NoSocket}]
      /\ browser' \in [Sockets -> BrowserStates]
      /\ server' \in [Sockets -> {"none", "open", "gone"}]
      /\ line' \in [Sockets -> BOOLEAN]
  BY <1>2, <1>3 DEF RealtimeInv, RealtimeTypeOK, ChannelTypes, SocketTypes, BrowserStates
<1>5. OwnSockets'
  BY <1>2, <1>3 DEF RealtimeInv, RealtimeTypeOK, ChannelTypes, OwnSockets
<1>6. NothingWaits'
  <2> SUFFICES ASSUME NEW d \in Channels, IsOpen(d)' PROVE queue'[d] = <<>>
    BY DEF NothingWaits
  <2>1. d # c
    BY <1>2, <1>3 DEF IsOpen, RealtimeInv, RealtimeTypeOK, ChannelTypes, SocketTypes
  <2>2. IsOpen(d)
    BY <2>1, <1>2, <1>3 DEF IsOpen, RealtimeInv, RealtimeTypeOK, ChannelTypes, SocketTypes
  <2> QED BY <2>2 DEF RealtimeInv, NothingWaits
<1> QED BY <1>4, <1>5, <1>6
-----------------------------------------------------------------------------
(* The steps of a channel.                                                 *)

\* Both ways to dial.
LEMMA DialStep ==
  ASSUME RealtimeInv, NEW c \in Channels, Subscribe(c) \/ Redial(c)
  PROVE  RealtimeInv'
<1>1. UNCHANGED <<closed, queue, published, sent, shown, up, down, behind, recount, pushed, faults>>
  BY DEF Subscribe, Redial
<1>2. timer' \in [Channels -> BOOLEAN]
  BY DEF Subscribe, Redial, RealtimeInv, RealtimeTypeOK, ChannelTypes
<1>3. PublishedInOrder' BY <1>1 DEF RealtimeInv, PublishedInOrder
<1>4. CASE Dial(c)
  <2>1. /\ ws' \in [Channels -> Sockets \cup {NoSocket}]
        /\ browser' \in [Sockets -> BrowserStates]
        /\ server' \in [Sockets -> {"none", "open", "gone"}]
        /\ line' \in [Sockets -> BOOLEAN]
        /\ OwnSockets' /\ NothingWaits'
    BY <1>1, <1>4, DialTakesFree
  <2> QED BY <1>1, <1>2, <1>3, <2>1
          DEF RealtimeInv, RealtimeTypeOK, ChannelTypes, SocketTypes, CountTypes
<1>5. CASE UNCHANGED <<ws, browser, server, line>>
  BY <1>1, <1>2, <1>3, <1>5
     DEF RealtimeInv, RealtimeTypeOK, ChannelTypes, SocketTypes, CountTypes, OwnSockets,
         NothingWaits, IsOpen
<1> QED BY <1>4, <1>5 DEF Subscribe, Redial

\* What waited goes out behind what was sent before.
LEMMA OpenedStep ==
  ASSUME RealtimeInv, NEW c \in Channels, Opened(c)
  PROVE  RealtimeInv'
<1> DEFINE s == ws[c]
<1>1. /\ s \in Sockets /\ browser[s] = "connecting" /\ line[s]
      /\ browser' = [browser EXCEPT ![s] = "open"]
      /\ sent' = [sent EXCEPT ![c] = @ \o queue[c]]
      /\ up' = [up EXCEPT ![s] = IF line[s] THEN @ + Len(queue[c]) ELSE @]
      /\ queue' = [queue EXCEPT ![c] = <<>>]
      /\ UNCHANGED <<ws, closed, timer, published, shown, server, line, down, behind,
                     recount, pushed, faults>>
  BY DEF Opened, Transmit, RealtimeInv, RealtimeTypeOK, ChannelTypes
<1> HIDE DEF s
<1>2. /\ \A d \in Channels : queue[d] \in Seq(Nat) /\ sent[d] \in Seq(Nat)
      /\ queue \in [Channels -> Seq(Nat)] /\ sent \in [Channels -> Seq(Nat)]
  BY DEF RealtimeInv, RealtimeTypeOK, ChannelTypes
<1>3. <<>> \in Seq(Nat) OBVIOUS
<1>4. sent[c] \o queue[c] \in Seq(Nat) BY <1>2, ConcatProperties
<1>5. ChannelTypes'
  BY <1>1, <1>2, <1>3, <1>4 DEF RealtimeInv, RealtimeTypeOK, ChannelTypes
<1>6. SocketTypes'
  <2>1. Len(queue[c]) \in Nat BY <1>2, LenProperties
  <2>2. up' \in [Sockets -> Nat]
    BY <1>1, <2>1 DEF RealtimeInv, RealtimeTypeOK, SocketTypes
  <2> QED BY <1>1, <2>2 DEF RealtimeInv, RealtimeTypeOK, SocketTypes, BrowserStates
<1>7. CountTypes' /\ OwnSockets'
  BY <1>1 DEF RealtimeInv, RealtimeTypeOK, CountTypes, OwnSockets
<1>8. NothingWaits'
  <2> SUFFICES ASSUME NEW d \in Channels, IsOpen(d)' PROVE queue'[d] = <<>>
    BY DEF NothingWaits
  <2>1. CASE d = c BY <2>1, <1>1, <1>2
  <2>2. CASE d # c
    <3>1. ws[d] # s
      BY <2>2, <1>1 DEF s, RealtimeInv, OwnSockets
    <3>2. IsOpen(d)
      BY <3>1, <1>1 DEF IsOpen, RealtimeInv, RealtimeTypeOK, SocketTypes, ChannelTypes
    <3>3. queue'[d] = queue[d] BY <2>2, <1>1, <1>2
    <3> QED BY <3>2, <3>3 DEF RealtimeInv, NothingWaits
  <2> QED BY <2>1, <2>2
<1>9. PublishedInOrder'
  <2> SUFFICES ASSUME NEW d \in Channels
               PROVE  sent'[d] \o queue'[d] = [i \in 1 .. published[d] |-> i]
    BY <1>1 DEF PublishedInOrder
  <2>1. sent[d] \o queue[d] = [i \in 1 .. published[d] |-> i]
    BY DEF RealtimeInv, PublishedInOrder
  <2>2. CASE d = c
    <3>1. sent'[d] = sent[c] \o queue[c] /\ queue'[d] = <<>> BY <2>2, <1>1, <1>2
    <3>2. (sent[c] \o queue[c]) \o <<>> = sent[c] \o queue[c]
      BY <1>4, ConcatEmptySeq
    <3> QED BY <2>1, <2>2, <3>1, <3>2
  <2>3. CASE d # c
    <3>1. sent'[d] = sent[d] /\ queue'[d] = queue[d] BY <2>3, <1>1, <1>2
    <3> QED BY <2>1, <3>1
  <2> QED BY <2>2, <2>3
<1> QED BY <1>5, <1>6, <1>7, <1>8, <1>9 DEF RealtimeInv, RealtimeTypeOK

\* An event goes out at once or to the end of the queue.
LEMMA PublishStep ==
  ASSUME RealtimeInv, NEW c \in Channels, Publish(c)
  PROVE  RealtimeInv'
<1> DEFINE n == published[c]
<1>1. n \in Nat /\ queue[c] \in Seq(Nat) /\ sent[c] \in Seq(Nat)
  BY DEF RealtimeInv, RealtimeTypeOK, ChannelTypes
<1>2. sent[c] \o queue[c] = [i \in 1 .. n |-> i]
  BY DEF RealtimeInv, PublishedInOrder
<1>3. /\ published' = [published EXCEPT ![c] = n + 1]
      /\ UNCHANGED <<ws, closed, timer, shown, browser, server, line, down, behind,
                     recount, pushed, faults>>
  BY DEF Publish
<1>4. sent[c] \o Append(queue[c], n + 1) = [i \in 1 .. n + 1 |-> i]
  BY <1>1, <1>2, CountOneMore
<1> HIDE DEF n
<1>5. ASSUME \A d \in Channels \ {c} : sent'[d] = sent[d] /\ queue'[d] = queue[d],
             sent'[c] \o queue'[c] = [i \in 1 .. n + 1 |-> i]
      PROVE  PublishedInOrder'
  <2> SUFFICES ASSUME NEW d \in Channels
               PROVE  sent'[d] \o queue'[d] = [i \in 1 .. published'[d] |-> i]
    BY DEF PublishedInOrder
  <2>1. CASE d = c
    <3>1. published'[c] = n + 1 BY <1>3 DEF RealtimeInv, RealtimeTypeOK, ChannelTypes
    <3> QED BY <2>1, <3>1, <1>5
  <2>2. CASE d # c
    <3>1. published'[d] = published[d]
      BY <2>2, <1>3 DEF RealtimeInv, RealtimeTypeOK, ChannelTypes
    <3> QED BY <2>2, <3>1, <1>5 DEF RealtimeInv, PublishedInOrder
  <2> QED BY <2>1, <2>2
<1>6. published' \in [Channels -> Nat]
  BY <1>1, <1>3 DEF RealtimeInv, RealtimeTypeOK, ChannelTypes
<1>7. CountTypes' /\ OwnSockets'
  BY <1>3 DEF RealtimeInv, RealtimeTypeOK, CountTypes, OwnSockets
<1>8. CASE IsOpen(c)
  <2>1. /\ sent' = [sent EXCEPT ![c] = @ \o <<n + 1>>] /\ queue' = queue
        /\ up' = [up EXCEPT ![ws[c]] = IF line[ws[c]] THEN @ + Len(<<n + 1>>) ELSE @]
    BY <1>8 DEF Publish, Transmit, n
  <2>2. queue[c] = <<>> BY <1>8 DEF RealtimeInv, NothingWaits
  <2>3. <<n + 1>> \in Seq(Nat) /\ Append(<<>>, n + 1) = <<n + 1>> /\ Len(<<n + 1>>) = 1
    BY <1>1
  <2>4. sent[c] \o <<n + 1>> \in Seq(Nat) BY <1>1, <2>3, ConcatProperties
  <2>5. ChannelTypes'
    BY <1>3, <1>6, <2>1, <2>4 DEF RealtimeInv, RealtimeTypeOK, ChannelTypes
  <2>6. SocketTypes'
    <3>1. up' = [up EXCEPT ![ws[c]] = IF line[ws[c]] THEN @ + 1 ELSE @]
      <4> DEFINE k == Len(<<n + 1>>)
      <4>1. k = 1 BY <2>3
      <4>2. up' = [up EXCEPT ![ws[c]] = IF line[ws[c]] THEN @ + k ELSE @] BY <2>1
      <4> HIDE DEF k
      <4> QED BY <4>1, <4>2
    <3>2. up' \in [Sockets -> Nat]
      <4>1. /\ up \in [Sockets -> Nat] /\ line \in [Sockets -> BOOLEAN]
            /\ ws[c] \in Sockets
        BY <1>8 DEF IsOpen, RealtimeInv, RealtimeTypeOK, ChannelTypes, SocketTypes
      <4> DEFINE s == ws[c]
      <4>2. up' = [up EXCEPT ![s] = IF line[s] THEN @ + 1 ELSE @] BY <3>1
      <4> HIDE DEF s
      <4>3. s \in Sockets BY <4>1 DEF s
      <4>4. up[s] + 1 \in Nat BY <4>1, <4>3
      <4> QED BY <4>1, <4>2, <4>4
    <3> QED BY <1>3, <3>2 DEF RealtimeInv, RealtimeTypeOK, SocketTypes
  <2>7. NothingWaits' BY <1>3, <2>1 DEF RealtimeInv, NothingWaits, IsOpen
  <2>8. PublishedInOrder'
    <3>1. sent' \in [Channels -> Seq(Nat)] BY <2>5 DEF ChannelTypes
    <3>2. sent'[c] = sent[c] \o <<n + 1>>
      BY <2>1 DEF RealtimeInv, RealtimeTypeOK, ChannelTypes
    <3>3. \A d \in Channels \ {c} : sent'[d] = sent[d] /\ queue'[d] = queue[d]
      BY <2>1 DEF RealtimeInv, RealtimeTypeOK, ChannelTypes
    <3>4. sent[c] \o <<n + 1>> = [i \in 1 .. n + 1 |-> i] BY <1>4, <2>2, <2>3
    <3>5. (sent[c] \o <<n + 1>>) \o <<>> = sent[c] \o <<n + 1>>
      BY <2>4, ConcatEmptySeq
    <3> QED BY <3>2, <3>3, <3>4, <3>5, <2>1, <2>2, <1>5
  <2> QED BY <1>7, <2>5, <2>6, <2>7, <2>8 DEF RealtimeInv, RealtimeTypeOK
<1>9. CASE ~IsOpen(c)
  <2>1. queue' = [queue EXCEPT ![c] = Append(@, n + 1)] /\ UNCHANGED <<sent, up>>
    BY <1>9 DEF Publish, n
  <2>2. Append(queue[c], n + 1) \in Seq(Nat) BY <1>1
  <2>3. ChannelTypes'
    BY <1>3, <1>6, <2>1, <2>2 DEF RealtimeInv, RealtimeTypeOK, ChannelTypes
  <2>4. SocketTypes' BY <1>3, <2>1 DEF RealtimeInv, RealtimeTypeOK, SocketTypes
  <2>5. /\ queue'[c] = Append(queue[c], n + 1)
        /\ \A d \in Channels \ {c} : queue'[d] = queue[d]
    BY <2>1 DEF RealtimeInv, RealtimeTypeOK, ChannelTypes
  <2>6. NothingWaits' BY <1>3, <1>9, <2>5 DEF RealtimeInv, NothingWaits, IsOpen
  <2>7. PublishedInOrder' BY <1>4, <1>5, <2>1, <2>5
  <2> QED BY <1>7, <2>3, <2>4, <2>6, <2>7 DEF RealtimeInv, RealtimeTypeOK
<1> QED BY <1>8, <1>9

\* A browser takes one frame.
LEMMA HearStep ==
  ASSUME RealtimeInv, NEW c \in Channels, Hear(c)
  PROVE  RealtimeInv'
<1> DEFINE s == ws[c]
<1>1. /\ s \in Sockets /\ browser[s] = "open" /\ down[s] # <<>>
      /\ shown' = [shown EXCEPT ![c] = IF Head(down[s]) = 0 THEN @ ELSE Head(down[s])]
      /\ down' = [down EXCEPT ![s] = Tail(@)]
      /\ UNCHANGED <<ws, closed, timer, queue, published, sent, browser, server, line, up,
                     behind, recount, pushed, faults>>
  BY DEF Hear, IsOpen, RealtimeInv, RealtimeTypeOK, ChannelTypes
<1> HIDE DEF s
<1>2. down[s] \in Seq(Nat) BY <1>1 DEF RealtimeInv, RealtimeTypeOK, SocketTypes
<1>3. Head(down[s]) \in Nat /\ Tail(down[s]) \in Seq(Nat)
  BY <1>1, <1>2, HeadTailProperties
<1>4. ChannelTypes' BY <1>1, <1>3 DEF RealtimeInv, RealtimeTypeOK, ChannelTypes
<1>5. SocketTypes'
  <2>1. down' \in [Sockets -> Seq(Nat)]
    BY <1>1, <1>3 DEF RealtimeInv, RealtimeTypeOK, SocketTypes
  <2> QED BY <1>1, <2>1 DEF RealtimeInv, RealtimeTypeOK, SocketTypes
<1>6. CountTypes' /\ OwnSockets' /\ NothingWaits' /\ PublishedInOrder'
  BY <1>1 DEF RealtimeInv, RealtimeTypeOK, CountTypes, OwnSockets, NothingWaits, IsOpen,
              PublishedInOrder
<1> QED BY <1>4, <1>5, <1>6 DEF RealtimeInv, RealtimeTypeOK

\* onclose: nothing is left of a socket that the browser is told has ended.
LEMMA ClosedStep ==
  ASSUME RealtimeInv, NEW c \in Channels, Closed(c)
  PROVE  RealtimeInv'
<1> DEFINE s == ws[c]
<1>1. /\ s \in Sockets
      /\ ~line[s] \/ browser[s] = "closing"
      /\ browser' = [browser EXCEPT ![s] = "closed"]
      /\ timer' = [timer EXCEPT ![c] = ~closed[c]]
      /\ down' = [down EXCEPT ![s] = <<>>]
      /\ UNCHANGED <<ws, closed, queue, published, sent, shown, server, line, up,
                     behind, recount, pushed, faults>>
  BY DEF Closed, RealtimeInv, RealtimeTypeOK, ChannelTypes
<1> HIDE DEF s
<1>2. <<>> \in Seq(Nat) OBVIOUS
<1>3. ChannelTypes' BY <1>1 DEF RealtimeInv, RealtimeTypeOK, ChannelTypes
<1>4. SocketTypes'
  BY <1>1, <1>2 DEF RealtimeInv, RealtimeTypeOK, SocketTypes, BrowserStates
<1>5. CountTypes' /\ OwnSockets' /\ PublishedInOrder'
  BY <1>1 DEF RealtimeInv, RealtimeTypeOK, CountTypes, OwnSockets, PublishedInOrder
<1>6. NothingWaits'
  BY <1>1 DEF RealtimeInv, RealtimeTypeOK, SocketTypes, ChannelTypes, NothingWaits, IsOpen
<1> QED BY <1>3, <1>4, <1>5, <1>6 DEF RealtimeInv, RealtimeTypeOK

\* close(): what is under way to the page is forgotten.
LEMMA CloseStep ==
  ASSUME RealtimeInv, NEW c \in Channels, Close(c)
  PROVE  RealtimeInv'
<1> DEFINE s == ws[c]
<1>1. /\ s \in Sockets
      /\ closed' = [closed EXCEPT ![c] = TRUE]
      /\ timer' = [timer EXCEPT ![c] = FALSE]
      /\ browser' = [browser EXCEPT ![s] = IF @ \in {"connecting", "open"}
                                           THEN "closing" ELSE @]
      /\ down' = [down EXCEPT ![s] = <<>>]
      /\ UNCHANGED <<ws, queue, published, sent, shown, server, line, up, behind, recount,
                     pushed, faults>>
  BY DEF Close, RealtimeInv, RealtimeTypeOK, ChannelTypes
<1> HIDE DEF s
<1>2. <<>> \in Seq(Nat) OBVIOUS
<1>3. ChannelTypes' BY <1>1 DEF RealtimeInv, RealtimeTypeOK, ChannelTypes
<1>4. SocketTypes'
  BY <1>1, <1>2 DEF RealtimeInv, RealtimeTypeOK, SocketTypes, BrowserStates
<1>5. CountTypes' /\ OwnSockets' /\ PublishedInOrder'
  BY <1>1 DEF RealtimeInv, RealtimeTypeOK, CountTypes, OwnSockets, PublishedInOrder
<1>6. \A r \in Sockets \ {s} : browser'[r] = browser[r]
  BY <1>1 DEF RealtimeInv, RealtimeTypeOK, SocketTypes
<1>7. browser'[s] \notin {"connecting", "open"}
  BY <1>1 DEF RealtimeInv, RealtimeTypeOK, SocketTypes
<1>8. NothingWaits'
  BY <1>1, <1>6, <1>7 DEF RealtimeInv, RealtimeTypeOK, ChannelTypes, NothingWaits, IsOpen
<1> QED BY <1>3, <1>4, <1>5, <1>8 DEF RealtimeInv, RealtimeTypeOK

-----------------------------------------------------------------------------
(* The steps of the front server, and of the line.                         *)

\* A socket joins, and is told the count with the others.
LEMMA UpgradeStep ==
  ASSUME RealtimeInv, NEW s \in Sockets, Upgrade(s)
  PROVE  RealtimeInv'
<1> DEFINE all == Subscribers \cup {s}
<1>1. all \in SUBSET Sockets BY DEF Subscribers
<1> HIDE DEF all
<1>2. Cardinality(all) \in Nat BY <1>1, CountIsNat
<1>3. /\ server' = [server EXCEPT ![s] = "open"]
      /\ Broadcast(Cardinality(all), all)
      /\ UNCHANGED channelVars
      /\ UNCHANGED <<browser, line, up, recount, pushed>>
  BY DEF Upgrade, all
<1>4. ChannelTypes' /\ OwnSockets' /\ NothingWaits' /\ PublishedInOrder'
  BY <1>3, ServerSteps
<1>5. RealtimeTypeOK BY DEF RealtimeInv
<1>6. down' \in [Sockets -> Seq(Nat)] /\ behind' \in SUBSET Sockets /\ faults' \in Nat
  BY <1>1, <1>2, <1>3, <1>5, BroadcastTypes
<1>7. SocketTypes' /\ CountTypes'
  BY <1>3, <1>5, <1>6 DEF SocketTypes, CountTypes, RealtimeTypeOK
<1> QED BY <1>4, <1>7 DEF RealtimeInv, RealtimeTypeOK

\* The other broadcasts: an event of one socket, the count for those who are left,
\* what borgo.Push brings.
LEMMA BroadcastSteps ==
  ASSUME RealtimeInv, (\E s \in Sockets : Relay(s)) \/ Recount \/ Push
  PROVE  RealtimeInv'
<1> DEFINE n == Cardinality(Subscribers)
<1>1. Subscribers \in SUBSET Sockets BY DEF Subscribers
<1>2. n \in Nat BY <1>1, CountIsNat
<1>3. /\ Broadcast(0, Subscribers) \/ Broadcast(n, Subscribers)
      /\ UNCHANGED channelVars /\ UNCHANGED <<browser, server, line>>
  BY DEF Relay, Recount, Push
<1> HIDE DEF n
<1>4. ChannelTypes' /\ OwnSockets' /\ NothingWaits' /\ PublishedInOrder'
  BY <1>3, ServerSteps
<1>5. RealtimeTypeOK BY DEF RealtimeInv
<1>6. down' \in [Sockets -> Seq(Nat)] /\ behind' \in SUBSET Sockets /\ faults' \in Nat
  BY <1>1, <1>2, <1>3, <1>5, BroadcastTypes
<1>7. up' \in [Sockets -> Nat] /\ recount' \in Nat /\ pushed' \in Nat
  <2>1. up \in [Sockets -> Nat] /\ recount \in Nat /\ pushed \in Nat
    BY <1>5 DEF RealtimeTypeOK, SocketTypes, CountTypes
  <2>2. CASE \E s \in Sockets : Relay(s) BY <2>1, <2>2 DEF Relay
  <2>3. CASE Recount BY <2>1, <2>3 DEF Recount
  <2>4. CASE Push BY <2>1, <2>4 DEF Push
  <2>5. QED BY <2>2, <2>3, <2>4
<1>8. SocketTypes' /\ CountTypes'
  BY <1>3, <1>5, <1>6, <1>7 DEF SocketTypes, CountTypes, RealtimeTypeOK
<1> QED BY <1>4, <1>8 DEF RealtimeInv, RealtimeTypeOK

\* A socket leaves, or its line is cut; who is left is told later.
LEMMA LeaveStep ==
  ASSUME RealtimeInv, NEW s \in Sockets, Leave(s) \/ Cut(s)
  PROVE  RealtimeInv'
<1>1. UNCHANGED channelVars /\ UNCHANGED <<browser, down, behind, pushed>>
  BY DEF Leave, Cut
<1>2. ChannelTypes' /\ OwnSockets' /\ NothingWaits' /\ PublishedInOrder'
  BY <1>1, ServerSteps
<1>3. /\ server' \in [Sockets -> {"none", "open", "gone"}] /\ line' \in [Sockets -> BOOLEAN]
      /\ up' \in [Sockets -> Nat] /\ recount' \in Nat /\ faults' \in Nat
  <2>1. RealtimeTypeOK BY DEF RealtimeInv
  <2>2. CASE Leave(s) BY <2>1, <2>2 DEF Leave, Left, RealtimeTypeOK, SocketTypes, CountTypes
  <2>3. CASE Cut(s) BY <2>1, <2>3 DEF Cut, RealtimeTypeOK, SocketTypes, CountTypes
  <2>4. QED BY <2>2, <2>3
<1>4. SocketTypes' /\ CountTypes'
  BY <1>1, <1>3 DEF SocketTypes, CountTypes, RealtimeInv, RealtimeTypeOK
<1> QED BY <1>2, <1>4 DEF RealtimeInv, RealtimeTypeOK

-----------------------------------------------------------------------------
\* It holds when nobody has subscribed yet.
LEMMA RealtimeStarts == RealtimeInit => RealtimeInv
<1> SUFFICES ASSUME RealtimeInit PROVE RealtimeInv OBVIOUS
<1>1. <<>> \in Seq(Nat) OBVIOUS
<1>2. RealtimeTypeOK
  BY <1>1 DEF RealtimeInit, RealtimeTypeOK, ChannelTypes, SocketTypes, CountTypes, BrowserStates
<1>3. OwnSockets /\ NothingWaits
  BY DEF RealtimeInit, OwnSockets, NothingWaits, IsOpen
<1>4. PublishedInOrder
  <2>1. <<>> \o <<>> = [i \in 1 .. 0 |-> i] OBVIOUS
  <2> QED BY <2>1 DEF RealtimeInit, PublishedInOrder
<1> QED BY <1>2, <1>3, <1>4 DEF RealtimeInv

\* And every step keeps it.
LEMMA RealtimeSteps == RealtimeInv /\ [RealtimeNext]_realtimeVars => RealtimeInv'
<1> SUFFICES ASSUME RealtimeInv, [RealtimeNext]_realtimeVars PROVE RealtimeInv' OBVIOUS
<1>1. CASE RealtimeUser
  <2>1. CASE \E c \in Channels : Subscribe(c) \/ Close(c)
    BY <2>1, DialStep, CloseStep
  <2>2. CASE \E c \in Publishers : Publish(c)
    BY <2>2, PublishStep
  <2> QED BY <1>1, <2>1, <2>2, BroadcastSteps DEF RealtimeUser
<1>2. CASE RealtimeSystem
  <2>1. CASE \E c \in Channels : ChannelStep(c)
    BY <2>1, OpenedStep, HearStep, ClosedStep, DialStep DEF ChannelStep
  <2>2. CASE \E s \in Sockets : SocketStep(s) \/ Cut(s)
    BY <2>2, UpgradeStep, BroadcastSteps, LeaveStep DEF SocketStep
  <2> QED BY <1>2, <2>1, <2>2, BroadcastSteps DEF RealtimeSystem
<1>3. CASE UNCHANGED realtimeVars
  BY <1>3 DEF realtimeVars, RealtimeInv, RealtimeTypeOK, ChannelTypes, SocketTypes, CountTypes,
              OwnSockets, NothingWaits, IsOpen, PublishedInOrder
<1> QED BY <1>1, <1>2, <1>3 DEF RealtimeNext

\* The invariant of a topic, from which the two theorems below follow.
THEOREM RealtimeInvariance == RealtimeSpec => []RealtimeInv
<1>1. RealtimeInit => RealtimeInv BY RealtimeStarts
<1>2. RealtimeInv /\ [RealtimeNext]_realtimeVars => RealtimeInv' BY RealtimeSteps
<1> QED BY <1>1, <1>2, PTL DEF RealtimeSpec

\* Every variable of the channels, the sockets and the counters keeps its type.
THEOREM RealtimeTyping == RealtimeSpec => []RealtimeTypeOK
<1>1. RealtimeInv => RealtimeTypeOK BY DEF RealtimeInv
<1> QED BY <1>1, RealtimeInvariance, PTL

\* Whatever connects, drops and reconnects, a channel has given its sockets what
\* its page published, in that order and once each, but for what waits in its
\* queue; index.ts:116-124.
THEOREM PublishedInOrderAlways == RealtimeSpec => []PublishedInOrder
<1>1. RealtimeInv => PublishedInOrder BY DEF RealtimeInv
<1> QED BY <1>1, RealtimeInvariance, PTL

=============================================================================
