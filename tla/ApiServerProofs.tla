-------------------------- MODULE ApiServerProofs ---------------------------
(***************************************************************************)
(* Proofs about SSEHub and ApiServer for any number of streams, publishers *)
(* and requests, any channel capacity and any number of frames.            *)
(*                                                                         *)
(* HubInv is the inductive invariant of the hub: SlotsOwned and InOrder    *)
(* are not inductive by themselves, since a Publish half way through its   *)
(* loop may still send (LockDiscipline says who may and to whom) and a     *)
(* frame in a handler's hand or not yet offered is in no channel           *)
(* (HandInOrder, UnvisitedIsOlder).                                        *)
(*                                                                         *)
(* Every step of the server is a step of the hub or leaves it alone, so    *)
(* what holds of the hub holds in the server, its shutdown included.       *)
(***************************************************************************)
EXTENDS ApiServer, SequenceTheorems, TLAPS

-----------------------------------------------------------------------------
(* The hub.                                                                *)

\* Offer appends at the end or leaves the channel alone: it never goes past the
\* capacity and never moves what already waits.
LEMMA OfferProperties ==
  ASSUME NEW q \in Seq(Nat), NEW f \in Nat, Len(q) <= Cap
  PROVE  /\ Offer(q, f) \in Seq(Nat)
         /\ Len(Offer(q, f)) <= Cap
         /\ Len(Offer(q, f)) >= Len(q)
         /\ \A i \in 1 .. Len(Offer(q, f)) :
              \/ i <= Len(q) /\ Offer(q, f)[i] = q[i]
              \/ i = Len(q) + 1 /\ Offer(q, f)[i] = f
  BY HubAssumption DEF Offer

\* What is left of a channel after its head is received.
LEMMA TailProperties ==
  ASSUME NEW q \in Seq(Nat), q # << >>
  PROVE  /\ Tail(q) \in Seq(Nat) /\ Head(q) \in Nat /\ Head(q) = q[1]
         /\ Len(q) \in Nat \ {0} /\ Len(Tail(q)) = Len(q) - 1
         /\ \A i \in 1 .. Len(Tail(q)) : Tail(q)[i] = q[i + 1]
  BY HeadTailProperties

\* Every variable of the hub keeps its type.
THEOREM HubTyping == HubSpec => []HubTypeOK
<1>1. HubInit => HubTypeOK
  <2> SUFFICES ASSUME HubInit PROVE HubTypeOK
    OBVIOUS
  <2>1. << >> \in Seq(Nat) BY EmptySeq
  <2>2. chan \in [Streams -> Seq(Nat)] BY <2>1 DEF HubInit
  <2>3. QED BY <2>2 DEF HubInit, HubTypeOK, HandlerStates, Ping
<1>2. HubTypeOK /\ [HubNext]_hubVars => HubTypeOK'
  <2> SUFFICES ASSUME HubTypeOK, [HubNext]_hubVars PROVE HubTypeOK'
    OBVIOUS
  <2> USE DEF HubTypeOK, HandlerStates, Goto, streamVars, pubVars
  <2>1. ASSUME NEW c \in Streams, StreamStep(c) PROVE HubTypeOK'
    <3>1. CASE Open(c) BY <3>1 DEF Open
    <3>2. CASE Subscribe(c) BY <3>2 DEF Subscribe
    <3>3. CASE SeeDone(c) BY <3>3 DEF SeeDone
    <3>4. CASE PingTick(c) BY <3>4 DEF PingTick, Ping
    <3>5. CASE Receive(c)
      <4>1. chan[c] \in Seq(Nat) /\ chan[c] # << >> BY <3>5 DEF Receive
      <4>2. Tail(chan[c]) \in Seq(Nat) /\ Head(chan[c]) \in Nat BY <4>1, TailProperties
      <4>3. QED BY <3>5, <4>2 DEF Receive
    <3>6. CASE WriteOk(c) BY <3>6 DEF WriteOk
    <3>7. CASE WriteFail(c) BY <3>7 DEF WriteFail
    <3>8. CASE Unsubscribe(c) BY <3>8 DEF Unsubscribe
    <3>9. CASE StreamDone(c) BY <3>9 DEF StreamDone
    <3>10. CASE HangUp(c) BY <3>10 DEF HangUp
    <3>11. CASE GoDark(c) BY <3>11 DEF GoDark
    <3>12. QED BY <2>1, <3>1, <3>2, <3>3, <3>4, <3>5, <3>6, <3>7, <3>8, <3>9,
                  <3>10, <3>11 DEF StreamStep
  <2>2. ASSUME NEW p \in Publishers, PublishStep(p) PROVE HubTypeOK'
    <3>1. CASE PublishLock(p) BY <3>1 DEF PublishLock
    <3>2. CASE PublishUnlock(p) BY <3>2 DEF PublishUnlock
    <3>3. ASSUME NEW c \in Streams, PublishTo(p, c) PROVE HubTypeOK'
      BY <3>3 DEF PublishTo, Offer
    <3>4. QED BY <2>2, <3>1, <3>2, <3>3 DEF PublishStep
  <2>3. CASE SignalShutdown BY <2>3 DEF SignalShutdown
  <2>4. CASE UNCHANGED hubVars BY <2>4 DEF hubVars
  <2>5. QED BY <2>1, <2>2, <2>3, <2>4 DEF HubNext
<1>3. QED BY <1>1, <1>2, PTL DEF HubSpec

LEMMA InvInit == HubInit => HubInv
<1> SUFFICES ASSUME HubInit PROVE HubInv
  OBVIOUS
<1>1. HubTypeOK
  <2>1. << >> \in Seq(Nat) BY EmptySeq
  <2>2. chan \in [Streams -> Seq(Nat)] BY <2>1 DEF HubInit
  <2>3. QED BY <2>2 DEF HubInit, HubTypeOK, HandlerStates, Ping
<1>2. \A c \in Streams : Len(chan[c]) = 0 BY EmptySeq DEF HubInit
<1>3. SlotsOwned BY DEF HubInit, SlotsOwned
<1>4. InOrder BY <1>2, HubAssumption DEF InOrder
<1>5. LockDiscipline BY HubAssumption DEF HubInit, LockDiscipline
<1>6. HandInOrder /\ UnvisitedIsOlder /\ ShownIsPublished
  BY DEF HubInit, HandInOrder, UnvisitedIsOlder, ShownIsPublished
<1>7. QED BY <1>1, <1>3, <1>4, <1>5, <1>6 DEF HubInv

\* Steps that leave the channels, the frames and the lock alone and only move a
\* handler or a flag.
LEMMA InvQuietStep ==
  ASSUME HubInv, HubTypeOK', NEW c \in Streams,
         \/ Open(c) \/ SeeDone(c) \/ PingTick(c) \/ WriteFail(c)
         \/ StreamDone(c) \/ HangUp(c) \/ GoDark(c) \/ SignalShutdown
  PROVE  HubInv'
<1> USE DEF HubInv, HubTypeOK, HandlerStates, Goto, pubVars
<1>1. /\ UNCHANGED <<chan, shown, mu, visiting, frame, frames, subs>>
      /\ handler' \in [Streams -> HandlerStates]
      /\ \A d \in Streams : \/ handler'[d] = handler[d]
                            \/ handler[d] = "none" /\ handler'[d] = "opened"
                            \/ handler[d] = "select" /\ handler'[d] \in {"returning", "writing"}
                            \/ handler[d] = "writing" /\ handler'[d] = "returning"
      /\ \A d \in Streams : handler'[d] = "writing" =>
                              \/ handler[d] = "writing" /\ hand'[d] = hand[d]
                              \/ hand'[d] = Ping
  BY DEF Open, SeeDone, PingTick, WriteFail, StreamDone, HangUp, GoDark, SignalShutdown
<1>2. SlotsOwned' BY <1>1 DEF SlotsOwned
<1>3. InOrder' BY <1>1 DEF InOrder
<1>4. LockDiscipline' BY <1>1 DEF LockDiscipline
<1>5. HandInOrder' BY <1>1 DEF HandInOrder
<1>6. UnvisitedIsOlder'
  <2> SUFFICES ASSUME NEW p \in Publishers, NEW d \in visiting[p]
               PROVE  /\ shown[d] < frame[p]
                      /\ handler'[d] = "writing" => hand'[d] < frame[p]
                      /\ \A i \in 1 .. Len(chan[d]) : chan[d][i] < frame[p]
    BY <1>1 DEF UnvisitedIsOlder
  <2>1. d \in Streams /\ shown[d] \in Nat /\ frame[p] \in Nat OBVIOUS
  <2>2. shown[d] < frame[p] BY DEF UnvisitedIsOlder
  <2>3. frame[p] \in Nat /\ 0 < frame[p] BY <2>1, <2>2
  <2>4. handler'[d] = "writing" => hand'[d] < frame[p]
    BY <1>1, <2>1, <2>3 DEF UnvisitedIsOlder, Ping
  <2>5. QED BY <1>1, <2>2, <2>4 DEF UnvisitedIsOlder
<1>7. ShownIsPublished' BY <1>1 DEF ShownIsPublished
<1>8. QED BY <1>2, <1>3, <1>4, <1>5, <1>6, <1>7

LEMMA InvSubscribe ==
  ASSUME HubInv, HubTypeOK', NEW c \in Streams, Subscribe(c)
  PROVE  HubInv'
<1> USE DEF HubInv, HubTypeOK, HandlerStates, Goto, pubVars, Subscribe
<1>1. Len(<< >>) = 0 BY EmptySeq
<1>2. \A p \in Publishers : frame[p] = 0 /\ visiting[p] = {}
  BY HubAssumption DEF LockDiscipline
<1>3. SlotsOwned' BY DEF SlotsOwned
<1>4. InOrder' BY <1>1, HubAssumption DEF InOrder
<1>5. LockDiscipline' BY <1>2 DEF LockDiscipline
<1>6. HandInOrder' BY DEF HandInOrder
<1>7. UnvisitedIsOlder' BY <1>2 DEF UnvisitedIsOlder
<1>8. ShownIsPublished' BY DEF ShownIsPublished
<1>9. QED BY <1>3, <1>4, <1>5, <1>6, <1>7, <1>8

LEMMA InvReceive ==
  ASSUME HubInv, HubTypeOK', NEW c \in Streams, Receive(c)
  PROVE  HubInv'
<1> USE DEF HubInv, HubTypeOK, HandlerStates, Goto, pubVars, Receive
<1>1. chan[c] \in Seq(Nat) /\ chan[c] # << >> OBVIOUS
<1>2. /\ Head(chan[c]) = chan[c][1] /\ Len(chan[c]) \in Nat \ {0}
      /\ Len(Tail(chan[c])) = Len(chan[c]) - 1
      /\ \A i \in 1 .. Len(Tail(chan[c])) : Tail(chan[c])[i] = chan[c][i + 1]
  BY <1>1, TailProperties
<1>3. chan'[c] = Tail(chan[c]) /\ hand'[c] = Head(chan[c]) OBVIOUS
<1>4. \A d \in Streams \ {c} : chan'[d] = chan[d] /\ hand'[d] = hand[d]
                                /\ handler'[d] = handler[d]
  OBVIOUS
<1>5. c \in subs /\ shown[c] < chan[c][1] /\ chan[c][1] <= frames
  BY <1>2 DEF SlotsOwned, InOrder
<1>6. SlotsOwned' BY DEF SlotsOwned
<1>7. InOrder'
  <2> SUFFICES ASSUME NEW d \in Streams PROVE InOrder!(d)'
    BY DEF InOrder
  <2>1. CASE d # c BY <1>4, <2>1 DEF InOrder
  <2>2. CASE d = c
    <3>1. Len(chan'[c]) <= Cap BY <1>2, <1>3, HubAssumption DEF InOrder
    <3>2. ASSUME NEW i \in 1 .. Len(chan'[c])
          PROVE  /\ i + 1 \in 1 .. Len(chan[c]) /\ chan'[c][i] = chan[c][i + 1]
      BY <1>2, <1>3
    <3>3. ASSUME NEW i \in 1 .. Len(chan'[c])
          PROVE  shown[c] < chan'[c][i] /\ chan'[c][i] <= frames
      BY <1>5, <3>2 DEF InOrder
    <3>4. ASSUME NEW i \in 1 .. Len(chan'[c]), NEW j \in 1 .. Len(chan'[c]), i < j
          PROVE  chan'[c][i] < chan'[c][j]
      <4>1. i + 1 \in 1 .. Len(chan[c]) /\ j + 1 \in 1 .. Len(chan[c]) /\ i + 1 < j + 1
        BY <1>2, <1>3, <3>4
      <4>2. chan[c][i + 1] < chan[c][j + 1] BY <4>1 DEF InOrder
      <4>3. QED BY <3>2, <4>2
    <3>5. QED BY <2>2, <3>1, <3>3, <3>4
  <2>3. QED BY <2>1, <2>2
<1>8. LockDiscipline' BY DEF LockDiscipline
<1>9. HandInOrder'
  <2> SUFFICES ASSUME NEW d \in Streams, handler'[d] = "writing", hand'[d] # Ping
               PROVE  /\ shown[d] < hand'[d] /\ hand'[d] <= frames
                      /\ \A i \in 1 .. Len(chan'[d]) : hand'[d] < chan'[d][i]
    BY DEF HandInOrder
  <2>1. CASE d # c BY <1>4, <2>1 DEF HandInOrder
  <2>2. CASE d = c
    <3>1. ASSUME NEW i \in 1 .. Len(chan'[c]) PROVE hand'[c] < chan'[c][i]
      <4>1. i + 1 \in 1 .. Len(chan[c]) /\ 1 \in 1 .. Len(chan[c]) /\ 1 < i + 1
        BY <1>2, <1>3
      <4>2. chan[c][1] < chan[c][i + 1] BY <4>1 DEF InOrder
      <4>3. QED BY <1>2, <1>3, <4>2
    <3>2. QED BY <1>2, <1>3, <1>5, <2>2, <3>1
  <2>3. QED BY <2>1, <2>2
<1>10. UnvisitedIsOlder'
  <2> SUFFICES ASSUME NEW p \in Publishers, NEW d \in visiting[p]
               PROVE  /\ shown[d] < frame[p]
                      /\ handler'[d] = "writing" => hand'[d] < frame[p]
                      /\ \A i \in 1 .. Len(chan'[d]) : chan'[d][i] < frame[p]
    BY DEF UnvisitedIsOlder
  <2>0. d \in Streams OBVIOUS
  <2>1. CASE d # c BY <1>4, <2>0, <2>1 DEF UnvisitedIsOlder
  <2>2. CASE d = c
    <3>1. \A i \in 1 .. Len(chan[c]) : chan[c][i] < frame[p] BY <2>2 DEF UnvisitedIsOlder
    <3>2. chan[c][1] < frame[p] BY <1>2, <3>1
    <3>3. ASSUME NEW i \in 1 .. Len(chan'[c]) PROVE chan'[c][i] < frame[p]
      <4>1. i + 1 \in 1 .. Len(chan[c]) /\ chan'[c][i] = chan[c][i + 1] BY <1>2, <1>3
      <4>2. QED BY <3>1, <4>1
    <3>4. QED BY <1>2, <1>3, <2>2, <3>2, <3>3 DEF UnvisitedIsOlder
  <2>3. QED BY <2>1, <2>2
<1>11. ShownIsPublished' BY DEF ShownIsPublished
<1>12. QED BY <1>6, <1>7, <1>8, <1>9, <1>10, <1>11

LEMMA InvWriteOk ==
  ASSUME HubInv, HubTypeOK', NEW c \in Streams, WriteOk(c)
  PROVE  HubInv'
<1> USE DEF HubInv, HubTypeOK, HandlerStates, Goto, pubVars, WriteOk
<1>1. /\ UNCHANGED <<chan, mu, visiting, frame, frames, subs, hand>>
      /\ \A d \in Streams \ {c} : handler'[d] = handler[d] /\ shown'[d] = shown[d]
      /\ handler'[c] = "select"
      /\ shown'[c] = shown[c] \/ (hand[c] # Ping /\ shown'[c] = hand[c])
  OBVIOUS
<1>2. c \in subs BY DEF SlotsOwned
<1>3. SlotsOwned' BY DEF SlotsOwned
<1>4. \A d \in Streams : \A i \in 1 .. Len(chan[d]) : d \in subs => shown'[d] < chan[d][i]
  BY <1>1, <1>2 DEF InOrder, HandInOrder
<1>5. InOrder' BY <1>1, <1>4 DEF InOrder
<1>6. LockDiscipline' BY DEF LockDiscipline
<1>7. HandInOrder'
  <2> SUFFICES ASSUME NEW d \in Streams, handler'[d] = "writing", hand'[d] # Ping
               PROVE  /\ shown'[d] < hand'[d] /\ hand'[d] <= frames'
                      /\ \A i \in 1 .. Len(chan'[d]) : hand'[d] < chan'[d][i]
    BY DEF HandInOrder
  <2>1. d # c BY <1>1
  <2>2. QED BY <1>1, <2>1 DEF HandInOrder
<1>8. UnvisitedIsOlder'
  <2> SUFFICES ASSUME NEW p \in Publishers, NEW d \in visiting[p]
               PROVE  /\ shown'[d] < frame[p]
                      /\ handler'[d] = "writing" => hand[d] < frame[p]
                      /\ \A i \in 1 .. Len(chan[d]) : chan[d][i] < frame[p]
    BY <1>1 DEF UnvisitedIsOlder
  <2>0. d \in Streams OBVIOUS
  <2>1. CASE d # c BY <1>1, <2>0, <2>1 DEF UnvisitedIsOlder
  <2>2. CASE d = c BY <1>1, <2>2 DEF UnvisitedIsOlder
  <2>3. QED BY <2>1, <2>2
<1>9. ShownIsPublished' BY <1>1 DEF ShownIsPublished, HandInOrder
<1>10. QED BY <1>3, <1>5, <1>6, <1>7, <1>8, <1>9

LEMMA InvUnsubscribe ==
  ASSUME HubInv, HubTypeOK', NEW c \in Streams, Unsubscribe(c)
  PROVE  HubInv'
<1> USE DEF HubInv, HubTypeOK, HandlerStates, Goto, pubVars, Unsubscribe
<1>1. \A p \in Publishers : frame[p] = 0 /\ visiting[p] = {}
  BY HubAssumption DEF LockDiscipline
<1>2. SlotsOwned' BY DEF SlotsOwned
<1>3. InOrder' BY DEF InOrder
<1>4. LockDiscipline' BY <1>1 DEF LockDiscipline
<1>5. HandInOrder' BY DEF HandInOrder
<1>6. UnvisitedIsOlder' BY <1>1 DEF UnvisitedIsOlder
<1>7. ShownIsPublished' BY DEF ShownIsPublished
<1>8. QED BY <1>2, <1>3, <1>4, <1>5, <1>6, <1>7

LEMMA InvPublishLock ==
  ASSUME HubInv, HubTypeOK', NEW p \in Publishers, PublishLock(p)
  PROVE  HubInv'
<1> USE DEF HubInv, HubTypeOK, HandlerStates, streamVars, PublishLock
<1>1. /\ UNCHANGED <<chan, shown, handler, hand, subs>>
      /\ frames' = frames + 1 /\ frame'[p] = frames'
      /\ \A q \in Publishers : frame[q] = 0 /\ visiting[q] = {}
      /\ \A q \in Publishers \ {p} : frame'[q] = 0 /\ visiting'[q] = {}
      /\ visiting'[p] = subs
  BY HubAssumption DEF LockDiscipline
<1>2. SlotsOwned' BY DEF SlotsOwned
<1>3. InOrder'
  <2>1. \A d \in Streams : \A i \in 1 .. Len(chan[d]) : chan[d][i] \in Nat OBVIOUS
  <2>2. QED BY <1>1, <2>1 DEF InOrder
<1>4. LockDiscipline' BY <1>1, HubAssumption DEF LockDiscipline
<1>5. HandInOrder' BY <1>1 DEF HandInOrder
<1>6. UnvisitedIsOlder'
  <2> SUFFICES ASSUME NEW d \in subs
               PROVE  /\ shown[d] < frames + 1
                      /\ handler[d] = "writing" => hand[d] < frames + 1
                      /\ \A i \in 1 .. Len(chan[d]) : chan[d][i] < frames + 1
    BY <1>1 DEF UnvisitedIsOlder
  <2>1. d \in Streams /\ shown[d] <= frames BY DEF ShownIsPublished
  <2>2. \A i \in 1 .. Len(chan[d]) : chan[d][i] \in Nat /\ chan[d][i] <= frames
    BY <2>1 DEF InOrder
  <2>3. handler[d] = "writing" => hand[d] <= frames BY <2>1 DEF HandInOrder, Ping
  <2>4. QED BY <2>1, <2>2, <2>3
<1>7. ShownIsPublished' BY DEF ShownIsPublished
<1>8. QED BY <1>2, <1>3, <1>4, <1>5, <1>6, <1>7

LEMMA InvPublishTo ==
  ASSUME HubInv, HubTypeOK', NEW p \in Publishers, NEW c \in Streams, PublishTo(p, c)
  PROVE  HubInv'
<1> USE DEF HubInv, HubTypeOK, HandlerStates, streamVars, PublishTo
<1> DEFINE q == chan[c]
           f == frame[p]
<1>1. q \in Seq(Nat) /\ f \in Nat /\ Len(q) <= Cap BY DEF InOrder
<1>2. /\ chan'[c] = Offer(q, f)
      /\ \A d \in Streams \ {c} : chan'[d] = chan[d]
      /\ UNCHANGED <<shown, handler, hand, subs, mu, frame, frames>>
  OBVIOUS
<1>3. /\ Len(Offer(q, f)) <= Cap
      /\ \A i \in 1 .. Len(Offer(q, f)) :
           \/ i \in 1 .. Len(q) /\ Offer(q, f)[i] = q[i]
           \/ i = Len(q) + 1 /\ Offer(q, f)[i] = f
  <2>1. Len(q) \in Nat BY <1>1
  <2>2. QED BY <1>1, <2>1, OfferProperties
<1>4. /\ c \in visiting[p] /\ c \in subs
      /\ mu = p /\ f = frames /\ f # 0
      /\ shown[c] < f
      /\ handler[c] = "writing" => hand[c] < f
      /\ \A i \in 1 .. Len(q) : q[i] < f
  BY DEF LockDiscipline, UnvisitedIsOlder
<1>5. \A r \in Publishers \ {p} : visiting'[r] = {}
  BY <1>4 DEF LockDiscipline
<1>6. visiting'[p] = visiting[p] \ {c} OBVIOUS
<1>7. SlotsOwned' BY DEF SlotsOwned
<1>8. InOrder'
  <2> SUFFICES ASSUME NEW d \in Streams PROVE InOrder!(d)'
    BY DEF InOrder
  <2>1. CASE d # c BY <1>2, <2>1 DEF InOrder
  <2>2. CASE d = c
    <3>1. Len(chan'[c]) <= Cap BY <1>2, <1>3
    <3>2. ASSUME NEW i \in 1 .. Len(chan'[c])
          PROVE  shown[c] < chan'[c][i] /\ chan'[c][i] <= frames
      <4>1. \A k \in 1 .. Len(q) : shown[c] < q[k] /\ q[k] <= frames
        BY <1>4 DEF InOrder
      <4>2. i \in 1 .. Len(Offer(q, f)) BY <1>2
      <4>3. CASE i \in 1 .. Len(q) /\ Offer(q, f)[i] = q[i] BY <1>2, <4>1, <4>3
      <4>4. CASE Offer(q, f)[i] = f BY <1>2, <1>4, <4>4
      <4>5. QED BY <1>3, <4>2, <4>3, <4>4
    <3>3. ASSUME NEW i \in 1 .. Len(chan'[c]), NEW j \in 1 .. Len(chan'[c]), i < j
          PROVE  chan'[c][i] < chan'[c][j]
      <4>1. /\ i \in 1 .. Len(Offer(q, f)) /\ j \in 1 .. Len(Offer(q, f))
            /\ Len(q) \in Nat
        BY <1>1, <1>2
      <4>2. i \in 1 .. Len(q) /\ Offer(q, f)[i] = q[i]
        <5>1. j \in 1 .. Len(q) \/ j = Len(q) + 1 BY <1>3, <4>1
        <5>2. i # Len(q) + 1 BY <3>3, <4>1, <5>1
        <5>3. QED BY <1>3, <4>1, <5>2
      <4>3. CASE j \in 1 .. Len(q) /\ Offer(q, f)[j] = q[j]
        <5>1. q[i] < q[j] BY <3>3, <4>2, <4>3 DEF InOrder
        <5>2. QED BY <1>2, <4>2, <4>3, <5>1
      <4>4. CASE Offer(q, f)[j] = f BY <1>2, <1>4, <4>2, <4>4
      <4>5. QED BY <1>3, <4>1, <4>3, <4>4
    <3>4. QED BY <1>2, <2>2, <3>1, <3>2, <3>3
  <2>3. QED BY <2>1, <2>2
<1>9. LockDiscipline' BY <1>2, <1>4, <1>5, <1>6 DEF LockDiscipline
<1>10. HandInOrder'
  <2> SUFFICES ASSUME NEW d \in Streams, handler[d] = "writing", hand[d] # Ping
               PROVE  /\ shown[d] < hand[d] /\ hand[d] <= frames
                      /\ \A i \in 1 .. Len(chan'[d]) : hand[d] < chan'[d][i]
    BY <1>2 DEF HandInOrder
  <2>1. CASE d # c BY <1>2, <2>1 DEF HandInOrder
  <2>2. CASE d = c
    <3>1. \A i \in 1 .. Len(q) : hand[c] < q[i] BY <2>2 DEF HandInOrder
    <3>2. shown[c] < hand[c] /\ hand[c] <= frames /\ hand[c] < f
      BY <1>4, <2>2 DEF HandInOrder
    <3>3. ASSUME NEW i \in 1 .. Len(chan'[c]) PROVE hand[c] < chan'[c][i]
      BY <1>2, <1>3, <3>1, <3>2
    <3>4. QED BY <2>2, <3>2, <3>3
  <2>3. QED BY <2>1, <2>2
<1>11. UnvisitedIsOlder'
  <2> SUFFICES ASSUME NEW d \in visiting'[p]
               PROVE  /\ shown[d] < frame[p]
                      /\ handler[d] = "writing" => hand[d] < frame[p]
                      /\ \A i \in 1 .. Len(chan'[d]) : chan'[d][i] < frame[p]
    BY <1>2, <1>5 DEF UnvisitedIsOlder
  <2>1. d # c /\ d \in visiting[p] /\ d \in Streams BY <1>6
  <2>2. QED BY <1>2, <2>1 DEF UnvisitedIsOlder
<1>12. ShownIsPublished' BY DEF ShownIsPublished
<1>13. QED BY <1>7, <1>8, <1>9, <1>10, <1>11, <1>12

LEMMA InvPublishUnlock ==
  ASSUME HubInv, HubTypeOK', NEW p \in Publishers, PublishUnlock(p)
  PROVE  HubInv'
<1> USE DEF HubInv, HubTypeOK, HandlerStates, streamVars, PublishUnlock
<1>1. mu = p BY DEF LockDiscipline
<1>2. \A q \in Publishers \ {p} : frame[q] = 0 /\ visiting[q] = {}
  BY <1>1 DEF LockDiscipline
<1>3. \A q \in Publishers : frame'[q] = 0 /\ visiting'[q] = {} BY <1>2
<1>4. SlotsOwned' BY DEF SlotsOwned
<1>5. InOrder' BY DEF InOrder
<1>6. LockDiscipline' BY <1>3, HubAssumption DEF LockDiscipline
<1>7. HandInOrder' BY DEF HandInOrder
<1>8. UnvisitedIsOlder' BY <1>3 DEF UnvisitedIsOlder
<1>9. ShownIsPublished' BY DEF ShownIsPublished
<1>10. QED BY <1>4, <1>5, <1>6, <1>7, <1>8, <1>9

LEMMA InvStep == HubInv /\ [HubNext]_hubVars /\ HubTypeOK' => HubInv'
<1> SUFFICES ASSUME HubInv, [HubNext]_hubVars, HubTypeOK' PROVE HubInv'
  OBVIOUS
<1>1. ASSUME NEW c \in Streams, StreamStep(c) PROVE HubInv'
  BY <1>1, InvQuietStep, InvSubscribe, InvReceive, InvWriteOk, InvUnsubscribe DEF StreamStep
<1>2. ASSUME NEW p \in Publishers, PublishStep(p) PROVE HubInv'
  BY <1>2, InvPublishLock, InvPublishTo, InvPublishUnlock DEF PublishStep
<1>3. CASE SignalShutdown
  BY <1>3 DEF SignalShutdown, pubVars, HubInv, HubTypeOK, SlotsOwned, InOrder,
     LockDiscipline, HandInOrder, UnvisitedIsOlder, ShownIsPublished
<1>4. CASE UNCHANGED hubVars
  BY <1>4 DEF hubVars, HubInv, HubTypeOK, SlotsOwned, InOrder,
     LockDiscipline, HandInOrder, UnvisitedIsOlder, ShownIsPublished
<1>5. QED BY <1>1, <1>2, <1>3, <1>4 DEF HubNext

THEOREM HubInvariance == HubSpec => []HubInv
<1>1. HubInit => HubInv BY InvInit
<1>2. HubInv /\ [HubNext]_hubVars /\ HubTypeOK' => HubInv' BY InvStep
<1>3. QED BY <1>1, <1>2, HubTyping, PTL DEF HubSpec

\* No slot of the hub is leaked or lost, for any number of streams.
THEOREM SlotsOwnedAlways == HubSpec => []SlotsOwned
<1>1. HubInv => SlotsOwned BY DEF HubInv
<1>2. QED BY <1>1, HubInvariance, PTL

\* Channels stay within capacity and in publication order, for any capacity.
THEOREM InOrderAlways == HubSpec => []InOrder
<1>1. HubInv => InOrder BY DEF HubInv
<1>2. QED BY <1>1, HubInvariance, PTL

\* The hub implements the lossy ordered broadcast: initial states map to initial
\* states and every step to a step of Broadcast or to a stutter.
THEOREM HubIsBroadcast == HubSpec => IsBroadcast
<1> USE DEF Abstract!bvars
<1>1. HubInit => Abstract!BInit BY DEF HubInit, Abstract!BInit
<1>2. HubInv /\ [HubNext]_hubVars => [Abstract!BNext]_(Abstract!bvars)
  <2> SUFFICES ASSUME HubInv, [HubNext]_hubVars
               PROVE  [Abstract!BNext]_(Abstract!bvars)
    OBVIOUS
  <2> USE DEF HubInv, HubTypeOK, pubVars, streamVars, Goto
  <2>1. ASSUME NEW c \in Streams, StreamStep(c)
        PROVE  [Abstract!BNext]_(Abstract!bvars)
    <3>1. CASE Subscribe(c)
      <4>1. c \notin subs BY <3>1 DEF Subscribe, SlotsOwned
      <4>2. Abstract!Join(c) BY <3>1, <4>1 DEF Subscribe, Abstract!Join
      <4>3. QED BY <4>2 DEF Abstract!BNext
    <3>2. CASE WriteOk(c)
      <4>1. CASE hand[c] = Ping
        <5>1. shown' = shown BY <3>2, <4>1 DEF WriteOk
        <5>2. QED BY <3>2, <5>1 DEF WriteOk
      <4>2. CASE hand[c] # Ping
        <5>1. c \in subs BY <3>2 DEF WriteOk, SlotsOwned
        <5>2. shown[c] < hand[c] /\ hand[c] <= frames
          BY <3>2, <4>2 DEF WriteOk, HandInOrder
        <5>3. hand[c] \in shown[c] + 1 .. frames BY <5>2
        <5>4. shown' = [shown EXCEPT ![c] = hand[c]] BY <3>2, <4>2 DEF WriteOk
        <5>5. Abstract!Show(c) BY <3>2, <5>1, <5>3, <5>4 DEF WriteOk, Abstract!Show
        <5>6. QED BY <5>5 DEF Abstract!BNext
      <4>3. QED BY <4>1, <4>2
    <3>3. CASE Unsubscribe(c)
      <4>1. Abstract!Leave(c) BY <3>3 DEF Unsubscribe, Abstract!Leave
      <4>2. QED BY <4>1 DEF Abstract!BNext
    <3>4. QED BY <2>1, <3>1, <3>2, <3>3 DEF StreamStep, Open, SeeDone, PingTick,
                 Receive, WriteFail, StreamDone, HangUp, GoDark
  <2>2. ASSUME NEW p \in Publishers, PublishStep(p)
        PROVE  [Abstract!BNext]_(Abstract!bvars)
    <3>1. CASE PublishLock(p)
      <4>1. Abstract!Emit BY <3>1 DEF PublishLock, Abstract!Emit
      <4>2. QED BY <4>1 DEF Abstract!BNext
    <3>2. QED BY <2>2, <3>1 DEF PublishStep, PublishTo, PublishUnlock
  <2>3. CASE SignalShutdown BY <2>3 DEF SignalShutdown
  <2>4. CASE UNCHANGED hubVars BY <2>4 DEF hubVars
  <2>5. QED BY <2>1, <2>2, <2>3, <2>4 DEF HubNext
<1>3. QED BY <1>1, <1>2, HubInvariance, PTL DEF HubSpec, IsBroadcast, Abstract!BSpec

-----------------------------------------------------------------------------
(* The server.                                                             *)

\* A server step runs at most one step of the hub: nothing else touches its state.
LEMMA ServerStepsHub == [Next]_vars => [HubNext]_hubVars
<1> SUFFICES ASSUME [Next]_vars PROVE [HubNext]_hubVars
  OBVIOUS
<1>1. CASE UNCHANGED vars BY <1>1 DEF vars
<1>2. ASSUME NEW c \in Streams, StreamWork(c) PROVE [HubNext]_hubVars
  BY <1>2 DEF StreamWork, HubNext
<1>3. ASSUME NEW p \in Publishers, PublishWork(p) PROVE [HubNext]_hubVars
  BY <1>3 DEF PublishWork, HubNext
<1>4. CASE RunHook BY <1>4 DEF RunHook, HubNext
<1>5. CASE Listen \/ BeginShutdown BY <1>5 DEF Listen, BeginShutdown
<1>6. CASE ListenFails \/ Drained \/ GraceElapses \/ Kill
  BY <1>6 DEF ListenFails, Drained, GraceElapses, Kill, Exit
<1>7. ASSUME NEW r \in Requests, StartRequest(r) \/ FinishRequest(r)
      PROVE  [HubNext]_hubVars
  BY <1>7 DEF StartRequest, FinishRequest
<1>8. QED BY <1>1, <1>2, <1>3, <1>4, <1>5, <1>6, <1>7 DEF Next

\* The server behaves like the hub of SSEHub as far as the hub's state goes.
THEOREM ServerRunsHub == Spec => HubSpec
<1>1. Init => HubInit BY DEF Init
<1>2. QED BY <1>1, ServerStepsHub, PTL DEF Spec, HubSpec

\* A handler owns its slot until its deferred delete, through a shutdown too
\* (sse.go:160-192).
THEOREM ServerSlotsOwned == Spec => []SlotsOwned
  BY ServerRunsHub, SlotsOwnedAlways, PTL

\* Channels stay in order and within their capacity in a running server
\* (sse.go:140-158).
THEOREM ServerInOrder == Spec => []InOrder
  BY ServerRunsHub, InOrderAlways, PTL

\* The hub of a running server is the abstract broadcast (module Broadcast).
THEOREM ServerIsBroadcast == Spec => IsBroadcast
  BY ServerRunsHub, HubIsBroadcast, PTL

LEMMA ServerTypeStep == ServerTypeOK /\ [Next]_vars => ServerTypeOK'
<1> SUFFICES ASSUME ServerTypeOK, [Next]_vars PROVE ServerTypeOK'
  OBVIOUS
<1> USE DEF ServerTypeOK
<1>1. CASE UNCHANGED vars BY <1>1 DEF vars, serverVars
<1>2. ASSUME NEW c \in Streams, StreamWork(c) PROVE ServerTypeOK'
  BY <1>2 DEF StreamWork, serverVars
<1>3. ASSUME NEW p \in Publishers, PublishWork(p) PROVE ServerTypeOK'
  BY <1>3 DEF PublishWork, serverVars
<1>4. CASE RunHook BY <1>4 DEF RunHook
<1>5. CASE Listen \/ BeginShutdown BY <1>5 DEF Listen, BeginShutdown
<1>6. CASE ListenFails \/ Drained \/ GraceElapses \/ Kill
  BY <1>6 DEF ListenFails, Drained, GraceElapses, Kill, Exit
<1>7. ASSUME NEW r \in Requests, StartRequest(r) \/ FinishRequest(r) PROVE ServerTypeOK'
  BY <1>7 DEF StartRequest, FinishRequest
<1>8. QED BY <1>1, <1>2, <1>3, <1>4, <1>5, <1>6, <1>7 DEF Next

\* Every variable of the server and of its hub keeps its type.
THEOREM ServerTyping == Spec => []TypeOK
<1>1. Init => ServerTypeOK BY DEF Init, ServerTypeOK
<1>2. HubTypeOK /\ ServerTypeOK => TypeOK BY DEF TypeOK
<1>3. QED BY <1>1, <1>2, ServerTypeStep, ServerRunsHub, HubTyping, PTL DEF Spec
=============================================================================
