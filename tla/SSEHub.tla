------------------------------- MODULE SSEHub -------------------------------
(***************************************************************************)
(* sse.go: the hub that broadcasts server-sent events, one handler         *)
(* goroutine per open stream (ServeHTTP), the watcher goroutine that       *)
(* closes the stream's Done channel (streamDone), and any number of        *)
(* goroutines calling Publish.                                             *)
(*                                                                         *)
(* A frame is the number of its Publish call in the order the calls took   *)
(* h.mu, so "in order" and "twice" are comparisons of numbers.  A payload  *)
(* that does not encode returns before the lock and changes nothing.       *)
(*                                                                         *)
(* A definition marked "Variant" is no part of the specification: it is    *)
(* the bug that the property named in PROJECT.json rules out.              *)
(***************************************************************************)
EXTENDS Naturals, Sequences, FiniteSets

CONSTANTS
  Streams,     \* the requests that may reach ServeHTTP
  Publishers,  \* the goroutines that call Publish
  Cap,         \* the capacity of a subscriber's channel (8 in the code)
  MaxFrames,   \* bound: how many frames are published at most
  NoOne        \* h.mu is free

ASSUME HubAssumption ==
  /\ Cap \in Nat \ {0}
  /\ MaxFrames \in Nat
  /\ NoOne \notin Publishers

VARIABLES
  handler,   \* where each stream's ServeHTTP stands
  conn,      \* its client: "up", "hungup" (the server can tell) or "dead" (it cannot)
  done,      \* stream.Done() is closed: the watcher goroutine has ended
  stopping,  \* shuttingDown.Done() is closed
  subs,      \* h.subs
  chan,      \* the buffered channel of each stream
  hand,      \* the frame a handler is writing
  shown,     \* history: the last frame written to each client
  mu,        \* the publisher that holds h.mu, or NoOne
  visiting,  \* the channels a publisher's range over h.subs has yet to visit
  frame,     \* the frame each publisher is sending, 0 outside Publish
  frames     \* how many frames were published

hubVars == <<handler, conn, done, stopping, subs, chan, hand, shown,
             mu, visiting, frame, frames>>

streamVars == <<handler, conn, done, stopping, subs, hand, shown>>
pubVars == <<mu, visiting, frame, frames>>

HandlerStates == {"none", "opened", "select", "writing", "returning", "gone"}
Ping == 0  \* the comment line, in place of a frame

HubInit ==
  /\ handler = [c \in Streams |-> "none"]
  /\ conn = [c \in Streams |-> "up"]
  /\ done = [c \in Streams |-> FALSE]
  /\ stopping = FALSE
  /\ subs = {}
  /\ chan = [c \in Streams |-> << >>]
  /\ hand = [c \in Streams |-> Ping]
  /\ shown = [c \in Streams |-> 0]
  /\ mu = NoOne
  /\ visiting = [p \in Publishers |-> {}]
  /\ frame = [p \in Publishers |-> 0]
  /\ frames = 0

-----------------------------------------------------------------------------
(* The client's side and shutdown.                                         *)

HangUp(c) ==
  /\ conn[c] = "up"
  /\ handler[c] \notin {"none", "gone"}
  /\ conn' = [conn EXCEPT ![c] = "hungup"]
  /\ UNCHANGED <<handler, done, stopping, subs, chan, hand, shown>> /\ UNCHANGED pubVars

\* A blackholed client: nothing arrives and nothing says so.
GoDark(c) ==
  /\ conn[c] = "up"
  /\ handler[c] \notin {"none", "gone"}
  /\ conn' = [conn EXCEPT ![c] = "dead"]
  /\ UNCHANGED <<handler, done, stopping, subs, chan, hand, shown>> /\ UNCHANGED pubVars

\* signalShutdown, which Serve registers to run when it starts shutting down.
SignalShutdown ==
  /\ ~stopping
  /\ stopping' = TRUE
  /\ UNCHANGED <<handler, conn, done, subs, chan, hand, shown>> /\ UNCHANGED pubVars

-----------------------------------------------------------------------------
(* One stream.                                                             *)

\* Variant: a streamDone that watches the request only.
StopIgnoringShutdown(c) == conn[c] = "hungup" \/ handler[c] = "gone"

\* The two channels streamDone's goroutine selects on.  The request context is
\* cancelled when the client hangs up and when ServeHTTP returns.
Stop(c) == conn[c] = "hungup" \/ handler[c] = "gone" \/ stopping

StreamDone(c) ==
  /\ handler[c] # "none" /\ ~done[c]
  /\ Stop(c)
  /\ done' = [done EXCEPT ![c] = TRUE]
  /\ UNCHANGED <<handler, conn, stopping, subs, chan, hand, shown>> /\ UNCHANGED pubVars

Goto(c, from, to) ==
  /\ handler[c] = from
  /\ handler' = [handler EXCEPT ![c] = to]

\* SSE(w, r): the headers are flushed and the watcher runs; not yet subscribed.
Open(c) ==
  /\ Goto(c, "none", "opened")
  /\ UNCHANGED <<conn, done, stopping, subs, chan, hand, shown>> /\ UNCHANGED pubVars

\* shown starts at the frames published before the client subscribed.
Subscribe(c) ==
  /\ mu = NoOne
  /\ Goto(c, "opened", "select")
  /\ subs' = subs \cup {c}
  /\ chan' = [chan EXCEPT ![c] = << >>]
  /\ shown' = [shown EXCEPT ![c] = frames]
  /\ UNCHANGED <<conn, done, stopping, hand>> /\ UNCHANGED pubVars

\* The three cases of the select: SeeDone, PingTick and Receive.

SeeDone(c) ==
  /\ done[c]
  /\ Goto(c, "select", "returning")
  /\ UNCHANGED <<conn, done, stopping, subs, chan, hand, shown>> /\ UNCHANGED pubVars

\* Variant: a handler without a ticker hears of its client only through frames.
PingNever(c) == FALSE /\ UNCHANGED hubVars

PingTick(c) ==
  /\ Goto(c, "select", "writing")
  /\ hand' = [hand EXCEPT ![c] = Ping]
  /\ UNCHANGED <<conn, done, stopping, subs, chan, shown>> /\ UNCHANGED pubVars

Receive(c) ==
  /\ chan[c] # << >>
  /\ Goto(c, "select", "writing")
  /\ hand' = [hand EXCEPT ![c] = Head(chan[c])]
  /\ chan' = [chan EXCEPT ![c] = Tail(chan[c])]
  /\ UNCHANGED <<conn, done, stopping, subs, shown>> /\ UNCHANGED pubVars

\* write: the client takes the bytes ...
WriteOk(c) ==
  /\ conn[c] # "dead"
  /\ Goto(c, "writing", "select")
  /\ shown' = [shown EXCEPT ![c] = IF hand[c] = Ping THEN @ ELSE hand[c]]
  /\ UNCHANGED <<conn, done, stopping, subs, chan, hand>> /\ UNCHANGED pubVars

\* ... or the write fails: a broken connection, or sseWriteTimeout with a slow one.
WriteFail(c) ==
  /\ Goto(c, "writing", "returning")
  /\ UNCHANGED <<conn, done, stopping, subs, chan, hand, shown>> /\ UNCHANGED pubVars

\* Variant: a return path that skips the deferred delete when a write failed.
UnsubscribeUnlessFailed(c) ==
  /\ mu = NoOne
  /\ Goto(c, "returning", "gone")
  /\ subs' = IF done[c] THEN subs \ {c} ELSE subs
  /\ UNCHANGED <<conn, done, stopping, chan, hand, shown>> /\ UNCHANGED pubVars

\* The deferred delete(h.subs, ch).
Unsubscribe(c) ==
  /\ mu = NoOne
  /\ Goto(c, "returning", "gone")
  /\ subs' = subs \ {c}
  /\ UNCHANGED <<conn, done, stopping, chan, hand, shown>> /\ UNCHANGED pubVars

-----------------------------------------------------------------------------
(* Publish.                                                                *)

\* Variant: Publish over a copy of the map's keys, without holding the lock.
PublishUnlocked(p) ==
  /\ frame[p] = 0
  /\ frames < MaxFrames
  /\ frames' = frames + 1
  /\ frame' = [frame EXCEPT ![p] = frames + 1]
  /\ visiting' = [visiting EXCEPT ![p] = subs]
  /\ UNCHANGED streamVars /\ UNCHANGED <<chan, mu>>

PublishLock(p) ==
  /\ frame[p] = 0 /\ mu = NoOne
  /\ frames < MaxFrames
  /\ mu' = p
  /\ frames' = frames + 1
  /\ frame' = [frame EXCEPT ![p] = frames + 1]
  /\ visiting' = [visiting EXCEPT ![p] = subs]
  /\ UNCHANGED streamVars /\ UNCHANGED chan

\* Variant: a full channel that makes room by forgetting its oldest frame.
OfferDropOldest(q, f) == IF Len(q) < Cap THEN Append(q, f) ELSE Append(Tail(q), f)

\* select { case ch <- frame: default: }
Offer(q, f) == IF Len(q) < Cap THEN Append(q, f) ELSE q

PublishTo(p, c) ==
  /\ c \in visiting[p]
  /\ visiting' = [visiting EXCEPT ![p] = @ \ {c}]
  /\ chan' = [chan EXCEPT ![c] = Offer(@, frame[p])]
  /\ UNCHANGED streamVars /\ UNCHANGED <<mu, frame, frames>>

PublishUnlock(p) ==
  /\ frame[p] # 0 /\ visiting[p] = {}
  /\ mu' = NoOne
  /\ frame' = [frame EXCEPT ![p] = 0]
  /\ UNCHANGED streamVars /\ UNCHANGED <<chan, visiting, frames>>

-----------------------------------------------------------------------------
StreamStep(c) ==
  \/ Open(c) \/ Subscribe(c) \/ SeeDone(c) \/ PingTick(c) \/ Receive(c)
  \/ WriteOk(c) \/ WriteFail(c) \/ Unsubscribe(c)
  \/ StreamDone(c) \/ HangUp(c) \/ GoDark(c)

PublishStep(p) ==
  \/ PublishLock(p) \/ PublishUnlock(p)
  \/ \E c \in Streams : PublishTo(p, c)

HubNext ==
  \/ \E c \in Streams : StreamStep(c)
  \/ \E p \in Publishers : PublishStep(p)
  \/ SignalShutdown

HubSpec == HubInit /\ [][HubNext]_hubVars

-----------------------------------------------------------------------------
HubTypeOK ==
  /\ handler \in [Streams -> HandlerStates]
  /\ conn \in [Streams -> {"up", "hungup", "dead"}]
  /\ done \in [Streams -> BOOLEAN]
  /\ stopping \in BOOLEAN
  /\ subs \in SUBSET Streams
  /\ chan \in [Streams -> Seq(Nat)]
  /\ hand \in [Streams -> Nat]
  /\ shown \in [Streams -> Nat]
  /\ mu \in Publishers \cup {NoOne}
  /\ visiting \in [Publishers -> SUBSET Streams]
  /\ frame \in [Publishers -> Nat]
  /\ frames \in Nat

\* The hub holds exactly one slot for every handler between its subscribe and
\* its deferred delete, however the handler came to return (a closed Done, a
\* failed ping, a failed frame, mid-publish): nobody leaks a slot and nobody
\* loses one while it still reads its channel.  sse.go:166-174.
SlotsOwned ==
  \A c \in Streams : c \in subs <=> handler[c] \in {"select", "writing", "returning"}

\* Channels never outgrow their capacity, and what waits in one is newer than
\* what its client was shown, in the order published, with no repeats, even
\* with several publishers and readers interleaved with the loop in Publish.
\* sse.go:150-157, 186-187.
InOrder ==
  \A c \in Streams :
    /\ Len(chan[c]) <= Cap
    /\ \A i \in 1 .. Len(chan[c]) :
         /\ c \in subs => shown[c] < chan[c][i]
         /\ chan[c][i] <= frames
         /\ \A j \in 1 .. Len(chan[c]) : i < j => chan[c][i] < chan[c][j]

\* The lock covers one whole Publish: only its holder has a frame in hand, that
\* frame is the newest, and the channels it has yet to visit are subscribed.
LockDiscipline ==
  \A p \in Publishers :
    /\ frame[p] # 0 <=> mu = p
    /\ frame[p] # 0 => frame[p] = frames
    /\ frame[p] = 0 => visiting[p] = {}
    /\ visiting[p] \subseteq subs

\* A frame being written is newer than what was shown and older than what waits.
HandInOrder ==
  \A c \in Streams : handler[c] = "writing" /\ hand[c] # Ping =>
    /\ shown[c] < hand[c]
    /\ hand[c] <= frames
    /\ \A i \in 1 .. Len(chan[c]) : hand[c] < chan[c][i]

\* A channel yet to be visited holds, and its client was shown, older frames only.
UnvisitedIsOlder ==
  \A p \in Publishers : \A c \in visiting[p] :
    /\ shown[c] < frame[p]
    /\ handler[c] = "writing" => hand[c] < frame[p]
    /\ \A i \in 1 .. Len(chan[c]) : chan[c][i] < frame[p]

ShownIsPublished == \A c \in Streams : shown[c] <= frames

HubInv ==
  /\ HubTypeOK /\ SlotsOwned /\ InOrder
  /\ LockDiscipline /\ HandInOrder /\ UnvisitedIsOlder /\ ShownIsPublished

\* The hub is the lossy, ordered broadcast of module Broadcast: no client sees
\* an event twice, out of order, or from before it subscribed.
Abstract == INSTANCE Broadcast WITH Members <- Streams, log <- frames,
                                    joined <- subs
IsBroadcast == Abstract!BSpec
=============================================================================
