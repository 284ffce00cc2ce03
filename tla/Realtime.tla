------------------------------ MODULE Realtime ------------------------------
(***************************************************************************)
(* One websocket topic: the channels that browsers hold on it (subscribe   *)
(* in packages/borgo/src/index.ts), the sockets they dial one after the    *)
(* other, the relay in packages/borgo/src/server.ts, and borgo.Push.       *)
(*                                                                         *)
(* A socket has two ends and a line.  When the line is cut, what is under  *)
(* way arrives as far as it does, and either end notices in its own time.  *)
(* A frame is 0 when it carries an event, and n when it is the "__count"   *)
(* event with n subscribers.                                               *)
(* Topics do not interact and a channel publishes on its own, so one is    *)
(* enough; the length of a backoff is left out, a timer fires some time.   *)
(***************************************************************************)
EXTENDS Naturals, Sequences, FiniteSets, Functions

CONSTANTS
  Channels,      \* the calls of subscribe
  Publishers,    \* those whose page publishes
  NoSocket,
  Sockets,       \* places for sockets
  MaxPublished,  \* bound: events, of the channels and of borgo.Push
  MaxFaults      \* bound: lines cut, handshakes refused, frames dropped

ASSUME RealtimeAssumption ==
  /\ NoSocket \notin Sockets /\ IsFiniteSet(Sockets)
  /\ Publishers \subseteq Channels
  /\ MaxPublished \in Nat /\ MaxFaults \in Nat

VARIABLES
  ws, closed, timer, queue,  \* per channel: the variables of subscribe
  published, sent,           \* ghosts: events 1 .. published[c], those given to a socket
  shown,                     \* the last __count the page was told
  browser, server, line,     \* per socket: its two ends, and whether the line holds
  up, down,                  \* events under way to the server, frames to the browser
  behind,                    \* ghost: sockets that the last __count was dropped for
  recount,                   \* publishCount calls that wait in setTimeout
  pushed, faults             \* bounds

channelVars == <<ws, closed, timer, queue, published, sent, shown>>
realtimeVars == <<ws, closed, timer, queue, published, sent, shown, browser, server,
                  line, up, down, behind, recount, pushed, faults>>

RealtimeInit ==
  /\ ws = [c \in Channels |-> NoSocket]
  /\ closed = [c \in Channels |-> FALSE] /\ timer = [c \in Channels |-> FALSE]
  /\ queue = [c \in Channels |-> <<>>] /\ sent = [c \in Channels |-> <<>>]
  /\ published = [c \in Channels |-> 0] /\ shown = [c \in Channels |-> 0]
  /\ browser = [s \in Sockets |-> "unused"] /\ server = [s \in Sockets |-> "none"]
  /\ line = [s \in Sockets |-> TRUE]
  /\ up = [s \in Sockets |-> 0] /\ down = [s \in Sockets |-> <<>>]
  /\ behind = {}
  /\ recount = 0 /\ pushed = 0 /\ faults = 0

Subscribers == {s \in Sockets : server[s] = "open"}
Published == FoldFunction(+, pushed, published)
IsOpen(c) == ws[c] # NoSocket /\ browser[ws[c]] = "open"

-----------------------------------------------------------------------------
(* The channel.                                                            *)

\* connect: a new socket, which here takes a place of Sockets whose last socket is
\* gone at both ends.
Free(c) == {s \in Sockets : /\ browser[s] \in {"unused", "closed"} /\ server[s] # "open"
                            /\ \A d \in Channels \ {c} : ws[d] # s}

Dial(c) ==
  /\ Free(c) # {}
  /\ LET s == CHOOSE s \in Free(c) : TRUE
     IN /\ ws' = [ws EXCEPT ![c] = s]
        /\ browser' = [browser EXCEPT ![s] = "connecting"]
        /\ server' = [server EXCEPT ![s] = "none"]
        /\ line' = [line EXCEPT ![s] = TRUE]

Subscribe(c) ==
  /\ ws[c] = NoSocket /\ ~closed[c]
  /\ Dial(c)
  /\ UNCHANGED <<closed, timer, queue, published, sent, shown, up, down, behind, recount, pushed, faults>>

\* The timer of a backoff fires; a close() before it has cleared it.
Redial(c) ==
  /\ timer[c]
  /\ timer' = [timer EXCEPT ![c] = FALSE]
  /\ IF closed[c] THEN UNCHANGED <<ws, browser, server, line>> ELSE Dial(c)
  /\ UNCHANGED <<closed, queue, published, sent, shown, up, down, behind, recount, pushed, faults>>

\* ws.send: whatever the browser takes for an open socket; a cut line loses it.
Transmit(c, s, events) ==
  /\ sent' = [sent EXCEPT ![c] = @ \o events]
  /\ up' = [up EXCEPT ![s] = IF line[s] THEN @ + Len(events) ELSE @]

\* Variant: a queue that is sent and kept.
OpenedKeeping(c) ==
  LET s == ws[c]
  IN /\ s # NoSocket /\ browser[s] = "connecting" /\ server[s] = "open" /\ line[s]
     /\ browser' = [browser EXCEPT ![s] = "open"]
     /\ Transmit(c, s, queue[c])
     /\ UNCHANGED <<ws, closed, timer, queue, published, shown, server, line, down,
                    behind, recount, pushed, faults>>

\* ws.onopen: what was published meanwhile goes out first.
Opened(c) ==
  LET s == ws[c]
  IN /\ s # NoSocket /\ browser[s] = "connecting" /\ server[s] = "open" /\ line[s]
     /\ browser' = [browser EXCEPT ![s] = "open"]
     /\ Transmit(c, s, queue[c])
     /\ queue' = [queue EXCEPT ![c] = <<>>]
     /\ UNCHANGED <<ws, closed, timer, published, shown, server, line, down,
                    behind, recount, pushed, faults>>

Publish(c) ==
  /\ ws[c] # NoSocket /\ ~closed[c] /\ Published < MaxPublished
  /\ published' = [published EXCEPT ![c] = @ + 1]
  /\ IF IsOpen(c)
     THEN Transmit(c, ws[c], <<published[c] + 1>>) /\ UNCHANGED queue
     ELSE /\ queue' = [queue EXCEPT ![c] = Append(@, published[c] + 1)]
          /\ UNCHANGED <<sent, up>>
  /\ UNCHANGED <<ws, closed, timer, shown, browser, server, line, down,
                 behind, recount, pushed, faults>>

\* ws.onmessage; an event is handed to the page, which is not modelled.
Hear(c) ==
  LET s == ws[c]
  IN /\ IsOpen(c) /\ down[s] # <<>>
     /\ shown' = [shown EXCEPT ![c] = IF Head(down[s]) = 0 THEN @ ELSE Head(down[s])]
     /\ down' = [down EXCEPT ![s] = Tail(@)]
     /\ UNCHANGED <<ws, closed, timer, queue, published, sent, browser, server, line, up,
                    behind, recount, pushed, faults>>

\* ws.onclose, of a line that was cut and of the channel's own close().
Closed(c) ==
  LET s == ws[c]
  IN /\ s # NoSocket
     /\ \/ browser[s] \in {"connecting", "open"} /\ ~line[s]
        \/ browser[s] = "closing"
     /\ browser' = [browser EXCEPT ![s] = "closed"]
     /\ timer' = [timer EXCEPT ![c] = ~closed[c]]
     /\ down' = [down EXCEPT ![s] = <<>>]
     /\ UNCHANGED <<ws, closed, queue, published, sent, shown, server, line, up,
                    behind, recount, pushed, faults>>

\* Variant: close() forgets the socket that is still connecting.
CloseOpenOnly(c) ==
  /\ ws[c] # NoSocket /\ ~closed[c]
  /\ closed' = [closed EXCEPT ![c] = TRUE]
  /\ timer' = [timer EXCEPT ![c] = FALSE]
  /\ browser' = [browser EXCEPT ![ws[c]] = IF @ = "open" THEN "closing" ELSE @]
  /\ down' = [down EXCEPT ![ws[c]] = <<>>]
  /\ UNCHANGED <<ws, queue, published, sent, shown, server, line, up, behind, recount, pushed, faults>>

Close(c) ==
  /\ ws[c] # NoSocket /\ ~closed[c]
  /\ closed' = [closed EXCEPT ![c] = TRUE]
  /\ timer' = [timer EXCEPT ![c] = FALSE]
  /\ browser' = [browser EXCEPT ![ws[c]] = IF @ \in {"connecting", "open"}
                                         THEN "closing" ELSE @]
  /\ down' = [down EXCEPT ![ws[c]] = <<>>]
  /\ UNCHANGED <<ws, queue, published, sent, shown, server, line, up, behind, recount, pushed, faults>>

-----------------------------------------------------------------------------
(* The front server.                                                       *)

\* server.publish, to those who are subscribed at that moment.  What the line or
\* the browser no longer takes is lost; and bun drops a frame for a socket with too
\* much under way: "no replay, no delivery guarantee" (docs/realtime.md:114).
Reachable(s) == line[s] /\ browser[s] \in {"connecting", "open"}

Broadcast(frame, to) ==
  \E full \in SUBSET {s \in to : Reachable(s) /\ down[s] # <<>>} :
    /\ faults + Cardinality(full) <= MaxFaults
    /\ faults' = faults + Cardinality(full)
    /\ down' = [s \in Sockets |->
                  IF s \in to \ full /\ Reachable(s) THEN Append(down[s], frame) ELSE down[s]]
    /\ behind' = IF frame = 0 THEN behind ELSE (behind \ to) \cup full

\* The upgrade and the open handler: join, then tell everybody the new count.
Upgrade(s) ==
  /\ browser[s] \in {"connecting", "closing"} /\ server[s] = "none" /\ line[s]
  /\ server' = [server EXCEPT ![s] = "open"]
  /\ LET all == Subscribers \cup {s} IN Broadcast(Cardinality(all), all)
  /\ UNCHANGED channelVars /\ UNCHANGED <<browser, line, up, recount, pushed>>

\* The message handler.
Relay(s) ==
  /\ server[s] = "open" /\ up[s] > 0
  /\ up' = [up EXCEPT ![s] = @ - 1]
  /\ Broadcast(0, Subscribers)
  /\ UNCHANGED channelVars /\ UNCHANGED <<browser, server, line, recount, pushed>>

\* A socket is left when it was closed and all that arrived is relayed, or when
\* the line is cut, whatever had arrived by then.
Left(s) ==
  /\ server[s] = "open"
  /\ ~line[s] \/ (browser[s] \in {"closing", "closed"} /\ up[s] = 0)
  /\ server' = [server EXCEPT ![s] = "gone"]
  /\ up' = [up EXCEPT ![s] = 0]

\* The close handler: the count is published from a timer, after bun has
\* unsubscribed the socket.
Leave(s) ==
  /\ Left(s)
  /\ recount' = recount + 1
  /\ UNCHANGED channelVars /\ UNCHANGED <<browser, line, down, behind, pushed, faults>>

Recount ==
  /\ recount > 0
  /\ recount' = recount - 1
  /\ Broadcast(Cardinality(Subscribers), Subscribers)
  /\ UNCHANGED channelVars /\ UNCHANGED <<browser, server, line, up, pushed>>

\* borgo.Push that the front server accepts.  One it refuses, or that does not get
\* through, is an error for its caller; so is one whose 204 is late.
Push ==
  /\ Published < MaxPublished
  /\ pushed' = pushed + 1
  /\ Broadcast(0, Subscribers)
  /\ UNCHANGED channelVars /\ UNCHANGED <<browser, server, line, up, recount>>

\* The line is cut, or the handshake is refused (origin, topics, no server).
Cut(s) ==
  /\ line[s] /\ browser[s] # "unused" /\ server[s] # "gone"
  /\ faults < MaxFaults
  /\ faults' = faults + 1
  /\ line' = [line EXCEPT ![s] = FALSE]
  /\ server' = [server EXCEPT ![s] = IF @ = "none" THEN "gone" ELSE @]
  /\ UNCHANGED channelVars /\ UNCHANGED <<browser, up, down, behind, recount, pushed>>

-----------------------------------------------------------------------------
RealtimeUser ==
  \/ \E c \in Channels : Subscribe(c) \/ Close(c)
  \/ \E c \in Publishers : Publish(c)
  \/ Push

ChannelStep(c) == Opened(c) \/ Hear(c) \/ Closed(c) \/ Redial(c)
SocketStep(s) == Upgrade(s) \/ Relay(s) \/ Leave(s)

RealtimeSystem ==
  \/ \E c \in Channels : ChannelStep(c)
  \/ \E s \in Sockets : SocketStep(s) \/ Cut(s)
  \/ Recount

RealtimeNext == RealtimeUser \/ RealtimeSystem

\* Timers fire, handlers run, and each end of a cut line notices in the end: the
\* browser by its own timeouts, the server by the idle timeout and pings that bun
\* has for websockets (server.ts:305 turns off the one for http only).
RealtimeFairness ==
  WF_realtimeVars(\/ \E c \in Channels : ChannelStep(c)
                  \/ \E s \in Sockets : SocketStep(s)
                  \/ Recount)

RealtimeSpec == RealtimeInit /\ [][RealtimeNext]_realtimeVars /\ RealtimeFairness

-----------------------------------------------------------------------------
\* Events leave a channel in the order they were published, each of them once,
\* whether they went out directly or waited for a socket; index.ts:99, 116-118.
PublishedInOrder ==
  \A c \in Channels : sent[c] \o queue[c] = [i \in 1 .. published[c] |-> i]

\* What every connected page was told is the number of subscribers, unless that
\* very frame was dropped: it then shows an old count until somebody joins or
\* leaves; server.ts:275-281, 313, 322-325.
PresenceIsTrue ==
  \A c \in Channels :
    IsOpen(c) /\ ws[c] \notin behind => shown[c] = Cardinality(Subscribers)

\* A channel that is not closed has a socket and nothing waits in its queue, a closed
\* one has neither a socket nor a timer; index.ts:88-91, 107, 120-124.
ChannelsRest ==
  \A c \in Channels :
    ws[c] # NoSocket =>
      IF closed[c] THEN ~timer[c] /\ server[ws[c]] # "open"
                   ELSE IsOpen(c) /\ queue[c] = <<>>

\* Once joins, leaves and faults stop, every channel comes to rest, also when close()
\* met the handshake or the backoff, and every page shows the true count.
RealtimeSettles == <>[]PresenceIsTrue /\ <>[]ChannelsRest
=============================================================================
