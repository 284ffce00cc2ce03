--------------------------- MODULE DocumentStream ---------------------------
(* The way of a rendered page from react to the client:                     *)
(*   renderPage    (packages/borgo/src/util.ts) decides whether to render    *)
(*   documentStream (compress.ts) pulls react chunk by chunk, between the    *)
(*                  head and the tail of the shell                           *)
(*   gzipStream    (compress.ts) pumps that stream through zlib               *)
(*   the client    reads whichever of the two the response carries, or goes  *)
(*                  away; a HEAD is a client that goes away at once          *)
(*                                                                           *)
(* A unit of the document is a number: 0 is the head, i the i-th chunk of    *)
(* react, the number after the last chunk the tail.  zlib flushes after      *)
(* every write, so it hands on a unit for a unit.                            *)
(*                                                                           *)
(* Both streams are ReadableStreams with the default strategy: they ask for  *)
(* more when their queue is empty, an error discards the queue, a cancel     *)
(* discards it and runs the cancel hook, and neither error nor cancel        *)
(* reaches a stream that has ended.                                          *)
EXTENDS Integers, Sequences

CONSTANTS
  MaxChunks,   \* a bound: the chunks react may yield
  ZlibRoom     \* units zlib buffers before write() returns false

ASSUME DocumentAssumption == MaxChunks \in Nat /\ ZlibRoom \in Nat \ {0}

VARIABLES
  reply,      \* how renderPage went
  gzipped,    \* the response carries gzipStream(documentStream(...))
  render,     \* react's render of the page
  produced,   \* chunks react has yielded
  docState, docQueue,            \* the stream of documentStream
  pulling, tailSent, cancelled,  \* its pull() in flight, and its two flags
  pump,       \* where the loop inside gzipStream stands
  zlibState, pending,            \* the gzip transform and the units in it
  outState, outQueue,            \* the stream gzipStream returns
  arrived, outcome                   \* what the client has, and how it ended

renderVars == <<reply, gzipped, render, produced>>
docVars == <<docState, docQueue, pulling, tailSent, cancelled>>
gzipVars == <<pump, zlibState, pending, outState, outQueue>>
clientVars == <<arrived, outcome>>
documentVars == <<renderVars, docVars, gzipVars, clientVars>>

DocumentInit ==
  /\ reply = "asked" /\ gzipped = FALSE
  /\ render = "none" /\ produced = 0
  /\ docState = "none" /\ docQueue = <<>>
  /\ pulling = FALSE /\ tailSent = FALSE /\ cancelled = FALSE
  /\ pump = "none" /\ zlibState = "none" /\ pending = <<>>
  /\ outState = "none" /\ outQueue = <<>>
  /\ arrived = <<>> /\ outcome = "waiting"

-----------------------------------------------------------------------------
(* renderPage *)

\* The loader answers by itself (a redirect), throws, or hands back props
\* that json cannot carry: no render has begun.  A shell that fails to render
\* rejects renderToStream and leaves nothing behind either.
Refuse ==
  /\ reply = "asked"
  /\ reply' \in {"redirect", "failed"}
  /\ UNCHANGED <<gzipped, render, produced, docVars, gzipVars, clientVars>>

\* The shell is ready: documentStream starts with the head in its queue and
\* gzipStream, unless in dev or for a client without gzip, starts its pump.
Respond(gz) ==
  /\ reply = "asked"
  /\ reply' = "streaming" /\ gzipped' = gz
  /\ render' = "running"
  /\ docState' = "readable" /\ docQueue' = <<0>>
  /\ pump' = IF gz THEN "check" ELSE "none"
  /\ zlibState' = IF gz THEN "open" ELSE "none"
  /\ outState' = IF gz THEN "readable" ELSE "none"
  /\ outcome' = "reading"
  /\ UNCHANGED <<produced, pulling, tailSent, cancelled, pending, outQueue, arrived>>

RenderDocument == Refuse \/ \E gz \in BOOLEAN : Respond(gz)

-----------------------------------------------------------------------------
(* documentStream *)

\* The queue is empty: pull() asks the iterator for the next chunk.
Pull ==
  /\ docState = "readable" /\ docQueue = <<>> /\ ~pulling
  /\ pulling' = TRUE
  /\ UNCHANGED <<renderVars, docState, docQueue, tailSent, cancelled, gzipVars, clientVars>>

\* enqueue() on a stream that was cancelled meanwhile throws, and the catch of
\* pull() swallows it.
Enqueue(unit) == docQueue' = IF cancelled THEN docQueue ELSE Append(docQueue, unit)

\* A chunk.  iterator.return() waits behind the next() in flight, so a render
\* whose stream was cancelled is released here.
Yield ==
  /\ pulling /\ render = "running" /\ produced < MaxChunks
  /\ pulling' = FALSE
  /\ produced' = produced + 1
  /\ Enqueue(produced + 1)
  /\ render' = IF cancelled THEN "released" ELSE "running"
  /\ UNCHANGED <<reply, gzipped, docState, tailSent, cancelled, gzipVars, clientVars>>

\* next() says done: the first time the tail is due.
YieldTail ==
  /\ pulling /\ render = "running"
  /\ pulling' = FALSE
  /\ render' = "done"
  /\ tailSent' = TRUE
  /\ Enqueue(produced + 1)
  /\ UNCHANGED <<reply, gzipped, produced, docState, cancelled, gzipVars, clientVars>>

\* The second time the stream is closed (or was cancelled, which is closed).
CloseDocument ==
  /\ pulling /\ render = "done"
  /\ pulling' = FALSE
  /\ docState' = "closed"
  /\ UNCHANGED <<renderVars, docQueue, tailSent, cancelled, gzipVars, clientVars>>

\* Variant: a failure on a live stream closes it.
RenderFailsQuietly ==
  /\ pulling /\ render = "running"
  /\ pulling' = FALSE
  /\ render' = "failed"
  /\ docState' = "closed"
  /\ UNCHANGED <<reply, gzipped, produced, docQueue, tailSent, cancelled>>
  /\ UNCHANGED <<gzipVars, clientVars>>

\* A render that fails after the shell went out fails a live stream.
RenderFails ==
  /\ pulling /\ render = "running"
  /\ pulling' = FALSE
  /\ render' = "failed"
  /\ docState' = IF cancelled THEN docState ELSE "errored"
  /\ UNCHANGED <<reply, gzipped, produced, docQueue, tailSent, cancelled>>
  /\ UNCHANGED <<gzipVars, clientVars>>

\* cancel() of documentStream: nothing happens to one that has ended.
CancelDocument ==
  IF docState = "readable"
  THEN /\ docState' = "closed" /\ docQueue' = <<>> /\ cancelled' = TRUE
       /\ render' = IF render = "running" /\ ~pulling THEN "released" ELSE render
  ELSE UNCHANGED <<docState, docQueue, cancelled, render>>

-----------------------------------------------------------------------------
(* gzipStream: the pump and zlib *)

Destroyed == zlibState \in {"destroyed", "failed"}

\* Variant: the pump reads as fast as zlib takes the writes.
PumpNeverParks ==
  /\ pump = "check"
  /\ pump' = IF Destroyed THEN "ended" ELSE "reading"
  /\ UNCHANGED <<renderVars, docVars, zlibState, pending, outState, outQueue, clientVars>>

\* The head of the loop: no room downstream parks the pump, a destroyed gzip
\* ends it (there is nothing to end then), and otherwise it reads.
PumpLooks ==
  /\ pump = "check"
  /\ pump' = IF Destroyed THEN "ended"
             ELSE IF outState = "readable" /\ outQueue # <<>> THEN "parked"
             ELSE "reading"
  /\ UNCHANGED <<renderVars, docVars, zlibState, pending, outState, outQueue, clientVars>>

\* resume() was called: the loop goes on to its read without a second look at
\* the room.
PumpWakes ==
  /\ pump = "woken"
  /\ pump' = IF Destroyed THEN "ended" ELSE "reading"
  /\ UNCHANGED <<renderVars, docVars, zlibState, pending, outState, outQueue, clientVars>>

\* reader.read() has a unit; write() says whether zlib has room for more.  A
\* gzip that was destroyed during the read drops the unit.
PumpWrites ==
  /\ pump = "reading" /\ docQueue # <<>>
  /\ docQueue' = Tail(docQueue)
  /\ pending' = IF Destroyed THEN pending ELSE Append(pending, Head(docQueue))
  /\ pump' = IF Destroyed THEN "ended"
             ELSE IF Len(pending') >= ZlibRoom THEN "draining"
             ELSE "check"
  /\ UNCHANGED <<renderVars, docState, pulling, tailSent, cancelled,
                 zlibState, outState, outQueue, clientVars>>

\* drain, or close: the race that a full write waits for.
PumpDrains ==
  /\ pump = "draining"
  /\ Destroyed \/ pending = <<>>
  /\ pump' = IF Destroyed THEN "ended" ELSE "check"
  /\ UNCHANGED <<renderVars, docVars, zlibState, pending, outState, outQueue, clientVars>>

\* The source has ended, or was cancelled under the pending read.
PumpFinishes ==
  /\ pump = "reading" /\ docState = "closed" /\ docQueue = <<>>
  /\ pump' = "ended"
  /\ zlibState' = IF Destroyed THEN zlibState ELSE "ending"
  /\ UNCHANGED <<renderVars, docVars, pending, outState, outQueue, clientVars>>

\* The source failed: gzip is destroyed with the error, which its error
\* handler passes on.
PumpFails ==
  /\ pump = "reading" /\ docState = "errored"
  /\ pump' = "ended"
  /\ IF Destroyed
     THEN UNCHANGED <<zlibState, pending, outState, outQueue>>
     ELSE zlibState' = "destroyed" /\ pending' = <<>> /\ outState' = "errored" /\ outQueue' = <<>>
  /\ UNCHANGED <<renderVars, docVars, clientVars>>

\* 'data': a flushed unit is queued for the client.
ZlibEmits ==
  /\ zlibState \in {"open", "ending"} /\ pending # <<>>
  /\ pending' = Tail(pending)
  /\ outQueue' = Append(outQueue, Head(pending))
  /\ UNCHANGED <<renderVars, docVars, pump, zlibState, outState, clientVars>>

\* 'end', after the last byte.
ZlibEnds ==
  /\ zlibState = "ending" /\ pending = <<>>
  /\ zlibState' = "ended" /\ outState' = "closed"
  /\ UNCHANGED <<renderVars, docVars, pump, pending, outQueue, clientVars>>

\* zlib itself fails (memory): the stream is destroyed and the client's stream
\* errors.  Nobody cancels the reader and nobody wakes a parked pump.
ZlibFails ==
  /\ zlibState \in {"open", "ending"}
  /\ zlibState' = "failed" /\ pending' = <<>>
  /\ outState' = "errored" /\ outQueue' = <<>>
  /\ UNCHANGED <<renderVars, docVars, pump, clientVars>>

-----------------------------------------------------------------------------
(* the client *)

Wake == pump' = IF pump = "parked" THEN "woken" ELSE pump

ReadPlain ==
  /\ outcome = "reading" /\ ~gzipped /\ docQueue # <<>>
  /\ arrived' = Append(arrived, Head(docQueue))
  /\ docQueue' = Tail(docQueue)
  /\ UNCHANGED <<renderVars, docState, pulling, tailSent, cancelled, gzipVars, outcome>>

\* The read that empties the queue calls pull(), which wakes the pump.
ReadGzipped ==
  /\ outcome = "reading" /\ gzipped /\ outQueue # <<>>
  /\ arrived' = Append(arrived, Head(outQueue))
  /\ outQueue' = Tail(outQueue)
  /\ IF outState = "readable" /\ Len(outQueue) = 1 THEN Wake ELSE UNCHANGED pump
  /\ UNCHANGED <<renderVars, docVars, zlibState, pending, outState, outcome>>

\* The stream of the response has ended, one way or the other.
EndsWith(state, queue) ==
  /\ queue = <<>> /\ state \in {"closed", "errored"}
  /\ outcome' = IF state = "closed" THEN "complete" ELSE "broken"

Ends ==
  /\ outcome = "reading"
  /\ IF gzipped THEN EndsWith(outState, outQueue) ELSE EndsWith(docState, docQueue)
  /\ UNCHANGED <<renderVars, docVars, gzipVars, arrived>>

\* Variant: a parked pump is left asleep.
CancelGzipAsleep ==
  IF outState = "readable" \/ outQueue # <<>>
  THEN /\ outState' = "closed" /\ outQueue' = <<>> /\ pending' = <<>>
       /\ UNCHANGED pump
       /\ zlibState' = IF Destroyed \/ zlibState = "ended" THEN zlibState ELSE "destroyed"
       /\ CancelDocument
  ELSE UNCHANGED <<gzipVars, docState, docQueue, cancelled, render>>

\* cancel() of gzipStream: the flag, the wake-up, gzip.destroy() and
\* reader.cancel(), in one go.  A stream that has ended does not call it.
CancelGzip ==
  IF outState = "readable" \/ outQueue # <<>>
  THEN /\ outState' = "closed" /\ outQueue' = <<>> /\ pending' = <<>>
       /\ Wake
       /\ zlibState' = IF Destroyed \/ zlibState = "ended" THEN zlibState ELSE "destroyed"
       /\ CancelDocument
  ELSE UNCHANGED <<gzipVars, docState, docQueue, cancelled, render>>

\* The client goes away, or the request was a HEAD.
Leaves ==
  /\ outcome = "reading"
  /\ outcome' = "left"
  /\ IF gzipped THEN CancelGzip ELSE CancelDocument /\ UNCHANGED gzipVars
  /\ UNCHANGED <<reply, gzipped, produced, pulling, tailSent, arrived>>

-----------------------------------------------------------------------------

React == Yield \/ YieldTail \/ CloseDocument \/ RenderFails
Pump == PumpLooks \/ PumpWakes \/ PumpWrites \/ PumpDrains \/ PumpFinishes \/ PumpFails
Zlib == ZlibEmits \/ ZlibEnds
Reads == ReadPlain \/ ReadGzipped \/ Ends

DocumentNext == RenderDocument \/ Pull \/ React \/ Pump \/ Zlib \/ ZlibFails \/ Reads \/ Leaves

\* The event loop runs what is ready, and react settles every chunk in the end (a
\* suspended boundary resolves or fails).  Nothing makes a client read or leave:
\* server.ts:305 sets idleTimeout to 0, so a client that does neither is kept.
DocumentFairness ==
  /\ WF_documentVars(Pull) /\ WF_documentVars(React)
  /\ WF_documentVars(Pump) /\ WF_documentVars(Zlib)

DocumentSpec == DocumentInit /\ [][DocumentNext]_documentVars /\ DocumentFairness

-----------------------------------------------------------------------------

Consecutive(s, first) == \A i \in DOMAIN s : s[i] = first + i - 1

RenderStates == {"none", "running", "done", "failed", "released"}
PumpStates == {"none", "check", "parked", "woken", "reading", "draining", "ended"}
StreamStates == {"none", "readable", "closed", "errored"}

DocumentTypeOK ==
  /\ reply \in {"asked", "redirect", "failed", "streaming"}
  /\ gzipped \in BOOLEAN
  /\ render \in RenderStates
  /\ produced \in 0..MaxChunks
  /\ docState \in StreamStates /\ docQueue \in Seq(Nat)
  /\ pulling \in BOOLEAN /\ tailSent \in BOOLEAN /\ cancelled \in BOOLEAN
  /\ pump \in PumpStates
  /\ zlibState \in {"none", "open", "ending", "ended", "destroyed", "failed"}
  /\ pending \in Seq(Nat)
  /\ outState \in StreamStates /\ outQueue \in Seq(Nat)
  /\ arrived \in Seq(Nat)
  /\ outcome \in {"waiting", "reading", "complete", "broken", "left"}

\* A client has the units of the document in order and without a gap, and a
\* response that ends cleanly was whole: head, every chunk react yielded, and
\* the tail.  A render that fails, or a zlib that does, never passes for a
\* short page.
WholeOrError ==
  /\ Consecutive(arrived, 0)
  /\ outcome = "complete" =>
       render = "done" /\ Len(arrived) = produced + 2

\* A slow client throttles the render: react is never more than a unit ahead
\* of a client without gzip, and with gzip never more than what zlib buffers
\* and the queues of the two streams hold.
Throttled ==
  outcome = "reading" =>
    produced + 1 <= Len(arrived) + (IF gzipped THEN ZlibRoom + 1 ELSE 1)

\* A client that has something to read and does not read it.
Stalls == outcome = "reading" /\ (IF gzipped THEN outQueue ELSE docQueue) # <<>>

\* A render that never ends is one whose client has stopped reading for ever
\* without going away: one that reads on drains it, one that leaves releases
\* it, even while next() is in flight.
RenderEnds == <>[](render = "running" /\ zlibState # "failed") => <>[]Stalls

\* A pump that never ends is such a client's too: a pump that parked just as the
\* queue was read empty, one that waits for a drain when the client leaves and
\* one whose source has failed all come to their end.
PumpEnds == <>[](pump \notin {"none", "ended"} /\ zlibState # "failed") => <>[]Stalls

\* Nothing behind a response is stranded, but by a client that neither reads nor
\* leaves: that one the server waits for without a limit.  A zlib that fails is
\* excepted: nobody cancels the reader or wakes the pump then.
NothingStranded == RenderEnds /\ PumpEnds
=============================================================================
