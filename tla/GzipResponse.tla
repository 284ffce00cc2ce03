---------------------------- MODULE GzipResponse ----------------------------
(***************************************************************************)
(* gzip.go and the recovery of borgo.go: the responses of several requests *)
(* on their way through recoverMiddleware(gzipMiddleware(mux)), with the   *)
(* pool of gzip.Writers they share.                                        *)
(*                                                                         *)
(* A handler is any sequence of calls on its ResponseWriter that ends in a *)
(* return, a panic or http.ErrAbortHandler.  A header map is a set of the  *)
(* headers it holds, a body a sequence of units, each the n-th unit some   *)
(* handler wrote.  net/http's response, gzip's deflate and sync.Pool are   *)
(* external.                                                               *)
(***************************************************************************)
EXTENDS Naturals, Sequences, FiniteSets, SequencesExt

CONSTANTS
  Requests,
  GzipWriters,  \* every gzip.Writer the process can allocate
  Codes,        \* the final statuses handlers answer
  HeaderTags,   \* what handlers put into or take out of the header map
  MinUnits,     \* gzipMinBytes
  MaxUnits,     \* bound: the units one handler writes
  MaxCalls,     \* bound: the calls the handlers make, all together
  NoWriter, NoHeader

ASSUME GzipAssumption ==
  /\ IsFiniteSet(Requests) /\ IsFiniteSet(GzipWriters)
  /\ Codes \subseteq 200..599 /\ 200 \in Codes /\ 500 \notin Codes
  /\ {"vary", "gzip", "json"} \cap HeaderTags = {}
  /\ MinUnits \in Nat \ {0} /\ MaxUnits \in Nat /\ MaxCalls \in Nat
  /\ NoWriter \notin GzipWriters /\ NoWriter \notin Requests
  /\ \A h \in SUBSET (HeaderTags \cup {"vary", "gzip", "json", "length"}) : h # NoHeader

VARIABLES
  stage,    \* each request: "running", "finishing", "recovering", "ended"
  how,      \* how its handler ended: "none", "return", "panic" or "abort"
  res,      \* what gzipResponseWriter, recoverWriter and the connection hold for it
  writer,   \* each gzip.Writer: where it writes to, and the units deflate still holds
  pool,     \* gzipWriters: the parked ones
  story,    \* history: what the handler asked of its ResponseWriter
  calls     \* how many calls the handlers have made

vars == <<stage, how, res, writer, pool, story, calls>>

\* The live header map, gzipResponseWriter's fields, recoverWriter's wrote, and
\* what reached the client; status 0 is a response that is not committed.
FreshResponse(accepts) ==
  [accepts |-> accepts, live |-> {"vary"},
   status |-> 0, snapshot |-> NoHeader, buf |-> <<>>, gz |-> NoWriter, passthrough |-> FALSE,
   wrote |-> FALSE,
   sent |-> [status |-> 0, header |-> {}, plain |-> <<>>, packed |-> <<>>,
             trailer |-> FALSE, closed |-> "no"]]

Unit(r, n) == [of |-> r, n |-> n]
ErrorBody == [of |-> NoWriter, n |-> 0]     \* recoverMiddleware's json
NoStory == [status |-> 0, header |-> NoHeader, wrote |-> 0, flushed |-> 0]

Init ==
  /\ stage = [r \in Requests |-> "running"]
  /\ how = [r \in Requests |-> "none"]
  /\ \E takers \in SUBSET Requests :     \* acceptsGzip
       res = [r \in Requests |-> FreshResponse(r \in takers)]
  /\ writer = [w \in GzipWriters |-> [to |-> NoWriter, held |-> <<>>]]
  /\ pool = {}
  /\ story = [r \in Requests |-> NoStory]
  /\ calls = 0

-----------------------------------------------------------------------------
(* The connection as recoverWriter hands it on: each operator maps the     *)
(* record of one response to what it is after the call.                    *)

Commit(s, code) ==
  IF s.sent.status # 0 \/ s.sent.closed # "no" THEN s
  ELSE [s EXCEPT !.sent.status = code, !.sent.header = s.live]

NetWriteHeader(s, code) == Commit([s EXCEPT !.wrote = TRUE], code)

NetWrite(s, units) ==
  LET c == NetWriteHeader(s, 200)
  IN IF c.sent.closed # "no" THEN c ELSE [c EXCEPT !.sent.plain = @ \o units]

NetFlush(s) == NetWriteHeader(s, 200)

(* gzipResponseWriter.                                                     *)

\* Variant: the live headers are committed, late changes included.
CommitHeaderLive(s) == s

\* A nil snapshot (Flush came first) commits the live headers as they are.
CommitHeader(s) == IF s.snapshot = NoHeader THEN s ELSE [s EXCEPT !.live = s.snapshot]

StartPassthrough(s) ==
  LET c == NetWriteHeader(CommitHeader([s EXCEPT !.passthrough = TRUE]), s.status)
  IN IF c.buf = <<>> THEN c ELSE [NetWrite(c, c.buf) EXCEPT !.buf = <<>>]

GzWriteHeader(s, code) ==
  IF s.status # 0 THEN s     \* superfluous: logged
  ELSE LET g == [s EXCEPT !.status = code, !.snapshot = s.live]
       IN IF {"events", "encoded"} \cap s.live # {} THEN StartPassthrough(g) ELSE g

\* Variant: Flush commits nothing while the response is buffered.
GzFlushBuffered(s) ==
  LET c == [s EXCEPT !.status = IF @ = 0 THEN 200 ELSE @] IN NetFlush(c)

GzFlush(s) ==
  LET c == [s EXCEPT !.status = IF @ = 0 THEN 200 ELSE @]
  IN NetFlush(IF c.gz = NoWriter /\ ~c.passthrough THEN StartPassthrough(c) ELSE c)

\* The headers startGzip commits before it takes a writer.
CommitGzip(s) ==
  LET c == CommitHeader(s)
  IN NetWriteHeader([c EXCEPT !.live = (@ \ {"length"}) \cup {"gzip"}], c.status)

\* What gz emits; what is written to a closed connection is lost.
Deflated(s, units) ==
  IF s.sent.closed # "no" THEN s ELSE [s EXCEPT !.sent.packed = @ \o units]

-----------------------------------------------------------------------------
(* The calls of a handler.                                                 *)

Calls(r) ==
  /\ stage[r] = "running" /\ calls < MaxCalls
  /\ calls' = calls + 1

\* net/http's contract: the first WriteHeader, Write or Flush fixes both.
Promise(r, code) ==
  IF story[r].header # NoHeader THEN story[r]
  ELSE [story[r] EXCEPT !.status = code, !.header = res[r].live]

\* Header().Set and Del.
Stage(r, t) ==
  /\ Calls(r)
  /\ res' = [res EXCEPT ![r].live = IF t \in @ THEN @ \ {t} ELSE @ \cup {t}]
  /\ UNCHANGED <<stage, how, writer, pool, story>>

\* WriteHeader(1xx) passes both writers and commits nothing.
Hints(r) ==
  /\ Calls(r)
  /\ UNCHANGED <<stage, how, res, writer, pool, story>>

WriteHeader(r, code) ==
  /\ Calls(r)
  /\ res' = [res EXCEPT ![r] = IF @.accepts THEN GzWriteHeader(@, code)
                               ELSE NetWriteHeader(@, code)]
  /\ story' = [story EXCEPT ![r] = Promise(r, code)]
  /\ UNCHANGED <<stage, how, writer, pool>>

\* sync.Pool.Get, or gzip.NewWriter: a parked writer, or one nobody refers to.
Obtainable ==
  pool \cup {w \in GzipWriters : writer[w].to = NoWriter /\ \A r \in Requests : res[r].gz # w}

\* gz.Write on a writer that is now wr: deflate holds the units or emits all it has.
GzipInto(r, s, w, wr, units) ==
  \/ /\ writer' = [writer EXCEPT ![w] = [wr EXCEPT !.held = @ \o units]]
     /\ res' = [res EXCEPT ![r] = s]
  \/ /\ writer' = [writer EXCEPT ![w] = [wr EXCEPT !.held = <<>>]]
     /\ res' = LET now == [res EXCEPT ![r] = s]
               IN IF wr.to = NoWriter THEN now
                  ELSE [now EXCEPT ![wr.to] = Deflated(@, wr.held \o units)]

Full(units) == Len(units) >= MinUnits

\* Write past the checks of gzipResponseWriter, on the record s.
GzipWrite(r, s, units) ==
  IF s.passthrough THEN /\ res' = [res EXCEPT ![r] = NetWrite(s, units)]
                        /\ UNCHANGED <<writer, pool>>
  ELSE IF s.gz # NoWriter THEN GzipInto(r, s, s.gz, writer[s.gz], units) /\ UNCHANGED pool
  ELSE LET all == s.buf \o units
       IN IF ~Full(all)
          THEN /\ res' = [res EXCEPT ![r] = [s EXCEPT !.buf = all]]
               /\ UNCHANGED <<writer, pool>>
          ELSE \E w \in Obtainable :     \* startGzip: Get, Reset, and the buffer
                 /\ pool' = pool \ {w}
                 /\ GzipInto(r, [CommitGzip(s) EXCEPT !.gz = w, !.buf = <<>>], w,
                             [to |-> r, held |-> <<>>], all)

Write(r) ==
  \E k \in 1..MinUnits :
    LET done == story[r].wrote
        units == [i \in 1..k |-> Unit(r, done + i)]
    IN /\ done + k <= MaxUnits
       /\ Calls(r)
       /\ story' = [story EXCEPT ![r] = [Promise(r, 200) EXCEPT !.wrote = done + k]]
       /\ IF res[r].accepts
          THEN GzipWrite(r, GzWriteHeader(res[r], 200), units)
          ELSE /\ res' = [res EXCEPT ![r] = NetWrite(@, units)]
               /\ UNCHANGED <<writer, pool>>
       /\ UNCHANGED <<stage, how>>

\* A goroutine the handler left behind writes after the handler returned.
LateWrite(r) ==
  /\ stage[r] = "ended" /\ res[r].accepts /\ calls < MaxCalls
  /\ calls' = calls + 1
  /\ GzipWrite(r, GzWriteHeader(res[r], 200), [i \in 1..MinUnits |-> Unit(r, 0)])
  /\ UNCHANGED <<stage, how, story>>

Flush(r) ==
  /\ Calls(r)
  /\ story' = [story EXCEPT ![r] = [Promise(r, 200) EXCEPT !.flushed = story[r].wrote]]
  /\ LET w == res[r].gz
     IN IF w = NoWriter
        THEN /\ res' = [res EXCEPT ![r] = IF @.accepts THEN GzFlush(@) ELSE NetFlush(@)]
             /\ UNCHANGED writer
        ELSE /\ writer' = [writer EXCEPT ![w].held = <<>>]
             /\ res' = [res EXCEPT ![r] = Deflated(GzFlush(@), writer[w].held)]
  /\ UNCHANGED <<stage, how, pool>>

-----------------------------------------------------------------------------
(* The way out: gzipMiddleware's deferred finish, then the recovery.       *)

HandlerEnds(r, why) ==
  /\ stage[r] = "running"
  /\ stage' = [stage EXCEPT ![r] = "finishing"]
  /\ how' = [how EXCEPT ![r] = why]
  /\ UNCHANGED <<res, writer, pool, story, calls>>

Return(r) == HandlerEnds(r, "return")
Panic(r) == HandlerEnds(r, "panic")
AbortHandler(r) == HandlerEnds(r, "abort")

\* Variant: gz keeps the parked writer.
CloseGzipKept(r, w) ==
  /\ writer' = [writer EXCEPT ![w] = [to |-> NoWriter, held |-> <<>>]]
  /\ pool' = pool \cup {w}
  /\ res' = [res EXCEPT ![r] = [Deflated(@, writer[w].held) EXCEPT !.sent.trailer = TRUE]]

\* gz.Close, then the writer is parked, aimed at io.Discard.
CloseGzip(r, w) ==
  /\ writer' = [writer EXCEPT ![w] = [to |-> NoWriter, held |-> <<>>]]
  /\ pool' = pool \cup {w}
  /\ res' = [res EXCEPT ![r] = [Deflated(@, writer[w].held) EXCEPT
                                  !.gz = NoWriter, !.sent.trailer = TRUE]]

\* A response still buffered ships only if the handler returned on its own.
Finish(r) ==
  /\ stage[r] = "finishing"
  /\ stage' = [stage EXCEPT ![r] = "recovering"]
  /\ IF res[r].gz # NoWriter THEN CloseGzip(r, res[r].gz)
     ELSE /\ res' = [res EXCEPT ![r] =
                       IF @.passthrough \/ @.status = 0 \/ how[r] # "return" THEN @
                       ELSE LET c == NetWriteHeader(CommitHeader(@), @.status)
                            IN IF c.buf = <<>> THEN c ELSE NetWrite(c, c.buf)]
          /\ UNCHANGED <<writer, pool>>
  /\ UNCHANGED <<how, story, calls>>

\* Variant: the abandoned response's headers ride on the 500.
Answer500Staged(s) ==
  IF s.wrote THEN s
  ELSE NetWrite(NetWriteHeader([s EXCEPT !.live = @ \cup {"json", "length"}], 500), <<ErrorBody>>)

\* The json 500 of recoverMiddleware, on a response nothing was written to.
Answer500(s) ==
  IF s.wrote THEN s
  ELSE NetWrite(NetWriteHeader([s EXCEPT !.live = {"json", "length"}], 500), <<ErrorBody>>)

\* ErrAbortHandler goes on as a panic and net/http drops the connection; every
\* other response ends, committed as an empty 200 if nobody wrote to it.
Recover(r) ==
  /\ stage[r] = "recovering"
  /\ stage' = [stage EXCEPT ![r] = "ended"]
  /\ res' = [res EXCEPT ![r] =
       CASE how[r] = "abort" -> [@ EXCEPT !.sent.closed = "dropped"]
         [] how[r] = "panic" -> [Commit(Answer500(@), 200) EXCEPT !.sent.closed = "ended"]
         [] OTHER -> [Commit(@, 200) EXCEPT !.sent.closed = "ended"]]
  /\ UNCHANGED <<how, writer, pool, story, calls>>

ServeHTTP(r) ==
  \/ \E t \in HeaderTags : Stage(r, t)
  \/ Hints(r)
  \/ \E code \in Codes : WriteHeader(r, code)
  \/ Write(r) \/ LateWrite(r) \/ Flush(r)
  \/ Return(r) \/ Panic(r) \/ AbortHandler(r)
  \/ Finish(r) \/ Recover(r)

Next == \E r \in Requests : ServeHTTP(r)

Spec == Init /\ [][Next]_vars

-----------------------------------------------------------------------------
(* Properties.                                                             *)

Units == [of : Requests, n : 0..MaxUnits] \cup {ErrorBody}
Headers == SUBSET (HeaderTags \cup {"vary", "gzip", "json", "length"})
Statuses == Codes \cup {0, 500}

TypeOK ==
  /\ stage \in [Requests -> {"running", "finishing", "recovering", "ended"}]
  /\ how \in [Requests -> {"none", "return", "panic", "abort"}]
  /\ pool \subseteq GzipWriters
  /\ calls \in 0..MaxCalls
  /\ \A w \in GzipWriters : /\ writer[w].to \in Requests \cup {NoWriter}
                            /\ writer[w].held \in Seq(Units)
  /\ \A r \in Requests :
       /\ res[r].live \in Headers /\ res[r].snapshot \in Headers \cup {NoHeader}
       /\ res[r].status \in Statuses /\ res[r].gz \in GzipWriters \cup {NoWriter}
       /\ res[r].sent.status \in Statuses /\ res[r].sent.header \in Headers
       /\ Len(res[r].buf) < MinUnits

Received(r) == res[r].sent.plain \o res[r].sent.packed
Own(r, n) == [i \in 1..n |-> Unit(r, i)]
Ended(r) == stage[r] = "ended"

\* The error document of recoverMiddleware, whole and with no other header.
IsError(r) ==
  /\ res[r].sent.status = 500 /\ res[r].sent.header = {"json", "length"}
  /\ Received(r) = <<ErrorBody>>

\* A handler that returns cannot tell the middleware from net/http: the client
\* gets the status and the headers of its first WriteHeader, Write or Flush and
\* every byte it wrote, in order, compressed only under a Content-Encoding that
\* says so and with the trailer that ends it.
Transparent ==
  \A r \in Requests :
    Ended(r) /\ how[r] = "return" =>
      LET sent == res[r].sent
          asked == story[r].header # NoHeader
          headers == IF asked THEN story[r].header ELSE {}
      IN /\ sent.status = IF asked THEN story[r].status ELSE 200
         /\ Received(r) = Own(r, story[r].wrote)
         /\ IF "gzip" \in sent.header
            THEN /\ sent.header = (headers \ {"length"}) \cup {"gzip"}
                 /\ sent.trailer /\ sent.plain = <<>>
                 /\ {"events", "encoded"} \cap headers = {}
            ELSE sent.packed = <<>> /\ (asked => sent.header = headers)

\* A panic never mixes two responses: the client gets the whole json 500 with
\* none of the abandoned headers, or a beginning of what the handler wrote under
\* the status it chose; and as long as the response is buffered it is the 500.
PanicNeverMixes ==
  \A r \in Requests :
    Ended(r) /\ how[r] = "panic" =>
      /\ \/ IsError(r)
         \/ /\ IsPrefix(Received(r), Own(r, story[r].wrote))
            /\ res[r].sent.status = story[r].status
      /\ (story[r].wrote < MinUnits /\ res[r].accepts /\ ~res[r].passthrough) => IsError(r)

\* What a handler flushed has left for the client, compressed or not: a stream
\* is never one message behind.
FlushDelivers == \A r \in Requests : story[r].flushed <= Len(Received(r))

\* No response ever carries another's bytes, nor bytes written after its end,
\* though the requests share the pooled writers.
OwnBytesOnly ==
  \A r \in Requests :
    \/ IsPrefix(Received(r), Own(r, story[r].wrote))
    \/ how[r] = "panic" /\ IsError(r)

\* A parked writer is held by no response, aimed at none and holds no bytes, and
\* no two responses hold the same one.
PoolIsIdle ==
  /\ \A w \in pool : /\ writer[w] = [to |-> NoWriter, held |-> <<>>]
                     /\ \A r \in Requests : res[r].gz # w
  /\ \A r, q \in Requests : res[r].gz = res[q].gz => r = q \/ res[r].gz = NoWriter

\* Both: the pool lends a writer to one response at a time, and nothing of that
\* response stays in it.  gzip.go:176-186, 224-230.
PoolSafe == OwnBytesOnly /\ PoolIsIdle
=============================================================================
