------------------------- MODULE GzipResponseProofs -------------------------
(***************************************************************************)
(* Proofs about GzipResponse for any number of requests, of pooled writers *)
(* and of calls.  PoolIsIdle is not inductive: that a response's writer is *)
(* aimed at that response, and is not parked, is what Held adds.           *)
(* The other properties are about what the client gets: Faithful gives the *)
(* phase each response is in, and in each what the client has, as a        *)
(* function of what its handler asked.                                     *)
(***************************************************************************)
EXTENDS GzipResponse, SequenceTheorems, TLAPS

\* What a response can be: TypeOK says it field by field.
SentType ==
  [status : Statuses, header : Headers, plain : Seq(Units), packed : Seq(Units),
   trailer : BOOLEAN, closed : {"no", "ended", "dropped"}]

Response ==
  [accepts : BOOLEAN, live : Headers, status : Statuses, snapshot : Headers \cup {NoHeader},
   buf : Seq(Units), gz : GzipWriters \cup {NoWriter}, passthrough : BOOLEAN,
   wrote : BOOLEAN, sent : SentType]

WriterType == [to : Requests \cup {NoWriter}, held : Seq(Units)]

LEMMA StatusFacts == 200 \in Statuses /\ 500 \in Statuses /\ 0 \in Statuses
  BY GzipAssumption DEF Statuses

\* t is a response that has s's writer, and s's buffer or an empty one.
Keeps(s, t) == t \in Response /\ t.gz = s.gz /\ (t.buf = s.buf \/ t.buf = <<>>)

LEMMA KeepsTwice ==
  ASSUME NEW s, NEW t, NEW u, Keeps(s, t), Keeps(t, u)
  PROVE  Keeps(s, u)
  BY DEF Keeps

LEMMA CommitKeeps ==
  ASSUME NEW s \in Response, NEW code \in Statuses
  PROVE  Keeps(s, Commit(s, code))
<1>1. CASE s.sent.status # 0 \/ s.sent.closed # "no"
  BY <1>1 DEF Keeps, Commit
<1>2. CASE ~(s.sent.status # 0 \/ s.sent.closed # "no")
  <2> DEFINE sent == [s.sent EXCEPT !.status = code, !.header = s.live]
  <2>1. s.sent \in SentType /\ s.live \in Headers BY DEF Response
  <2>2. sent \in SentType BY <2>1 DEF SentType
  <2>3. Commit(s, code) = [s EXCEPT !.sent = sent] BY <1>2, <2>1 DEF Commit, Response, SentType
  <2>4. QED BY <2>2, <2>3 DEF Keeps, Response
<1>3. QED BY <1>1, <1>2

LEMMA NetWriteHeaderKeeps ==
  ASSUME NEW s \in Response, NEW code \in Statuses
  PROVE  Keeps(s, NetWriteHeader(s, code))
<1> DEFINE t == [s EXCEPT !.wrote = TRUE]
<1>1. t \in Response /\ Keeps(s, t) BY DEF Response, Keeps
<1>2. QED BY <1>1, CommitKeeps, KeepsTwice DEF NetWriteHeader

LEMMA NetWriteKeeps ==
  ASSUME NEW s \in Response, NEW units \in Seq(Units)
  PROVE  Keeps(s, NetWrite(s, units))
<1> DEFINE c == NetWriteHeader(s, 200)
<1>1. Keeps(s, c) BY NetWriteHeaderKeeps, StatusFacts
<1> HIDE DEF c
<1>2. c \in Response BY <1>1 DEF Keeps
<1>3. c.sent \in SentType BY <1>2 DEF Response
<1> DEFINE sent == [c.sent EXCEPT !.plain = @ \o units]
<1>4. c.sent.plain \in Seq(Units) BY <1>3 DEF SentType
<1>5. c.sent.plain \o units \in Seq(Units) BY <1>4
<1>6. sent \in SentType BY <1>3, <1>5 DEF SentType
<1>7. Keeps(c, [c EXCEPT !.sent = sent]) BY <1>2, <1>6 DEF Keeps, Response
<1>8. NetWrite(s, units) = IF c.sent.closed # "no" THEN c ELSE [c EXCEPT !.sent = sent]
  BY DEF NetWrite, c
<1>9. QED BY <1>1, <1>7, <1>8, KeepsTwice

LEMMA DeflatedKeeps ==
  ASSUME NEW s \in Response, NEW units \in Seq(Units)
  PROVE  Keeps(s, Deflated(s, units))
<1>1. s.sent \in SentType BY DEF Response
<1> DEFINE sent == [s.sent EXCEPT !.packed = @ \o units]
<1>2. s.sent.packed \in Seq(Units) BY <1>1 DEF SentType
<1>3. s.sent.packed \o units \in Seq(Units) BY <1>2
<1>4. sent \in SentType BY <1>1, <1>3 DEF SentType
<1>5. Keeps(s, [s EXCEPT !.sent = sent]) BY <1>4 DEF Keeps, Response
<1>6. Deflated(s, units) = IF s.sent.closed # "no" THEN s ELSE [s EXCEPT !.sent = sent]
  BY DEF Deflated
<1>7. QED BY <1>5, <1>6 DEF Keeps

LEMMA CommitHeaderKeeps ==
  ASSUME NEW s \in Response
  PROVE  Keeps(s, CommitHeader(s))
<1>1. s.snapshot # NoHeader => s.snapshot \in Headers BY DEF Response
<1>2. QED BY <1>1 DEF CommitHeader, Keeps, Response

LEMMA StartPassthroughKeeps ==
  ASSUME NEW s \in Response
  PROVE  Keeps(s, StartPassthrough(s)) /\ StartPassthrough(s).buf = <<>>
<1> DEFINE p == [s EXCEPT !.passthrough = TRUE]
           h == CommitHeader(p)
           c == NetWriteHeader(h, s.status)
           n == NetWrite(c, c.buf)
<1>1. Keeps(s, p) /\ p \in Response BY DEF Keeps, Response
<1>2. Keeps(p, h) BY <1>1, CommitHeaderKeeps
<1>3. s.status \in Statuses BY DEF Response
<1>4. Keeps(h, c) BY <1>2, <1>3, NetWriteHeaderKeeps DEF Keeps
<1>5. c \in Response /\ c.buf \in Seq(Units) BY <1>4 DEF Keeps, Response
<1>6. Keeps(c, n) BY <1>5, NetWriteKeeps
<1>7. Keeps(s, c) BY <1>1, <1>2, <1>4, KeepsTwice
<1>8. StartPassthrough(s) = IF c.buf = <<>> THEN c ELSE [n EXCEPT !.buf = <<>>]
  BY DEF StartPassthrough
<1> HIDE DEF p, h, c, n
<1>a. <<>> \in Seq(Units) OBVIOUS
<1>9. n \in Response => [n EXCEPT !.buf = <<>>] \in Response BY <1>a DEF Response
<1>10. Keeps(s, n) BY <1>6, <1>7, KeepsTwice
<1>11. QED BY <1>7, <1>8, <1>9, <1>10 DEF Keeps, Response

LEMMA GzWriteHeaderKeeps ==
  ASSUME NEW s \in Response, NEW code \in Statuses
  PROVE  Keeps(s, GzWriteHeader(s, code))
<1> DEFINE g == [s EXCEPT !.status = code, !.snapshot = s.live]
<1>1. Keeps(s, g) /\ g \in Response BY DEF Keeps, Response
<1>2. Keeps(g, StartPassthrough(g)) BY <1>1, StartPassthroughKeeps
<1>3. GzWriteHeader(s, code) \in {s, g, StartPassthrough(g)} BY DEF GzWriteHeader
<1>4. Keeps(s, s) BY DEF Keeps
<1>5. QED BY <1>1, <1>2, <1>3, <1>4, KeepsTwice

LEMMA GzFlushKeeps ==
  ASSUME NEW s \in Response
  PROVE  Keeps(s, GzFlush(s))
<1> DEFINE c == [s EXCEPT !.status = IF @ = 0 THEN 200 ELSE @]
           d == IF c.gz = NoWriter /\ ~c.passthrough THEN StartPassthrough(c) ELSE c
<1>1. Keeps(s, c) /\ c \in Response BY StatusFacts DEF Keeps, Response
<1>2. Keeps(c, d) BY <1>1, StartPassthroughKeeps DEF Keeps
<1>a. d \in Response BY <1>2 DEF Keeps
<1> HIDE DEF c, d
<1>3. Keeps(d, NetFlush(d)) BY <1>a, NetWriteHeaderKeeps, StatusFacts DEF NetFlush
<1>4. GzFlush(s) = NetFlush(d) BY DEF GzFlush, c, d
<1>5. QED BY <1>1, <1>2, <1>3, <1>4, KeepsTwice

LEMMA CommitGzipKeeps ==
  ASSUME NEW s \in Response
  PROVE  Keeps(s, CommitGzip(s))
<1> DEFINE c == CommitHeader(s)
           g == [c EXCEPT !.live = (@ \ {"length"}) \cup {"gzip"}]
<1>1. Keeps(s, c) BY CommitHeaderKeeps
<1>2. c \in Response /\ c.live \in Headers /\ c.status \in Statuses
  BY <1>1 DEF Keeps, Response
<1>3. (c.live \ {"length"}) \cup {"gzip"} \in Headers BY <1>2 DEF Headers
<1>4. Keeps(c, g) BY <1>2, <1>3 DEF Keeps, Response
<1>5. Keeps(g, NetWriteHeader(g, c.status)) BY <1>2, <1>4, NetWriteHeaderKeeps DEF Keeps
<1>6. CommitGzip(s) = NetWriteHeader(g, c.status) BY DEF CommitGzip
<1>7. QED BY <1>1, <1>4, <1>5, <1>6, KeepsTwice

LEMMA Answer500Keeps ==
  ASSUME NEW s \in Response
  PROVE  Keeps(s, Answer500(s))
<1> DEFINE e == [s EXCEPT !.live = {"json", "length"}]
           h == NetWriteHeader(e, 500)
<1>1. {"json", "length"} \in Headers BY DEF Headers
<1>2. Keeps(s, e) /\ e \in Response BY <1>1 DEF Keeps, Response
<1>3. Keeps(e, h) BY <1>2, NetWriteHeaderKeeps, StatusFacts
<1>4. <<ErrorBody>> \in Seq(Units) BY DEF Units
<1>5. Keeps(h, NetWrite(h, <<ErrorBody>>)) BY <1>3, <1>4, NetWriteKeeps DEF Keeps
<1>6. Answer500(s) = IF s.wrote THEN s ELSE NetWrite(h, <<ErrorBody>>) BY DEF Answer500
<1>7. Keeps(s, s) BY DEF Keeps
<1>8. QED BY <1>2, <1>3, <1>5, <1>6, <1>7, KeepsTwice

-----------------------------------------------------------------------------
(* The invariant.                                                          *)

StoryType ==
  [status : Statuses, header : Headers \cup {NoHeader}, wrote : 0..MaxUnits,
   flushed : 0..MaxUnits]

Typed ==
  /\ stage \in [Requests -> {"running", "finishing", "recovering", "ended"}]
  /\ how \in [Requests -> {"none", "return", "panic", "abort"}]
  /\ calls \in 0..MaxCalls
  /\ story \in [Requests -> StoryType]

Shared ==
  /\ res \in [Requests -> Response]
  /\ writer \in [GzipWriters -> WriterType]
  /\ pool \subseteq GzipWriters

\* A buffer is below the threshold.
Small == \A r \in Requests : Len(res[r].buf) < MinUnits

\* A response's writer is aimed at it and not parked.
Held ==
  \A r \in Requests : res[r].gz # NoWriter => writer[res[r].gz].to = r /\ res[r].gz \notin pool

\* A parked writer is aimed at nothing and empty.
Idle == \A w \in pool : writer[w] = [to |-> NoWriter, held |-> <<>>]

Pooling == Shared /\ Small /\ Held /\ Idle
GzipInv == Typed /\ Pooling

\* A step that moves no writer ...
Calm ==
  /\ res' \in [Requests -> Response] /\ writer' \in [GzipWriters -> WriterType]
  /\ pool' = pool
  /\ \A q \in Requests : res'[q].gz = res[q].gz /\ Len(res'[q].buf) < MinUnits
  /\ \A w \in GzipWriters : writer'[w].to = writer[w].to /\ (w \in pool => writer'[w] = writer[w])

\* ... one that gives writer w to response r ...
Takes(r, w) ==
  /\ res' \in [Requests -> Response] /\ writer' \in [GzipWriters -> WriterType]
  /\ w \in Obtainable /\ pool' = pool \ {w}
  /\ \A q \in Requests : /\ res'[q].gz = IF q = r THEN w ELSE res[q].gz
                         /\ Len(res'[q].buf) < MinUnits
  /\ writer'[w].to = r
  /\ \A v \in GzipWriters \ {w} : writer'[v] = writer[v]

\* ... and one that parks the writer of r.
Parks(r) ==
  /\ res' \in [Requests -> Response] /\ writer' \in [GzipWriters -> WriterType]
  /\ res[r].gz # NoWriter /\ pool' = pool \cup {res[r].gz}
  /\ \A q \in Requests : /\ res'[q].gz = IF q = r THEN NoWriter ELSE res[q].gz
                         /\ Len(res'[q].buf) < MinUnits
  /\ writer'[res[r].gz] = [to |-> NoWriter, held |-> <<>>]
  /\ \A v \in GzipWriters \ {res[r].gz} : writer'[v] = writer[v]

LEMMA CalmStep ==
  ASSUME Pooling, Calm
  PROVE  Pooling'
<1>1. Shared' BY DEF Pooling, Shared, Calm
<1>2. Small' BY DEF Small, Calm
<1>3. Held'
  <2> SUFFICES ASSUME NEW r \in Requests, res'[r].gz # NoWriter
               PROVE  writer'[res'[r].gz].to = r /\ res'[r].gz \notin pool'
    BY DEF Held
  <2>1. res'[r].gz = res[r].gz /\ res[r].gz \in GzipWriters
    BY DEF Pooling, Shared, Response, Calm
  <2>2. QED BY <2>1 DEF Pooling, Held, Calm
<1>4. Idle' BY DEF Pooling, Shared, Idle, Calm
<1>5. QED BY <1>1, <1>2, <1>3, <1>4 DEF Pooling

LEMMA TakesStep ==
  ASSUME Pooling, NEW r \in Requests, NEW w \in GzipWriters, Takes(r, w)
  PROVE  Pooling'
<1>1. Shared' BY DEF Pooling, Shared, Takes
<1>2. Small' BY DEF Small, Takes
<1>3. \A q \in Requests : res[q].gz # w
  <2>1. w # NoWriter BY GzipAssumption
  <2>2. CASE w \in pool BY <2>1, <2>2 DEF Pooling, Held
  <2>3. CASE \A q \in Requests : res[q].gz # w BY <2>3
  <2>4. QED BY <2>2, <2>3 DEF Takes, Obtainable
<1>4. Held'
  <2> SUFFICES ASSUME NEW q \in Requests, res'[q].gz # NoWriter
               PROVE  writer'[res'[q].gz].to = q /\ res'[q].gz \notin pool'
    BY DEF Held
  <2>1. CASE q = r BY <2>1 DEF Takes
  <2>2. CASE q # r
    <3>1. res'[q].gz = res[q].gz /\ res[q].gz \in GzipWriters \ {w}
      BY <2>2, <1>3 DEF Pooling, Shared, Response, Takes
    <3>2. QED BY <3>1 DEF Pooling, Held, Takes
  <2>3. QED BY <2>1, <2>2
<1>5. Idle' BY DEF Pooling, Shared, Idle, Takes
<1>6. QED BY <1>1, <1>2, <1>4, <1>5 DEF Pooling

LEMMA ParksStep ==
  ASSUME Pooling, NEW r \in Requests, Parks(r)
  PROVE  Pooling'
<1> DEFINE w == res[r].gz
<1>1. w \in GzipWriters /\ writer[w].to = r
  BY DEF Pooling, Shared, Response, Held, Parks
<1>2. Shared' BY <1>1 DEF Pooling, Shared, Parks
<1>3. Small' BY DEF Small, Parks
<1>4. Held'
  <2> SUFFICES ASSUME NEW q \in Requests, res'[q].gz # NoWriter
               PROVE  writer'[res'[q].gz].to = q /\ res'[q].gz \notin pool'
    BY DEF Held
  <2>1. q # r /\ res'[q].gz = res[q].gz BY DEF Parks
  <2>2. res[q].gz \in GzipWriters /\ writer[res[q].gz].to = q /\ res[q].gz \notin pool
    BY <2>1 DEF Pooling, Shared, Response, Held
  <2>3. res[q].gz # w BY <1>1, <2>1, <2>2
  <2>4. QED BY <2>1, <2>2, <2>3 DEF Parks
<1>5. Idle' BY DEF Pooling, Shared, Idle, Parks
<1>6. QED BY <1>2, <1>3, <1>4, <1>5 DEF Pooling

-----------------------------------------------------------------------------
(* The writes.                                                             *)

\* gz.Write through a writer aimed at r.
LEMMA IntoOwn ==
  ASSUME Pooling, NEW r \in Requests, NEW s \in Response, NEW w \in GzipWriters,
         NEW wr \in WriterType, wr.to = r, NEW units \in Seq(Units), Len(s.buf) < MinUnits,
         GzipInto(r, s, w, wr, units)
  PROVE  /\ res' \in [Requests -> Response]
         /\ \A q \in Requests : /\ res'[q].gz = IF q = r THEN s.gz ELSE res[q].gz
                                /\ Len(res'[q].buf) < MinUnits
         /\ writer' \in [GzipWriters -> WriterType] /\ writer'[w].to = r
         /\ \A v \in GzipWriters \ {w} : writer'[v] = writer[v]
<1> DEFINE t == Deflated(s, wr.held \o units)
<1>1. wr.held \o units \in Seq(Units) BY DEF WriterType
<1>2. Keeps(s, t) BY <1>1, DeflatedKeeps
<1>3. r # NoWriter BY GzipAssumption
<1>4. /\ res' = [res EXCEPT ![r] = s] \/ res' = [res EXCEPT ![r] = t]
      /\ \E h \in {<<>>, wr.held \o units} : writer' = [writer EXCEPT ![w] = [wr EXCEPT !.held = h]]
  <2>1. res \in [Requests -> Response] BY DEF Pooling, Shared
  <2>2. [[res EXCEPT ![r] = s] EXCEPT ![r] = Deflated(@, wr.held \o units)] = [res EXCEPT ![r] = t]
    BY <2>1
  <2>3. QED BY <1>3, <2>2 DEF GzipInto
<1>5. Len(t.buf) < MinUnits /\ t \in Response /\ t.gz = s.gz
  <2>1. Len(<<>>) = 0 /\ MinUnits \in Nat \ {0} BY GzipAssumption
  <2>2. QED BY <1>2, <2>1 DEF Keeps
<1> HIDE DEF t
<1>6. \E u \in {s, t} : res' = [res EXCEPT ![r] = u] BY <1>4
<1>7. PICK u \in {s, t} : res' = [res EXCEPT ![r] = u] BY <1>6
<1>8. u \in Response /\ u.gz = s.gz /\ Len(u.buf) < MinUnits BY <1>5
<1>9. res' \in [Requests -> Response] /\ \A q \in Requests : res'[q] = IF q = r THEN u ELSE res[q]
  BY <1>7, <1>8 DEF Pooling, Shared
<1>10. PICK h \in {<<>>, wr.held \o units} : writer' = [writer EXCEPT ![w] = [wr EXCEPT !.held = h]]
  BY <1>4
<1>11. [wr EXCEPT !.held = h] \in WriterType /\ [wr EXCEPT !.held = h].to = r
  <2>a. <<>> \in Seq(Units) OBVIOUS
  <2>1. h \in Seq(Units) BY <1>1, <2>a
  <2>2. QED BY <2>1 DEF WriterType
<1>12. /\ writer' \in [GzipWriters -> WriterType] /\ writer'[w].to = r
       /\ \A v \in GzipWriters \ {w} : writer'[v] = writer[v]
  BY <1>10, <1>11 DEF Pooling, Shared
<1>13. QED BY <1>8, <1>9, <1>12 DEF Pooling, Small

\* Write past its checks: the units go through, are buffered, go to the
\* response's own writer, or start one.
LEMMA GzipWriteStep ==
  ASSUME Pooling, NEW r \in Requests, NEW s \in Response, s.gz = res[r].gz,
         Len(s.buf) < MinUnits, NEW units \in Seq(Units), GzipWrite(r, s, units)
  PROVE  Pooling'
<1>a. res \in [Requests -> Response] /\ writer \in [GzipWriters -> WriterType]
      /\ \A q \in Requests : Len(res[q].buf) < MinUnits
  BY DEF Pooling, Shared, Small
<1>b. Len(<<>>) = 0 /\ MinUnits \in Nat \ {0} BY GzipAssumption
<1>1. CASE s.passthrough
  <2>1. res' = [res EXCEPT ![r] = NetWrite(s, units)] /\ UNCHANGED <<writer, pool>>
    BY <1>1 DEF GzipWrite
  <2>2. Keeps(s, NetWrite(s, units)) BY NetWriteKeeps
  <2>3. NetWrite(s, units) \in Response /\ NetWrite(s, units).gz = res[r].gz
        /\ Len(NetWrite(s, units).buf) < MinUnits
    BY <2>2, <1>b DEF Keeps
  <2>4. Calm BY <1>a, <2>1, <2>3 DEF Calm
  <2>5. QED BY <2>4, CalmStep
<1>2. CASE ~s.passthrough /\ s.gz # NoWriter
  <2>1. GzipInto(r, s, s.gz, writer[s.gz], units) /\ UNCHANGED pool
    BY <1>2 DEF GzipWrite
  <2>2. s.gz \in GzipWriters BY <1>2 DEF Response
  <2>3. writer[s.gz] \in WriterType /\ writer[s.gz].to = r /\ s.gz \notin pool
    BY <1>2, <1>a, <2>2 DEF Pooling, Held
  <2>4. /\ res' \in [Requests -> Response]
        /\ \A q \in Requests : /\ res'[q].gz = IF q = r THEN s.gz ELSE res[q].gz
                               /\ Len(res'[q].buf) < MinUnits
        /\ writer' \in [GzipWriters -> WriterType] /\ writer'[s.gz].to = r
        /\ \A v \in GzipWriters \ {s.gz} : writer'[v] = writer[v]
    BY <2>1, <2>2, <2>3, IntoOwn
  <2>5. Calm BY <2>1, <2>2, <2>3, <2>4 DEF Calm
  <2>6. QED BY <2>5, CalmStep
<1>3. CASE ~s.passthrough /\ s.gz = NoWriter
  <2> DEFINE all == s.buf \o units
  <2>1. all \in Seq(Units) BY DEF Response
  <2>2. CASE ~Full(all)
    <3> DEFINE t == [s EXCEPT !.buf = all]
    <3>1. res' = [res EXCEPT ![r] = t] /\ UNCHANGED <<writer, pool>>
      BY <1>3, <2>2 DEF GzipWrite
    <3>2. t \in Response /\ t.gz = res[r].gz /\ t.buf = all BY <2>1 DEF Response
    <3>3. Len(all) \in Nat /\ Len(all) < MinUnits BY <2>1, <2>2, <1>b DEF Full
    <3> HIDE DEF t
    <3>4. Calm BY <1>a, <3>1, <3>2, <3>3 DEF Calm
    <3>5. QED BY <3>4, CalmStep
  <2>3. CASE Full(all)
    <3> DEFINE taken(w) == [CommitGzip(s) EXCEPT !.gz = w, !.buf = <<>>]
               fresh == [to |-> r, held |-> <<>>]
    <3>1. PICK w \in Obtainable : /\ pool' = pool \ {w}
                                  /\ GzipInto(r, taken(w), w, fresh, all)
      BY <1>3, <2>3 DEF GzipWrite
    <3>2. w \in GzipWriters BY DEF Obtainable, Pooling, Shared
    <3>3. CommitGzip(s) \in Response BY CommitGzipKeeps DEF Keeps
    <3>4. <<>> \in Seq(Units) OBVIOUS
    <3>5. taken(w) \in Response /\ taken(w).gz = w /\ Len(taken(w).buf) < MinUnits
      <4>1. ASSUME NEW c \in Response
            PROVE  LET t == [c EXCEPT !.gz = w, !.buf = <<>>]
                   IN t \in Response /\ t.gz = w /\ t.buf = <<>>
        BY <3>2, <3>4 DEF Response
      <4>2. taken(w) \in Response /\ taken(w).gz = w /\ taken(w).buf = <<>>
        <5> DEFINE c == CommitGzip(s)
        <5>1. c \in Response BY <3>3
        <5> HIDE DEF c
        <5>2. LET t == [c EXCEPT !.gz = w, !.buf = <<>>]
              IN t \in Response /\ t.gz = w /\ t.buf = <<>>
          BY <4>1, <5>1
        <5>3. QED BY <5>2 DEF c
      <4> HIDE DEF taken
      <4>3. QED BY <1>b, <4>2
    <3>6. fresh \in WriterType /\ fresh.to = r BY <3>4 DEF WriterType
    <3> HIDE DEF taken, fresh, all
    <3>7. Takes(r, w)
      BY <2>1, <3>1, <3>2, <3>5, <3>6, IntoOwn DEF Takes
    <3>8. QED BY <3>2, <3>7, TakesStep
  <2>4. QED BY <2>2, <2>3
<1>4. QED BY <1>1, <1>2, <1>3

-----------------------------------------------------------------------------
(* The steps.                                                              *)

\* A step that maps the response of r alone, to one that keeps its writer.
LEMMA MapStep ==
  ASSUME Pooling, NEW r \in Requests, NEW t, Keeps(res[r], t),
         res' = [res EXCEPT ![r] = t], UNCHANGED <<writer, pool>>
  PROVE  Pooling'
<1>1. res \in [Requests -> Response] /\ writer \in [GzipWriters -> WriterType]
      /\ \A q \in Requests : Len(res[q].buf) < MinUnits
  BY DEF Pooling, Shared, Small
<1>2. Len(<<>>) = 0 /\ MinUnits \in Nat \ {0} BY GzipAssumption
<1>3. t \in Response /\ t.gz = res[r].gz /\ Len(t.buf) < MinUnits BY <1>1, <1>2 DEF Keeps
<1>4. Calm BY <1>1, <1>3 DEF Calm
<1>5. QED BY <1>4, CalmStep

LEMMA PromiseType ==
  ASSUME Typed, Shared, NEW r \in Requests, NEW code \in Statuses
  PROVE  Promise(r, code) \in StoryType
<1>1. story[r] \in StoryType /\ res[r].live \in Headers BY DEF Typed, Shared, Response
<1>2. QED BY <1>1 DEF Promise, StoryType

LEMMA NoCallStep ==
  ASSUME Pooling, UNCHANGED <<res, writer, pool>>
  PROVE  Pooling'
  BY DEF Pooling, Shared, Small, Held, Idle

LEMMA StageStep ==
  ASSUME GzipInv, NEW r \in Requests, NEW t \in HeaderTags, Stage(r, t)
  PROVE  GzipInv'
<1> DEFINE live == IF t \in res[r].live THEN res[r].live \ {t} ELSE res[r].live \cup {t}
           u == [res[r] EXCEPT !.live = live]
<1>1. res[r] \in Response /\ res \in [Requests -> Response] BY DEF GzipInv, Pooling, Shared
<1>2. live \in Headers BY <1>1 DEF Response, Headers
<1>3. Keeps(res[r], u) BY <1>1, <1>2 DEF Keeps, Response
<1>4. res' = [res EXCEPT ![r] = u] BY <1>1 DEF Stage
<1>5. Pooling' BY <1>3, <1>4, MapStep DEF GzipInv, Stage
<1>6. Typed' BY GzipAssumption DEF GzipInv, Typed, Stage, Calls
<1>7. QED BY <1>5, <1>6 DEF GzipInv

LEMMA WriteHeaderStep ==
  ASSUME GzipInv, NEW r \in Requests, NEW code \in Codes, WriteHeader(r, code)
  PROVE  GzipInv'
<1>1. res[r] \in Response BY DEF GzipInv, Pooling, Shared
<1>2. code \in Statuses BY DEF Statuses
<1> DEFINE u == IF res[r].accepts THEN GzWriteHeader(res[r], code) ELSE NetWriteHeader(res[r], code)
<1>3. Keeps(res[r], u) BY <1>1, <1>2, GzWriteHeaderKeeps, NetWriteHeaderKeeps
<1>4. res' = [res EXCEPT ![r] = u] BY DEF WriteHeader, GzipInv, Pooling, Shared
<1>5. Pooling' BY <1>3, <1>4, MapStep DEF GzipInv, WriteHeader
<1>6. Promise(r, code) \in StoryType BY <1>2, PromiseType DEF GzipInv, Pooling
<1>7. Typed' BY <1>6, GzipAssumption DEF GzipInv, Typed, WriteHeader, Calls
<1>8. QED BY <1>5, <1>7 DEF GzipInv

LEMMA EndsStep ==
  ASSUME GzipInv, NEW r \in Requests, NEW why \in {"return", "panic", "abort"},
         HandlerEnds(r, why)
  PROVE  GzipInv'
<1>1. Pooling' BY NoCallStep DEF GzipInv, HandlerEnds
<1>2. Typed' BY DEF GzipInv, Typed, HandlerEnds
<1>3. QED BY <1>1, <1>2 DEF GzipInv

LEMMA WriteStep ==
  ASSUME GzipInv, NEW r \in Requests, Write(r)
  PROVE  GzipInv'
<1>1. res[r] \in Response /\ res \in [Requests -> Response] /\ story[r] \in StoryType
      /\ Len(res[r].buf) < MinUnits
  BY DEF GzipInv, Pooling, Shared, Small, Typed
<1> DEFINE done == story[r].wrote
           units(k) == [i \in 1..k |-> Unit(r, done + i)]
<1>2. PICK k \in 1..MinUnits :
        /\ done + k <= MaxUnits
        /\ Calls(r)
        /\ story' = [story EXCEPT ![r] = [Promise(r, 200) EXCEPT !.wrote = done + k]]
        /\ IF res[r].accepts
           THEN GzipWrite(r, GzWriteHeader(res[r], 200), units(k))
           ELSE /\ res' = [res EXCEPT ![r] = NetWrite(@, units(k))]
                /\ UNCHANGED <<writer, pool>>
        /\ UNCHANGED <<stage, how>>
  BY DEF Write
<1>3. done \in 0..MaxUnits /\ k \in Nat /\ MaxUnits \in Nat
  BY <1>1, GzipAssumption DEF StoryType
<1>4. units(k) \in Seq(Units)
  <2>1. ASSUME NEW i \in 1..k PROVE Unit(r, done + i) \in Units
    <3>1. done + i \in 0..MaxUnits BY <1>2, <1>3
    <3>2. QED BY <3>1 DEF Unit, Units
  <2>2. QED BY <1>3, <2>1
<1> HIDE DEF units
<1>5. Pooling'
  <2>1. CASE res[r].accepts
    <3> DEFINE s == GzWriteHeader(res[r], 200)
    <3>1. Keeps(res[r], s) BY <1>1, GzWriteHeaderKeeps, StatusFacts
    <3>2. Len(<<>>) = 0 /\ MinUnits \in Nat \ {0} BY GzipAssumption
    <3>3. s \in Response /\ s.gz = res[r].gz /\ Len(s.buf) < MinUnits
      BY <1>1, <3>1, <3>2 DEF Keeps
    <3>4. GzipWrite(r, s, units(k)) BY <1>2, <2>1
    <3> HIDE DEF s
    <3>5. QED BY <1>4, <3>3, <3>4, GzipWriteStep DEF GzipInv
  <2>2. CASE ~res[r].accepts
    <3>1. Keeps(res[r], NetWrite(res[r], units(k))) BY <1>1, <1>4, NetWriteKeeps
    <3>2. res' = [res EXCEPT ![r] = NetWrite(res[r], units(k))] /\ UNCHANGED <<writer, pool>>
      BY <1>1, <1>2, <2>2
    <3>3. QED BY <3>1, <3>2, MapStep DEF GzipInv
  <2>3. QED BY <2>1, <2>2
<1>6. Typed'
  <2>1. Promise(r, 200) \in StoryType BY PromiseType, StatusFacts DEF GzipInv, Pooling
  <2>2. done + k \in 0..MaxUnits BY <1>2, <1>3
  <2>3. [Promise(r, 200) EXCEPT !.wrote = done + k] \in StoryType BY <2>1, <2>2 DEF StoryType
  <2>4. story' \in [Requests -> StoryType] BY <1>2, <2>3 DEF GzipInv, Typed
  <2>5. QED BY <1>2, <2>4, GzipAssumption DEF GzipInv, Typed, Calls
<1>7. QED BY <1>5, <1>6 DEF GzipInv

LEMMA LateWriteStep ==
  ASSUME GzipInv, NEW r \in Requests, LateWrite(r)
  PROVE  GzipInv'
<1>1. res[r] \in Response /\ Len(res[r].buf) < MinUnits
  BY DEF GzipInv, Pooling, Shared, Small
<1> DEFINE units == [i \in 1..MinUnits |-> Unit(r, 0)]
           s == GzWriteHeader(res[r], 200)
<1>2. Unit(r, 0) \in Units /\ MinUnits \in Nat \ {0} BY GzipAssumption DEF Unit, Units
<1>3. units \in Seq(Units) BY <1>2
<1>4. Keeps(res[r], s) BY <1>1, GzWriteHeaderKeeps, StatusFacts
<1>5. Len(<<>>) = 0 OBVIOUS
<1>6. s \in Response /\ s.gz = res[r].gz /\ Len(s.buf) < MinUnits
  BY <1>1, <1>2, <1>4, <1>5 DEF Keeps
<1>7. GzipWrite(r, s, units) BY DEF LateWrite
<1> HIDE DEF s, units
<1>8. Pooling' BY <1>3, <1>6, <1>7, GzipWriteStep DEF GzipInv
<1>9. Typed' BY GzipAssumption DEF GzipInv, Typed, LateWrite
<1>10. QED BY <1>8, <1>9 DEF GzipInv

LEMMA FlushStep ==
  ASSUME GzipInv, NEW r \in Requests, Flush(r)
  PROVE  GzipInv'
<1>1. res[r] \in Response /\ res \in [Requests -> Response] /\ Pooling
      /\ writer \in [GzipWriters -> WriterType] /\ story[r] \in StoryType
  BY DEF GzipInv, Pooling, Shared, Typed
<1>2. Pooling'
  <2>1. CASE res[r].gz = NoWriter
    <3> DEFINE u == IF res[r].accepts THEN GzFlush(res[r]) ELSE NetFlush(res[r])
    <3>1. Keeps(res[r], u) BY <1>1, GzFlushKeeps, NetWriteHeaderKeeps, StatusFacts DEF NetFlush
    <3>2. res' = [res EXCEPT ![r] = u] /\ UNCHANGED <<writer, pool>>
      BY <1>1, <2>1 DEF Flush
    <3>3. QED BY <1>1, <3>1, <3>2, MapStep
  <2>2. CASE res[r].gz # NoWriter
    <3> DEFINE w == res[r].gz
               u == Deflated(GzFlush(res[r]), writer[w].held)
    <3>1. w \in GzipWriters /\ w \notin pool BY <1>1, <2>2 DEF Response, Pooling, Held
    <3>2. writer[w] \in WriterType /\ writer[w].held \in Seq(Units)
      BY <1>1, <3>1 DEF WriterType
    <3>3. Keeps(res[r], GzFlush(res[r])) BY <1>1, GzFlushKeeps
    <3>4. Keeps(GzFlush(res[r]), u) BY <3>2, <3>3, DeflatedKeeps DEF Keeps
    <3>5. Keeps(res[r], u) BY <3>3, <3>4, KeepsTwice
    <3>6. /\ res' = [res EXCEPT ![r] = u]
          /\ writer' = [writer EXCEPT ![w] = [writer[w] EXCEPT !.held = <<>>]]
          /\ pool' = pool
      BY <1>1, <2>2, <3>1 DEF Flush
    <3>7. <<>> \in Seq(Units) OBVIOUS
    <3>8. LET v == [writer[w] EXCEPT !.held = <<>>]
          IN v \in WriterType /\ v.to = writer[w].to
      BY <3>2, <3>7 DEF WriterType
    <3>9. Len(<<>>) = 0 /\ MinUnits \in Nat \ {0} BY GzipAssumption
    <3>10. \A q \in Requests : Len(res[q].buf) < MinUnits BY <1>1 DEF Pooling, Small
    <3>11. u \in Response /\ u.gz = res[r].gz /\ Len(u.buf) < MinUnits
      BY <3>5, <3>9, <3>10 DEF Keeps
    <3> HIDE DEF u
    <3>12. Calm BY <1>1, <3>1, <3>6, <3>8, <3>10, <3>11 DEF Calm
    <3>13. QED BY <1>1, <3>12, CalmStep
  <2>3. QED BY <2>1, <2>2
<1>3. Typed'
  <2>1. Promise(r, 200) \in StoryType BY PromiseType, StatusFacts DEF GzipInv, Pooling
  <2>2. [Promise(r, 200) EXCEPT !.flushed = story[r].wrote] \in StoryType
    BY <1>1, <2>1 DEF StoryType
  <2>3. story' \in [Requests -> StoryType] BY <2>2 DEF GzipInv, Typed, Flush
  <2>4. QED BY <2>3, GzipAssumption DEF GzipInv, Typed, Flush, Calls
<1>4. QED BY <1>2, <1>3 DEF GzipInv

LEMMA HintsStep ==
  ASSUME GzipInv, NEW r \in Requests, Hints(r)
  PROVE  GzipInv'
<1>1. Pooling' BY NoCallStep DEF GzipInv, Hints
<1>2. Typed' BY GzipAssumption DEF GzipInv, Typed, Hints, Calls
<1>3. QED BY <1>1, <1>2 DEF GzipInv

LEMMA FinishStep ==
  ASSUME GzipInv, NEW r \in Requests, Finish(r)
  PROVE  GzipInv'
<1>1. res[r] \in Response /\ res \in [Requests -> Response] /\ Pooling
      /\ writer \in [GzipWriters -> WriterType]
      /\ \A q \in Requests : Len(res[q].buf) < MinUnits
  BY DEF GzipInv, Pooling, Shared, Small
<1>2. Pooling'
  <2>1. CASE res[r].gz = NoWriter
    <3> DEFINE s == res[r]
               h == CommitHeader(s)
               c == NetWriteHeader(h, s.status)
               n == NetWrite(c, c.buf)
               u == IF s.passthrough \/ s.status = 0 \/ how[r] # "return" THEN s
                    ELSE IF c.buf = <<>> THEN c ELSE n
    <3>1. Keeps(s, h) /\ s.status \in Statuses BY <1>1, CommitHeaderKeeps DEF Response
    <3>2. Keeps(h, c) BY <3>1, NetWriteHeaderKeeps DEF Keeps
    <3>3. c \in Response /\ c.buf \in Seq(Units) BY <3>2 DEF Keeps, Response
    <3>4. Keeps(c, n) BY <3>3, NetWriteKeeps
    <3>5. Keeps(s, s) BY <1>1 DEF Keeps
    <3>6. Keeps(s, u) BY <3>1, <3>2, <3>4, <3>5, KeepsTwice
    <3>7. res' = [res EXCEPT ![r] = u] /\ UNCHANGED <<writer, pool>>
      BY <1>1, <2>1 DEF Finish
    <3> HIDE DEF u
    <3>8. QED BY <1>1, <3>6, <3>7, MapStep
  <2>2. CASE res[r].gz # NoWriter
    <3> DEFINE w == res[r].gz
               d == Deflated(res[r], writer[w].held)
               sent == [d.sent EXCEPT !.trailer = TRUE]
               u == [d EXCEPT !.gz = NoWriter, !.sent = sent]
    <3>1. w \in GzipWriters BY <1>1, <2>2 DEF Response
    <3>2. writer[w].held \in Seq(Units) BY <1>1, <3>1 DEF WriterType
    <3>3. Keeps(res[r], d) BY <1>1, <3>2, DeflatedKeeps
    <3>4. /\ res' = [res EXCEPT ![r] = u]
          /\ writer' = [writer EXCEPT ![w] = [to |-> NoWriter, held |-> <<>>]]
          /\ pool' = pool \cup {w}
      BY <1>1, <2>2 DEF Finish, CloseGzip
    <3>5. Len(<<>>) = 0 /\ MinUnits \in Nat \ {0} BY GzipAssumption
    <3>6. d \in Response /\ Len(d.buf) < MinUnits BY <1>1, <3>3, <3>5 DEF Keeps
    <3> HIDE DEF d
    <3>7. d.sent \in SentType BY <3>6 DEF Response
    <3>8. sent \in SentType BY <3>7 DEF SentType
    <3> HIDE DEF sent
    <3>9. u \in Response /\ u.gz = NoWriter /\ u.buf = d.buf BY <3>6, <3>8 DEF Response
    <3> HIDE DEF u
    <3>10. <<>> \in Seq(Units) OBVIOUS
    <3>11. [to |-> NoWriter, held |-> <<>>] \in WriterType BY <3>10 DEF WriterType
    <3>12. res' \in [Requests -> Response] /\ writer' \in [GzipWriters -> WriterType]
      BY <1>1, <3>1, <3>4, <3>9, <3>11
    <3>13. Parks(r) BY <1>1, <2>2, <3>1, <3>4, <3>6, <3>9, <3>12 DEF Parks
    <3>14. QED BY <1>1, <3>13, ParksStep
  <2>3. QED BY <2>1, <2>2
<1>3. Typed' BY DEF GzipInv, Typed, Finish
<1>4. QED BY <1>2, <1>3 DEF GzipInv

LEMMA RecoverStep ==
  ASSUME GzipInv, NEW r \in Requests, Recover(r)
  PROVE  GzipInv'
<1>1. res[r] \in Response /\ res \in [Requests -> Response] /\ Pooling
  BY DEF GzipInv, Pooling, Shared
\* What became of the response, and how it ended.
<1>2. \E t \in Response, end \in {"ended", "dropped"} :
        Keeps(res[r], t) /\ res' = [res EXCEPT ![r] = [t EXCEPT !.sent.closed = end]]
  <2>1. Keeps(res[r], res[r]) BY <1>1 DEF Keeps
  <2>2. Keeps(res[r], Commit(res[r], 200)) BY <1>1, CommitKeeps, StatusFacts
  <2>3. Keeps(res[r], Answer500(res[r])) BY <1>1, Answer500Keeps
  <2>4. Keeps(Answer500(res[r]), Commit(Answer500(res[r]), 200))
    BY <2>3, CommitKeeps, StatusFacts DEF Keeps
  <2>5. Keeps(res[r], Commit(Answer500(res[r]), 200)) BY <2>3, <2>4, KeepsTwice
  <2>6. CASE how[r] = "abort"
    <3>1. res' = [res EXCEPT ![r] = [res[r] EXCEPT !.sent.closed = "dropped"]]
      BY <1>1, <2>6, Zenon DEF Recover
    <3>2. QED BY <1>1, <2>1, <3>1
  <2>7. CASE how[r] = "panic"
    <3>1. res' = [res EXCEPT ![r] =
                    [Commit(Answer500(res[r]), 200) EXCEPT !.sent.closed = "ended"]]
      BY <1>1, <2>7, Zenon DEF Recover
    <3>2. QED BY <2>5, <3>1 DEF Keeps
  <2>8. CASE how[r] # "abort" /\ how[r] # "panic"
    <3>1. res' = [res EXCEPT ![r] = [Commit(res[r], 200) EXCEPT !.sent.closed = "ended"]]
      BY <1>1, <2>8, Zenon DEF Recover
    <3>2. QED BY <2>2, <3>1 DEF Keeps
  <2>9. QED BY <2>6, <2>7, <2>8
<1>3. PICK t \in Response, end \in {"ended", "dropped"} :
        Keeps(res[r], t) /\ res' = [res EXCEPT ![r] = [t EXCEPT !.sent.closed = end]]
  BY <1>2
<1> DEFINE sent == [t.sent EXCEPT !.closed = end]
           u == [t EXCEPT !.sent = sent]
<1>4. t.sent \in SentType BY DEF Response
<1>5. sent \in SentType BY <1>4 DEF SentType
<1>6. res' = [res EXCEPT ![r] = u] BY <1>3
<1> HIDE DEF sent
<1>7. Keeps(t, u) BY <1>5 DEF Keeps, Response
<1> HIDE DEF u
<1>8. Keeps(res[r], u) BY <1>3, <1>7, KeepsTwice
<1>9. Pooling' BY <1>1, <1>6, <1>8, MapStep DEF Recover
<1>10. Typed' BY DEF GzipInv, Typed, Recover
<1>11. QED BY <1>9, <1>10 DEF GzipInv

-----------------------------------------------------------------------------
(* The theorems.                                                           *)

LEMMA GzipInit == Init => GzipInv
<1> SUFFICES ASSUME Init PROVE GzipInv
  OBVIOUS
<1>a. <<>> \in Seq(Units) OBVIOUS
<1>b. Len(<<>>) = 0 /\ MinUnits \in Nat \ {0} /\ MaxUnits \in Nat /\ MaxCalls \in Nat
  BY GzipAssumption
<1>1. ASSUME NEW accepts \in BOOLEAN
      PROVE  /\ FreshResponse(accepts) \in Response
             /\ FreshResponse(accepts).gz = NoWriter /\ FreshResponse(accepts).buf = <<>>
  <2> DEFINE sent == FreshResponse(accepts).sent
  <2>1. {"vary"} \in Headers /\ {} \in Headers BY DEF Headers
  <2>2. sent \in SentType BY <1>a, <2>1, StatusFacts DEF FreshResponse, SentType
  <2>3. QED BY <1>a, <2>1, <2>2, StatusFacts DEF FreshResponse, Response
<1>2. PICK takers \in SUBSET Requests : res = [r \in Requests |-> FreshResponse(r \in takers)]
  BY DEF Init
<1>3. \A r \in Requests : /\ res[r] \in Response
                          /\ res[r].gz = NoWriter /\ res[r].buf = <<>>
  <2> TAKE r \in Requests
  <2> DEFINE accepts == r \in takers
  <2>1. accepts \in BOOLEAN OBVIOUS
  <2>2. res[r] = FreshResponse(accepts) BY <1>2
  <2> HIDE DEF accepts
  <2>3. QED BY <1>1, <2>1, <2>2
<1>4. res \in [Requests -> Response] BY <1>2, <1>3
<1>5. [to |-> NoWriter, held |-> <<>>] \in WriterType BY <1>a DEF WriterType
<1>6. Pooling BY <1>b, <1>3, <1>4, <1>5 DEF Pooling, Shared, Small, Held, Idle, Init
<1>7. NoStory \in StoryType BY <1>b, StatusFacts DEF NoStory, StoryType
<1>8. Typed BY <1>b, <1>7 DEF Typed, Init
<1>9. QED BY <1>6, <1>8 DEF GzipInv

LEMMA GzipStep ==
  ASSUME GzipInv, [Next]_vars
  PROVE  GzipInv'
<1>1. CASE UNCHANGED vars
  BY <1>1 DEF GzipInv, Typed, Pooling, Shared, Small, Held, Idle, vars
<1>2. CASE Next
  <2> PICK r \in Requests : ServeHTTP(r) BY <1>2 DEF Next
  <2>1. CASE \E t \in HeaderTags : Stage(r, t) BY <2>1, StageStep
  <2>2. CASE Hints(r) BY <2>2, HintsStep
  <2>3. CASE \E code \in Codes : WriteHeader(r, code) BY <2>3, WriteHeaderStep
  <2>4. CASE Write(r) BY <2>4, WriteStep
  <2>5. CASE LateWrite(r) BY <2>5, LateWriteStep
  <2>6. CASE Flush(r) BY <2>6, FlushStep
  <2>7. CASE Return(r) BY <2>7, EndsStep DEF Return
  <2>8. CASE Panic(r) BY <2>8, EndsStep DEF Panic
  <2>9. CASE AbortHandler(r) BY <2>9, EndsStep DEF AbortHandler
  <2>10. CASE Finish(r) BY <2>10, FinishStep
  <2>11. CASE Recover(r) BY <2>11, RecoverStep
  <2>12. QED BY <2>1, <2>2, <2>3, <2>4, <2>5, <2>6, <2>7, <2>8, <2>9, <2>10, <2>11
                DEF ServeHTTP
<1>3. QED BY <1>1, <1>2

LEMMA InvTypes == GzipInv => TypeOK
<1> SUFFICES ASSUME GzipInv PROVE TypeOK
  OBVIOUS
<1>1. \A w \in GzipWriters : writer[w] \in WriterType BY DEF GzipInv, Pooling, Shared
<1>2. \A r \in Requests : res[r] \in Response /\ Len(res[r].buf) < MinUnits
  BY DEF GzipInv, Pooling, Shared, Small
<1>3. \A r \in Requests : res[r].sent \in SentType BY <1>2 DEF Response
<1>4. \A r \in Requests : res[r].sent.status \in Statuses /\ res[r].sent.header \in Headers
  BY <1>3 DEF SentType
<1>5. \A r \in Requests :
        /\ res[r].live \in Headers /\ res[r].snapshot \in Headers \cup {NoHeader}
        /\ res[r].status \in Statuses /\ res[r].gz \in GzipWriters \cup {NoWriter}
  BY <1>2 DEF Response
<1>6. \A w \in GzipWriters : writer[w].to \in Requests \cup {NoWriter}
                            /\ writer[w].held \in Seq(Units)
  BY <1>1 DEF WriterType
<1>7. QED BY <1>2, <1>4, <1>5, <1>6 DEF TypeOK, GzipInv, Typed, Pooling, Shared

LEMMA InvPools == GzipInv => PoolIsIdle
<1> SUFFICES ASSUME GzipInv PROVE PoolIsIdle
  OBVIOUS
<1>1. pool \subseteq GzipWriters /\ Held /\ Idle BY DEF GzipInv, Pooling, Shared
<1>2. NoWriter \notin GzipWriters BY GzipAssumption
<1>3. QED BY <1>1, <1>2 DEF PoolIsIdle, Held, Idle

\* The inductive invariant holds of every reachable state, whatever the number of
\* requests, of pooled writers and of calls.
THEOREM GzipInvariance == Spec => []GzipInv
<1>1. Init => GzipInv BY GzipInit
<1>2. GzipInv /\ [Next]_vars => GzipInv' BY GzipStep
<1>3. QED BY <1>1, <1>2, PTL DEF Spec

\* Every response, writer and counter stays in its type, and what is buffered
\* stays below the threshold (gzip.go:144-158).
THEOREM GzipTyping == Spec => []TypeOK
BY GzipInvariance, InvTypes, PTL

\* A parked gzip.Writer is held by no response, aimed at no connection and holds
\* no bytes, and no two responses share one (gzip.go:176-186, 224-230).
THEOREM PoolIsIdleAlways == Spec => []PoolIsIdle
BY GzipInvariance, InvPools, PTL

-----------------------------------------------------------------------------
(* What the client has is told by the handler's story, phase by phase.       *)

\* What a response is to its client, as a function of the handler's story: nobody
\* asked anything yet, ...
Quiet(s, st) ==
  /\ s.gz = NoWriter /\ ~s.passthrough /\ s.buf = <<>> /\ ~s.wrote
  /\ s.status = 0 /\ s.snapshot = NoHeader /\ "gzip" \notin s.live
  /\ s.sent.status = 0 /\ s.sent.plain = <<>> /\ s.sent.packed = <<>>
  /\ st.header = NoHeader /\ st.wrote = 0 /\ st.flushed = 0

Chosen(st) == st.header # NoHeader /\ st.status # 0 /\ "gzip" \notin st.header

\* ... all of it waits in the buffer, ...
Buffered(r, s, st) ==
  /\ s.accepts /\ s.gz = NoWriter /\ ~s.passthrough /\ ~s.wrote
  /\ Chosen(st) /\ s.status = st.status /\ s.snapshot = st.header
  /\ {"events", "encoded"} \cap st.header = {}
  /\ s.sent.status = 0 /\ s.sent.plain = <<>> /\ s.sent.packed = <<>>
  /\ s.buf = Own(r, st.wrote) /\ st.flushed = 0

\* ... it goes out as it is written, ...
Straight(r, s, st) ==
  /\ s.gz = NoWriter /\ s.buf = <<>> /\ s.wrote
  /\ IF s.accepts THEN s.passthrough /\ s.status # 0 ELSE ~s.passthrough /\ s.status = 0
  /\ Chosen(st) /\ s.sent.status = st.status /\ s.sent.header = st.header
  /\ s.sent.plain = Own(r, st.wrote) /\ s.sent.packed = <<>>

\* ... or through a gzip.Writer that still holds some.
Zipped(r, s, st, held) ==
  /\ s.accepts /\ s.gz # NoWriter /\ ~s.passthrough /\ s.buf = <<>> /\ s.wrote /\ s.status # 0
  /\ Chosen(st) /\ s.sent.status = st.status
  /\ s.sent.header = (st.header \ {"length"}) \cup {"gzip"}
  /\ {"events", "encoded"} \cap st.header = {}
  /\ s.sent.plain = <<>> /\ s.sent.packed \o held = Own(r, st.wrote)
  /\ MinUnits <= st.wrote /\ st.flushed <= Len(s.sent.packed)

Open(r, s, st, held) ==
  /\ s.sent.closed = "no" /\ st.flushed <= st.wrote
  /\ Quiet(s, st) \/ Buffered(r, s, st) \/ Straight(r, s, st) \/ Zipped(r, s, st, held)

\* The client has what the handler wrote, under the headers it chose.
Relayed(r, s, st) ==
  /\ Chosen(st) /\ st.flushed <= st.wrote /\ s.wrote
  /\ s.sent.status = st.status
  /\ s.sent.plain \o s.sent.packed = Own(r, st.wrote)
  /\ IF "gzip" \in s.sent.header
     THEN /\ s.sent.header = (st.header \ {"length"}) \cup {"gzip"}
          /\ s.sent.trailer /\ s.sent.plain = <<>> /\ {"events", "encoded"} \cap st.header = {}
     ELSE s.sent.packed = <<>> /\ s.sent.header = st.header

\* It does not come out of the buffer.
Released(s, st) == s.accepts /\ ~s.passthrough => MinUnits <= st.wrote

Nothing(s, st) == s.sent.plain = <<>> /\ s.sent.packed = <<>> /\ st.flushed = 0
Unasked(st) == st.header = NoHeader /\ st.wrote = 0

\* After finish: relayed, or untouched, which a return leaves only if nobody asked.
Finished(r, s, st, why) ==
  /\ s.gz = NoWriter /\ s.sent.closed = "no"
  /\ \/ Relayed(r, s, st) /\ (why = "panic" => Released(s, st))
     \/ /\ Nothing(s, st) /\ ~s.wrote /\ s.sent.status = 0
        /\ why = "return" => Unasked(st) /\ "gzip" \notin s.live

\* After the recovery.
Over(r, s, st, why) ==
  /\ s.sent.closed # "no"
  /\ \/ Relayed(r, s, st) /\ (why = "panic" => Released(s, st))
     \/ /\ why = "return" /\ Nothing(s, st) /\ Unasked(st)
        /\ s.sent.status = 200 /\ "gzip" \notin s.sent.header
     \/ /\ why = "panic" /\ st.flushed = 0
        /\ s.sent.status = 500 /\ s.sent.header = {"json", "length"}
        /\ s.sent.plain \o s.sent.packed = <<ErrorBody>>
     \/ why = "abort" /\ Nothing(s, st)

Deflating(r) == IF res[r].gz = NoWriter THEN <<>> ELSE writer[res[r].gz].held

Told(r) ==
  /\ stage[r] = "running" <=> how[r] = "none"
  /\ stage[r] \in {"running", "finishing"} => Open(r, res[r], story[r], Deflating(r))
  /\ stage[r] = "recovering" => Finished(r, res[r], story[r], how[r])
  /\ stage[r] = "ended" => Over(r, res[r], story[r], how[r])

\* Every response follows its story.
Faithful == \A r \in Requests : Told(r)

-----------------------------------------------------------------------------
(* Sequences.                                                              *)

LEMMA OwnIsSeq ==
  ASSUME NEW r \in Requests, NEW n \in 0..MaxUnits
  PROVE  Own(r, n) \in Seq(Units) /\ Len(Own(r, n)) = n
<1>1. n \in Nat /\ MaxUnits \in Nat BY GzipAssumption
<1>2. \A i \in 1..n : Unit(r, i) \in Units BY <1>1 DEF Unit, Units
<1>3. QED BY <1>1, <1>2 DEF Own

\* The next k units of a handler follow those it has written.
LEMMA OwnExtends ==
  ASSUME NEW r \in Requests, NEW n \in Nat, NEW k \in Nat, n + k \in 0..MaxUnits
  PROVE  Own(r, n) \o [i \in 1..k |-> Unit(r, n + i)] = Own(r, n + k)
<1> DEFINE a == Own(r, n)
           b == [i \in 1..k |-> Unit(r, n + i)]
           c == Own(r, n + k)
<1>1. MaxUnits \in Nat BY GzipAssumption
<1>2. \A i \in 1..n : Unit(r, i) \in Units BY <1>1 DEF Unit, Units
<1>3. \A i \in 1..k : Unit(r, n + i) \in Units BY <1>1 DEF Unit, Units
<1>4. a \in Seq(Units) /\ Len(a) = n /\ \A i \in 1..n : a[i] = Unit(r, i) BY <1>2 DEF Own
<1>5. b \in Seq(Units) /\ Len(b) = k /\ \A i \in 1..k : b[i] = Unit(r, n + i) BY <1>3
<1>6. c \in Seq(Units) /\ Len(c) = n + k /\ \A i \in 1..(n + k) : c[i] = Unit(r, i)
  BY <1>1, OwnIsSeq DEF Own
<1> HIDE DEF a, b, c
<1>7. a \o b \in Seq(Units) /\ Len(a \o b) = n + k BY <1>4, <1>5
<1>8. ASSUME NEW i \in 1..(n + k) PROVE (a \o b)[i] = c[i]
  <2>1. CASE i <= n BY <1>4, <1>5, <1>6, <2>1
  <2>2. CASE i > n
    <3>1. (a \o b)[i] = b[i - n] /\ i - n \in 1..k BY <1>4, <1>5, <2>2
    <3>2. QED BY <3>1, <1>5, <1>6
  <2>3. i \in Int /\ n \in Int /\ (i <= n \/ i > n) OBVIOUS
  <2>4. QED BY <2>1, <2>2, <2>3
<1>9. a \o b = c BY <1>6, <1>7, <1>8, SeqEqual
<1>10. QED BY <1>9 DEF a, b, c

LEMMA PrefixOfOwn ==
  ASSUME NEW r \in Requests, NEW n \in 0..MaxUnits, NEW p \in Seq(Units), NEW q \in Seq(Units),
         p \o q = Own(r, n)
  PROVE  IsPrefix(p, Own(r, n)) /\ Len(p) <= n
<1> DEFINE c == Own(r, n)
<1>1. c \in Seq(Units) /\ Len(c) = n BY OwnIsSeq
<1>2. Len(p) <= Len(c) /\ \A i \in 1..Len(p) : c[i] = p[i] BY <1>1
<1> HIDE DEF c
<1>3. SubSeq(p, 1, Len(p)) = SubSeq(c, 1, Len(p)) BY <1>1, <1>2
<1>4. QED BY <1>1, <1>2, <1>3 DEF IsPrefix, c

-----------------------------------------------------------------------------
(* What each call does to a response.                                      *)

\* t has what s has, but for the buffer, the headers and what was sent.
Alike(s, t) ==
  /\ t \in Response /\ t.accepts = s.accepts /\ t.gz = s.gz /\ t.passthrough = s.passthrough
  /\ t.status = s.status /\ t.snapshot = s.snapshot

LEMMA CommitsOnce ==
  ASSUME NEW s \in Response, NEW code \in Statuses, s.wrote, s.sent.status # 0
  PROVE  NetWriteHeader(s, code) = s
BY DEF NetWriteHeader, Commit, Response

LEMMA Commits ==
  ASSUME NEW s \in Response, NEW code \in Statuses, s.sent.status = 0, s.sent.closed = "no"
  PROVE  LET c == NetWriteHeader(s, code)
         IN /\ Alike(s, c) /\ c.buf = s.buf /\ c.live = s.live /\ c.wrote
            /\ c.sent.status = code /\ c.sent.header = s.live
            /\ c.sent.plain = s.sent.plain /\ c.sent.packed = s.sent.packed
            /\ c.sent.trailer = s.sent.trailer /\ c.sent.closed = "no"
<1> DEFINE w == [s EXCEPT !.wrote = TRUE]
           sent == [s.sent EXCEPT !.status = code, !.header = s.live]
           c == [w EXCEPT !.sent = sent]
<1>1. s.sent \in SentType /\ s.live \in Headers BY DEF Response
<1>2. /\ sent \in SentType /\ sent.status = code /\ sent.header = s.live
      /\ sent.plain = s.sent.plain /\ sent.packed = s.sent.packed
      /\ sent.trailer = s.sent.trailer /\ sent.closed = s.sent.closed
  BY <1>1 DEF SentType
<1>3. NetWriteHeader(s, code) = c
  BY <1>1 DEF NetWriteHeader, Commit, Response, SentType
<1> HIDE DEF sent
<1>4. /\ Alike(s, c) /\ c.buf = s.buf /\ c.live = s.live /\ c.wrote /\ c.sent = sent
  BY <1>2 DEF Response, Alike
<1> HIDE DEF c
<1>5. QED BY <1>2, <1>3, <1>4

LEMMA Appends ==
  ASSUME NEW s \in Response, NEW units \in Seq(Units), s.wrote, s.sent.status # 0,
         s.sent.closed = "no"
  PROVE  LET n == NetWrite(s, units)
         IN /\ Alike(s, n) /\ n.buf = s.buf /\ n.live = s.live /\ n.wrote
            /\ n.sent.status = s.sent.status /\ n.sent.header = s.sent.header
            /\ n.sent.plain = s.sent.plain \o units /\ n.sent.packed = s.sent.packed
            /\ n.sent.trailer = s.sent.trailer /\ n.sent.closed = "no"
<1> DEFINE plain == s.sent.plain \o units
           sent == [s.sent EXCEPT !.plain = plain]
           n == [s EXCEPT !.sent = sent]
<1>1. s.sent \in SentType BY DEF Response
<1>2. s.sent.plain \in Seq(Units) BY <1>1 DEF SentType
<1>3. plain \in Seq(Units) BY <1>2
<1>4. NetWriteHeader(s, 200) = s BY CommitsOnce, StatusFacts
<1>5. NetWrite(s, units) = n BY <1>4 DEF NetWrite
<1> HIDE DEF plain
<1>6. /\ sent \in SentType /\ sent.status = s.sent.status /\ sent.header = s.sent.header
      /\ sent.plain = plain /\ sent.packed = s.sent.packed
      /\ sent.trailer = s.sent.trailer /\ sent.closed = s.sent.closed
  BY <1>1, <1>3 DEF SentType
<1> HIDE DEF sent
<1>7. Alike(s, n) /\ n.buf = s.buf /\ n.live = s.live /\ n.wrote /\ n.sent = sent
  BY <1>6 DEF Response, Alike
<1> HIDE DEF n
<1>8. QED BY <1>5, <1>6, <1>7 DEF plain

\* A Write commits a 200 first.
LEMMA WritesAfterHeader ==
  ASSUME NEW s \in Response, s.sent.status = 0, s.sent.closed = "no", NEW units
  PROVE  NetWrite(s, units) = NetWrite(NetWriteHeader(s, 200), units)
<1> DEFINE c == NetWriteHeader(s, 200)
<1>1. c \in Response /\ c.wrote /\ c.sent.status = 200 BY Commits, StatusFacts DEF Alike
<1>2. NetWriteHeader(c, 200) = c BY <1>1, CommitsOnce, StatusFacts
<1>3. QED BY <1>2 DEF NetWrite

LEMMA Deflates ==
  ASSUME NEW s \in Response, NEW units \in Seq(Units)
  PROVE  LET d == Deflated(s, units)
         IN /\ Alike(s, d) /\ d.buf = s.buf /\ d.live = s.live /\ d.wrote = s.wrote
            /\ d.sent.status = s.sent.status /\ d.sent.header = s.sent.header
            /\ d.sent.packed = IF s.sent.closed = "no" THEN s.sent.packed \o units
                                                      ELSE s.sent.packed
            /\ d.sent.plain = s.sent.plain
            /\ d.sent.trailer = s.sent.trailer /\ d.sent.closed = s.sent.closed
<1> DEFINE packed == s.sent.packed \o units
           sent == [s.sent EXCEPT !.packed = packed]
           n == [s EXCEPT !.sent = sent]
<1>1. s.sent \in SentType BY DEF Response
<1>2. s.sent.packed \in Seq(Units) BY <1>1 DEF SentType
<1>3. packed \in Seq(Units) BY <1>2
<1>5. Deflated(s, units) = IF s.sent.closed # "no" THEN s ELSE n BY DEF Deflated
<1> HIDE DEF packed
<1>6. /\ sent \in SentType /\ sent.status = s.sent.status /\ sent.header = s.sent.header
      /\ sent.packed = packed /\ sent.plain = s.sent.plain
      /\ sent.trailer = s.sent.trailer /\ sent.closed = s.sent.closed
  BY <1>1, <1>3 DEF SentType
<1> HIDE DEF sent
<1>7. Alike(s, n) /\ n.buf = s.buf /\ n.live = s.live /\ n.wrote = s.wrote /\ n.sent = sent
  BY <1>6 DEF Response, Alike
<1>8. Alike(s, s) BY DEF Alike
<1> HIDE DEF n
<1>9. QED BY <1>5, <1>6, <1>7, <1>8 DEF packed

\* What commitHeader commits.
Committed(s) == IF s.snapshot = NoHeader THEN s.live ELSE s.snapshot

LEMMA CommitsHeader ==
  ASSUME NEW s \in Response
  PROVE  LET c == CommitHeader(s)
         IN /\ Alike(s, c) /\ c.buf = s.buf /\ c.live = Committed(s) /\ c.wrote = s.wrote
            /\ c.sent = s.sent
<1>1. s.snapshot # NoHeader => s.snapshot \in Headers BY DEF Response
<1>2. QED BY <1>1 DEF CommitHeader, Committed, Alike, Response

LEMMA PassesThrough ==
  ASSUME NEW s \in Response, s.sent.status = 0, s.sent.closed = "no", s.status # 0,
         s.sent.plain = <<>>
  PROVE  LET p == StartPassthrough(s)
         IN /\ p \in Response /\ p.accepts = s.accepts /\ p.gz = s.gz /\ p.status = s.status
            /\ p.passthrough /\ p.buf = <<>> /\ p.wrote
            /\ p.sent.status = s.status /\ p.sent.header = Committed(s)
            /\ p.sent.plain = s.buf /\ p.sent.packed = s.sent.packed
            /\ p.sent.closed = "no"
<1> DEFINE a == [s EXCEPT !.passthrough = TRUE]
           h == CommitHeader(a)
           c == NetWriteHeader(h, s.status)
           n == NetWrite(c, c.buf)
<1>1. s.status \in Statuses /\ s.buf \in Seq(Units) BY DEF Response
<1>2. /\ a \in Response /\ a.accepts = s.accepts /\ a.gz = s.gz /\ a.status = s.status
      /\ a.passthrough /\ a.buf = s.buf /\ a.sent = s.sent
      /\ a.live = s.live /\ a.snapshot = s.snapshot
  BY DEF Response
<1>3. StartPassthrough(s) = IF c.buf = <<>> THEN c ELSE [n EXCEPT !.buf = <<>>]
  BY DEF StartPassthrough
<1> HIDE DEF a
<1>4. /\ h \in Response /\ h.accepts = s.accepts /\ h.gz = s.gz /\ h.status = s.status
      /\ h.passthrough /\ h.buf = s.buf /\ h.sent = s.sent /\ h.live = Committed(s)
  BY <1>2, CommitsHeader DEF Alike, Committed
<1> HIDE DEF h
<1>5. /\ c \in Response /\ c.accepts = s.accepts /\ c.gz = s.gz /\ c.status = s.status
      /\ c.passthrough /\ c.buf = s.buf /\ c.wrote
      /\ c.sent.status = s.status /\ c.sent.header = Committed(s)
      /\ c.sent.plain = <<>> /\ c.sent.packed = s.sent.packed /\ c.sent.closed = "no"
  BY <1>1, <1>4, Commits DEF Alike
<1> HIDE DEF c
<1>6. /\ n \in Response /\ n.accepts = s.accepts /\ n.gz = s.gz /\ n.status = s.status
      /\ n.passthrough /\ n.wrote
      /\ n.sent.status = s.status /\ n.sent.header = Committed(s)
      /\ n.sent.plain = <<>> \o s.buf /\ n.sent.packed = s.sent.packed /\ n.sent.closed = "no"
  <2>1. c.buf \in Seq(Units) BY <1>1, <1>5
  <2>2. /\ Alike(c, n) /\ n.wrote
        /\ n.sent.status = c.sent.status /\ n.sent.header = c.sent.header
        /\ n.sent.plain = c.sent.plain \o c.buf /\ n.sent.packed = c.sent.packed
        /\ n.sent.closed = "no"
    BY <1>5, <2>1, Appends
  <2>3. QED BY <1>5, <2>2 DEF Alike
<1> HIDE DEF n
<1>7. <<>> \o s.buf = s.buf /\ <<>> \in Seq(Units) BY <1>1
<1> DEFINE e == [n EXCEPT !.buf = <<>>]
<1>8. /\ e \in Response /\ e.accepts = s.accepts /\ e.gz = s.gz /\ e.status = s.status
      /\ e.passthrough /\ e.wrote /\ e.buf = <<>> /\ e.sent = n.sent
  BY <1>6, <1>7 DEF Response
<1>9. CASE c.buf = <<>> BY <1>3, <1>5, <1>9
<1>10. CASE c.buf # <<>>
  <2>1. StartPassthrough(s) = e BY <1>3, <1>10
  <2> HIDE DEF e
  <2>2. QED BY <2>1, <1>6, <1>7, <1>8
<1>11. QED BY <1>9, <1>10

-----------------------------------------------------------------------------
(* From phase to phase.                                                    *)

\* net/http's contract, on the story itself.
Promised(s, st, code) ==
  IF st.header # NoHeader THEN st ELSE [st EXCEPT !.status = code, !.header = s.live]

LEMMA PromisedFields ==
  ASSUME NEW s \in Response, NEW st \in StoryType, NEW code \in Statuses
  PROVE  LET pt == Promised(s, st, code)
         IN /\ pt \in StoryType /\ pt.wrote = st.wrote /\ pt.flushed = st.flushed
            /\ pt.status = IF st.header # NoHeader THEN st.status ELSE code
            /\ pt.header = IF st.header # NoHeader THEN st.header ELSE s.live
BY DEF Promised, StoryType, Response

\* The first WriteHeader, Write or Flush chooses: the response is buffered, or goes
\* straight to the client if it is not gzip's to compress.
LEMMA Asks ==
  ASSUME NEW r \in Requests, NEW s \in Response, NEW st \in StoryType, NEW held,
         NEW code \in Statuses, code # 0, Open(r, s, st, held)
  PROVE  LET t == IF s.accepts THEN GzWriteHeader(s, code) ELSE NetWriteHeader(s, code)
             pt == Promised(s, st, code)
         IN /\ t \in Response /\ t.gz = s.gz /\ t.accepts = s.accepts
            /\ pt \in StoryType /\ pt.wrote = st.wrote /\ pt.flushed = st.flushed
            /\ Open(r, t, pt, held) /\ Chosen(pt)
<1> DEFINE t == IF s.accepts THEN GzWriteHeader(s, code) ELSE NetWriteHeader(s, code)
           pt == Promised(s, st, code)
<1>1. /\ pt \in StoryType /\ pt.wrote = st.wrote /\ pt.flushed = st.flushed
      /\ pt.status = IF st.header # NoHeader THEN st.status ELSE code
      /\ pt.header = IF st.header # NoHeader THEN st.header ELSE s.live
  BY PromisedFields
<1>2. CASE Quiet(s, st)
  <2>1. s.live \in Headers /\ s.live # NoHeader /\ pt.header = s.live /\ pt.status = code
        /\ pt.wrote = 0 /\ pt.flushed = 0 /\ Chosen(pt)
    BY <1>1, <1>2, GzipAssumption DEF Quiet, Response, Headers, Chosen
  <2>2. Own(r, 0) = <<>> BY DEF Own
  <2>3. CASE ~s.accepts
    <3>1. /\ Alike(s, t) /\ t.buf = s.buf /\ t.wrote
          /\ t.sent.status = code /\ t.sent.header = s.live
          /\ t.sent.plain = s.sent.plain /\ t.sent.packed = s.sent.packed
          /\ t.sent.closed = "no"
      BY <1>2, <2>3, Commits DEF Open, Quiet
    <3> HIDE DEF t, pt
    <3>2. Straight(r, t, pt) BY <1>2, <2>1, <2>2, <2>3, <3>1 DEF Quiet, Straight, Alike
    <3>3. QED BY <1>1, <2>1, <3>1, <3>2 DEF Open, Alike, t, pt
  <2>4. CASE s.accepts
    <3> DEFINE g == [s EXCEPT !.status = code, !.snapshot = s.live]
    <3>1. /\ g \in Response /\ g.status = code /\ g.snapshot = s.live /\ g.live = s.live
          /\ g.accepts = s.accepts /\ g.gz = s.gz /\ g.passthrough = s.passthrough
          /\ g.buf = s.buf /\ g.wrote = s.wrote /\ g.sent = s.sent
      BY <2>1 DEF Response
    <3>2. t = IF {"events", "encoded"} \cap s.live # {} THEN StartPassthrough(g) ELSE g
      BY <1>2, <2>4 DEF GzWriteHeader, Quiet
    <3> HIDE DEF g
    <3>3. CASE {"events", "encoded"} \cap s.live # {}
      <4>1. t = StartPassthrough(g) BY <3>2, <3>3
      <4>2. /\ t \in Response /\ t.accepts = g.accepts /\ t.gz = g.gz /\ t.status = g.status
            /\ t.passthrough /\ t.buf = <<>> /\ t.wrote
            /\ t.sent.status = g.status /\ t.sent.header = Committed(g)
            /\ t.sent.plain = g.buf /\ t.sent.packed = g.sent.packed
            /\ t.sent.closed = "no"
        BY <1>2, <3>1, <4>1, PassesThrough DEF Open, Quiet
      <4>3. Committed(g) = s.live BY <3>1 DEF Committed
      <4> HIDE DEF t, pt
      <4>4. Straight(r, t, pt)
        BY <1>2, <2>1, <2>2, <2>4, <3>1, <4>2, <4>3 DEF Quiet, Straight
      <4>5. QED BY <1>1, <2>1, <3>1, <4>2, <4>4 DEF Open, t, pt
    <3>4. CASE {"events", "encoded"} \cap s.live = {}
      <4>1. t = g BY <3>2, <3>4
      <4> HIDE DEF t, pt
      <4>2. Buffered(r, t, pt)
        BY <1>2, <2>1, <2>2, <2>4, <3>1, <3>4, <4>1 DEF Quiet, Buffered
      <4>3. QED BY <1>1, <2>1, <3>1, <4>1, <4>2 DEF Open, t, pt
    <3>5. QED BY <3>3, <3>4
  <2>5. QED BY <2>3, <2>4
<1>3. CASE ~Quiet(s, st)
  <2>1. Buffered(r, s, st) \/ Straight(r, s, st) \/ Zipped(r, s, st, held)
    BY <1>3 DEF Open
  <2>2. Chosen(st) /\ pt = st BY <2>1 DEF Buffered, Straight, Zipped, Chosen, Promised
  <2>3. t = s
    <3>1. CASE s.accepts
      <4>1. s.status # 0 BY <2>1, <3>1 DEF Buffered, Straight, Zipped, Chosen
      <4>2. QED BY <3>1, <4>1 DEF GzWriteHeader
    <3>2. CASE ~s.accepts
      <4>1. s.wrote /\ s.sent.status # 0
        BY <2>1, <3>2 DEF Buffered, Straight, Zipped, Chosen
      <4>2. QED BY <3>2, <4>1, CommitsOnce
    <3>3. QED BY <3>1, <3>2
  <2>4. QED BY <2>2, <2>3
<1>4. QED BY <1>2, <1>3

\* Open does not depend on the writer before there is one.
LEMMA HeldMatters ==
  ASSUME NEW r, NEW s, NEW st, NEW h, NEW k, Open(r, s, st, h), s.gz = NoWriter
  PROVE  Open(r, s, st, k)
BY DEF Open, Zipped

LEMMA Flushes ==
  ASSUME NEW r \in Requests, NEW s \in Response, NEW st \in StoryType, NEW held \in Seq(Units),
         Open(r, s, st, held)
  PROVE  LET pt == [Promised(s, st, 200) EXCEPT !.flushed = st.wrote]
             f == IF s.gz # NoWriter THEN Deflated(GzFlush(s), held)
                  ELSE IF s.accepts THEN GzFlush(s) ELSE NetFlush(s)
         IN f.gz = s.gz /\ Open(r, f, pt, <<>>)
<1> DEFINE qt == Promised(s, st, 200)
           pt == [qt EXCEPT !.flushed = st.wrote]
           f == IF s.gz # NoWriter THEN Deflated(GzFlush(s), held)
                ELSE IF s.accepts THEN GzFlush(s) ELSE NetFlush(s)
<1>1. /\ qt \in StoryType /\ qt.wrote = st.wrote /\ qt.flushed = st.flushed
      /\ qt.status = IF st.header # NoHeader THEN st.status ELSE 200
      /\ qt.header = IF st.header # NoHeader THEN st.header ELSE s.live
  BY PromisedFields, StatusFacts
<1> HIDE DEF qt
<1>2. /\ pt.wrote = st.wrote /\ pt.flushed = st.wrote
      /\ pt.status = IF st.header # NoHeader THEN st.status ELSE 200
      /\ pt.header = IF st.header # NoHeader THEN st.header ELSE s.live
      /\ st.wrote \in 0..MaxUnits /\ MaxUnits \in Nat
  BY <1>1, GzipAssumption DEF StoryType
<1> HIDE DEF pt
<1>3. CASE ~s.accepts
  <2>1. Quiet(s, st) \/ Straight(r, s, st) BY <1>3 DEF Open, Buffered, Zipped
  <2>2. s.gz = NoWriter /\ f = NetWriteHeader(s, 200)
    BY <1>3, <2>1 DEF Quiet, Straight, NetFlush
  <2>3. CASE Quiet(s, st)
    <3>1. /\ Alike(s, f) /\ f.buf = s.buf /\ f.wrote
          /\ f.sent.status = 200 /\ f.sent.header = s.live
          /\ f.sent.plain = s.sent.plain /\ f.sent.packed = s.sent.packed
          /\ f.sent.closed = "no"
      BY <2>2, <2>3, Commits, StatusFacts DEF Open, Quiet
    <3>2. s.live # NoHeader BY GzipAssumption DEF Response, Headers
    <3>3. Own(r, 0) = <<>> BY DEF Own
    <3> HIDE DEF f
    <3>4. Straight(r, f, pt)
      BY <1>2, <1>3, <2>3, <3>1, <3>2, <3>3 DEF Quiet, Straight, Chosen, Alike
    <3>5. QED BY <1>2, <3>1, <3>4 DEF Open, Alike, f, pt, qt
  <2>4. CASE Straight(r, s, st)
    <3>1. f = s BY <2>2, <2>4, CommitsOnce, StatusFacts DEF Straight, Chosen
    <3>2. Straight(r, s, pt) BY <1>2, <2>4 DEF Straight, Chosen
    <3>3. Open(r, s, pt, <<>>) BY <1>2, <3>2 DEF Open
    <3> HIDE DEF f
    <3>4. QED BY <3>1, <3>3 DEF f, pt, qt
  <2>5. QED BY <2>1, <2>3, <2>4
<1>4. CASE s.accepts
  <2> DEFINE c == [s EXCEPT !.status = IF @ = 0 THEN 200 ELSE @]
             d == IF c.gz = NoWriter /\ ~c.passthrough THEN StartPassthrough(c) ELSE c
  <2>1. /\ c \in Response /\ c.status # 0 /\ (s.status # 0 => c.status = s.status)
        /\ (s.status = 0 => c.status = 200)
        /\ c.accepts = s.accepts /\ c.gz = s.gz /\ c.passthrough = s.passthrough
        /\ c.buf = s.buf /\ c.wrote = s.wrote /\ c.sent = s.sent
        /\ c.live = s.live /\ c.snapshot = s.snapshot
    BY StatusFacts DEF Response
  <2>2. GzFlush(s) = NetWriteHeader(d, 200) BY DEF GzFlush, NetFlush
  <2> HIDE DEF c
  <2>3. CASE Quiet(s, st) \/ Buffered(r, s, st)
    <3>1. d = StartPassthrough(c) /\ s.gz = NoWriter BY <2>1, <2>3 DEF Quiet, Buffered
    <3>2. /\ d \in Response /\ d.accepts = c.accepts /\ d.gz = c.gz /\ d.status = c.status
          /\ d.passthrough /\ d.buf = <<>> /\ d.wrote
          /\ d.sent.status = c.status /\ d.sent.header = Committed(c)
          /\ d.sent.plain = c.buf /\ d.sent.packed = c.sent.packed
          /\ d.sent.closed = "no"
      BY <2>1, <2>3, <3>1, PassesThrough DEF Open, Quiet, Buffered
    <3> HIDE DEF d
    <3>3. f = d BY <1>4, <2>1, <2>2, <3>1, <3>2, CommitsOnce, StatusFacts
    <3>4. s.live # NoHeader BY GzipAssumption DEF Response, Headers
    <3>5. Own(r, 0) = <<>> BY DEF Own
    <3>6. CASE Quiet(s, st)
      <4>1. Committed(c) = s.live /\ c.status = 200 /\ c.buf = <<>>
        BY <2>1, <3>6 DEF Committed, Quiet
      <4>2. Straight(r, d, pt)
        BY <1>2, <1>4, <2>1, <3>2, <3>4, <3>5, <3>6, <4>1 DEF Quiet, Straight, Chosen
      <4>3. QED BY <1>2, <2>1, <3>2, <3>3, <4>2 DEF Open, pt, qt
    <3>7. CASE Buffered(r, s, st)
      <4>1. Committed(c) = st.header /\ c.status = st.status /\ c.buf = Own(r, st.wrote)
        BY <2>1, <3>7 DEF Committed, Buffered, Chosen
      <4>2. Straight(r, d, pt)
        BY <1>2, <1>4, <2>1, <3>2, <3>7, <4>1 DEF Buffered, Straight, Chosen
      <4>3. QED BY <1>2, <2>1, <3>2, <3>3, <4>2 DEF Open, pt, qt
    <3>8. QED BY <2>3, <3>6, <3>7
  <2>4. CASE Straight(r, s, st) \/ Zipped(r, s, st, held)
    <3>1. s.status # 0 /\ s.wrote /\ s.sent.status # 0 /\ Chosen(st)
      BY <1>4, <2>4 DEF Straight, Zipped, Chosen
    <3>2. c = s BY <3>1 DEF c, Response
    <3>3. d = s BY <2>4, <3>2, <1>4 DEF Straight, Zipped
    <3>4. GzFlush(s) = s BY <2>2, <3>1, <3>3, CommitsOnce, StatusFacts
    <3>5. CASE Straight(r, s, st)
      <4>1. f = s BY <1>4, <3>4, <3>5 DEF Straight
      <4>2. Straight(r, s, pt) BY <1>2, <3>5 DEF Straight, Chosen
      <4>3. Open(r, s, pt, <<>>) BY <1>2, <4>2 DEF Open
      <4> HIDE DEF f
      <4>4. QED BY <4>1, <4>3 DEF f, pt, qt
    <3>6. CASE Zipped(r, s, st, held)
      <4>1. f = Deflated(s, held) BY <3>4, <3>6 DEF Zipped
      <4>2. s.sent.closed = "no" BY DEF Open
      <4> HIDE DEF f
      <4>3. /\ Alike(s, f) /\ f.buf = s.buf /\ f.wrote = s.wrote
            /\ f.sent.status = s.sent.status /\ f.sent.header = s.sent.header
            /\ f.sent.packed = s.sent.packed \o held /\ f.sent.plain = s.sent.plain
            /\ f.sent.closed = "no"
        BY <4>1, <4>2, Deflates
      <4>4. f.sent.packed = Own(r, st.wrote) BY <3>6, <4>3 DEF Zipped
      <4>5. Own(r, st.wrote) \in Seq(Units) /\ Len(Own(r, st.wrote)) = st.wrote
        BY <1>2, OwnIsSeq
      <4>6. f.sent.packed \o <<>> = Own(r, st.wrote) /\ pt.flushed <= Len(f.sent.packed)
        BY <1>2, <4>4, <4>5
      <4>7. Zipped(r, f, pt, <<>>)
        BY <1>2, <3>6, <4>3, <4>6 DEF Zipped, Chosen, Alike
      <4>8. QED BY <1>2, <4>3, <4>7 DEF Open, Alike, f, pt, qt
    <3>7. QED BY <2>4, <3>5, <3>6
  <2>5. QED BY <2>3, <2>4 DEF Open
<1>5. QED BY <1>3, <1>4

-----------------------------------------------------------------------------
(* What is written.                                                        *)

Wrote(st, k) == [st EXCEPT !.wrote = @ + k]
NextUnits(r, st, k) == [i \in 1..k |-> Unit(r, st.wrote + i)]

\* A story with k more units in it, all of which follow those before.
LEMMA WroteFields ==
  ASSUME NEW r \in Requests, NEW st \in StoryType, NEW k \in Nat, st.wrote + k <= MaxUnits
  PROVE  /\ NextUnits(r, st, k) \in Seq(Units) /\ Len(NextUnits(r, st, k)) = k
         /\ Own(r, st.wrote) \in Seq(Units) /\ Len(Own(r, st.wrote)) = st.wrote
         /\ Own(r, st.wrote) \o NextUnits(r, st, k) = Own(r, st.wrote + k)
         /\ Len(Own(r, st.wrote + k)) = st.wrote + k
         /\ Wrote(st, k).wrote = st.wrote + k
         /\ Wrote(st, k).status = st.status /\ Wrote(st, k).header = st.header
         /\ Wrote(st, k).flushed = st.flushed /\ Wrote(st, k) \in StoryType
         /\ st.flushed \in Nat /\ st.wrote \in Nat
<1>1. st.wrote \in 0..MaxUnits /\ MaxUnits \in Nat /\ st.flushed \in 0..MaxUnits
  BY GzipAssumption DEF StoryType
<1>2. st.wrote + k \in 0..MaxUnits BY <1>1
<1>3. \A i \in 1..k : Unit(r, st.wrote + i) \in Units BY <1>1, <1>2 DEF Unit, Units
<1>4. NextUnits(r, st, k) \in Seq(Units) /\ Len(NextUnits(r, st, k)) = k
  BY <1>3 DEF NextUnits
<1>5. Own(r, st.wrote) \o NextUnits(r, st, k) = Own(r, st.wrote + k)
  <2> DEFINE n == st.wrote
  <2>1. n \in Nat /\ n + k \in 0..MaxUnits BY <1>1, <1>2
  <2> HIDE DEF n
  <2>2. Own(r, n) \o [i \in 1..k |-> Unit(r, n + i)] = Own(r, n + k) BY <2>1, OwnExtends
  <2>3. QED BY <2>2 DEF NextUnits, n
<1>6. /\ Wrote(st, k).wrote = st.wrote + k
      /\ Wrote(st, k).status = st.status /\ Wrote(st, k).header = st.header
      /\ Wrote(st, k).flushed = st.flushed /\ Wrote(st, k) \in StoryType
  BY <1>2 DEF Wrote, StoryType
<1>7. QED BY <1>1, <1>2, <1>4, <1>5, <1>6, OwnIsSeq

LEMMA StraightWrites ==
  ASSUME NEW r \in Requests, NEW s \in Response, NEW st \in StoryType, NEW k \in Nat,
         st.wrote + k <= MaxUnits, Straight(r, s, st), s.sent.closed = "no"
  PROVE  LET n == NetWrite(s, NextUnits(r, st, k))
         IN Straight(r, n, Wrote(st, k)) /\ n.sent.closed = "no"
<1> DEFINE n == NetWrite(s, NextUnits(r, st, k))
           wt == Wrote(st, k)
           own == Own(r, st.wrote)
           more == NextUnits(r, st, k)
<1>1. /\ more \in Seq(Units) /\ own \o more = Own(r, wt.wrote)
      /\ wt.status = st.status /\ wt.header = st.header
  BY WroteFields
<1>2. s.wrote /\ s.sent.status # 0 BY DEF Straight, Chosen
<1> HIDE DEF more, wt, own
<1>3. /\ Alike(s, n) /\ n.buf = s.buf /\ n.wrote
      /\ n.sent.status = s.sent.status /\ n.sent.header = s.sent.header
      /\ n.sent.plain = s.sent.plain \o more /\ n.sent.packed = s.sent.packed
      /\ n.sent.closed = "no"
  BY <1>1, <1>2, Appends DEF more
<1> HIDE DEF n
<1>4. n.sent.plain = Own(r, wt.wrote) BY <1>1, <1>3 DEF Straight, own
<1>5. Straight(r, n, wt) BY <1>1, <1>3, <1>4 DEF Straight, Chosen, Alike
<1>6. QED BY <1>3, <1>5 DEF n, wt

\* deflate holds what it was given, or lets all of it go.
LEMMA IntoEither ==
  ASSUME Shared, NEW r \in Requests, NEW s \in Response, NEW w \in GzipWriters,
         NEW wr \in WriterType, wr.to = r, NEW units \in Seq(Units),
         GzipInto(r, s, w, wr, units)
  PROVE  /\ \/ res'[r] = s /\ writer'[w].held = wr.held \o units
            \/ res'[r] = Deflated(s, wr.held \o units) /\ writer'[w].held = <<>>
         /\ \A q \in Requests \ {r} : res'[q] = res[q]
         /\ \A v \in GzipWriters \ {w} : writer'[v] = writer[v]
<1> DEFINE t == Deflated(s, wr.held \o units)
<1>1. res \in [Requests -> Response] /\ writer \in [GzipWriters -> WriterType] BY DEF Shared
<1>2. r # NoWriter BY GzipAssumption
<1>3. [[res EXCEPT ![r] = s] EXCEPT ![r] = Deflated(@, wr.held \o units)]
        = [res EXCEPT ![r] = t]
  BY <1>1
<1> HIDE DEF t
<1>4. CASE /\ writer' = [writer EXCEPT ![w] = [wr EXCEPT !.held = wr.held \o units]]
           /\ res' = [res EXCEPT ![r] = s]
  BY <1>1, <1>4 DEF WriterType
<1>5. CASE /\ writer' = [writer EXCEPT ![w] = [wr EXCEPT !.held = <<>>]]
           /\ res' = [res EXCEPT ![r] = t]
  BY <1>1, <1>5 DEF WriterType, t
<1>6. QED BY <1>2, <1>3, <1>4, <1>5 DEF GzipInto

LEMMA ZippedEither ==
  ASSUME NEW r \in Requests, NEW s \in Response, NEW st \in StoryType, NEW held \in Seq(Units),
         Zipped(r, s, st, held), s.sent.closed = "no"
  PROVE  LET d == Deflated(s, held)
         IN d.gz = s.gz /\ Zipped(r, d, st, <<>>) /\ d.sent.closed = "no"
<1> DEFINE d == Deflated(s, held)
<1>1. /\ Alike(s, d) /\ d.buf = s.buf /\ d.wrote = s.wrote
      /\ d.sent.status = s.sent.status /\ d.sent.header = s.sent.header
      /\ d.sent.packed = s.sent.packed \o held /\ d.sent.plain = s.sent.plain
      /\ d.sent.closed = "no"
  BY Deflates
<1> HIDE DEF d
<1>2. st.wrote \in 0..MaxUnits /\ st.flushed \in 0..MaxUnits /\ MaxUnits \in Nat
  BY GzipAssumption DEF StoryType
<1>3. d.sent.packed = Own(r, st.wrote) BY <1>1 DEF Zipped
<1>4. d.sent.packed \o <<>> = Own(r, st.wrote) BY <1>2, <1>3, OwnIsSeq
<1>5. s.sent.packed \in Seq(Units)
  <2>1. s.sent \in SentType BY DEF Response
  <2>2. QED BY <2>1 DEF SentType
<1>6. st.flushed <= Len(d.sent.packed)
  <2>1. Len(s.sent.packed) <= Len(s.sent.packed \o held) /\ Len(s.sent.packed) \in Nat
        /\ Len(s.sent.packed \o held) \in Nat
    BY <1>5
  <2>2. st.flushed <= Len(s.sent.packed) BY DEF Zipped
  <2>3. QED BY <1>1, <1>2, <2>1, <2>2
<1>7. Zipped(r, d, st, <<>>) BY <1>1, <1>4, <1>6 DEF Zipped, Alike
<1>8. QED BY <1>1, <1>7 DEF d, Alike

\* gz.Write, whichever way deflate takes it.
LEMMA ZippedInto ==
  ASSUME Shared, NEW r \in Requests, NEW s \in Response, NEW w \in GzipWriters,
         NEW wr \in WriterType, wr.to = r, NEW units \in Seq(Units),
         GzipInto(r, s, w, wr, units), s.gz = w, s.sent.closed = "no",
         NEW st \in StoryType, Zipped(r, s, st, wr.held \o units)
  PROVE  Zipped(r, res'[r], st, Deflating(r)') /\ res'[r].sent.closed = "no"
<1> DEFINE all == wr.held \o units
<1>1. all \in Seq(Units) BY DEF WriterType
<1>2. \/ res'[r] = s /\ writer'[w].held = all
      \/ res'[r] = Deflated(s, all) /\ writer'[w].held = <<>>
  BY IntoEither
<1>3. w # NoWriter BY GzipAssumption
<1> HIDE DEF all
<1>4. CASE res'[r] = s /\ writer'[w].held = all
  <2>1. Deflating(r)' = all BY <1>3, <1>4 DEF Deflating
  <2>2. QED BY <1>4, <2>1 DEF all
<1>5. CASE res'[r] = Deflated(s, all) /\ writer'[w].held = <<>>
  <2>1. /\ Deflated(s, all).gz = w /\ Zipped(r, Deflated(s, all), st, <<>>)
        /\ Deflated(s, all).sent.closed = "no"
    BY <1>1, ZippedEither DEF all
  <2>2. Deflating(r)' = <<>> BY <1>3, <1>5, <2>1 DEF Deflating
  <2>3. QED BY <1>5, <2>1, <2>2
<1>6. QED BY <1>2, <1>4, <1>5

\* startGzip: the headers of the snapshot, with a Content-Encoding and without
\* a Content-Length.
LEMMA StartsGzip ==
  ASSUME NEW r \in Requests, NEW s \in Response, NEW st \in StoryType, NEW k \in Nat,
         st.wrote + k <= MaxUnits, Buffered(r, s, st), s.sent.closed = "no",
         NEW w \in GzipWriters, Full(s.buf \o NextUnits(r, st, k))
  PROVE  LET z == [CommitGzip(s) EXCEPT !.gz = w, !.buf = <<>>]
         IN /\ z \in Response /\ z.gz = w /\ z.sent.closed = "no"
            /\ Zipped(r, z, Wrote(st, k), s.buf \o NextUnits(r, st, k))
<1> DEFINE c == CommitHeader(s)
           live == (c.live \ {"length"}) \cup {"gzip"}
           g == [c EXCEPT !.live = live]
           n == NetWriteHeader(g, c.status)
           z == [n EXCEPT !.gz = w, !.buf = <<>>]
           wt == Wrote(st, k)
           all == s.buf \o NextUnits(r, st, k)
<1>1. /\ NextUnits(r, st, k) \in Seq(Units) /\ Len(all) = wt.wrote /\ all = Own(r, wt.wrote)
      /\ wt.status = st.status /\ wt.header = st.header /\ wt.flushed = st.flushed
      /\ all \in Seq(Units) /\ wt.wrote \in Nat
  <2>1. /\ NextUnits(r, st, k) \in Seq(Units) /\ Own(r, st.wrote) \in Seq(Units)
        /\ Own(r, st.wrote) \o NextUnits(r, st, k) = Own(r, wt.wrote)
        /\ Len(Own(r, wt.wrote)) = wt.wrote
        /\ wt.status = st.status /\ wt.header = st.header /\ wt.flushed = st.flushed
        /\ wt.wrote = st.wrote + k /\ st.wrote \in Nat
    BY WroteFields
  <2>2. s.buf = Own(r, st.wrote) BY DEF Buffered
  <2> HIDE DEF wt
  <2>3. all = Own(r, wt.wrote) BY <2>1, <2>2, Zenon
  <2>4. all \in Seq(Units) BY <2>1, <2>2
  <2> HIDE DEF all
  <2>5. Len(all) = wt.wrote /\ wt.wrote \in Nat BY <2>1, <2>3
  <2>6. QED BY <2>1, <2>3, <2>4, <2>5
<1>2. MinUnits <= wt.wrote BY <1>1 DEF Full
<1> HIDE DEF all, wt
<1>3. /\ Alike(s, c) /\ c.live = st.header /\ c.wrote = s.wrote /\ c.sent = s.sent
      /\ c.status = st.status
  BY CommitsHeader DEF Buffered, Chosen, Committed, Alike
<1>4. CommitGzip(s) = n BY DEF CommitGzip
<1> HIDE DEF c
<1>5. c \in Response /\ c.live \in Headers /\ c.status \in Statuses /\ c.status # 0
  BY <1>3 DEF Alike, Response, Buffered, Chosen
<1>6. live \in Headers BY <1>5 DEF Headers
<1>7. /\ g \in Response /\ g.accepts = s.accepts /\ g.passthrough = s.passthrough
      /\ g.status = st.status /\ g.sent = s.sent /\ g.live = live
  BY <1>3, <1>5, <1>6 DEF Alike, Response
<1> HIDE DEF g
<1>8. /\ n \in Response /\ n.accepts = s.accepts /\ n.passthrough = s.passthrough
      /\ n.status = st.status /\ n.wrote
      /\ n.sent.status = st.status /\ n.sent.header = live
      /\ n.sent.plain = <<>> /\ n.sent.packed = <<>> /\ n.sent.closed = "no"
  <2> HIDE DEF live
  <2>1. g.sent.status = 0 /\ g.sent.closed = "no" BY <1>7 DEF Buffered
  <2>2. /\ Alike(g, n) /\ n.wrote
        /\ n.sent.status = c.status /\ n.sent.header = g.live
        /\ n.sent.plain = g.sent.plain /\ n.sent.packed = g.sent.packed
        /\ n.sent.closed = "no"
    BY <1>5, <1>7, <2>1, Commits
  <2>3. QED BY <1>3, <1>7, <2>2 DEF Alike, Buffered
<1> HIDE DEF n
<1>9. <<>> \in Seq(Units) /\ w # NoWriter BY GzipAssumption
<1>10. /\ z \in Response /\ z.gz = w /\ z.buf = <<>> /\ z.accepts = s.accepts
       /\ z.passthrough = s.passthrough /\ z.status = st.status /\ z.wrote /\ z.sent = n.sent
  BY <1>8, <1>9 DEF Response
<1> HIDE DEF z
<1>11. <<>> \o all = Own(r, wt.wrote) /\ Len(<<>>) = 0 BY <1>1
<1>12. Zipped(r, z, wt, all)
  <2>1. /\ s.accepts /\ ~s.passthrough /\ Chosen(st) /\ st.flushed = 0
        /\ {"events", "encoded"} \cap st.header = {}
    BY DEF Buffered
  <2>2. Chosen(wt) /\ z.status # 0 BY <1>1, <1>10, <2>1 DEF Chosen
  <2>3. z.sent.header = (wt.header \ {"length"}) \cup {"gzip"} BY <1>1, <1>3, <1>8, <1>10
  <2>4. z.sent.packed \o all = Own(r, wt.wrote) /\ wt.flushed <= Len(z.sent.packed)
    <3>1. z.sent.packed = <<>> /\ wt.flushed = 0 BY <1>1, <1>8, <1>10, <2>1
    <3>2. QED BY <1>11, <3>1
  <2> HIDE DEF live
  <2>5. QED BY <1>1, <1>2, <1>8, <1>9, <1>10, <2>1, <2>2, <2>3, <2>4 DEF Zipped
<1>13. QED BY <1>4, <1>8, <1>10, <1>12 DEF z, all, wt

\* A Write, after it has chosen, of a response that may be compressed.
LEMMA GzipWrites ==
  ASSUME Pooling, NEW r \in Requests, NEW s \in Response, NEW st \in StoryType, NEW k \in Nat,
         st.wrote + k <= MaxUnits, s.accepts, s.gz = res[r].gz,
         Open(r, s, st, Deflating(r)), Chosen(st), GzipWrite(r, s, NextUnits(r, st, k))
  PROVE  Open(r, res'[r], Wrote(st, k), Deflating(r)')
<1> DEFINE more == NextUnits(r, st, k)
           wt == Wrote(st, k)
<1>1. /\ more \in Seq(Units) /\ Own(r, st.wrote) \o more = Own(r, wt.wrote)
      /\ Own(r, st.wrote) \in Seq(Units)
      /\ wt.status = st.status /\ wt.header = st.header /\ wt.flushed = st.flushed
      /\ st.wrote \in Nat /\ st.flushed \in Nat /\ wt.wrote = st.wrote + k
  BY WroteFields
<1>2. Shared /\ res \in [Requests -> Response] /\ writer \in [GzipWriters -> WriterType]
  BY DEF Pooling, Shared
<1>3. s.sent.closed = "no" /\ wt.flushed <= wt.wrote BY <1>1 DEF Open
<1>4. wt \in StoryType BY WroteFields
<1>5. GzipWrite(r, s, more) OBVIOUS
<1>6. ~Quiet(s, st) BY DEF Quiet, Chosen
<1> HIDE DEF more, wt
<1>7. CASE Straight(r, s, st)
  <2>1. s.passthrough BY <1>7 DEF Straight
  <2>2. res'[r] = NetWrite(s, more) BY <1>2, <1>5, <2>1 DEF GzipWrite
  <2>3. Straight(r, res'[r], wt) /\ res'[r].sent.closed = "no"
    BY <1>3, <1>7, <2>2, StraightWrites DEF more, wt
  <2>4. QED BY <1>3, <2>3 DEF Open, wt
<1>8. CASE Zipped(r, s, st, Deflating(r))
  <2> DEFINE w == s.gz
             wr == writer[w]
  <2>1. w # NoWriter /\ ~s.passthrough BY <1>8 DEF Zipped
  <2>2. GzipInto(r, s, w, wr, more) BY <1>5, <2>1 DEF GzipWrite
  <2>3. w \in GzipWriters BY <2>1 DEF Response
  <2>4. wr \in WriterType /\ wr.to = r /\ Deflating(r) = wr.held /\ wr.held \in Seq(Units)
    BY <1>2, <2>1, <2>3 DEF Pooling, Held, Deflating, WriterType
  <2>5. s.sent.packed \in Seq(Units)
    <3>1. s.sent \in SentType BY DEF Response
    <3>2. QED BY <3>1 DEF SentType
  <2> HIDE DEF w, wr
  <2>6. s.sent.packed \o (wr.held \o more) = (s.sent.packed \o wr.held) \o more
    <3> DEFINE a == s.sent.packed
               b == wr.held
    <3>1. a \in Seq(Units) /\ b \in Seq(Units) /\ more \in Seq(Units) BY <1>1, <2>4, <2>5
    <3> HIDE DEF a, b
    <3>2. (a \o b) \o more = a \o (b \o more) BY <3>1, ConcatAssociative
    <3>3. QED BY <3>2 DEF a, b
  <2>7. s.sent.packed \o (wr.held \o more) = Own(r, wt.wrote)
    BY <1>1, <1>8, <2>4, <2>6 DEF Zipped
  <2>8. MinUnits <= wt.wrote
    BY <1>1, <1>8, GzipAssumption DEF Zipped
  <2>9. Zipped(r, s, wt, wr.held \o more)
    BY <1>1, <1>8, <2>7, <2>8 DEF Zipped, Chosen
  <2>10. Zipped(r, res'[r], wt, Deflating(r)') /\ res'[r].sent.closed = "no"
    BY <1>1, <1>2, <1>3, <1>4, <2>2, <2>3, <2>4, <2>9, ZippedInto DEF w
  <2>11. QED BY <1>3, <2>10 DEF Open, wt
<1>9. CASE Buffered(r, s, st)
  <2> DEFINE all == s.buf \o more
  <2>1. s.gz = NoWriter /\ ~s.passthrough /\ s.buf = Own(r, st.wrote) BY <1>9 DEF Buffered
  <2>2. all \in Seq(Units) /\ all = Own(r, wt.wrote) BY <1>1, <2>1
  <2>3. CASE ~Full(all)
    <3> DEFINE t == [s EXCEPT !.buf = all]
    <3>1. res' = [res EXCEPT ![r] = t] BY <1>5, <2>1, <2>3 DEF GzipWrite
    <3>2. /\ t.accepts = s.accepts /\ t.gz = s.gz /\ t.passthrough = s.passthrough
          /\ t.wrote = s.wrote /\ t.status = s.status /\ t.snapshot = s.snapshot
          /\ t.sent = s.sent /\ t.buf = all
      BY <2>2 DEF Response
    <3>3. res'[r] = t BY <1>2, <3>1
    <3> HIDE DEF t
    <3>4. Buffered(r, t, wt) BY <1>1, <1>9, <2>2, <3>2 DEF Buffered, Chosen
    <3>5. QED BY <1>3, <3>2, <3>3, <3>4 DEF Open, wt
  <2>4. CASE Full(all)
    <3> DEFINE taken(w) == [CommitGzip(s) EXCEPT !.gz = w, !.buf = <<>>]
               fresh == [to |-> r, held |-> <<>>]
    <3>1. PICK w \in Obtainable : GzipInto(r, taken(w), w, fresh, all)
      BY <1>5, <2>1, <2>4 DEF GzipWrite
    <3>2. w \in GzipWriters BY <1>2 DEF Obtainable, Shared
    <3>3. <<>> \in Seq(Units) /\ <<>> \o all = all BY <2>2
    <3>4. fresh \in WriterType /\ fresh.to = r /\ fresh.held = <<>> BY <3>3 DEF WriterType
    <3>5. taken(w) \in Response /\ taken(w).gz = w /\ taken(w).sent.closed = "no"
          /\ Zipped(r, taken(w), wt, all)
      BY <1>3, <1>9, <2>4, <3>2, StartsGzip DEF more, wt
    <3>a. all \in Seq(Units) BY <2>2
    <3> HIDE DEF taken, fresh, all
    <3>6. Zipped(r, res'[r], wt, Deflating(r)') /\ res'[r].sent.closed = "no"
      <4>1. Zipped(r, taken(w), wt, fresh.held \o all) BY <3>3, <3>4, <3>5
      <4>2. QED BY <1>2, <1>4, <3>a, <3>1, <3>2, <3>4, <3>5, <4>1, ZippedInto
    <3>7. QED BY <1>3, <3>6 DEF Open, wt
  <2>5. QED BY <2>3, <2>4
<1>10. QED BY <1>6, <1>7, <1>8, <1>9 DEF Open

-----------------------------------------------------------------------------
(* The way out.                                                            *)

LEMMA Finishes ==
  ASSUME NEW r \in Requests, NEW s \in Response, NEW st \in StoryType, NEW held \in Seq(Units),
         NEW why \in {"return", "panic", "abort"}, Open(r, s, st, held)
  PROVE  LET c == NetWriteHeader(CommitHeader(s), s.status)
             d == Deflated(s, held)
             f == IF s.gz # NoWriter THEN [d EXCEPT !.gz = NoWriter, !.sent.trailer = TRUE]
                  ELSE IF s.passthrough \/ s.status = 0 \/ why # "return" THEN s
                  ELSE IF c.buf = <<>> THEN c ELSE NetWrite(c, c.buf)
         IN Finished(r, f, st, why)
<1> DEFINE h == CommitHeader(s)
           c == NetWriteHeader(h, s.status)
           n == NetWrite(c, c.buf)
           d == Deflated(s, held)
           f == IF s.gz # NoWriter THEN [d EXCEPT !.gz = NoWriter, !.sent.trailer = TRUE]
                ELSE IF s.passthrough \/ s.status = 0 \/ why # "return" THEN s
                ELSE IF c.buf = <<>> THEN c ELSE n
<1>1. st.wrote \in 0..MaxUnits /\ MaxUnits \in Nat BY GzipAssumption DEF StoryType
<1>2. Own(r, st.wrote) \in Seq(Units) BY <1>1, OwnIsSeq
<1>3. /\ <<>> \o Own(r, st.wrote) = Own(r, st.wrote)
      /\ Own(r, st.wrote) \o <<>> = Own(r, st.wrote)
  BY <1>2
<1>4. CASE Quiet(s, st)
  <2>1. f = s BY <1>4 DEF Quiet
  <2> HIDE DEF f
  <2>2. Finished(r, s, st, why) BY <1>4 DEF Quiet, Finished, Nothing, Unasked, Open
  <2>3. QED BY <2>1, <2>2 DEF f, n, c, h, d
<1>5. CASE Straight(r, s, st)
  <2>1. f = s BY <1>5 DEF Straight
  <2> HIDE DEF f
  <2>2. Relayed(r, s, st) BY <1>3, <1>5 DEF Straight, Relayed, Open, Chosen
  <2>3. Finished(r, s, st, why) BY <1>5, <2>2 DEF Straight, Finished, Released, Open
  <2>4. QED BY <2>1, <2>3 DEF f, n, c, h, d
<1>6. CASE Zipped(r, s, st, held)
  <2>1. /\ Alike(s, d) /\ d.wrote = s.wrote
        /\ d.sent.status = s.sent.status /\ d.sent.header = s.sent.header
        /\ d.sent.packed = s.sent.packed \o held /\ d.sent.plain = s.sent.plain
        /\ d.sent.closed = "no"
    BY Deflates DEF Open
  <2>2. f = [d EXCEPT !.gz = NoWriter, !.sent.trailer = TRUE] BY <1>6 DEF Zipped
  <2> HIDE DEF d, f
  <2> DEFINE sent == [d.sent EXCEPT !.trailer = TRUE]
             e == [d EXCEPT !.gz = NoWriter, !.sent = sent]
  <2>3. d \in Response /\ d.sent \in SentType BY <2>1 DEF Alike, Response
  <2>4. /\ sent.status = d.sent.status /\ sent.header = d.sent.header
        /\ sent.plain = d.sent.plain
        /\ sent.packed = d.sent.packed /\ sent.closed = d.sent.closed /\ sent.trailer
    BY <2>3 DEF SentType
  <2>5. f = e BY <2>2
  <2> HIDE DEF sent
  <2>6. /\ e.gz = NoWriter /\ e.sent = sent /\ e.wrote = d.wrote /\ e.accepts = d.accepts
        /\ e.passthrough = d.passthrough
    BY <2>3 DEF Response
  <2> HIDE DEF e
  <2>7. e.sent.plain \o e.sent.packed = Own(r, st.wrote)
    BY <1>3, <1>6, <2>1, <2>4, <2>6 DEF Zipped
  <2>8. Relayed(r, e, st) BY <1>6, <2>1, <2>4, <2>6, <2>7 DEF Zipped, Relayed, Open
  <2>9. Finished(r, e, st, why)
    BY <1>6, <2>1, <2>4, <2>6, <2>8 DEF Zipped, Finished, Released
  <2>10. QED BY <2>5, <2>9 DEF f, n, c, h, d
<1>7. CASE Buffered(r, s, st) /\ why # "return"
  <2>1. f = s BY <1>7 DEF Buffered
  <2> HIDE DEF f
  <2>2. Finished(r, s, st, why) BY <1>7 DEF Buffered, Finished, Nothing, Open
  <2>3. QED BY <2>1, <2>2 DEF f, n, c, h, d
<1>8. CASE Buffered(r, s, st) /\ why = "return"
  <2>1. f = IF c.buf = <<>> THEN c ELSE n BY <1>8 DEF Buffered, Chosen
  <2> HIDE DEF f
  <2>2. /\ h \in Response /\ h.gz = NoWriter /\ h.buf = s.buf /\ h.live = st.header
        /\ h.sent = s.sent /\ s.status \in Statuses
    BY <1>8, CommitsHeader DEF Buffered, Chosen, Committed, Alike, Response
  <2> HIDE DEF h
  <2>3. /\ c \in Response /\ c.gz = NoWriter /\ c.buf = s.buf /\ c.wrote
        /\ c.sent.status = st.status /\ c.sent.header = st.header
        /\ c.sent.plain = <<>> /\ c.sent.packed = <<>> /\ c.sent.closed = "no"
    BY <1>8, <2>2, Commits DEF Buffered, Open, Alike
  <2> HIDE DEF c
  <2>4. c.buf = Own(r, st.wrote) /\ c.buf \in Seq(Units) /\ c.sent.status # 0
    BY <1>2, <1>8, <2>3 DEF Buffered, Chosen
  <2>5. /\ Alike(c, n) /\ n.wrote
        /\ n.sent.status = c.sent.status /\ n.sent.header = c.sent.header
        /\ n.sent.plain = c.sent.plain \o c.buf /\ n.sent.packed = c.sent.packed
        /\ n.sent.closed = "no"
    BY <2>3, <2>4, Appends
  <2> HIDE DEF n
  <2>6. /\ f.gz = NoWriter /\ f.wrote /\ f.sent.closed = "no"
        /\ f.sent.status = st.status /\ f.sent.header = st.header
        /\ f.sent.plain = Own(r, st.wrote) /\ f.sent.packed = <<>>
    BY <1>3, <2>1, <2>3, <2>4, <2>5 DEF Alike
  <2>7. Relayed(r, f, st) BY <1>3, <1>8, <2>6 DEF Relayed, Buffered, Chosen, Open
  <2>8. Finished(r, f, st, why) BY <1>8, <2>6, <2>7 DEF Finished
  <2>9. QED BY <2>8 DEF f, n, c, h, d
<1>9. QED BY <1>4, <1>5, <1>6, <1>7, <1>8 DEF Open

LEMMA Closes ==
  ASSUME NEW s \in Response, NEW end \in {"ended", "dropped"}
  PROVE  LET e == [s EXCEPT !.sent.closed = end]
         IN /\ e.wrote = s.wrote /\ e.accepts = s.accepts /\ e.passthrough = s.passthrough
            /\ e.sent.status = s.sent.status /\ e.sent.header = s.sent.header
            /\ e.sent.plain = s.sent.plain /\ e.sent.packed = s.sent.packed
            /\ e.sent.trailer = s.sent.trailer /\ e.sent.closed = end
<1> DEFINE sent == [s.sent EXCEPT !.closed = end]
           e == [s EXCEPT !.sent = sent]
<1>1. s.sent \in SentType BY DEF Response
<1>2. /\ sent.status = s.sent.status /\ sent.header = s.sent.header
      /\ sent.plain = s.sent.plain
      /\ sent.packed = s.sent.packed /\ sent.trailer = s.sent.trailer /\ sent.closed = end
  BY <1>1 DEF SentType
<1> HIDE DEF sent
<1>3. /\ e.sent = sent /\ e.wrote = s.wrote /\ e.accepts = s.accepts
      /\ e.passthrough = s.passthrough
  BY DEF Response
<1> HIDE DEF e
<1>4. QED BY <1>2, <1>3 DEF e, sent

\* The empty answer of net/http.
LEMMA CommitsEmpty ==
  ASSUME NEW s \in Response, NEW code \in Statuses, s.sent.status = 0, s.sent.closed = "no"
  PROVE  LET c == Commit(s, code)
         IN /\ c \in Response /\ c.sent.status = code /\ c.sent.header = s.live
            /\ c.sent.plain = s.sent.plain /\ c.sent.packed = s.sent.packed
<1> DEFINE sent == [s.sent EXCEPT !.status = code, !.header = s.live]
           c == [s EXCEPT !.sent = sent]
<1>1. s.sent \in SentType /\ s.live \in Headers BY DEF Response
<1>2. /\ sent \in SentType /\ sent.status = code /\ sent.header = s.live
      /\ sent.plain = s.sent.plain /\ sent.packed = s.sent.packed
  BY <1>1 DEF SentType
<1>3. Commit(s, code) = c BY <1>1 DEF Commit, Response, SentType
<1> HIDE DEF sent
<1>4. c \in Response /\ c.sent = sent BY <1>2 DEF Response
<1> HIDE DEF c
<1>5. QED BY <1>2, <1>3, <1>4

LEMMA Answers500 ==
  ASSUME NEW s \in Response, ~s.wrote, s.sent.status = 0, s.sent.closed = "no",
         s.sent.plain = <<>>, s.sent.packed = <<>>
  PROVE  LET a == Answer500(s)
         IN /\ a \in Response /\ a.wrote /\ a.sent.status = 500
            /\ a.sent.header = {"json", "length"}
            /\ a.sent.plain \o a.sent.packed = <<ErrorBody>>
<1> DEFINE g == [s EXCEPT !.live = {"json", "length"}]
           c == NetWriteHeader(g, 500)
           body == <<ErrorBody>>
           n == NetWrite(c, body)
<1>1. {"json", "length"} \in Headers BY DEF Headers
<1>2. g \in Response /\ g.live = {"json", "length"} /\ g.sent = s.sent
  BY <1>1 DEF Response
<1>3. Answer500(s) = n BY DEF Answer500
<1> HIDE DEF g
<1>4. /\ c \in Response /\ c.wrote /\ c.sent.status = 500 /\ c.sent.header = {"json", "length"}
      /\ c.sent.plain = <<>> /\ c.sent.packed = <<>> /\ c.sent.closed = "no"
  BY <1>2, Commits, StatusFacts DEF Alike
<1> HIDE DEF c
<1>5. body \in Seq(Units) BY DEF Units
<1>6. <<>> \o body = body /\ body \o <<>> = body BY <1>5
<1> HIDE DEF body
<1>7. /\ n \in Response /\ n.wrote /\ n.sent.status = 500 /\ n.sent.header = {"json", "length"}
      /\ n.sent.plain = <<>> \o body /\ n.sent.packed = <<>>
  <2>1. /\ Alike(c, n) /\ n.wrote
        /\ n.sent.status = c.sent.status /\ n.sent.header = c.sent.header
        /\ n.sent.plain = c.sent.plain \o body /\ n.sent.packed = c.sent.packed
    <3>1. c \in Response /\ c.wrote /\ c.sent.status # 0 /\ c.sent.closed = "no" BY <1>4
    <3>2. QED BY <1>5, <3>1, Appends
  <2>2. QED BY <1>4, <2>1 DEF Alike
<1> HIDE DEF n
<1>8. n.sent.plain \o n.sent.packed = body BY <1>6, <1>7, Zenon
<1>9. QED BY <1>3, <1>7, <1>8 DEF body

LEMMA Recovers ==
  ASSUME NEW r \in Requests, NEW s \in Response, NEW st \in StoryType,
         NEW why \in {"return", "panic", "abort"}, Finished(r, s, st, why)
  PROVE  LET f == CASE why = "abort" -> [s EXCEPT !.sent.closed = "dropped"]
                    [] why = "panic" -> [Commit(Answer500(s), 200) EXCEPT !.sent.closed = "ended"]
                    [] OTHER -> [Commit(s, 200) EXCEPT !.sent.closed = "ended"]
         IN Over(r, f, st, why)
<1> DEFINE f == CASE why = "abort" -> [s EXCEPT !.sent.closed = "dropped"]
                  [] why = "panic" -> [Commit(Answer500(s), 200) EXCEPT !.sent.closed = "ended"]
                  [] OTHER -> [Commit(s, 200) EXCEPT !.sent.closed = "ended"]
\* What is relayed is committed, and closing changes nothing of it.
<1>1. CASE Relayed(r, s, st) /\ (why = "panic" => Released(s, st))
  <2>1. s.wrote /\ s.sent.status # 0 BY <1>1 DEF Relayed, Chosen
  <2>2. Answer500(s) = s /\ Commit(s, 200) = s BY <2>1 DEF Answer500, Commit
  <2>3. f \in {[s EXCEPT !.sent.closed = "dropped"], [s EXCEPT !.sent.closed = "ended"]}
    BY <2>2
  <2>4. PICK end \in {"ended", "dropped"} : f = [s EXCEPT !.sent.closed = end] BY <2>3
  <2> HIDE DEF f
  <2>5. /\ f.wrote = s.wrote /\ f.accepts = s.accepts /\ f.passthrough = s.passthrough
        /\ f.sent.status = s.sent.status /\ f.sent.header = s.sent.header
        /\ f.sent.plain = s.sent.plain /\ f.sent.packed = s.sent.packed
        /\ f.sent.trailer = s.sent.trailer /\ f.sent.closed = end
    BY <2>4, Closes
  <2>6. Relayed(r, f, st) BY <1>1, <2>5 DEF Relayed
  <2>7. Over(r, f, st, why) BY <1>1, <2>5, <2>6 DEF Over, Released
  <2>8. QED BY <2>7 DEF f
<1>2. CASE /\ Nothing(s, st) /\ ~s.wrote /\ s.sent.status = 0
           /\ why = "return" => Unasked(st) /\ "gzip" \notin s.live
  <2>1. s.sent.closed = "no" /\ s.sent.plain = <<>> /\ s.sent.packed = <<>> /\ st.flushed = 0
    BY <1>2 DEF Finished, Nothing
  <2>2. CASE why = "abort"
    <3>1. f = [s EXCEPT !.sent.closed = "dropped"] BY <2>2
    <3> HIDE DEF f
    <3>2. Over(r, f, st, why) BY <2>1, <2>2, <3>1, Closes DEF Over, Nothing
    <3>3. QED BY <3>2 DEF f
  <2>3. CASE why = "panic"
    <3> DEFINE a == Answer500(s)
    <3>1. f = [Commit(a, 200) EXCEPT !.sent.closed = "ended"] BY <2>3
    <3>2. /\ a \in Response /\ a.wrote /\ a.sent.status = 500
          /\ a.sent.header = {"json", "length"}
          /\ a.sent.plain \o a.sent.packed = <<ErrorBody>>
      BY <1>2, <2>1, Answers500
    <3> HIDE DEF f, a
    <3>3. Commit(a, 200) = a BY <3>2 DEF Commit
    <3>4. /\ f.sent.status = 500 /\ f.sent.header = {"json", "length"}
          /\ f.sent.plain = a.sent.plain /\ f.sent.packed = a.sent.packed
          /\ f.sent.closed = "ended"
      <4>1. f = [a EXCEPT !.sent.closed = "ended"] BY <3>1, <3>3
      <4>2. QED BY <3>2, <4>1, Closes
    <3>5. f.sent.plain \o f.sent.packed = <<ErrorBody>> BY <3>2, <3>4, Zenon
    <3>6. Over(r, f, st, why) BY <2>1, <2>3, <3>4, <3>5, Zenon DEF Over
    <3>7. QED BY <3>6 DEF f
  <2>4. CASE why = "return"
    <3> DEFINE c == Commit(s, 200)
    <3>1. f = [c EXCEPT !.sent.closed = "ended"] BY <2>4
    <3>2. /\ c \in Response /\ c.sent.status = 200 /\ c.sent.header = s.live
          /\ c.sent.plain = <<>> /\ c.sent.packed = <<>>
      BY <1>2, <2>1, CommitsEmpty, StatusFacts
    <3> HIDE DEF f, c
    <3>3. /\ f.sent.status = 200 /\ f.sent.header = s.live /\ f.sent.closed = "ended"
          /\ f.sent.plain = <<>> /\ f.sent.packed = <<>>
      BY <3>1, <3>2, Closes
    <3>4. Unasked(st) /\ "gzip" \notin s.live /\ Nothing(f, st)
      BY <1>2, <2>1, <2>4, <3>3 DEF Nothing
    <3>5. Over(r, f, st, why) BY <2>4, <3>3, <3>4 DEF Over
    <3>6. QED BY <3>5 DEF f
  <2>5. QED BY <2>2, <2>3, <2>4
<1>3. QED BY <1>1, <1>2 DEF Finished

\* A call on a response that is closed reaches nobody.
Shut(s, t) ==
  /\ t.sent = s.sent /\ t.accepts = s.accepts
  /\ s.wrote => t.wrote
  /\ s.passthrough => t.passthrough

LEMMA ShutStaysOver ==
  ASSUME NEW r, NEW s, NEW t, NEW st, NEW why, Over(r, s, st, why), Shut(s, t)
  PROVE  Over(r, t, st, why)
<1>1. t.sent = s.sent /\ t.accepts = s.accepts BY DEF Shut
<1>2. Relayed(r, s, st) => Relayed(r, t, st) BY <1>1, Zenon DEF Shut, Relayed
<1>3. Released(s, st) => Released(t, st) BY <1>1, Zenon DEF Shut, Released
<1>4. Nothing(s, st) => Nothing(t, st) BY <1>1, Zenon DEF Nothing
<1>5. QED BY <1>1, <1>2, <1>3, <1>4, Zenon DEF Over

LEMMA Shuts ==
  ASSUME NEW s \in Response, s.sent.closed # "no", NEW code \in Statuses
  PROVE  /\ NetWriteHeader(s, code) \in Response /\ Shut(s, NetWriteHeader(s, code))
         /\ CommitHeader(s) \in Response /\ Shut(s, CommitHeader(s))
         /\ \A units : Shut(s, NetWrite(s, units)) /\ Deflated(s, units) = s
<1>1. /\ NetWriteHeader(s, code) = [s EXCEPT !.wrote = TRUE]
      /\ NetWriteHeader(s, 200) = [s EXCEPT !.wrote = TRUE]
  BY DEF NetWriteHeader, Commit, Response
<1>2. [s EXCEPT !.wrote = TRUE] \in Response /\ Shut(s, [s EXCEPT !.wrote = TRUE])
  BY DEF Shut, Response
<1>3. CommitHeader(s) \in Response /\ Shut(s, CommitHeader(s))
  BY CommitsHeader DEF Alike, Shut
<1>4. ASSUME NEW units PROVE NetWrite(s, units) = [s EXCEPT !.wrote = TRUE]
  BY <1>1, <1>2 DEF NetWrite, Shut
<1>5. QED BY <1>1, <1>2, <1>3, <1>4 DEF Deflated

LEMMA ShutTwice ==
  ASSUME NEW s, NEW t, NEW u, Shut(s, t), Shut(t, u)
  PROVE  Shut(s, u)
BY DEF Shut

LEMMA HeaderShuts ==
  ASSUME NEW s \in Response, s.sent.closed # "no"
  PROVE  /\ Shut(s, GzWriteHeader(s, 200))
         /\ Shut(s, CommitGzip(s))
<1>1. Shut(s, s) BY DEF Shut
<1>2. Shut(s, GzWriteHeader(s, 200))
  <2> DEFINE g == [s EXCEPT !.status = 200, !.snapshot = s.live]
             a == [g EXCEPT !.passthrough = TRUE]
             h == CommitHeader(a)
             c == NetWriteHeader(h, g.status)
             n == NetWrite(c, c.buf)
             e == [n EXCEPT !.buf = <<>>]
  <2>1. g \in Response /\ Shut(s, g) /\ g.status = 200
    BY StatusFacts DEF Shut, Response
  <2>2. StartPassthrough(g) = IF c.buf = <<>> THEN c ELSE e BY DEF StartPassthrough
  <2>3. GzWriteHeader(s, 200) \in {s, g, StartPassthrough(g)} BY DEF GzWriteHeader
  <2> HIDE DEF g
  <2>4. a \in Response /\ Shut(g, a) BY <2>1 DEF Shut, Response
  <2> HIDE DEF a
  <2>5. h \in Response /\ Shut(a, h) BY <2>1, <2>4, Shuts, StatusFacts DEF Shut
  <2>6. Shut(s, h) BY <2>1, <2>4, <2>5, ShutTwice
  <2> HIDE DEF h
  <2>7. c \in Response /\ Shut(h, c) BY <2>1, <2>5, <2>6, Shuts, StatusFacts DEF Shut
  <2>8. Shut(s, c) BY <2>6, <2>7, ShutTwice
  <2> HIDE DEF c
  <2>9. c.buf \in Seq(Units) /\ c.sent.closed # "no" BY <2>7, <2>8 DEF Response, Shut
  <2>10. n \in Response /\ Shut(c, n)
    BY <2>7, <2>9, Shuts, NetWriteKeeps, StatusFacts DEF Keeps
  <2>11. Shut(s, n) BY <2>8, <2>10, ShutTwice
  <2> HIDE DEF n
  <2>12. Shut(s, e) BY <2>10, <2>11 DEF Shut, Response
  <2> HIDE DEF e
  <2>13. QED BY <1>1, <2>1, <2>2, <2>3, <2>8, <2>12
<1>3. Shut(s, CommitGzip(s))
  <2> DEFINE c == CommitHeader(s)
             live == (c.live \ {"length"}) \cup {"gzip"}
             g == [c EXCEPT !.live = live]
  <2>1. c \in Response /\ Shut(s, c) BY Shuts, StatusFacts
  <2>2. CommitGzip(s) = NetWriteHeader(g, c.status) BY DEF CommitGzip
  <2> HIDE DEF c
  <2>3. c.live \in Headers /\ c.status \in Statuses BY <2>1 DEF Response
  <2>4. live \in Headers BY <2>3 DEF Headers
  <2> HIDE DEF live
  <2>5. g \in Response /\ Shut(c, g) BY <2>1, <2>4 DEF Shut, Response
  <2>6. Shut(s, g) BY <2>1, <2>5, ShutTwice
  <2> HIDE DEF g
  <2>7. Shut(g, NetWriteHeader(g, c.status)) BY <2>3, <2>5, <2>6, Shuts DEF Shut
  <2>8. QED BY <2>2, <2>6, <2>7, ShutTwice
<1>4. QED BY <1>2, <1>3

-----------------------------------------------------------------------------
(* Every step keeps every response to its story.                           *)

LEMMA Bases ==
  ASSUME GzipInv, NEW r \in Requests
  PROVE  /\ res[r] \in Response /\ story[r] \in StoryType /\ Deflating(r) \in Seq(Units)
         /\ res \in [Requests -> Response] /\ writer \in [GzipWriters -> WriterType]
         /\ story \in [Requests -> StoryType]
<1>1. /\ res \in [Requests -> Response] /\ writer \in [GzipWriters -> WriterType]
      /\ story \in [Requests -> StoryType]
  BY DEF GzipInv, Typed, Pooling, Shared
<1>2. <<>> \in Seq(Units) OBVIOUS
<1>3. res[r].gz # NoWriter => res[r].gz \in GzipWriters BY <1>1 DEF Response
<1>4. Deflating(r) \in Seq(Units) BY <1>1, <1>2, <1>3 DEF Deflating, WriterType
<1>5. QED BY <1>1, <1>4

\* Nothing happens to the others.
Beside(r) ==
  \A q \in Requests \ {r} :
    /\ stage'[q] = stage[q] /\ how'[q] = how[q] /\ story'[q] = story[q]
    /\ res'[q] = res[q] /\ Deflating(q)' = Deflating(q)

LEMMA ToldBeside ==
  ASSUME Faithful, NEW r \in Requests, Beside(r), Told(r)'
  PROVE  Faithful'
<1> SUFFICES ASSUME NEW q \in Requests PROVE Told(q)'
  BY DEF Faithful
<1>1. CASE q = r BY <1>1
<1>2. CASE q # r
  <2>1. /\ stage'[q] = stage[q] /\ how'[q] = how[q] /\ story'[q] = story[q]
        /\ res'[q] = res[q] /\ Deflating(q)' = Deflating(q)
    BY <1>2 DEF Beside
  <2>2. Told(q) BY DEF Faithful
  <2>3. QED BY <2>1, <2>2 DEF Told
<1>3. QED BY <1>1, <1>2

\* Another's writer is not the one that moves.
LEMMA WriterBeside ==
  ASSUME GzipInv, NEW q \in Requests, NEW w, res'[q] = res[q], res[q].gz # w,
         \A v \in GzipWriters \ {w} : writer'[v] = writer[v]
  PROVE  Deflating(q)' = Deflating(q)
<1>1. res[q].gz # NoWriter => res[q].gz \in GzipWriters \ {w} BY Bases DEF Response
<1>2. QED BY <1>1 DEF Deflating

LEMMA GzipWriteBeside ==
  ASSUME GzipInv, NEW r \in Requests, NEW s \in Response, s.gz = res[r].gz,
         NEW units \in Seq(Units), GzipWrite(r, s, units), NEW q \in Requests \ {r}
  PROVE  res'[q] = res[q] /\ Deflating(q)' = Deflating(q)
<1>1. /\ Shared /\ Held /\ res \in [Requests -> Response]
      /\ writer \in [GzipWriters -> WriterType]
  BY DEF GzipInv, Pooling, Shared
<1>2. CASE s.passthrough
  <2>1. res'[q] = res[q] /\ writer' = writer BY <1>1, <1>2 DEF GzipWrite
  <2>2. QED BY <2>1 DEF Deflating
<1>3. CASE ~s.passthrough /\ s.gz # NoWriter
  <2> DEFINE w == s.gz
             wr == writer[w]
  <2>1. GzipInto(r, s, w, wr, units) BY <1>3 DEF GzipWrite
  <2>2. w \in GzipWriters BY <1>3 DEF Response
  <2>3. wr \in WriterType /\ wr.to = r BY <1>1, <1>3, <2>2 DEF Held
  <2>4. res[q].gz # w BY <1>1, <1>3, <2>3 DEF Held
  <2> HIDE DEF w, wr
  <2>5. res'[q] = res[q] /\ \A v \in GzipWriters \ {w} : writer'[v] = writer[v]
    BY <1>1, <2>1, <2>2, <2>3, IntoEither
  <2>6. QED BY <2>4, <2>5, WriterBeside
<1>4. CASE ~s.passthrough /\ s.gz = NoWriter
  <2> DEFINE all == s.buf \o units
  <2>1. all \in Seq(Units) BY DEF Response
  <2>2. CASE ~Full(all)
    <3>1. res' = [res EXCEPT ![r] = [s EXCEPT !.buf = all]] /\ writer' = writer
      BY <1>4, <2>2 DEF GzipWrite
    <3>2. res'[q] = res[q] BY <1>1, <3>1
    <3>3. QED BY <3>1, <3>2 DEF Deflating
  <2>3. CASE Full(all)
    <3> DEFINE taken(w) == [CommitGzip(s) EXCEPT !.gz = w, !.buf = <<>>]
               fresh == [to |-> r, held |-> <<>>]
    <3>1. PICK w \in Obtainable : GzipInto(r, taken(w), w, fresh, all)
      BY <1>4, <2>3 DEF GzipWrite
    <3>2. w \in GzipWriters BY <1>1 DEF Obtainable, Shared
    <3>3. res[q].gz # w
      <4>1. w # NoWriter BY <3>2, GzipAssumption
      <4>2. QED BY <1>1, <4>1 DEF Obtainable, Held
    <3>4. <<>> \in Seq(Units) OBVIOUS
    <3>5. fresh \in WriterType /\ fresh.to = r BY <3>4 DEF WriterType
    <3>6. taken(w) \in Response
      <4> DEFINE c == CommitGzip(s)
      <4>1. c \in Response BY CommitGzipKeeps DEF Keeps
      <4> HIDE DEF c
      <4>2. [c EXCEPT !.gz = w, !.buf = <<>>] \in Response BY <3>2, <3>4, <4>1 DEF Response
      <4>3. QED BY <4>2 DEF c
    <3> HIDE DEF taken, fresh, all
    <3>7. res'[q] = res[q] /\ \A v \in GzipWriters \ {w} : writer'[v] = writer[v]
      BY <1>1, <2>1, <3>1, <3>2, <3>5, <3>6, IntoEither
    <3>8. QED BY <3>3, <3>7, WriterBeside
  <2>4. QED BY <2>2, <2>3
<1>5. QED BY <1>2, <1>3, <1>4

\* A step of r that leaves the writers alone and changes its response to t.
LEMMA AloneBeside ==
  ASSUME GzipInv, NEW r \in Requests, NEW t, res' = [res EXCEPT ![r] = t],
         UNCHANGED <<stage, how, writer>>,
         NEW st, story' = [story EXCEPT ![r] = st]
  PROVE  /\ Beside(r) /\ res'[r] = t /\ story'[r] = st
         /\ t.gz = res[r].gz => Deflating(r)' = Deflating(r)
<1>1. /\ res \in [Requests -> Response] /\ story \in [Requests -> StoryType] BY Bases
<1>2. /\ res'[r] = t /\ story'[r] = st
      /\ \A q \in Requests \ {r} : res'[q] = res[q] /\ story'[q] = story[q]
  BY <1>1
<1>3. \A q \in Requests \ {r} : Deflating(q)' = Deflating(q) BY <1>2 DEF Deflating
<1>4. t.gz = res[r].gz => Deflating(r)' = Deflating(r) BY <1>2 DEF Deflating
<1>5. QED BY <1>2, <1>3, <1>4 DEF Beside

LEMMA StageTold ==
  ASSUME GzipInv, Faithful, NEW r \in Requests, NEW t \in HeaderTags, Stage(r, t)
  PROVE  Faithful'
<1> DEFINE s == res[r]
           live == IF t \in s.live THEN s.live \ {t} ELSE s.live \cup {t}
           u == [s EXCEPT !.live = live]
<1>1. s \in Response /\ story \in [Requests -> StoryType] /\ res \in [Requests -> Response]
  BY Bases
<1>2. /\ res' = [res EXCEPT ![r] = u] /\ UNCHANGED <<stage, how, writer, story>>
      /\ stage[r] = "running"
  BY <1>1 DEF Stage, Calls
<1>3. story' = [story EXCEPT ![r] = story[r]] BY <1>1, <1>2
<1>4. "gzip" \notin s.live => "gzip" \notin live BY GzipAssumption
<1>5. /\ u.gz = s.gz /\ u.live = live /\ u.sent = s.sent
      /\ u.status = s.status /\ u.buf = s.buf
      /\ u.accepts = s.accepts /\ u.passthrough = s.passthrough /\ u.wrote = s.wrote
      /\ u.snapshot = s.snapshot
  BY <1>1 DEF Response
<1>6. Told(r) BY DEF Faithful
<1> HIDE DEF u, live
<1>7. Beside(r) /\ res'[r] = u /\ story'[r] = story[r] /\ Deflating(r)' = Deflating(r)
  BY <1>2, <1>3, <1>5, AloneBeside
<1>8. Open(r, s, story[r], Deflating(r)) BY <1>2, <1>6 DEF Told
<1>9. Open(r, u, story[r], Deflating(r))
  <2>1. Quiet(s, story[r]) => Quiet(u, story[r]) BY <1>4, <1>5 DEF Quiet
  <2>2. Buffered(r, s, story[r]) => Buffered(r, u, story[r]) BY <1>5 DEF Buffered
  <2>3. Straight(r, s, story[r]) => Straight(r, u, story[r]) BY <1>5 DEF Straight
  <2>4. Zipped(r, s, story[r], Deflating(r)) => Zipped(r, u, story[r], Deflating(r))
    BY <1>5 DEF Zipped
  <2> HIDE DEF s
  <2>5. QED BY <1>5, <1>8, <2>1, <2>2, <2>3, <2>4 DEF Open
<1>10. Told(r)' BY <1>2, <1>6, <1>7, <1>9 DEF Told
<1>11. QED BY <1>7, <1>10, ToldBeside

LEMMA HintsTold ==
  ASSUME GzipInv, Faithful, UNCHANGED <<stage, how, res, writer, story>>
  PROVE  Faithful'
BY DEF Faithful, Told, Deflating

LEMMA WriteHeaderTold ==
  ASSUME GzipInv, Faithful, NEW r \in Requests, NEW code \in Codes, WriteHeader(r, code)
  PROVE  Faithful'
<1> DEFINE s == res[r]
           t == IF s.accepts THEN GzWriteHeader(s, code) ELSE NetWriteHeader(s, code)
           pt == Promised(s, story[r], code)
<1>1. s \in Response /\ story[r] \in StoryType /\ story \in [Requests -> StoryType]
      /\ res \in [Requests -> Response]
  BY Bases
<1>2. code \in Statuses /\ code # 0 BY GzipAssumption DEF Statuses
<1>3. /\ res' = [res EXCEPT ![r] = t] /\ UNCHANGED <<stage, how, writer>>
      /\ story' = [story EXCEPT ![r] = pt] /\ stage[r] = "running"
  BY <1>1 DEF WriteHeader, Calls, Promise, Promised
<1>4. Told(r) BY DEF Faithful
<1>5. Open(r, s, story[r], Deflating(r)) BY <1>3, <1>4 DEF Told
<1>6. t.gz = s.gz /\ Open(r, t, pt, Deflating(r)) BY <1>1, <1>2, <1>5, Asks
<1> HIDE DEF t, pt
<1>7. Beside(r) /\ res'[r] = t /\ story'[r] = pt /\ Deflating(r)' = Deflating(r)
  BY <1>3, <1>6, AloneBeside
<1>8. Told(r)' BY <1>3, <1>4, <1>6, <1>7 DEF Told
<1>9. QED BY <1>7, <1>8, ToldBeside

LEMMA WriteTold ==
  ASSUME GzipInv, Faithful, NEW r \in Requests, Write(r)
  PROVE  Faithful'
<1> DEFINE s == res[r]
           t == IF s.accepts THEN GzWriteHeader(s, 200) ELSE NetWriteHeader(s, 200)
           pt == Promised(s, story[r], 200)
<1>1. s \in Response /\ story[r] \in StoryType /\ story \in [Requests -> StoryType]
      /\ res \in [Requests -> Response]
  BY Bases
<1>2. PICK k \in 1..MinUnits :
        /\ story[r].wrote + k <= MaxUnits
        /\ Calls(r)
        /\ story' = [story EXCEPT ![r] = [Promise(r, 200) EXCEPT !.wrote = story[r].wrote + k]]
        /\ IF s.accepts
           THEN GzipWrite(r, GzWriteHeader(s, 200),
                          [i \in 1..k |-> Unit(r, story[r].wrote + i)])
           ELSE /\ res' = [res EXCEPT ![r] =
                             NetWrite(s, [i \in 1..k |-> Unit(r, story[r].wrote + i)])]
                /\ UNCHANGED <<writer, pool>>
        /\ UNCHANGED <<stage, how>>
  BY DEF Write
<1>3. Told(r) /\ stage[r] = "running" BY <1>2 DEF Faithful, Calls
<1>4. Open(r, s, story[r], Deflating(r)) BY <1>3 DEF Told
<1>5. /\ t \in Response /\ t.gz = s.gz /\ t.accepts = s.accepts
      /\ pt \in StoryType /\ pt.wrote = story[r].wrote
      /\ Open(r, t, pt, Deflating(r)) /\ Chosen(pt)
  BY <1>1, <1>4, Asks, StatusFacts
<1> DEFINE units == NextUnits(r, pt, k)
           wt == Wrote(pt, k)
<1>6. units = [i \in 1..k |-> Unit(r, story[r].wrote + i)] BY <1>5 DEF NextUnits
<1>7. k \in Nat /\ pt.wrote + k <= MaxUnits BY <1>2, <1>5
<1>8. story' = [story EXCEPT ![r] = wt]
  <2>1. Promise(r, 200) = pt BY DEF Promise, Promised
  <2>2. [Promise(r, 200) EXCEPT !.wrote = story[r].wrote + k] = wt BY <1>5, <2>1 DEF Wrote
  <2>3. QED BY <1>2, <2>2
<1>9. units \in Seq(Units) BY <1>5, <1>7, WroteFields
<1>10. story'[r] = wt /\ \A q \in Requests \ {r} : story'[q] = story[q] BY <1>1, <1>8
<1>11. CASE s.accepts
  <2>1. t = GzWriteHeader(s, 200) BY <1>11
  <2>2. GzipWrite(r, t, units) BY <1>2, <1>6, <1>11, <2>1
  <2> HIDE DEF t, pt, s, wt, units
  <2>3. Open(r, res'[r], wt, Deflating(r)')
    BY <1>5, <1>7, <1>11, <2>2, GzipWrites DEF GzipInv, units, wt, s
  <2>4. \A q \in Requests \ {r} : res'[q] = res[q] /\ Deflating(q)' = Deflating(q)
    BY <1>5, <1>9, <2>2, GzipWriteBeside DEF s
  <2>5. Beside(r) BY <1>2, <1>10, <2>4 DEF Beside
  <2>6. Told(r)' BY <1>2, <1>3, <1>10, <2>3 DEF Told
  <2>7. QED BY <2>5, <2>6, ToldBeside
<1>12. CASE ~s.accepts
  <2> DEFINE n == NetWrite(t, units)
  <2>1. t = NetWriteHeader(s, 200) BY <1>12
  <2>2. NetWrite(s, units) = n
    <3>1. CASE Quiet(s, story[r])
      <4>1. s.sent.status = 0 /\ s.sent.closed = "no" BY <1>4, <3>1 DEF Quiet, Open
      <4>2. QED BY <1>1, <2>1, <4>1, WritesAfterHeader
    <3>2. CASE ~Quiet(s, story[r])
      <4>1. s.wrote /\ s.sent.status # 0
        BY <1>4, <1>12, <3>2 DEF Open, Buffered, Straight, Zipped, Chosen
      <4>2. t = s BY <1>1, <2>1, <4>1, CommitsOnce, StatusFacts
      <4>3. QED BY <4>2
    <3>3. QED BY <3>1, <3>2
  <2>3. res' = [res EXCEPT ![r] = n] /\ UNCHANGED <<stage, how, writer>>
    BY <1>2, <1>6, <1>12, <2>2
  <2>4. Straight(r, t, pt) /\ t.sent.closed = "no"
    <3> HIDE DEF t, pt
    <3>1. QED BY <1>5, <1>12 DEF Open, Quiet, Buffered, Zipped, Chosen
  <2> HIDE DEF t, pt
  <2>5. Straight(r, n, wt) /\ n.sent.closed = "no"
    BY <1>5, <1>7, <2>4, StraightWrites
  <2>6. wt.flushed <= wt.wrote
    <3>1. /\ wt.wrote = pt.wrote + k /\ wt.flushed = pt.flushed
          /\ pt.flushed \in Nat /\ pt.wrote \in Nat
      BY <1>5, <1>7, WroteFields
    <3>2. pt.flushed <= pt.wrote BY <1>5 DEF Open
    <3> HIDE DEF wt
    <3>3. QED BY <1>7, <3>1, <3>2
  <2>7. Open(r, n, wt, Deflating(r)') BY <2>5, <2>6 DEF Open
  <2> HIDE DEF n, wt
  <2>8. Beside(r) /\ res'[r] = n /\ story'[r] = wt BY <1>8, <2>3, AloneBeside
  <2>9. Told(r)' BY <1>2, <1>3, <2>7, <2>8 DEF Told
  <2>10. QED BY <2>8, <2>9, ToldBeside
<1>13. QED BY <1>11, <1>12

\* What a goroutine writes after its handler reaches nobody.
LEMMA LateWriteTold ==
  ASSUME GzipInv, Faithful, NEW r \in Requests, LateWrite(r)
  PROVE  Faithful'
<1> DEFINE s == res[r]
           t == GzWriteHeader(s, 200)
           units == [i \in 1..MinUnits |-> Unit(r, 0)]
<1>1. /\ s \in Response /\ res \in [Requests -> Response]
      /\ writer \in [GzipWriters -> WriterType] /\ Shared /\ Held
  BY Bases DEF GzipInv, Pooling
<1>2. /\ stage[r] = "ended" /\ GzipWrite(r, t, units) /\ UNCHANGED <<stage, how, story>>
  BY DEF LateWrite
<1>3. Told(r) BY DEF Faithful
<1>4. Over(r, s, story[r], how[r]) /\ s.sent.closed # "no" BY <1>2, <1>3 DEF Told, Over
<1>5. t \in Response /\ t.gz = s.gz BY <1>1, GzWriteHeaderKeeps, StatusFacts DEF Keeps
<1>6. Shut(s, t) /\ t.sent.closed # "no" BY <1>1, <1>4, HeaderShuts DEF Shut
<1>7. units \in Seq(Units)
  <2>1. Unit(r, 0) \in Units /\ MinUnits \in Nat BY GzipAssumption DEF Unit, Units
  <2>2. QED BY <2>1
<1> HIDE DEF t, units
<1>8. \A q \in Requests \ {r} : res'[q] = res[q] /\ Deflating(q)' = Deflating(q)
  BY <1>2, <1>5, <1>7, GzipWriteBeside
<1>9. Shut(t, res'[r])
  <2>0. Shut(t, t) BY DEF Shut
  <2>1. CASE t.passthrough
    <3>1. res'[r] = NetWrite(t, units) BY <1>1, <1>2, <2>1 DEF GzipWrite
    <3>2. QED BY <1>5, <1>6, <3>1, Shuts, StatusFacts
  <2>2. CASE ~t.passthrough /\ t.gz # NoWriter
    <3> DEFINE w == t.gz
               wr == writer[w]
    <3>1. GzipInto(r, t, w, wr, units) BY <1>2, <2>2 DEF GzipWrite
    <3>2. w \in GzipWriters BY <1>5, <2>2 DEF Response
    <3>3. wr \in WriterType /\ wr.to = r BY <1>1, <1>5, <2>2, <3>2 DEF Held
    <3> HIDE DEF w, wr
    <3>4. res'[r] = t \/ res'[r] = Deflated(t, wr.held \o units)
      BY <1>1, <1>5, <1>7, <3>1, <3>2, <3>3, IntoEither
    <3>5. QED BY <1>5, <1>6, <2>0, <3>4, Shuts, StatusFacts
  <2>3. CASE ~t.passthrough /\ t.gz = NoWriter
    <3> DEFINE all == t.buf \o units
    <3>1. all \in Seq(Units) BY <1>5, <1>7 DEF Response
    <3>2. CASE ~Full(all)
      <4>1. res'[r] = [t EXCEPT !.buf = all] BY <1>1, <1>2, <2>3, <3>2 DEF GzipWrite
      <4>2. QED BY <1>5, <4>1 DEF Shut, Response
    <3>3. CASE Full(all)
      <4> DEFINE c == CommitGzip(t)
                 taken(w) == [CommitGzip(t) EXCEPT !.gz = w, !.buf = <<>>]
                 fresh == [to |-> r, held |-> <<>>]
      <4>1. PICK w \in Obtainable : GzipInto(r, taken(w), w, fresh, all)
        BY <1>2, <2>3, <3>3 DEF GzipWrite
      <4>2. w \in GzipWriters BY <1>1 DEF Obtainable, Shared
      <4>3. <<>> \in Seq(Units) OBVIOUS
      <4>4. fresh \in WriterType /\ fresh.to = r BY <4>3 DEF WriterType
      <4>5. c \in Response /\ Shut(t, c)
        BY <1>5, <1>6, CommitGzipKeeps, HeaderShuts DEF Keeps
      <4>6. taken(w) \in Response /\ Shut(c, taken(w))
        <5>1. taken(w) = [c EXCEPT !.gz = w, !.buf = <<>>] OBVIOUS
        <5> HIDE DEF c, taken
        <5>2. QED BY <4>2, <4>3, <4>5, <5>1 DEF Response, Shut
      <4> HIDE DEF c, taken, fresh, all
      <4>7. Shut(t, taken(w)) BY <4>5, <4>6, ShutTwice
      <4>8. taken(w).sent.closed # "no" BY <1>6, <4>7 DEF Shut
      <4>9. res'[r] = taken(w) \/ res'[r] = Deflated(taken(w), fresh.held \o all)
        BY <1>1, <3>1, <4>1, <4>2, <4>4, <4>6, IntoEither
      <4>10. QED BY <4>6, <4>7, <4>8, <4>9, Shuts, StatusFacts
    <3>4. QED BY <3>2, <3>3
  <2>4. QED BY <2>1, <2>2, <2>3
<1>10. Over(r, res'[r], story[r], how[r]) BY <1>4, <1>6, <1>9, ShutTwice, ShutStaysOver
<1>11. Told(r)' BY <1>2, <1>3, <1>10 DEF Told
<1>12. Beside(r) BY <1>2, <1>8 DEF Beside
<1>13. QED BY <1>11, <1>12, ToldBeside

LEMMA FlushTold ==
  ASSUME GzipInv, Faithful, NEW r \in Requests, Flush(r)
  PROVE  Faithful'
<1> DEFINE s == res[r]
           st == story[r]
           held == Deflating(r)
           pt == [Promised(s, st, 200) EXCEPT !.flushed = st.wrote]
           f == IF s.gz # NoWriter THEN Deflated(GzFlush(s), held)
                ELSE IF s.accepts THEN GzFlush(s) ELSE NetFlush(s)
<1>1. /\ s \in Response /\ st \in StoryType /\ held \in Seq(Units)
      /\ story \in [Requests -> StoryType] /\ res \in [Requests -> Response]
      /\ writer \in [GzipWriters -> WriterType] /\ Held
  BY Bases DEF GzipInv, Pooling
<1>2. /\ stage[r] = "running" /\ UNCHANGED <<stage, how>>
      /\ story' = [story EXCEPT ![r] = pt]
  BY DEF Flush, Calls, Promise, Promised
<1>3. Told(r) BY DEF Faithful
<1>4. Open(r, s, st, held) BY <1>2, <1>3 DEF Told
<1>5. f.gz = s.gz /\ Open(r, f, pt, <<>>) BY <1>1, <1>4, Flushes
<1>6. story'[r] = pt /\ \A q \in Requests \ {r} : story'[q] = story[q] BY <1>1, <1>2
<1>7. CASE s.gz = NoWriter
  <2>1. res' = [res EXCEPT ![r] = f] /\ UNCHANGED writer BY <1>1, <1>7 DEF Flush
  <2> HIDE DEF f, pt
  <2>2. Beside(r) /\ res'[r] = f /\ story'[r] = pt BY <1>2, <2>1, AloneBeside
  <2>3. Deflating(r)' = <<>> BY <1>5, <1>7, <2>2 DEF Deflating
  <2>4. Told(r)' BY <1>2, <1>3, <1>5, <2>2, <2>3 DEF Told
  <2>5. QED BY <2>2, <2>4, ToldBeside
<1>8. CASE s.gz # NoWriter
  <2> DEFINE w == s.gz
  <2>1. w \in GzipWriters BY <1>1, <1>8 DEF Response
  <2>2. f = Deflated(GzFlush(s), writer[w].held) BY <1>8 DEF Deflating
  <2>3. /\ res' = [res EXCEPT ![r] = f]
        /\ writer' = [writer EXCEPT ![w] = [writer[w] EXCEPT !.held = <<>>]]
    BY <1>1, <1>8, <2>1, <2>2 DEF Flush
  <2> HIDE DEF f, pt, w
  <2>4. /\ res'[r] = f /\ \A q \in Requests \ {r} : res'[q] = res[q]
        /\ writer'[w].held = <<>> /\ \A v \in GzipWriters \ {w} : writer'[v] = writer[v]
    BY <1>1, <2>1, <2>3 DEF WriterType
  <2>5. ASSUME NEW q \in Requests \ {r} PROVE Deflating(q)' = Deflating(q)
    <3>1. res[q].gz # w BY <1>1, <1>8 DEF Held, w
    <3>2. QED BY <2>4, <3>1, WriterBeside
  <2>6. Beside(r) BY <1>2, <1>6, <2>4, <2>5 DEF Beside
  <2>7. Deflating(r)' = <<>> BY <1>5, <1>8, <2>4 DEF Deflating, w
  <2>8. Told(r)' BY <1>2, <1>3, <1>5, <1>6, <2>4, <2>7 DEF Told
  <2>9. QED BY <2>6, <2>8, ToldBeside
<1>9. QED BY <1>7, <1>8

LEMMA EndsTold ==
  ASSUME GzipInv, Faithful, NEW r \in Requests, NEW why \in {"return", "panic", "abort"},
         HandlerEnds(r, why)
  PROVE  Faithful'
<1>1. /\ stage[r] = "running" /\ stage' = [stage EXCEPT ![r] = "finishing"]
      /\ how' = [how EXCEPT ![r] = why] /\ UNCHANGED <<res, writer, story>>
      /\ DOMAIN stage = Requests /\ DOMAIN how = Requests
  BY DEF HandlerEnds, GzipInv, Typed
<1>2. Told(r) BY DEF Faithful
<1>3. Deflating(r)' = Deflating(r) /\ \A q \in Requests : Deflating(q)' = Deflating(q)
  BY <1>1 DEF Deflating
<1>4. Beside(r) BY <1>1, <1>3 DEF Beside
<1>5. stage'[r] = "finishing" /\ how'[r] = why /\ why # "none" BY <1>1
<1>6. Told(r)' BY <1>1, <1>2, <1>3, <1>5 DEF Told
<1>7. QED BY <1>4, <1>6, ToldBeside

LEMMA FinishTold ==
  ASSUME GzipInv, Faithful, NEW r \in Requests, Finish(r)
  PROVE  Faithful'
<1> DEFINE s == res[r]
           held == Deflating(r)
           c == NetWriteHeader(CommitHeader(s), s.status)
           d == Deflated(s, held)
           f == IF s.gz # NoWriter THEN [d EXCEPT !.gz = NoWriter, !.sent.trailer = TRUE]
                ELSE IF s.passthrough \/ s.status = 0 \/ how[r] # "return" THEN s
                ELSE IF c.buf = <<>> THEN c ELSE NetWrite(c, c.buf)
<1>1. /\ s \in Response /\ story[r] \in StoryType /\ held \in Seq(Units)
      /\ res \in [Requests -> Response] /\ writer \in [GzipWriters -> WriterType] /\ Held
  BY Bases DEF GzipInv, Pooling
<1>2. /\ stage[r] = "finishing" /\ stage' = [stage EXCEPT ![r] = "recovering"]
      /\ UNCHANGED <<how, story>> /\ DOMAIN stage = Requests
      /\ how[r] \in {"none", "return", "panic", "abort"}
  BY DEF Finish, GzipInv, Typed
<1>3. Told(r) BY DEF Faithful
<1>4. Open(r, s, story[r], held) /\ how[r] \in {"return", "panic", "abort"}
  BY <1>2, <1>3 DEF Told
<1>5. Finished(r, f, story[r], how[r]) BY <1>1, <1>4, Finishes
<1>6. res' = [res EXCEPT ![r] = f]
  <2>1. CASE s.gz = NoWriter BY <1>1, <2>1 DEF Finish
  <2>2. CASE s.gz # NoWriter BY <1>1, <2>2 DEF Finish, CloseGzip, Deflating
  <2>3. QED BY <2>1, <2>2
<1>7. \A v \in GzipWriters : v # s.gz => writer'[v] = writer[v]
  <2>1. CASE s.gz = NoWriter BY <2>1 DEF Finish
  <2>2. CASE s.gz # NoWriter BY <1>1, <2>2 DEF Finish, CloseGzip
  <2>3. QED BY <2>1, <2>2
<1> HIDE DEF f
<1>8. res'[r] = f /\ \A q \in Requests \ {r} : res'[q] = res[q] BY <1>1, <1>6
<1>9. ASSUME NEW q \in Requests \ {r} PROVE Deflating(q)' = Deflating(q)
  <2>1. res[q].gz # NoWriter => res[q].gz # s.gz /\ res[q].gz \in GzipWriters
    BY <1>1 DEF Held, Response
  <2>2. QED BY <1>7, <1>8, <2>1 DEF Deflating
<1>10. stage'[r] = "recovering" /\ \A q \in Requests \ {r} : stage'[q] = stage[q] BY <1>2
<1>11. Beside(r) BY <1>2, <1>8, <1>9, <1>10 DEF Beside
<1>12. Told(r)' BY <1>2, <1>4, <1>5, <1>8, <1>10 DEF Told
<1>13. QED BY <1>11, <1>12, ToldBeside

LEMMA RecoverTold ==
  ASSUME GzipInv, Faithful, NEW r \in Requests, Recover(r)
  PROVE  Faithful'
<1> DEFINE s == res[r]
           f == CASE how[r] = "abort" -> [s EXCEPT !.sent.closed = "dropped"]
                  [] how[r] = "panic" -> [Commit(Answer500(s), 200) EXCEPT !.sent.closed = "ended"]
                  [] OTHER -> [Commit(s, 200) EXCEPT !.sent.closed = "ended"]
<1>1. s \in Response /\ story[r] \in StoryType /\ res \in [Requests -> Response]
  BY Bases
<1>2. /\ stage[r] = "recovering" /\ stage' = [stage EXCEPT ![r] = "ended"]
      /\ UNCHANGED <<how, story, writer>> /\ DOMAIN stage = Requests
      /\ how[r] \in {"none", "return", "panic", "abort"}
  BY DEF Recover, GzipInv, Typed
<1>3. Told(r) BY DEF Faithful
<1>4. Finished(r, s, story[r], how[r]) /\ how[r] \in {"return", "panic", "abort"}
  BY <1>2, <1>3 DEF Told
<1>5. Over(r, f, story[r], how[r]) BY <1>1, <1>4, Recovers
<1>6. res' = [res EXCEPT ![r] = f] BY <1>1, Zenon DEF Recover
<1> HIDE DEF f
<1>7. res'[r] = f /\ \A q \in Requests \ {r} : res'[q] = res[q] BY <1>1, <1>6
<1>8. \A q \in Requests \ {r} : Deflating(q)' = Deflating(q) BY <1>2, <1>7 DEF Deflating
<1>9. stage'[r] = "ended" /\ \A q \in Requests \ {r} : stage'[q] = stage[q] BY <1>2
<1>10. Beside(r) BY <1>2, <1>7, <1>8, <1>9 DEF Beside
<1>11. Told(r)' BY <1>2, <1>4, <1>5, <1>7, <1>9 DEF Told
<1>12. QED BY <1>10, <1>11, ToldBeside

LEMMA InitTold == Init => Faithful
<1> SUFFICES ASSUME Init, NEW r \in Requests PROVE Told(r)
  BY DEF Faithful
<1>1. PICK takers \in SUBSET Requests : res = [q \in Requests |-> FreshResponse(q \in takers)]
  BY DEF Init
<1>2. stage[r] = "running" /\ how[r] = "none" /\ story[r] = NoStory BY DEF Init
<1>3. res[r] = FreshResponse(r \in takers) BY <1>1
<1>4. Quiet(res[r], story[r]) /\ res[r].sent.closed = "no"
  BY <1>2, <1>3 DEF Quiet, NoStory, FreshResponse
<1>5. Open(r, res[r], story[r], Deflating(r))
  <2>1. story[r].flushed = 0 /\ story[r].wrote = 0 BY <1>2 DEF NoStory
  <2>2. QED BY <1>4, <2>1 DEF Open
<1>6. QED BY <1>2, <1>5 DEF Told

LEMMA StepTold ==
  ASSUME GzipInv, Faithful, [Next]_vars
  PROVE  Faithful'
<1>1. CASE UNCHANGED vars BY <1>1, HintsTold DEF vars
<1>2. CASE Next
  <2> PICK r \in Requests : ServeHTTP(r) BY <1>2 DEF Next
  <2>1. CASE \E t \in HeaderTags : Stage(r, t) BY <2>1, StageTold
  <2>2. CASE Hints(r) BY <2>2, HintsTold DEF Hints
  <2>3. CASE \E code \in Codes : WriteHeader(r, code) BY <2>3, WriteHeaderTold
  <2>4. CASE Write(r) BY <2>4, WriteTold
  <2>5. CASE LateWrite(r) BY <2>5, LateWriteTold
  <2>6. CASE Flush(r) BY <2>6, FlushTold
  <2>7. CASE Return(r) BY <2>7, EndsTold DEF Return
  <2>8. CASE Panic(r) BY <2>8, EndsTold DEF Panic
  <2>9. CASE AbortHandler(r) BY <2>9, EndsTold DEF AbortHandler
  <2>10. CASE Finish(r) BY <2>10, FinishTold
  <2>11. CASE Recover(r) BY <2>11, RecoverTold
  <2>12. QED BY <2>1, <2>2, <2>3, <2>4, <2>5, <2>6, <2>7, <2>8, <2>9, <2>10, <2>11
                DEF ServeHTTP
<1>3. QED BY <1>1, <1>2

-----------------------------------------------------------------------------
(* What the properties say follows from the phase each response is in.     *)

LEMMA ToldTransparent == GzipInv /\ Faithful => Transparent
<1> SUFFICES ASSUME GzipInv, Faithful, NEW r \in Requests, Ended(r), how[r] = "return"
             PROVE  LET sent == res[r].sent
                        asked == story[r].header # NoHeader
                        headers == IF asked THEN story[r].header ELSE {}
                    IN /\ sent.status = IF asked THEN story[r].status ELSE 200
                       /\ Received(r) = Own(r, story[r].wrote)
                       /\ IF "gzip" \in sent.header
                          THEN /\ sent.header = (headers \ {"length"}) \cup {"gzip"}
                               /\ sent.trailer /\ sent.plain = <<>>
                               /\ {"events", "encoded"} \cap headers = {}
                          ELSE sent.packed = <<>> /\ (asked => sent.header = headers)
  BY DEF Transparent
<1>1. Over(r, res[r], story[r], "return") BY DEF Faithful, Told, Ended
<1>2. CASE Relayed(r, res[r], story[r]) BY <1>2 DEF Relayed, Chosen, Received
<1>3. CASE ~Relayed(r, res[r], story[r])
  <2>1. /\ Nothing(res[r], story[r]) /\ Unasked(story[r])
        /\ res[r].sent.status = 200 /\ "gzip" \notin res[r].sent.header
    BY <1>1, <1>3 DEF Over
  <2>2. Own(r, 0) = <<>> /\ <<>> \o <<>> = <<>> BY DEF Own
  <2>3. QED BY <2>1, <2>2 DEF Nothing, Unasked, Received
<1>4. QED BY <1>2, <1>3

\* A response that is under way is a beginning of what its handler wrote.
LEMMA OpenPrefix ==
  ASSUME GzipInv, NEW r \in Requests, Open(r, res[r], story[r], Deflating(r))
  PROVE  /\ IsPrefix(Received(r), Own(r, story[r].wrote))
         /\ story[r].flushed <= Len(Received(r))
<1> DEFINE s == res[r]
           st == story[r]
           own == Own(r, st.wrote)
<1>1. s \in Response /\ st \in StoryType /\ Deflating(r) \in Seq(Units) BY Bases
<1>2. st.wrote \in 0..MaxUnits /\ st.flushed \in 0..MaxUnits /\ MaxUnits \in Nat
  BY <1>1, GzipAssumption DEF StoryType
<1>3. own \in Seq(Units) /\ Len(own) = st.wrote /\ own \o <<>> = own /\ <<>> \o own = own
  BY <1>2, OwnIsSeq
<1>4. s.sent.plain \in Seq(Units) /\ s.sent.packed \in Seq(Units) /\ <<>> \in Seq(Units)
  <2>1. s.sent \in SentType BY <1>1 DEF Response
  <2>2. <<>> \in Seq(Units) OBVIOUS
  <2>3. QED BY <2>1, <2>2 DEF SentType
<1>5. st.flushed <= st.wrote BY DEF Open
<1>6. CASE Quiet(s, st) \/ Buffered(r, s, st)
  <2>1. s.sent.plain = <<>> /\ s.sent.packed = <<>> /\ st.flushed = 0
    BY <1>6 DEF Quiet, Buffered
  <2>2. <<>> \o <<>> = <<>> /\ Len(<<>>) = 0 OBVIOUS
  <2>3. Received(r) = <<>> BY <2>1, <2>2 DEF Received
  <2>4. IsPrefix(<<>>, own) BY <1>2, <1>3, <1>4, PrefixOfOwn
  <2>5. QED BY <2>1, <2>2, <2>3, <2>4
<1>7. CASE Straight(r, s, st)
  <2>1. Received(r) = own BY <1>3, <1>7 DEF Straight, Received
  <2>2. IsPrefix(own, own) BY <1>2, <1>3, <1>4, PrefixOfOwn
  <2> HIDE DEF own
  <2>3. QED BY <1>3, <1>5, <2>1, <2>2 DEF own
<1>8. CASE Zipped(r, s, st, Deflating(r))
  <2>1. Received(r) = s.sent.packed BY <1>4, <1>8 DEF Zipped, Received
  <2>2. IsPrefix(s.sent.packed, own) BY <1>1, <1>2, <1>4, <1>8, PrefixOfOwn DEF Zipped
  <2>3. st.flushed <= Len(s.sent.packed) BY <1>8 DEF Zipped
  <2>4. QED BY <2>1, <2>2, <2>3
<1>9. QED BY <1>6, <1>7, <1>8 DEF Open

LEMMA RelayedPrefix ==
  ASSUME GzipInv, NEW r \in Requests, Relayed(r, res[r], story[r])
  PROVE  /\ IsPrefix(Received(r), Own(r, story[r].wrote))
         /\ story[r].flushed <= Len(Received(r))
         /\ res[r].sent.status = story[r].status
<1> DEFINE own == Own(r, story[r].wrote)
<1>1. story[r].wrote \in 0..MaxUnits BY Bases DEF StoryType
<1>2. /\ own \in Seq(Units) /\ Len(own) = story[r].wrote
      /\ own \o <<>> = own /\ <<>> \in Seq(Units)
  BY <1>1, OwnIsSeq
<1>3. IsPrefix(own, own) BY <1>1, <1>2, PrefixOfOwn
<1> HIDE DEF own
<1>4. Received(r) = own BY DEF Relayed, Received, own
<1>5. QED BY <1>2, <1>3, <1>4 DEF Relayed, own

LEMMA UntouchedPrefix ==
  ASSUME GzipInv, NEW r \in Requests, Nothing(res[r], story[r])
  PROVE  /\ IsPrefix(Received(r), Own(r, story[r].wrote))
         /\ story[r].flushed <= Len(Received(r))
<1> DEFINE own == Own(r, story[r].wrote)
<1>1. story[r].wrote \in 0..MaxUnits BY Bases DEF StoryType
<1>2. own \in Seq(Units) /\ <<>> \o own = own /\ <<>> \in Seq(Units) BY <1>1, OwnIsSeq
<1>3. IsPrefix(<<>>, own) BY <1>1, <1>2, PrefixOfOwn
<1>4. <<>> \o <<>> = <<>> /\ Len(<<>>) = 0 OBVIOUS
<1>5. Received(r) = <<>> /\ story[r].flushed = 0 BY <1>4 DEF Nothing, Received
<1>6. QED BY <1>3, <1>4, <1>5

\* The three ways a response can be between its handler and its end.
LEMMA Cases ==
  ASSUME GzipInv, Faithful, NEW r \in Requests
  PROVE  \/ /\ IsPrefix(Received(r), Own(r, story[r].wrote))
            /\ story[r].flushed <= Len(Received(r))
         \/ how[r] = "panic" /\ IsError(r) /\ story[r].flushed = 0
<1>1. stage[r] \in {"running", "finishing", "recovering", "ended"} BY DEF GzipInv, Typed
<1>2. Told(r) BY DEF Faithful
<1>3. CASE stage[r] \in {"running", "finishing"} BY <1>2, <1>3, OpenPrefix DEF Told
<1>4. CASE stage[r] = "recovering"
  <2>1. Finished(r, res[r], story[r], how[r]) BY <1>2, <1>4 DEF Told
  <2>2. QED BY <2>1, RelayedPrefix, UntouchedPrefix DEF Finished
<1>5. CASE stage[r] = "ended"
  <2>1. Over(r, res[r], story[r], how[r]) BY <1>2, <1>5 DEF Told
  <2>2. \/ Relayed(r, res[r], story[r])
        \/ Nothing(res[r], story[r])
        \/ how[r] = "panic" /\ IsError(r) /\ story[r].flushed = 0
    BY <2>1, Zenon DEF Over, IsError, Received
  <2>3. QED BY <2>2, RelayedPrefix, UntouchedPrefix
<1>6. QED BY <1>1, <1>3, <1>4, <1>5

LEMMA ToldPanics == GzipInv /\ Faithful => PanicNeverMixes
<1> SUFFICES ASSUME GzipInv, Faithful, NEW r \in Requests, Ended(r), how[r] = "panic"
             PROVE  /\ \/ IsError(r)
                       \/ /\ IsPrefix(Received(r), Own(r, story[r].wrote))
                          /\ res[r].sent.status = story[r].status
                    /\ (story[r].wrote < MinUnits /\ res[r].accepts /\ ~res[r].passthrough)
                         => IsError(r)
  BY DEF PanicNeverMixes
<1>1. Over(r, res[r], story[r], "panic") BY DEF Faithful, Told, Ended
<1>2. \/ Relayed(r, res[r], story[r]) /\ Released(res[r], story[r])
      \/ IsError(r)
  BY <1>1, Zenon DEF Over, IsError, Received
<1>3. CASE Relayed(r, res[r], story[r]) /\ Released(res[r], story[r])
  <2>1. story[r].wrote \in Nat /\ MinUnits \in Nat
    BY Bases, GzipAssumption DEF StoryType
  <2>2. QED BY <1>3, <2>1, RelayedPrefix DEF Released
<1>4. QED BY <1>2, <1>3

LEMMA ToldFlushes == GzipInv /\ Faithful => FlushDelivers
<1> SUFFICES ASSUME GzipInv, Faithful, NEW r \in Requests
             PROVE  story[r].flushed <= Len(Received(r))
  BY DEF FlushDelivers
<1>1. CASE IsError(r) /\ story[r].flushed = 0
  <2>1. Received(r) = <<ErrorBody>> BY <1>1 DEF IsError
  <2>2. Len(<<ErrorBody>>) = 1 OBVIOUS
  <2>3. QED BY <1>1, <2>1, <2>2
<1>2. QED BY <1>1, Cases

LEMMA ToldPools == GzipInv /\ Faithful => PoolSafe
<1> SUFFICES ASSUME GzipInv, Faithful PROVE PoolSafe
  OBVIOUS
<1>1. OwnBytesOnly BY Cases DEF OwnBytesOnly
<1>2. QED BY <1>1, InvPools DEF PoolSafe

\* Whatever the handlers do, each response is in the phase that its story says.
THEOREM GzipFaithful == Spec => []Faithful
<1>1. Init => Faithful BY InitTold
<1>2. GzipInv /\ Faithful /\ [Next]_vars => Faithful' BY StepTold
<1>3. QED BY <1>1, <1>2, GzipInvariance, PTL DEF Spec

\* A handler that returns cannot tell the middleware from net/http: its status, its
\* headers and every byte reach the client (gzip.go:108-230).
THEOREM TransparentAlways == Spec => []Transparent
BY GzipInvariance, GzipFaithful, ToldTransparent, PTL

\* A panic gives the client the whole json 500 or a beginning of the response, never
\* a mixture of the two (borgo.go, recoverMiddleware; gzip.go, finish).
THEOREM PanicNeverMixesAlways == Spec => []PanicNeverMixes
BY GzipInvariance, GzipFaithful, ToldPanics, PTL

\* What was flushed has left for the client, compressed or not (gzip.go, Flush).
THEOREM FlushDeliversAlways == Spec => []FlushDelivers
BY GzipInvariance, GzipFaithful, ToldFlushes, PTL

\* No response carries another's bytes, or bytes written after its end, and the pool
\* lends a writer to one response at a time (gzip.go:176-186, 224-230).
THEOREM PoolSafeAlways == Spec => []PoolSafe
BY GzipInvariance, GzipFaithful, ToldPools, PTL
=============================================================================
