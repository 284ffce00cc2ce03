--------------------------- MODULE ApiProxyProofs ---------------------------
(***************************************************************************)
(* Proofs about ApiProxy for any number of requests, any number of retries *)
(* and any number of restarts of the api.  Neither ReceivedOnce nor        *)
(* AnswerIsTrue is inductive: that a request which may be sent again has   *)
(* not reached the api, and that timedOut speaks of the attempt in flight, *)
(* is what Exchange adds.                                                  *)
(***************************************************************************)
EXTENDS ApiProxy, TLAPS

\* What is known of request r at each stage of its handler.
Exchange(r) ==
  /\ stage[r] \in {"unsent", "reading"} =>
       wire[r] = "none" /\ got[r] = <<>> /\ deadline[r] = "off" /\ ~timedOut[r] /\ attempt[r] = 0
  /\ stage[r] = "fetching" =>
       /\ wire[r] \in {"dialing", "refused", "received", "headers", "broken", "aborted", "torn"}
       /\ timedOut[r] <=> deadline[r] = "fired"
       /\ wire[r] \in {"aborted", "torn"} => timedOut[r]
       /\ wire[r] \in {"dialing", "refused"} => got[r] = <<>>
       /\ wire[r] \in {"received", "headers", "broken", "torn"} => got[r] # <<>>
  /\ stage[r] = "sleeping" => wire[r] = "closed" /\ got[r] = <<>> /\ attempt[r] < Retries
  /\ stage[r] \in {"sleeping", "fetching"} /\ upload[r] = "streamed" => attempt[r] = 0
  /\ stage[r] = "sleeping" => upload[r] # "streamed"
  /\ stage[r] = "answered" => deadline[r] # "armed" /\ wire[r] \in {"none", "closed", "relayed"}

ProxyInv == ProxyTypeOK /\ ReceivedOnce /\ AnswerIsTrue /\ \A r \in Forwarded : Exchange(r)

\* What AnswerIsTrue says of one request.
TrueAnswer(r) ==
  stage[r] = "answered" =>
    /\ answer[r] = "upstream" <=> wire[r] = "relayed"
    /\ answer[r] = "504" => deadline[r] = "fired"
    /\ answer[r] = "502" /\ got[r] = <<>> => upload[r] = "streamed" \/ attempt[r] = Retries
    /\ answer[r] # "upstream" => wire[r] \in {"none", "closed"}

\* The same for one request, the whole of what a step of it must preserve.
SoundExchange(r) == Exchange(r) /\ TrueAnswer(r) /\ got[r] \in {<<>>, <<"whole">>}

\* The variables of request r.
Own(r) ==
  <<upload[r], stage[r], attempt[r], wire[r], deadline[r], timedOut[r], answer[r], got[r]>>

LEMMA InvIsPointwise == ProxyInv <=> ProxyTypeOK /\ \A r \in Forwarded : SoundExchange(r)
  BY DEF ProxyInv, SoundExchange, ReceivedOnce, AnswerIsTrue, TrueAnswer

\* A request that is not touched keeps what is known of it.
LEMMA Untouched ==
  ASSUME NEW q \in Forwarded, SoundExchange(q), UNCHANGED Own(q)
  PROVE  SoundExchange(q)'
  BY DEF SoundExchange, Exchange, TrueAnswer, Own

\* A step of request r is none of another's.
LEMMA StepIsLocal ==
  ASSUME ProxyTypeOK, NEW r \in Forwarded, Asks(r) \/ Handle(r) \/ Connection(r), NEW q \in Forwarded \ {r}
  PROVE  UNCHANGED Own(q)
<1> USE DEF ProxyTypeOK, Own
<1>0. CASE Asks(r) BY <1>0 DEF Asks, Uploads
<1>1. CASE BodyRead(r) BY <1>1 DEF BodyRead, Attempt
<1>2. CASE UploadAborted(r) BY <1>2 DEF UploadAborted
<1>3. CASE DeadlineFires(r) BY <1>3 DEF DeadlineFires
<1>4. CASE Resolves(r) BY <1>4 DEF Resolves, Conclude
<1>5. CASE Upgrades(r) BY <1>5 DEF Upgrades, Conclude
<1>6. CASE Sleeps(r) BY <1>6 DEF Sleeps
<1>7. CASE Rejects(r) BY <1>7 DEF Rejects, Conclude
<1>8. CASE Wakes(r) BY <1>8 DEF Wakes, Attempt
<1>9. CASE Receives(r) BY <1>9 DEF Receives, OnWire, handlerVars
<1>10. CASE Refuses(r) \/ Answers(r) \/ Breaks(r)
  BY <1>10 DEF Refuses, Answers, Breaks, OnWire, handlerVars
<1>11. QED BY <1>0, <1>1, <1>2, <1>3, <1>4, <1>5, <1>6, <1>7, <1>8, <1>9, <1>10
           DEF Handle, Settles, Connection

\* A step of request r keeps every variable's type; only Receives makes a body.
LEMMA StepKeepsTypes ==
  ASSUME ProxyTypeOK, NEW r \in Forwarded, SoundExchange(r), Asks(r) \/ Handle(r) \/ Connection(r)
  PROVE  ProxyTypeOK'
<1> USE ProxyAssumption DEF ProxyTypeOK
<1>0. CASE Asks(r) BY <1>0 DEF Asks, Uploads
<1>1. CASE BodyRead(r) BY <1>1 DEF BodyRead, Attempt
<1>2. CASE UploadAborted(r) BY <1>2 DEF UploadAborted
<1>3. CASE DeadlineFires(r) BY <1>3 DEF DeadlineFires
<1>4. CASE Resolves(r) BY <1>4 DEF Resolves, Conclude
<1>5. CASE Upgrades(r) BY <1>5 DEF Upgrades, Conclude
<1>6. CASE Sleeps(r) BY <1>6 DEF Sleeps
<1>7. CASE Rejects(r) BY <1>7 DEF Rejects, Conclude
<1>8. CASE Wakes(r)
  <2>1. attempt[r] + 1 \in 0..Retries BY <1>8 DEF Wakes, SoundExchange, Exchange
  <2>2. QED BY <1>8, <2>1 DEF Wakes, Attempt
<1>9. CASE Receives(r)
  <2>1. BodySent(r) \in {"whole", "spent"} BY DEF BodySent
  <2>2. Append(got[r], BodySent(r)) \in Seq({"whole", "spent"}) BY <2>1
  <2>3. got' \in [Forwarded -> Seq({"whole", "spent"})] BY <1>9, <2>2 DEF Receives
  <2>4. QED BY <1>9, <2>3 DEF Receives, OnWire, handlerVars
<1>10. CASE Refuses(r) \/ Answers(r) \/ Breaks(r)
  BY <1>10 DEF Refuses, Answers, Breaks, OnWire, handlerVars
<1>11. QED BY <1>0, <1>1, <1>2, <1>3, <1>4, <1>5, <1>6, <1>7, <1>8, <1>9, <1>10
           DEF Handle, Settles, Connection

\* A step of request r keeps what is known of it.
LEMMA StepIsSound ==
  ASSUME ProxyTypeOK, NEW r \in Forwarded, SoundExchange(r), Asks(r) \/ Handle(r) \/ Connection(r)
  PROVE  SoundExchange(r)'
<1> USE ProxyAssumption DEF ProxyTypeOK, SoundExchange, Exchange, TrueAnswer
<1>0. CASE Asks(r) BY <1>0 DEF Asks, Uploads
<1>1. CASE BodyRead(r) BY <1>1 DEF BodyRead, Attempt
<1>2. CASE UploadAborted(r) BY <1>2 DEF UploadAborted
<1>3. CASE DeadlineFires(r) BY <1>3 DEF DeadlineFires
<1>4. CASE Resolves(r) BY <1>4 DEF Resolves, Conclude
<1>5. CASE Upgrades(r) BY <1>5 DEF Upgrades, Conclude
<1>6. CASE Sleeps(r) BY <1>6 DEF Sleeps, WorthRetry, Rejected
<1>7. CASE Rejects(r) BY <1>7 DEF Rejects, Conclude, WorthRetry, Rejected
<1>8. CASE Wakes(r) BY <1>8 DEF Wakes, Attempt
<1>9. CASE Receives(r)
  <2>1. stage[r] = "fetching" /\ got[r] = <<>> BY <1>9 DEF Receives, OnWire
  <2>2. BodySent(r) = "whole" BY <2>1 DEF BodySent
  <2>3. got'[r] = <<"whole">> BY <1>9, <2>1, <2>2 DEF Receives
  <2>4. <<"whole">> # <<>> OBVIOUS
  <2>5. QED BY <1>9, <2>1, <2>3, <2>4 DEF Receives, OnWire, handlerVars
<1>10. CASE Refuses(r) BY <1>10 DEF Refuses, OnWire, handlerVars
<1>11. CASE Answers(r) \/ Breaks(r) BY <1>11 DEF Answers, Breaks, OnWire, handlerVars
<1>12. QED BY <1>0, <1>1, <1>2, <1>3, <1>4, <1>5, <1>6, <1>7, <1>8, <1>9, <1>10, <1>11
           DEF Handle, Settles, Connection

\* The inductive invariant of the /api hop holds in every reachable state.
THEOREM ProxyInvariance == ProxySpec => []ProxyInv
<1>1. ProxyInit => ProxyInv
  <2> SUFFICES ASSUME ProxyInit PROVE ProxyInv
    OBVIOUS
  <2>1. <<>> \in Seq({"whole", "spent"}) OBVIOUS
  <2>2. ProxyTypeOK BY <2>1, ProxyAssumption DEF ProxyInit, ProxyTypeOK, Uploads
  <2>3. ASSUME NEW r \in Forwarded PROVE SoundExchange(r)
    BY ProxyAssumption DEF ProxyInit, SoundExchange, Exchange, TrueAnswer
  <2>4. QED BY <2>2, <2>3, InvIsPointwise
<1>2. ProxyInv /\ [ProxyNext]_proxyVars => ProxyInv'
  <2> SUFFICES ASSUME ProxyInv, [ProxyNext]_proxyVars PROVE ProxyInv'
    OBVIOUS
  <2>1. ProxyTypeOK /\ \A r \in Forwarded : SoundExchange(r) BY InvIsPointwise
  <2>2. ProxyTypeOK' /\ \A q \in Forwarded : SoundExchange(q)'
    <3>1. ASSUME NEW r \in Forwarded, Asks(r) \/ Handle(r) \/ Connection(r)
          PROVE  ProxyTypeOK' /\ \A q \in Forwarded : SoundExchange(q)'
      <4>1. ProxyTypeOK' BY <2>1, <3>1, StepKeepsTypes
      <4>2. SoundExchange(r)' BY <2>1, <3>1, StepIsSound
      <4>3. ASSUME NEW q \in Forwarded \ {r} PROVE SoundExchange(q)'
        <5>1. UNCHANGED Own(q) BY <2>1, <3>1, StepIsLocal
        <5>2. QED BY <2>1, <5>1, Untouched
      <4>4. QED BY <4>1, <4>2, <4>3
    <3>2. ASSUME UNCHANGED <<upload, limited, handlerVars, wire, got>>,
                 api' \in {"up", "down"}, restarts' \in 0..MaxRestarts
          PROVE  ProxyTypeOK' /\ \A q \in Forwarded : SoundExchange(q)'
      <4>1. ProxyTypeOK' BY <2>1, <3>2 DEF ProxyTypeOK, handlerVars
      <4>2. ASSUME NEW q \in Forwarded PROVE UNCHANGED Own(q) BY <3>2 DEF Own, handlerVars
      <4>3. QED BY <2>1, <4>1, <4>2, Untouched
    <3>3. CASE ApiGoesDown
      <4>1. restarts' \in 0..MaxRestarts BY <2>1, <3>3, ProxyAssumption DEF ApiGoesDown, ProxyTypeOK
      <4>2. QED BY <3>2, <3>3, <4>1 DEF ApiGoesDown
    <3>4. CASE ApiComesUp
      <4>1. restarts' \in 0..MaxRestarts BY <2>1, <3>4 DEF ApiComesUp, ProxyTypeOK
      <4>2. QED BY <3>2, <3>4, <4>1 DEF ApiComesUp
    <3>5. CASE UNCHANGED proxyVars
      <4>1. api' \in {"up", "down"} /\ restarts' \in 0..MaxRestarts
        BY <2>1, <3>5 DEF proxyVars, ProxyTypeOK
      <4>2. QED BY <3>2, <3>5, <4>1 DEF proxyVars
    <3>6. QED BY <3>1, <3>3, <3>4, <3>5 DEF ProxyNext
  <2>3. ProxyInv' <=> ProxyTypeOK' /\ \A r \in Forwarded : SoundExchange(r)'
    BY DEF ProxyInv, SoundExchange, ReceivedOnce, AnswerIsTrue, TrueAnswer
  <2>4. QED BY <2>2, <2>3
<1>3. QED BY <1>1, <1>2, PTL DEF ProxySpec

\* The retries never exceed their number, and every variable keeps its type.
THEOREM ProxyTyping == ProxySpec => []ProxyTypeOK
<1>1. ProxyInv => ProxyTypeOK BY DEF ProxyInv
<1>2. QED BY <1>1, ProxyInvariance, PTL

\* A request reaches the api once at most, and whole, however often it restarts.
THEOREM ReceivedOnceAlways == ProxySpec => []ReceivedOnce
<1>1. ProxyInv => ReceivedOnce BY DEF ProxyInv
<1>2. QED BY <1>1, ProxyInvariance, PTL

\* What the browser gets is true of the attempt that was answered.
THEOREM AnswerIsTrueAlways == ProxySpec => []AnswerIsTrue
<1>1. ProxyInv => AnswerIsTrue BY DEF ProxyInv
<1>2. QED BY <1>1, ProxyInvariance, PTL
=============================================================================
