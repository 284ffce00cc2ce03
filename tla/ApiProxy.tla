------------------------------ MODULE ApiProxy ------------------------------
(***************************************************************************)
(* The /api hop of the front server: proxyRequest of util.ts as handle and *)
(* fetch of server.ts call it, against an api that restarts, hangs,        *)
(* answers late or breaks off.                                             *)
(*                                                                         *)
(* Requests share nothing but the api.  fetch, the timers of the runtime,  *)
(* the client and the api are external; time is left out, a deadline may   *)
(* pass at any moment it is armed.                                         *)
(***************************************************************************)
EXTENDS Naturals, Sequences

CONSTANTS
  Forwarded,   \* the requests of browsers for /api
  Retries,     \* apiRetries: 15 in dev, 3 otherwise
  MaxRestarts  \* bound: how often the api goes down

ASSUME ProxyAssumption == Retries \in Nat /\ MaxRestarts \in Nat

VARIABLES
  upload,    \* "bare" (no body), "buffered" or "streamed"
  limited,   \* BORGO_API_TIMEOUT is not 0
  stage,     \* "unsent", "reading" the body, "fetching", "sleeping" or "answered"
  attempt,   \* each request's count of retries
  wire,      \* its exchange with the api
  deadline,  \* that of this attempt: "off", "armed" or "fired"
  timedOut,  \* what the handler knows of it
  answer,    \* what the browser gets
  api,       \* "up" or "down"
  restarts,
  got        \* history: the bodies the api received for each request

handlerVars == <<stage, attempt, deadline, timedOut, answer>>
proxyVars == <<upload, limited, handlerVars, wire, api, restarts, got>>

Uploads == {"bare", "buffered", "streamed"}

ProxyInit ==
  /\ upload = [r \in Forwarded |-> "bare"]
  /\ limited \in BOOLEAN
  /\ stage = [r \in Forwarded |-> "unsent"]
  /\ attempt = [r \in Forwarded |-> 0]
  /\ wire = [r \in Forwarded |-> "none"]
  /\ deadline = [r \in Forwarded |-> "off"]
  /\ timedOut = [r \in Forwarded |-> FALSE]
  /\ answer = [r \in Forwarded |-> "none"]
  /\ api \in {"up", "down"}
  /\ restarts = 0
  /\ got = [r \in Forwarded |-> <<>>]

-----------------------------------------------------------------------------
(* The handler.                                                            *)

\* Variant: timedOut is declared once, before the loop.
AttemptKeepingVerdict(r) ==
  /\ stage' = [stage EXCEPT ![r] = "fetching"]
  /\ wire' = [wire EXCEPT ![r] = "dialing"]
  /\ deadline' = [deadline EXCEPT ![r] = IF limited THEN "armed" ELSE "off"]
  /\ UNCHANGED timedOut

\* Variant: the deadline is set once, before the loop.
AttemptUnlimitedRetry(r) ==
  /\ stage' = [stage EXCEPT ![r] = "fetching"]
  /\ wire' = [wire EXCEPT ![r] = "dialing"]
  /\ deadline' = [deadline EXCEPT ![r] = IF limited /\ attempt'[r] = 0 THEN "armed" ELSE "off"]
  /\ timedOut' = [timedOut EXCEPT ![r] = FALSE]

\* The head of the loop: a deadline of its own for each attempt, then fetch.
Attempt(r) ==
  /\ stage' = [stage EXCEPT ![r] = "fetching"]
  /\ wire' = [wire EXCEPT ![r] = "dialing"]
  /\ deadline' = [deadline EXCEPT ![r] = IF limited THEN "armed" ELSE "off"]
  /\ timedOut' = [timedOut EXCEPT ![r] = FALSE]

\* A browser asks; what it sends decides whether the body is buffered (shouldBufferBody).
Asks(r) ==
  /\ stage[r] = "unsent"
  /\ stage' = [stage EXCEPT ![r] = "reading"]
  /\ \E kind \in Uploads : upload' = [upload EXCEPT ![r] = kind]
  /\ UNCHANGED <<limited, attempt, wire, deadline, timedOut, answer, api, restarts, got>>

\* A small body is read whole, the others are passed on as they are.
BodyRead(r) ==
  /\ stage[r] = "reading"
  /\ UNCHANGED attempt /\ Attempt(r)
  /\ UNCHANGED <<upload, limited, answer, api, restarts, got>>

\* The client hangs up while its body is buffered: fetch answers 499 to nobody.
UploadAborted(r) ==
  /\ stage[r] = "reading" /\ upload[r] = "buffered"
  /\ stage' = [stage EXCEPT ![r] = "answered"]
  /\ answer' = [answer EXCEPT ![r] = "499"]
  /\ UNCHANGED <<upload, limited, attempt, wire, deadline, timedOut, api, restarts, got>>

\* finally clears the timer.
Conclude(r, what) ==
  /\ stage' = [stage EXCEPT ![r] = "answered"]
  /\ answer' = [answer EXCEPT ![r] = what]
  /\ deadline' = [deadline EXCEPT ![r] = IF @ = "armed" THEN "off" ELSE @]
  /\ UNCHANGED <<upload, limited, attempt, timedOut, api, restarts, got>>

DeadlineFires(r) ==
  /\ deadline[r] = "armed"
  /\ deadline' = [deadline EXCEPT ![r] = "fired"]
  /\ timedOut' = [timedOut EXCEPT ![r] = TRUE]
  \* the abort: headers that are here already still resolve the fetch
  /\ wire' = [wire EXCEPT ![r] = CASE @ \in {"dialing", "received"} -> "aborted"
                                   [] @ = "headers" -> "torn"
                                   [] OTHER -> @]
  /\ UNCHANGED <<upload, limited, stage, attempt, answer, api, restarts, got>>

\* Variant: headers are headers, whatever the deadline said.
ResolvesLate(r) ==
  /\ stage[r] = "fetching" /\ wire[r] \in {"headers", "torn"}
  /\ Conclude(r, "upstream")
  /\ wire' = [wire EXCEPT ![r] = IF @ = "torn" THEN "torn" ELSE "relayed"]

\* fetch resolves with the headers of the api.
Resolves(r) ==
  /\ stage[r] = "fetching" /\ wire[r] \in {"headers", "torn"}
  /\ Conclude(r, IF timedOut[r] THEN "504" ELSE "upstream")
  /\ wire' = [wire EXCEPT ![r] = IF timedOut[r] THEN "closed" ELSE "relayed"]

\* The api answers 101: this hop has no tunnel.
Upgrades(r) ==
  /\ stage[r] = "fetching" /\ wire[r] \in {"headers", "torn"}
  /\ Conclude(r, IF timedOut[r] THEN "504" ELSE "502")
  /\ wire' = [wire EXCEPT ![r] = "closed"]

\* How a fetch that rejects left the connection.
Rejected(w) == w \in {"refused", "broken", "aborted", "torn"}

\* Variant: every error is worth another try.
WorthRetryAny(r) == (upload[r] # "streamed") /\ attempt[r] < Retries

\* Variant: a streamed body is sent again as well.
WorthRetryStreamed(r) == attempt[r] < Retries /\ wire[r] = "refused"

\* A refused connection never reached the api, and there is a body to send again.
WorthRetry(r) == upload[r] # "streamed" /\ attempt[r] < Retries /\ wire[r] = "refused"

\* The catch: finally runs after the sleep, so the deadline stays armed in it.
Sleeps(r) ==
  /\ stage[r] = "fetching" /\ Rejected(wire[r]) /\ ~timedOut[r]
  /\ WorthRetry(r)
  /\ stage' = [stage EXCEPT ![r] = "sleeping"]
  /\ wire' = [wire EXCEPT ![r] = "closed"]
  /\ UNCHANGED <<upload, limited, attempt, deadline, timedOut, answer, api, restarts, got>>

Rejects(r) ==
  /\ stage[r] = "fetching" /\ Rejected(wire[r])
  /\ timedOut[r] \/ ~WorthRetry(r)
  /\ Conclude(r, IF timedOut[r] THEN "504" ELSE "502")
  /\ wire' = [wire EXCEPT ![r] = "closed"]

Wakes(r) ==
  /\ stage[r] = "sleeping"
  /\ attempt' = [attempt EXCEPT ![r] = @ + 1]
  /\ Attempt(r)
  /\ UNCHANGED <<upload, limited, answer, api, restarts, got>>

-----------------------------------------------------------------------------
(* The api and the connections to it.                                      *)

OnWire(r, from, to) ==
  /\ wire[r] = from
  /\ wire' = [wire EXCEPT ![r] = to]
  /\ UNCHANGED <<upload, limited, handlerVars, api, restarts>>

\* A streamed body is there for the first attempt only.
BodySent(r) == IF upload[r] = "streamed" /\ attempt[r] > 0 THEN "spent" ELSE "whole"

Receives(r) ==
  /\ api = "up" /\ OnWire(r, "dialing", "received")
  /\ got' = [got EXCEPT ![r] = Append(@, BodySent(r))]

Refuses(r) == api = "down" /\ OnWire(r, "dialing", "refused") /\ UNCHANGED got

\* Also while it drains: the requests an api has accepted outlive its listener.
Answers(r) == OnWire(r, "received", "headers") /\ UNCHANGED got

\* A crash, a grace that has elapsed, or an aborted handler.
Breaks(r) == OnWire(r, "received", "broken") /\ UNCHANGED got

ApiGoesDown ==
  /\ api = "up" /\ restarts < MaxRestarts
  /\ api' = "down" /\ restarts' = restarts + 1
  /\ UNCHANGED <<upload, limited, handlerVars, wire, got>>

ApiComesUp ==
  /\ api = "down"
  /\ api' = "up"
  /\ UNCHANGED <<upload, limited, handlerVars, wire, restarts, got>>

-----------------------------------------------------------------------------
Settles(r) == Resolves(r) \/ Upgrades(r) \/ Sleeps(r) \/ Rejects(r)

Handle(r) ==
  \/ BodyRead(r) \/ UploadAborted(r)
  \/ DeadlineFires(r) \/ Settles(r) \/ Wakes(r)

Connection(r) == Receives(r) \/ Refuses(r) \/ Answers(r) \/ Breaks(r)

ProxyNext ==
  \/ \E r \in Forwarded : Asks(r) \/ Handle(r) \/ Connection(r)
  \/ ApiGoesDown \/ ApiComesUp

\* A deadline that passes aborts; what the runtime has is delivered, a connection is
\* accepted or refused, and a client sends its body or hangs up.  Nothing makes a
\* browser ask, or the api answer or come back.  A request has finitely many steps: that some request
\* takes one is enough for all of them.
ProxyFairness ==
  WF_proxyVars(\E r \in Forwarded : Handle(r) \/ Receives(r) \/ Refuses(r))

ProxySpec == ProxyInit /\ [][ProxyNext]_proxyVars /\ ProxyFairness

-----------------------------------------------------------------------------
(* Properties.                                                             *)

ProxyTypeOK ==
  /\ upload \in [Forwarded -> Uploads]
  /\ limited \in BOOLEAN
  /\ stage \in [Forwarded -> {"unsent", "reading", "fetching", "sleeping", "answered"}]
  /\ attempt \in [Forwarded -> 0..Retries]
  /\ wire \in [Forwarded -> {"none", "dialing", "refused", "received", "headers", "broken",
                            "aborted", "torn", "relayed", "closed"}]
  /\ deadline \in [Forwarded -> {"off", "armed", "fired"}]
  /\ timedOut \in [Forwarded -> BOOLEAN]
  /\ answer \in [Forwarded -> {"none", "upstream", "499", "502", "504"}]
  /\ api \in {"up", "down"} /\ restarts \in 0..MaxRestarts
  /\ got \in [Forwarded -> Seq({"whole", "spent"})]

\* However often the api restarts, is retried or times out, a request reaches it
\* once at most and with its body whole: a mutation never runs twice because of
\* this hop (util.ts:776, "retrying briefly is safe even for mutations").
ReceivedOnce == \A r \in Forwarded : got[r] \in {<<>>, <<"whole">>}

\* What the browser gets is true of the attempt that was answered: the api's own
\* response is never one the deadline has torn down, a 504 means that the deadline
\* of this very attempt passed, a 502 that the api broke off, upgraded or refused
\* as often as the request may be sent; and no exchange is left open behind an
\* answer that is not it (docs/security.md:118).
AnswerIsTrue ==
  \A r \in Forwarded :
    stage[r] = "answered" =>
      /\ answer[r] = "upstream" <=> wire[r] = "relayed"
      /\ answer[r] = "504" => deadline[r] = "fired"
      /\ answer[r] = "502" /\ got[r] = <<>> => upload[r] = "streamed" \/ attempt[r] = Retries
      /\ answer[r] # "upstream" => wire[r] \in {"none", "closed"}

\* With a deadline nobody waits for ever, whatever the api does: every request
\* that was sent is answered, through all its retries.
EveryoneAnswered ==
  <>[](limited => \A r \in Forwarded : stage[r] \in {"unsent", "answered"})
=============================================================================
