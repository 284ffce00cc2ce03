------------------------------ MODULE Requests ------------------------------
(***************************************************************************)
(* Cookies through the front server: the tabs of one browser ask for pages,*)
(* props and actions (packages/borgo/src/server.ts and util.ts), whose     *)
(* loaders and actions call the api, which sets cookies (session.go).      *)
(*                                                                         *)
(* A request takes along the jar as it was when it was sent, and its answer*)
(* changes the jar when it arrives; in between the server shares nothing   *)
(* with other requests, so it serves one in a step, the next one (Idle)    *)
(* after it was sent.  The jar may also hold a cookie of the same name that*)
(* a sibling domain set: no session of this app, nor one of its tokens.    *)
(* Only pages with a CsrfField are modelled, with the check enforced.      *)
(***************************************************************************)
EXTENDS Integers, Sequences, SequencesExt

CONSTANTS
  Tabs, None,
  MaxWork   \* bound: requests sent and calls of the api that set a cookie, together

ASSUME RequestsAssumption ==
  None \notin Nat /\ MaxWork \in Nat

VARIABLES
  own, tossed,   \* the jar: this host's cookies, those of a sibling domain
  page,          \* per tab: the token in its CsrfField; None: no page, or an empty field
  request,       \* per tab: the request under way, and its answer
  requested, calls, minted, firsts   \* counters; firsts: minted for a browser without one

requestsVars == <<own, tossed, page, request, requested, calls, minted, firsts>>

Foreign == 0                     \* sessions and tokens of this app are 1, 2, ...
Names == {"session", "csrf"}
Kinds == {"document", "props", "native", "enhanced"}

RequestsInit ==
  /\ own = [n \in Names |-> None] /\ tossed = [n \in Names |-> None]
  /\ page = [t \in Tabs |-> None] /\ request = [t \in Tabs |-> None]
  /\ requested = 0 /\ calls = 0 /\ minted = 0 /\ firsts = 0

-----------------------------------------------------------------------------
(* Cookies.  A header has the values of each name.  The Set-Cookies of an  *)
(* answer are, for each name, the values it is set to, in order; None      *)
(* deletes.                                                                *)

NoSets == [n \in Names \cup {"other"} |-> <<>>]
SetCookie(name, value) == [NoSets EXCEPT ![name] = <<value>>]
Then(first, second) == [n \in DOMAIN first |-> first[n] \o second[n]]

Values(value) == IF value = None THEN <<>> ELSE <<value>>
Header(host) == [n \in Names |-> Values(host[n]) \o Values(tossed[n])]

Stored(host, sets) ==
  [n \in Names |-> IF sets[n] = <<>> THEN host[n] ELSE Last(sets[n])]

\* csrfCookieValue: duplicates that disagree are no token.
Disagree(values) == \E i, j \in DOMAIN values : values[i] # values[j]
Agreed(values) == IF values = <<>> \/ Disagree(values) THEN None ELSE values[1]

\* sessionPayload: what does not verify is skipped, two that verify are none.
GoSession(values) ==
  LET verified == {i \in DOMAIN values : values[i] # Foreign}
  IN IF \E i \in verified : verified = {i} THEN values[CHOOSE i \in verified : TRUE] ELSE None

\* Variant: the deletion that a logout sends is not read.
FreshNeverDeletes(header, sets) ==
  LET kept == [n \in DOMAIN sets |-> IF sets[n] = <<None>> THEN <<>> ELSE sets[n]]
  IN [n \in Names |-> Values(Stored([m \in Names |-> Agreed(header[m])], kept)[n])]

\* freshCookieHeader, by way of freshCookieRequest.
Fresh(header, sets) ==
  IF sets = NoSets THEN header
  ELSE [n \in Names |-> Values(Stored([m \in Names |-> Agreed(header[m])], sets)[n])]

-----------------------------------------------------------------------------
(* The code of an app: an api call and how the loader or the action ends.  *)

\* What the api client collects of a call, after n that set a cookie: also of one
\* that ends in an ApiError.  A call that is refused or times out brings nothing.
Calls(n) ==
  {NoSets} \cup IF requested + n < MaxWork
                THEN {SetCookie("other", 1), SetCookie("session", None), SetCookie("session", n + 1)}
                ELSE {}
After(sets, n) == IF sets = NoSets THEN n ELSE n + 1

\* A loader, whatever it called, ends in props, in a response of its own or in an
\* exception.  Its calls all carry the cookies that its request came with, those
\* after a login it made itself too.
Loads(n) == [sets : Calls(n), out : {"props", "response", "throw"}]
NoLoader == [sets |-> NoSets, out |-> "props"]

-----------------------------------------------------------------------------
(* The front server.                                                       *)

\* An answer: the cookies it sets, those the api issued for it and, of these, the
\* ones of the action; and what it shows.
Bare(sets, issued) ==
  [status |-> "ok", view |-> "none", sets |-> sets, issued |-> issued, acted |-> NoSets,
   saw |-> None, token |-> None]
Data(header, cookies, sets, issued) ==
  [Bare(sets, issued) EXCEPT !.view = "data", !.acted = cookies,
                             !.saw = GoSession(header["session"])]

\* renderPage: a token is minted for a browser that sent none.
RenderPage(header, cookies, load) ==
  LET sets == Then(cookies, load.sets)
      known == Agreed(header["csrf"])
  IN IF load.out = "response" THEN Bare(sets, sets)
     ELSE [Data(header, cookies, Then(sets, IF known # None THEN NoSets
                                            ELSE SetCookie("csrf", minted + 1)), sets)
             EXCEPT !.view = "document",
                    !.token = IF known # None THEN known ELSE minted + 1]

\* What a throw ends in, of a native and of an enhanced request: the page of
\* _500, rendered for the request as it came and without the cookies collected.
ErrorPage(q, issued) ==
  [RenderPage(q.cookies, NoSets, NoLoader) EXCEPT !.status = "failed", !.issued = issued]

Pending(t, kinds) ==
  request[t] # None /\ request[t].kind \in kinds /\ request[t].answer = None
Idle == ~\E t \in Tabs : Pending(t, Kinds)

Answer(t, answer, issuedSoFar) ==
  LET mints == answer.sets["csrf"] = <<minted + 1>>
  IN /\ request' = [request EXCEPT ![t].answer = answer]
     /\ minted' = IF mints THEN minted + 1 ELSE minted
     /\ firsts' = IF mints /\ request[t].cookies["csrf"] = <<>> THEN firsts + 1 ELSE firsts
     /\ calls' = issuedSoFar
     /\ UNCHANGED <<own, tossed, page, requested>>

ServePage(t) ==
  /\ Pending(t, {"document"})
  /\ \E load \in Loads(calls) :
       Answer(t, IF load.out = "throw" THEN ErrorPage(request[t], load.sets)
                                       ELSE RenderPage(request[t].cookies, NoSets, load),
              After(load.sets, calls))

\* Variant: what the loader's calls set leaves with its own response only.
PropsAnswerGuarded(header, cookies, load) ==
  LET sets == Then(cookies, load.sets)
  IN IF load.out = "response" THEN Bare(sets, sets) ELSE Data(header, cookies, cookies, sets)

\* runPropsRequest, and the data an enhanced action is answered with.
PropsAnswer(header, cookies, load) ==
  LET sets == Then(cookies, load.sets)
  IN IF load.out = "response" THEN Bare(sets, sets) ELSE Data(header, cookies, sets, sets)

ServeProps(t) ==
  /\ Pending(t, {"props"})
  /\ \E load \in Loads(calls) :
       Answer(t, IF load.out = "throw"
                 THEN [ErrorPage(request[t], load.sets) EXCEPT !.view = "none"]
                 ELSE PropsAnswer(request[t].cookies, NoSets, load),
              After(load.sets, calls))

\* csrfRejects, for a browser that sends either cookie.
CsrfRejects(q) ==
  /\ q.cookies["session"] # <<>> \/ q.cookies["csrf"] # <<>>
  /\ Agreed(q.cookies["csrf"]) = None \/ q.field # Agreed(q.cookies["csrf"])

RefusePost(t) ==
  /\ Pending(t, {"native", "enhanced"}) /\ CsrfRejects(request[t])
  /\ Answer(t, [Bare(NoSets, NoSets) EXCEPT !.status = "refused"], calls)

Runs(t) == Pending(t, {"native", "enhanced"}) /\ ~CsrfRejects(request[t])

\* The action answers for itself: a redirect, a document, anything.
ActionResponds(t) ==
  /\ Runs(t)
  /\ \E cookies \in Calls(calls) :
       Answer(t, Bare(cookies, cookies), After(cookies, calls))

ActionThrows(t) ==
  /\ Runs(t)
  /\ \E cookies \in Calls(calls) :
       Answer(t, ErrorPage(request[t], cookies), After(cookies, calls))

\* The action returns data: the loader is run on the jar as it is by now.
ActionLoads(t) ==
  /\ Runs(t)
  /\ \E cookies \in Calls(calls) :
       LET q == request[t]
           header == Fresh(q.cookies, cookies)
           acted == After(cookies, calls)
       IN \E load \in Loads(acted) :
            Answer(t,
              CASE load.out = "throw" -> ErrorPage(q, Then(cookies, load.sets))
                [] load.out # "throw" /\ q.kind = "native" -> RenderPage(header, cookies, load)
                [] load.out # "throw" /\ q.kind = "enhanced" -> PropsAnswer(header, cookies, load),
              After(load.sets, acted))

-----------------------------------------------------------------------------
(* The browser.                                                            *)

\* Variant: the runtime posts the field of the form as it is.
FieldAsRendered(t, kind) == page[t]

\* The runtime echoes the token that the jar holds; a native form, its field.
Field(t, kind) ==
  LET live == Agreed(Header(own)["csrf"])
  IN IF kind = "enhanced" /\ live # None THEN live ELSE page[t]

Send(t, kind) ==
  /\ Idle /\ request[t] = None /\ requested + calls < MaxWork
  /\ kind # "document" => page[t] # None
  /\ request' = [request EXCEPT ![t] =
       [kind |-> kind, cookies |-> Header(own), field |-> Field(t, kind), answer |-> None]]
  /\ requested' = requested + 1
  /\ UNCHANGED <<own, tossed, page, calls, minted, firsts>>

\* The answer arrives: the jar takes the cookies, and the tab what it shows.  A
\* page that react renders again has the token of the jar in its field.
Deliver(t) ==
  LET answer == request[t].answer
      jar == Stored(own, answer.sets)
  IN /\ Idle /\ request[t] # None
     /\ own' = jar
     /\ page' = [page EXCEPT ![t] =
          CASE answer.view = "document" -> answer.token
            [] answer.view = "data" -> Agreed(Header(jar)["csrf"])
            [] answer.view = "none" /\ request[t].kind \in {"document", "native"} -> None
            [] OTHER -> @]
     /\ request' = [request EXCEPT ![t] = None]
     /\ UNCHANGED <<tossed, requested, calls, minted, firsts>>

\* The tab is stopped, or the line breaks, before an answer arrives.
Lose(t) ==
  /\ request[t] # None /\ request[t].answer = None
  /\ request' = [request EXCEPT ![t] = None]
  /\ UNCHANGED <<own, tossed, page, requested, calls, minted, firsts>>

\* A sibling domain sets a cookie of the same name.
Toss(n) ==
  /\ Idle /\ tossed[n] = None
  /\ tossed' = [tossed EXCEPT ![n] = Foreign]
  /\ UNCHANGED <<own, page, request, requested, calls, minted, firsts>>

RequestsUser ==
  \/ \E t \in Tabs, kind \in Kinds : Send(t, kind)
  \/ \E n \in Names : Toss(n)
RequestsSystem ==
  \E t \in Tabs : \/ ServePage(t) \/ ServeProps(t) \/ RefusePost(t)
                  \/ ActionResponds(t) \/ ActionThrows(t) \/ ActionLoads(t)
                  \/ Deliver(t) \/ Lose(t)
RequestsNext == RequestsUser \/ RequestsSystem
RequestsSpec == RequestsInit /\ [][RequestsNext]_requestsVars

-----------------------------------------------------------------------------
Answered(t) == request[t] # None /\ request[t].answer # None

\* What the api sets while a request is served is in the answer, whichever way the
\* loader or the action ended (props, data, a response), except in an exception,
\* which is answered without them: "forwards Set-Cookie headers coming back from Go to the browser"
\* (docs/auth-and-sessions.md:20); util.ts:349, 458-460, 647-690.
CookiesReachBrowser ==
  \A t \in Tabs :
    Answered(t) /\ request[t].answer.status # "failed" =>
      \A name \in {"session", "other"} :
        request[t].answer.sets[name] = request[t].answer.issued[name]

\* What a tab shows was loaded with the session that the browser has from then on,
\* unless another tab changed the jar meanwhile.  Two cases are left out.  A loader
\* that sets the session itself saw the one before, which is then the one that the
\* jar had once the action had run.  And after an action that set a cookie, a
\* session with a duplicate is none for the loader; util.ts:553-566.
PageMatchesJar ==
  \A t \in Tabs :
    LET q == request[t]
        SessionAfter(sets) == GoSession(Header(Stored(own, sets))["session"])
    IN Answered(t) /\ q.answer.view # "none" /\ q.cookies = Header(own) =>
         \/ q.answer.saw = SessionAfter(q.answer.sets)
         \/ /\ q.answer.issued["session"] # q.answer.acted["session"]
            /\ q.answer.saw = SessionAfter(q.answer.acted)
         \/ /\ q.answer.acted # NoSets
            /\ q.answer.saw = None /\ Disagree(q.cookies["session"])

\* A post of a page is refused only if the jar has tokens that disagree, or, of a
\* native form, if two first visits were given a token each: an action that runs
\* in one tab leaves the forms of the others good; util.ts:462-467, runtime.ts:415.
FormsAreAccepted ==
  \A t \in Tabs :
    LET q == request[t]
    IN Answered(t) /\ q.answer.status = "refused" =>
         Disagree(q.cookies["csrf"]) \/ (q.kind = "native" /\ firsts > 1)
=============================================================================
