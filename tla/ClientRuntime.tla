--------------------------- MODULE ClientRuntime ---------------------------
(***************************************************************************)
(* packages/borgo/src/runtime.ts: the browser side of navigation.  One     *)
(* document with its history, the navSeq counter that decides which of     *)
(* several overlapping operations may touch the page, the prefetch cache,  *)
(* and enhanced form posts.  Every await of the code is a step boundary:   *)
(* clicks, back and forward, hovers and other answers happen in between.   *)
(*                                                                         *)
(* Data is a version: the server's data changes once per action it runs,   *)
(* and a page is rendered from the version its loader read.  A full load   *)
(* (location.assign, reload, document.write) is one step; the document it  *)
(* replaces, with its cache and everything it awaited, is gone.  Fragments *)
(* and scroll positions are left out; links to other origins and unknown   *)
(* routes are full loads, like every other way out of the runtime.         *)
(***************************************************************************)
EXTENDS Naturals, Sequences

CONSTANTS
  Pages,       \* the urls (path and search) of the known routes
  Home,        \* the first page
  Forms,       \* the post forms
  None,        \* no cache entry
  MaxIntents,  \* bound: clicks, traversals and submits
  MaxHistory,  \* bound: history entries the browser keeps
  MaxVersion,  \* bound: how often the data changes
  MaxHops      \* redirects followed by one navigation (10 in the code)

ASSUME RuntimeAssumption ==
  /\ Home \in Pages
  /\ MaxIntents \in Nat /\ MaxHistory \in Nat \ {0}
  /\ MaxVersion \in Nat /\ MaxHops \in Nat

VARIABLES
  hist, at,   \* the session history, [url, doc] per entry, and the current one
  rendered,   \* what root shows: url, data version, and the ghosts below
  navSeq,
  navs,       \* the calls of navigate that are awaiting
  submits,    \* the calls of runSubmit that are awaiting; their forms are inFlight
  cache,      \* propsCache: [Pages -> fetch or None]
  version,    \* the server's data
  seen,       \* ghost: the newest mutation an action's answer told this page of
  intents,    \* ghost: how many things the user asked for
  raced,      \* ghost: the order of intents was lost, see Traverse and SubmitBreaks
  reruns      \* ghost: an action ran twice for one submit: "no", "lost" or "other"

vars == <<hist, at, rendered, navSeq, navs, submits, cache, version, seen,
          intents, raced, reruns>>
ghostVars == <<seen, intents, raced, reruns>>

Location == hist[at].url
Live(op) == op.seq = navSeq
Idle == \A op \in navs \cup submits : ~Live(op)
Busy == {s.form : s \in submits}  \* the inFlight set

\* A props request: racy when it is sent while a post is still in flight.
NewFetch(posts) == [served |-> FALSE, ver |-> 0, racy |-> posts # {}]
NoCache == [u \in Pages |-> None]

Init ==
  /\ hist = <<[url |-> Home, doc |-> 0]>> /\ at = 1
  /\ rendered = [url |-> Home, ver |-> 0, need |-> 0, racy |-> FALSE, by |-> 0]
  /\ navSeq = 0 /\ navs = {} /\ submits = {} /\ cache = NoCache
  /\ version = 0 /\ seen = 0 /\ intents = 0 /\ raced = {} /\ reruns = "no"

Asks == intents < MaxIntents /\ intents' = intents + 1

-----------------------------------------------------------------------------
(* The document: history entries, renders, and full loads.                 *)

\* A new entry drops those after the current one; past MaxHistory the browser
\* forgets the oldest.
Extend(entry) ==
  LET kept == Append(SubSeq(hist, 1, at), entry)
  IN /\ hist' = IF Len(kept) > MaxHistory THEN Tail(kept) ELSE kept
     /\ at' = Len(hist')

PushEntry(u) == Extend([url |-> u, doc |-> hist[at].doc])

ReplaceEntry(u) == hist' = [hist EXCEPT ![at].url = u] /\ UNCHANGED at
KeepEntry == UNCHANGED <<hist, at>>

Show(u, v, need, racy, by) ==
  rendered' = [url |-> u, ver |-> v, need |-> need, racy |-> racy, by |-> by]

\* A new document for u: the server renders it from the data of the moment.
FreshDocument(u, v, by) ==
  /\ Show(u, v, seen, FALSE, by)
  /\ navSeq' = 0 /\ navs' = {} /\ submits' = {} /\ cache' = NoCache

\* location.assign: a new document on the current entry if the url is the same,
\* on a new one otherwise.  Entries share a document only through pushState.
AssignLocation(u) ==
  LET doc == CHOOSE d \in 0 .. Len(hist) : \A i \in DOMAIN hist : hist[i].doc # d
  IN IF u = Location THEN hist' = [hist EXCEPT ![at].doc = doc] /\ UNCHANGED at
     ELSE Extend([url |-> u, doc |-> doc])

FullLoad(u, by) ==
  /\ AssignLocation(u)
  /\ FreshDocument(u, version, by)
  /\ UNCHANGED <<version, seen, intents, raced, reruns>>

Reload(by) ==
  /\ KeepEntry
  /\ FreshDocument(Location, version, by)
  /\ UNCHANGED <<version, seen, intents, raced, reruns>>

-----------------------------------------------------------------------------
(* navigate.                                                               *)

\* The call navigate(u, push) up to its first await.  A cache entry is consumed,
\* otherwise the props are fetched; calls are those already awaiting, posts the
\* submits in flight, need the mutation this page has been told of.
Navigate(u, push, hops, by, calls, posts, need) ==
  LET fetch == IF cache[u] = None THEN NewFetch(posts) ELSE cache[u]
  IN /\ navSeq' = navSeq + 1
     /\ navs' = calls \cup {[seq |-> navSeq + 1, to |-> u, push |-> push, hops |-> hops,
                             stage |-> "fetch", f |-> fetch, need |-> need, by |-> by]}
     /\ cache' = [cache EXCEPT ![u] = None]

Click(u) ==
  /\ Asks
  /\ Navigate(u, IF u = Location THEN "replace" ELSE "push", 0, intents + 1, navs, submits, seen)
  /\ UNCHANGED <<hist, at, rendered, submits, version, seen, raced, reruns>>

\* Back or forward, to an entry of this document.  The popstate listener starts
\* no navigation, and leaves navSeq alone, when the entry shows the url that is
\* rendered already: only the anchor moves.
Traverse(to) ==
  /\ to \in {at - 1, at + 1} \cap DOMAIN hist
  /\ hist[to].doc = hist[at].doc
  /\ Asks
  /\ at' = to
  /\ IF hist[to].url = rendered.url
     THEN /\ raced' = raced \cup (IF \E n \in navs : Live(n) /\ n.push = "no"
                               THEN {"url"} ELSE {})
                         \cup (IF Idle THEN {} ELSE {"order"})
          /\ rendered' = [rendered EXCEPT !.by = intents + 1]
          /\ UNCHANGED <<navSeq, navs, cache>>
     ELSE /\ Navigate(hist[to].url, "no", 0, intents + 1, navs, submits, seen)
          /\ UNCHANGED <<rendered, raced>>
  /\ UNCHANGED <<hist, submits, version, seen, reruns>>

\* Back or forward to an entry of another document: the browser loads it.
TraverseAway(to) ==
  /\ to \in {at - 1, at + 1} \cap DOMAIN hist
  /\ hist[to].doc # hist[at].doc
  /\ Asks
  /\ at' = to
  /\ FreshDocument(hist[to].url, version, intents + 1)
  /\ UNCHANGED <<hist, version, seen, raced, reruns>>

\* Hovering, focusing or touching a link to another page.
Prefetch(u) ==
  /\ u # Location /\ cache[u] = None
  /\ cache' = [cache EXCEPT ![u] = NewFetch(submits)]
  /\ UNCHANGED <<hist, at, rendered, navSeq, navs, submits, version>> /\ UNCHANGED ghostVars

\* A cache entry past its ten seconds, or over the budget of sixteen, is as good
\* as absent: it is drained and dropped where it is met.
Expire(u) ==
  /\ cache[u] # None
  /\ cache' = [cache EXCEPT ![u] = None]
  /\ UNCHANGED <<hist, at, rendered, navSeq, navs, submits, version>> /\ UNCHANGED ghostVars

\* The server runs the loaders of a props request.  Whether it answers with data,
\* a redirect or an error is chosen where the client reads the answer.
Served(f) == [f EXCEPT !.served = TRUE, !.ver = version]

ServePrefetch(u) ==
  /\ cache[u] # None /\ ~cache[u].served
  /\ cache' = [cache EXCEPT ![u] = Served(@)]
  /\ UNCHANGED <<hist, at, rendered, navSeq, navs, submits, version>> /\ UNCHANGED ghostVars

ServeNav(n) ==
  /\ ~n.f.served
  /\ navs' = (navs \ {n}) \cup {[n EXCEPT !.f = Served(n.f)]}
  /\ UNCHANGED <<hist, at, rendered, navSeq, submits, cache, version>> /\ UNCHANGED ghostVars

DropNav(n) ==
  /\ navs' = navs \ {n}
  /\ UNCHANGED <<hist, at, rendered, navSeq, submits, cache, version>> /\ UNCHANGED ghostVars

\* The chunk and an ok response are there.
NavResponds(n) ==
  /\ n.stage = "fetch" /\ n.f.served
  /\ IF ~Live(n) THEN DropNav(n)
     ELSE /\ navs' = (navs \ {n}) \cup {[n EXCEPT !.stage = "body"]}
          /\ UNCHANGED <<hist, at, rendered, navSeq, submits, cache, version>>
          /\ UNCHANGED ghostVars

\* The chunk does not load, the fetch fails or is not ok, the body does not parse
\* or its redirect is unusable: the browser goes there by itself.
NavBreaks(n) == IF Live(n) THEN FullLoad(n.to, n.by) ELSE DropNav(n)

RenderNav(n) ==
  /\ CASE n.push = "push" -> PushEntry(n.to)
       [] n.push = "replace" -> ReplaceEntry(n.to)
       [] OTHER -> KeepEntry
  /\ Show(n.to, n.f.ver, n.need, n.f.racy, n.by)
  /\ navs' = navs \ {n}
  /\ UNCHANGED <<navSeq, submits, cache, version>> /\ UNCHANGED ghostVars

\* Variant: a redirect that leaves the address bar alone on a back or forward.
FollowRedirectOnly(n, dest) ==
  IF n.hops >= MaxHops THEN FullLoad(dest, n.by)
  ELSE /\ KeepEntry
       /\ Navigate(dest, n.push, n.hops + 1, n.by, navs \ {n}, submits, n.need)
       /\ UNCHANGED <<rendered, submits, version>> /\ UNCHANGED ghostVars

\* A redirect found on a back or forward first fixes the address bar.
FollowRedirect(n, dest) ==
  IF n.hops >= MaxHops THEN FullLoad(dest, n.by)
  ELSE /\ IF n.push = "no" THEN ReplaceEntry(dest) ELSE KeepEntry
       /\ Navigate(dest, n.push, n.hops + 1, n.by, navs \ {n}, submits, n.need)
       /\ UNCHANGED <<rendered, submits, version>> /\ UNCHANGED ghostVars

\* Variant: the check of navSeq after the body is forgotten.
NavBodyUnchecked(n) ==
  /\ n.stage = "body"
  /\ RenderNav(n) \/ \E dest \in Pages : FollowRedirect(n, dest)

\* The body is parsed: the page's props, or a redirect.
NavBody(n) ==
  /\ n.stage = "body"
  /\ IF ~Live(n) THEN DropNav(n)
     ELSE RenderNav(n) \/ \E dest \in Pages : FollowRedirect(n, dest)

-----------------------------------------------------------------------------
(* runSubmit.                                                              *)

NewSubmit(form, u) ==
  [seq |-> navSeq + 1, form |-> form, to |-> u, stage |-> "post", res |-> "sent",
   ver |-> 0, ran |-> FALSE, by |-> intents + 1]

\* Variant: the prefetch cache is left alone.
SubmitKeepingCache(form, u) ==
  /\ form \notin Busy
  /\ Asks
  /\ navSeq' = navSeq + 1
  /\ submits' = submits \cup {NewSubmit(form, u)}
  /\ UNCHANGED <<hist, at, rendered, navs, cache, version, seen, raced, reruns>>

\* A form already in flight swallows the event.
Submit(form, u) ==
  /\ form \notin Busy
  /\ Asks
  /\ navSeq' = navSeq + 1
  /\ submits' = submits \cup {NewSubmit(form, u)}
  /\ cache' = NoCache
  /\ UNCHANGED <<hist, at, rendered, navs, version, seen, raced, reruns>>

Becomes(s, t) ==
  /\ submits' = (submits \ {s}) \cup {t}
  /\ UNCHANGED <<hist, at, rendered, navSeq, navs, cache>> /\ UNCHANGED ghostVars

\* The server runs the action.  What it answers (a redirect, the page's new props,
\* a raw document or a custom response) is chosen where the client reads it.
ServeSubmit(s) ==
  /\ s.res = "sent"
  /\ version < MaxVersion
  /\ version' = version + 1
  /\ Becomes(s, [s EXCEPT !.res = "ran", !.ran = TRUE, !.ver = version + 1])

\* A stale csrf token, or a page without an action: answered without running it.
RefuseSubmit(s) ==
  /\ s.res = "sent"
  /\ Becomes(s, [s EXCEPT !.res = "refused"])
  /\ UNCHANGED version

\* The connection fails before or after the server has run the action: fetch
\* rejects either way.
LoseSubmit(s) ==
  /\ s.stage = "post" /\ s.res # "lost"
  /\ Becomes(s, [s EXCEPT !.res = "lost"])
  /\ UNCHANGED version

EndSubmit(s) ==
  /\ submits' = submits \ {s}
  /\ UNCHANGED <<hist, at, rendered, navSeq, navs, cache, version>> /\ UNCHANGED ghostVars

\* nativeResubmit: the browser posts the form itself and loads what comes back;
\* the server runs the action, or refuses it again.
NativeResubmit(s) ==
  /\ AssignLocation(s.to)
  /\ \E runs \in BOOLEAN :
       /\ runs => version < MaxVersion
       /\ version' = IF runs THEN version + 1 ELSE version
       /\ reruns' = IF runs /\ s.ran
                    THEN IF s.res = "lost" THEN "lost" ELSE "other"
                    ELSE reruns
       /\ FreshDocument(s.to, version', s.by)
  /\ UNCHANGED <<seen, intents, raced>>

\* What the marker of a readable answer leads to.
ReadAnswer(s) ==
  \E next \in {"raw", "json"} : Becomes(s, [s EXCEPT !.stage = next]) /\ UNCHANGED version

\* Variant: an answer the runtime cannot read is retried natively.
SubmitRespondsRetrying(s) ==
  /\ s.stage = "post" /\ s.res # "sent"
  /\ IF ~Live(s) THEN EndSubmit(s)
     ELSE IF s.res \in {"lost", "refused"} THEN NativeResubmit(s)
     ELSE ReadAnswer(s) \/ NativeResubmit(s)

\* Variant: a superseded submit returns without reaching the finally.
SubmitRespondsStuck(s) ==
  /\ s.stage = "post" /\ s.res # "sent" /\ Live(s)
  /\ IF s.res \in {"lost", "refused"} THEN NativeResubmit(s)
     ELSE ReadAnswer(s) \/ Reload(s.by)

\* The headers are there, or fetch rejected: a lost or refused post is handed to
\* the browser, an answer without the runtime's marker is reloaded.
SubmitResponds(s) ==
  /\ s.stage = "post" /\ s.res # "sent"
  /\ IF ~Live(s) THEN EndSubmit(s)
     ELSE IF s.res \in {"lost", "refused"} THEN NativeResubmit(s)
     ELSE ReadAnswer(s) \/ Reload(s.by)

\* res.text(): a full document, written over the page under the current url.
RawBody(s) ==
  /\ s.stage = "raw"
  /\ IF Live(s) THEN Reload(s.by) ELSE EndSubmit(s)

\* A body that does not parse, or a chunk that does not load, reloads whatever
\* page is current, even when the submit was superseded.
SubmitBreaks(s) ==
  /\ s.stage \in {"json", "chunk"}
  /\ KeepEntry
  /\ FreshDocument(Location, version, s.by)
  /\ raced' = raced \cup (IF Live(s) THEN {} ELSE {"order"})
  /\ UNCHANGED <<version, seen, intents, reruns>>

\* res.json(): a redirect starts a navigation, which consumes the cache like any
\* other; back to the current page it keeps the history entry.
ActionBody(s) ==
  /\ s.stage = "json"
  /\ IF ~Live(s) THEN EndSubmit(s)
     ELSE \/ Becomes(s, [s EXCEPT !.stage = "chunk"]) /\ UNCHANGED version
          \/ \E dest \in Pages :
               /\ Navigate(dest, IF dest = Location THEN "no" ELSE "push", 0, s.by,
                           navs, submits \ {s}, s.ver)
               /\ seen' = s.ver
               /\ submits' = submits \ {s}
               /\ UNCHANGED <<hist, at, rendered, version, intents, raced, reruns>>

\* The page of the action is rendered in place.
RenderAction(s) ==
  /\ s.stage = "chunk"
  /\ IF ~Live(s) THEN EndSubmit(s)
     ELSE /\ IF s.to = Location THEN KeepEntry ELSE PushEntry(s.to)
          /\ Show(s.to, s.ver, s.ver, FALSE, s.by)
          /\ seen' = s.ver
          /\ submits' = submits \ {s}
          /\ UNCHANGED <<navSeq, navs, cache, version, intents, raced, reruns>>

-----------------------------------------------------------------------------
NavStep(n) == ServeNav(n) \/ NavResponds(n) \/ NavBreaks(n) \/ NavBody(n)

SubmitStep(s) ==
  \/ ServeSubmit(s) \/ RefuseSubmit(s) \/ LoseSubmit(s) \/ SubmitResponds(s)
  \/ RawBody(s) \/ SubmitBreaks(s) \/ ActionBody(s) \/ RenderAction(s)

UserStep ==
  \/ \E u \in Pages : Click(u) \/ Prefetch(u)
  \/ \E to \in DOMAIN hist : Traverse(to) \/ TraverseAway(to)
  \/ \E form \in Forms, u \in Pages : Submit(form, u)

Next ==
  \/ UserStep
  \/ \E u \in Pages : ServePrefetch(u) \/ Expire(u)
  \/ \E n \in navs : NavStep(n)
  \/ \E s \in submits : SubmitStep(s)

\* Every request is answered or fails, and every continuation runs.  The user owes
\* nothing.
Fairness ==
  /\ WF_vars(\E n \in navs : NavStep(n))
  /\ WF_vars(\E s \in submits : SubmitStep(s))

Spec == Init /\ [][Next]_vars /\ Fairness

-----------------------------------------------------------------------------
Fetch == [served : BOOLEAN, ver : 0 .. MaxVersion, racy : BOOLEAN]

TypeOK ==
  /\ hist \in Seq([url : Pages, doc : Nat]) /\ Len(hist) <= MaxHistory
  /\ at \in DOMAIN hist
  /\ rendered \in [url : Pages, ver : Nat, need : Nat, racy : BOOLEAN, by : Nat]
  /\ navSeq \in Nat
  /\ \A n \in navs :
       n \in [seq : 1 .. navSeq, to : Pages, push : {"push", "replace", "no"},
              hops : 0 .. MaxHops, stage : {"fetch", "body"}, f : Fetch,
              need : Nat, by : 0 .. intents]
  /\ \A s \in submits :
       s \in [seq : 1 .. navSeq, form : Forms, to : Pages, res : {"sent", "ran", "lost", "refused"},
              stage : {"post", "raw", "json", "chunk"}, ver : 0 .. MaxVersion, ran : BOOLEAN, by : 1 .. intents]
  /\ cache \in [Pages -> Fetch \cup {None}]
  /\ version \in 0 .. MaxVersion /\ seen \in 0 .. version
  /\ intents \in 0 .. MaxIntents
  /\ raced \in SUBSET {"url", "order"} /\ reruns \in {"no", "lost", "other"}

\* Once nothing that may still touch the page is in flight, the address bar and
\* the page agree, however clicks, back, forward, submits and redirects overlapped.
\* runtime.ts:145-147, 324-328, 339-350, 512-520.
UrlMatchesPage == Idle /\ "url" \notin raced => rendered.url = Location

\* And the page is the answer to the last thing the user asked for: an older
\* navigation or submit never renders over a newer one.  runtime.ts:283-285.
LastIntentShown == Idle /\ raced = {} => rendered.by = intents

\* UrlMatchesPage without its exception: "every url-changing navigation bumps
\* navSeq" (runtime.ts:456-459), so no older answer lands under a newer url.
UrlAlwaysMatches == Idle => rendered.url = Location

\* A page rendered after an action told this document of its mutation shows that
\* mutation, unless its props were requested while a post was still in flight.
\* runtime.ts:433-435.
ShowsKnownMutations == rendered.ver >= rendered.need \/ rendered.racy

\* One submit runs its action once: whatever the answer, the page never sends
\* the post again after the server ran it, unless the answer itself was lost.
\* runtime.ts:443-447, 467-477.
NoRerun == reruns # "other"

\* A form is never left dead: every submit ends and lets go of its form, whether
\* it is answered, lost, superseded or replaced.  runtime.ts:394-399, 479-480.
FormRecovers == \A form \in Forms : form \in Busy ~> form \notin Busy
=============================================================================
