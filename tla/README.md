# borgo in TLA+

borgo is a web framework in three processes: an api server in Go (the package
in the root of the repository), a front server in Bun that renders React pages
and proxies `/api` to the Go server (`packages/borgo/src`), and a runtime in the
browser that navigates between pages and posts forms (`runtime.ts`). A fourth
process, `borgo dev`, watches the sources, rebuilds and restarts the other two
and tells the browser.

This directory holds models of those parts whose behaviour depends on the order
of events, the runs that check them on small instances, and proofs of their
invariants for every size of the instance. Each module says in its opening
comment what it leaves out. `PROJECT.json` links each definition to the lines it
models, each property to a small change of the model that breaks it, and each
hazard of the code to the properties that watch it.

```
tlc -workers 2 -config MCApiServer.cfg MCApiServer     # a run
tlapm ApiServerProofs.tla                              # a proof
```

## Inventory

| part | source | state | operations | what is hard |
| --- | --- | --- | --- | --- |
| SSE hub | `sse.go` | map of subscriber channels under a mutex, a `done` channel per stream, a global `shuttingDown` | `SSE`, `ServeHTTP`, `Publish`, `write` | publishers and streams interleave; full channels; clients that vanish silently; shutdown at any point |
| Api server | `borgo.go` | phase of the process, requests in flight, the grace | `Serve`, `shutdown`, `watchParent`, hooks | streams never end on their own; the grace elapses while requests finish; a second signal |
| Login and register | `auth.go` | hash slots, the `once` of the dummy hash, the application's account store | `LoginHandler`, `RegisterHandler`, `withHashSlot` | slots leak or idle; a panic inside the `once`; two registers of a name; a session that cannot be issued |
| Session cookies | `session.go` | none but the secret; the browser's jar | sign, read, clear | duplicates of a name; a jar that changes while a request is served |
| Gzip and recovery | `gzip.go`, `borgo.go` | per response: status, header snapshot, buffer, writer; shared: the pool of writers | `WriteHeader`, `Write`, `Flush`, `finish`, `recoverMiddleware` | a panic with half a response buffered; pooled writers that outlive their response |
| Topics | `index.ts`, `server.ts`, `push.go` | sockets, subscriptions, presence, a channel's queue and timer | `subscribe`, `/ws`, `publishCount`, `/__borgo/publish`, `Push` | lines that break on one side first; presence after a close; `close()` against the backoff |
| `/api` hop | `util.ts` | per request: attempt, deadline, exchange | `proxyRequest` | a retry after the api accepted; a deadline that races the answer |
| Streamed documents | `util.ts`, `compress.ts` | two chained streams, a pump, zlib | `renderPage`, `documentStream`, `gzipStream` | backpressure; cancellation while parked; a render that fails half way |
| Actions and props | `util.ts`, `api.ts`, `server.ts` | none; the jar and the token of each page | `runAction`, `runPropsRequest`, `renderPage`, `freshCookieHeader`, csrf | cookies set on every way an action can end; tabs that share a jar |
| Routes | `router.ts`, `build.ts`, `runtime.ts` | the sorted table, and the copy of the client without the pages that do not hydrate | `generateManifest`, `matchRoute` | patterns that overlap; two readers with different tables |
| Static files | `compress.ts` | an index of the directory, taken at boot | `buildAssetIndex`, `serveIndexed`, `serveAsset` | files replaced under the index; downloads resumed across builds and encodings |
| Browser runtime | `runtime.ts` | history, the page, `navSeq`, the props cache, forms in flight | `navigate`, `prefetch`, `popstate`, `runSubmit` | everything awaits, everything overlaps |
| Dev session | `dev.ts`, `serve-entry.ts`, `runtime.ts` | hashes, timers, the rebuild chain, two child processes, the page | watch callback, `startGo`, `startFront`, `notifyFront`, `applyUpdate` | saves during a rebuild, crashes, two processes on one port, a page that misses an update |
| Production start | `cli.ts` | two child processes | `start` | one dies, the other must too |
| Health, metrics, log | `server.ts`, `metrics.ts` | a shared probe, counters | | bounded labels |
| Build | `build.ts` | the tree `public/assets`, its manifest and mode | `buildAssets` | written in place while others read; killed on the way |
| Service worker | `pwa.ts`, `index.ts` | caches by stamp, the installed worker | install, activate, fetch, `registerServiceWorker` | installs that overlap builds; a script that never changes |
| Export | `export.ts` | the tree `dist/site` | `planExport`, `fillPattern`, `outputPath` | urls that differ and directories that do not |
| Deploy, scaffolding, borgogen | `deploy.ts`, `create-borgo`, `cmd/borgogen` | files | one-shot generators | nothing concurrent |

How they interact: the browser runtime sends navigations and posts to the front
server, which runs loaders and actions, streams documents, and forwards `/api`
to the Go server through `proxyRequest`; the Go server's handlers write through
`recoverMiddleware(gzipMiddleware(mux))`, may be event streams of the hub, and
push to the sockets of the front server over `/__borgo/publish`; the dev
watcher owns the other two processes and reaches the page over the dev channel
of the front server.

## Modules

| module | models | composed with |
| --- | --- | --- |
| `Broadcast` | what the hub promises: an ordered, lossy broadcast, without lock, channel or goroutine | refined by `SSEHub` |
| `SSEHub` | `sse.go`: one handler and one watcher goroutine per stream, publishers that hold the lock through their loop | |
| `ApiServer` | `Serve` and `shutdown` around the hub, plain requests beside the streams | extends `SSEHub` |
| `AuthHandlers` | `LoginHandler`, `RegisterHandler`, `withHashSlot`, `dummyHash` | |
| `GzipResponse` | `gzipResponseWriter`, `gzipMiddleware`, `recoverMiddleware`, `recoverWriter` and the pool | |
| `DocumentStream` | the end of `renderPage`, `documentStream`, `gzipStream`, a client | |
| `ApiProxy` | `proxyRequest` and an api that restarts | |
| `ClientRuntime` | `navigate`, `prefetch`, `popstate`, `runSubmit` and what the front server answers them | |
| `PageLoad` | a tab that loads a document and becomes a client | extends `ClientRuntime`, `DocumentStream` |
| `DevSession` | the watcher, the rebuild chain, both servers, the dev channel and the page | |
| `Realtime` | one topic: `subscribe` and its sockets, the relay of the front server, presence, `Push` | |
| `Requests` | cookies and csrf tokens of the tabs of one browser through pages, props and actions | |
| `Builds` | `public/assets` as builds empty it and fill it, step by step | |
| `Assets` | the index of static files, variants, revalidation, ranges, and a client's copy | extends `Builds` |
| `ServiceWorker` | the worker of `pwa init` and the browser that installs it | extends `Builds` |
| `Routes` | the table of pages, the server and the browser that match it, the export and its static host | |
| `FrontServer` | six parts of the front server that share a process and no state | extends `Realtime`, `Requests`, `ApiProxy`, `Assets`, `ServiceWorker`, `Routes` |
| `*Proofs` | the theorems of the module they are named after and of the parts it is composed of | extend it |
| `MC*` | the small instances | extend it |

### How state and actions correspond to the code

**SSEHub / ApiServer.** A handler's program counter is `handler` (`opened` after
`SSE` flushed the headers, `select`, `writing`, `returning`). `Publish` is
`PublishLock`, one `PublishTo` per channel of the map, and `PublishUnlock`, so
reads and writes of other channels fall in between, as they do in Go. A frame is
the number of its `Publish` call. `Receive` takes the head of a channel,
`PublishTo` appends or drops (`select` with `default`). `HangUp` is a connection
the server sees close, `GoDark` one it does not. `ApiServer` adds
`phase`, the grace and the plain requests; a listener that fails ends the process at boot
and while it serves (`ListenFails`); `net/http`'s `Shutdown` is external
and modelled from its use.

**AuthHandlers.** `stage` is where a handler's goroutine stands; `holders` are
the tokens in `hashSlots`, `once` the state of `dummyOnce`. `TakeSlot`,
`WaitForSlot`, `Abandon` and `Shed` are the cases of the two `select`s of
`withHashSlot`; `Verify`, `Hash` and `HashFails` end with `Release`, the deferred
receive. The store is the application's: it takes a name once and may fail. A
stored hash is the password it verifies.

**GzipResponse.** A handler is any sequence of `Stage` (`Header().Set` or
`Del`), `WriteHeader`, `Hints` (a 1xx), `Write`, `Flush` that ends in `Return`,
`Panic` or `AbortHandler`; then `Finish` and `Recover` run in the order of the
deferred calls. `res[r].live` is the live header map, `snapshot` its clone,
`sent` what reached the client. Deflate holds units back as it likes.
`LateWrite` is a goroutine that outlived its handler.

**DocumentStream.** The two `ReadableStream`s are their state and queue
(`docState`, `docQueue`, `outState`, `outQueue`); `Pull` and the four ways an
`iterator.next()` may settle are `documentStream`, the `Pump...` actions are the
loop inside `gzipStream`, one per await, and `CancelGzip` is its `cancel`
in one turn. A HEAD is a client that leaves at once (`headResponse`).

**ApiProxy.** One request is `Asks`, `BodyRead`, then `Attempt` (with a deadline of its own) until `Resolves`, `Upgrades` or `Rejects`, with `Sleeps` and `Wakes`
between attempts. `wire` is the connection, which goes its own way between the
steps of the handler.

**ClientRuntime.** A record in `navs` is a call of `navigate` that awaits, one
in `submits` a call of `runSubmit`; each step of theirs runs from one await to
the next, and the user acts in between. Data is a version, and an action makes a
new one. `need`, `seen`, `raced`, `by`, `intents` and `reruns` are ghosts: no
guard of the code's steps reads them.

**PageLoad.** The script that starts the runtime stands in the tail of the document
and is deferred, so that `Next` of `ClientRuntime` begins when the client of
`DocumentStream` has the whole of it (`outcome = "complete"`). React, the pump and
zlib may still be at work then.

**DevSession.** The event loop of `dev.ts` is cut at its awaits; `job.step` says
which await the running rebuild is in. A process is `starting`/`booting`, `up`,
`term` and `gone`; the front's number of boots is the stamp of the greeting.

**Realtime.** `ws`, `closed`, `timer` and `queue` are the variables of the
closure of `subscribe`. A socket has a `browser` end, a `server` end and a
`line` between them; `up` and `down` are what is under way. `Cut` breaks the
line, after which `Closed` and `Leave` may each come first or last, and frames
given to a cut line are lost. `Leave` only counts a `setTimeout` in `recount`;
`Recount` is the timer, which tells the count of that later moment.

**Requests.** `own` and `tossed` are the jar, `request[t]` what tab `t` sent and,
once served, its answer. The front server keeps nothing between requests, so one
is served in a single step, with the jar its header was made of when it was
sent; `Deliver` gives the answer to the jar of that later moment. The way an
action ends is `ActionResponds`, `ActionThrows` or `ActionLoads`; a loader may call the api as an action
may, and end in props, a response or an exception (`Loads`).

**Builds, Assets, ServiceWorker.** A file is the number of its build, 0 if it is
not there. `Wipe`, `Emit`, `List`, `Compress` and `Mark` are the steps of
`buildAssets` in their order, and `Kill` may follow any. `index` is what
`buildAssetIndex` saw at boot; `copy` is a client that downloads in parts.
`installing` is the worker between its `install` event and its `activate`.

**Routes.** A text is a sequence of names, so that a separator inside a param can
be told from one between segments, while letters are left out. `Pattern` is
`filePathToPattern`, `Fits` one segment of `matchPattern`, and `MatchRoute` takes
the first page of a table that matches. `Ordered` leaves open how `localeCompare`
breaks ties. `screen` has the page whose component the browser shows beside the
answer whose props it shows. The export plans on a server of its own, without
browsers; the static host that serves `site` is external.

**FrontServer.** `workload` says which part a behaviour exercises: the parts
read and write disjoint variables, so that interleaving them adds states and no
behaviour of any part; whether the api is up and limited
at the start is left open only where requests are forwarded to it. No part that has no
work has a step that fairness would ask for, so that `FrontSpec` is fair to each. `Assets` and `ServiceWorker` share the tree of `Builds`.

### Order of the work

The modules were planned by how much of the system hangs on them: the hub and
its server, the browser runtime, login and register, the response path, the
`/api` hop, the dev session, the streamed documents, and then what the front
server does besides: topics, cookies, static files, the service worker, routes. What
would come next:

1. The two processes of `borgo start`, and the expiry of a session.
2. The rest of an export: redirects of a loader, `404.html`, the copy of `public`.
3. What those bring to prove: every invariant that a run checks now is proved, and
   the proofs follow the model.

## Runs

Distinct states are those of a complete search.

| run | instance | states | shows |
| --- | --- | --- | --- |
| `api_server` | 1 stream, 2 publishers, 1 request, channel of 1, 2 frames | 27 266 | a handler owns exactly one slot (`SlotsOwned`); the hub implements `Broadcast` (`IsBroadcast`); streams never hold a shutdown, with a listener that may fail at boot or under way; a dark client leaves; `Publish` returns and a queued frame is taken up (`PublishedIsShown`) |
| `client` | 2 pages, 1 form, 3 intents, history of 3, 2 mutations, 1 redirect | 2 155 629 | url and page agree at rest; the last intent is what is shown; a page shows the mutations it was told of; a submit is not run twice by an answer |
| `auth` | 3 requests, 2 names, 1 slot | 537 552 | slots are neither lost, lent twice nor idle beside a queue; logins need the password that was registered, a name has one owner and a refusal leaves nothing (`AccountsSound`); refusals cost the same; everyone is answered |
| `gzip` | 2 responses, 2 pooled writers, threshold 2, 3 units, 4 calls | 688 758 | a returning handler cannot tell the middleware from `net/http`; a panic never mixes two responses; a flush delivers; nobody gets another's bytes and parked writers are idle (`PoolSafe`) |
| `page_load` | 3 chunks, zlib room 2; then 2 pages, 1 form, 2 intents | 255 207 | a clean end means a whole page; a slow client throttles React; no client strands a render or the pump, but one that stops reading and stays; every submit lets go of its form |
| `dev` | a `.go` file, two pages, a part of theirs, a style; 3 saves, or 2 and a trouble | 748 067 | one api at a time, exits blamed on the right one (`ApiProcessesSound`); a reload finds an api; api and front follow the source (`SourceIsServed`); the page on screen ends with the code of the tree (`PageFollowsSource`) and comes to rest; nothing outlives the watcher |
| `front` | 2 channels over 2 places for sockets, 1 of them publishing, 2 events, 1 fault; 2 tabs, 4 requests and api calls that set a cookie together; 2 forwarded requests, 2 retries, 2 restarts; 3 builds, 1 edit of `sw.js`; apps of 2 pages, urls of 2 segments | 623 688 | topics: events leave in order and once, a topic comes to rest with every channel open and every count true (`RealtimeSettles`); cookies: what the api sets reaches the browser, a page shows the session of its jar, a post is refused only for tokens that disagree, or a native form for two first visits (`FormsAreAccepted`); `/api`: a request reaches the api at most once and whole, 504, 502 and a relayed answer are true of the last attempt, with a deadline everyone is answered; files: a copy is one file and the current one; a worker's cache is one build; server, browser and exported site agree on the page of a url (`RoutesAgree`) |

Five runs end in a counterexample, each for one sentence of the code or docs:

* `client_race` (`UrlAlwaysMatches`): back and then forward before the first
  answer. The `popstate` listener returns at `runtime.ts:677-684` without
  superseding the navigation it undoes, which then renders under the newer url.
* `auth_stranded` (`NoStrandedAccount`): a principal over the cookie limit is
  refused by `SetSession` after the account is stored, which the comment at
  `auth.go:261-263` says cannot happen.
* `sw_pinned` (`DeployInvalidatesCache`): two builds and a `sw.js` that nobody
  edits. The browser compares the file at each visit, finds it unchanged and
  keeps the worker of the first visit, whose cache holds the entry of the first
  build under its stable name; `docs/pwa.md:44` says that a deploy invalidates
  the cache. The trace may also kill the first build, which is not needed.
* `routes_shadowed` (`LinkShowsItsPage`): a page with `hydrate = false` is not in
  the table of the client (`build.ts:129`). A link to it, with a dynamic page of the
  same shape beside it, makes `navigate` (`runtime.ts:294`) load that page's
  component and give it the props of the other, where `docs/client-navigation.md:7`
  promises those of the destination or a full navigation.
* `dev_missed` (`EditsApply`): the page on screen and another are saved shortly after
  each other. The front server restarts under the hot update of the first, whose
  retry gives way to the greeting of the second boot (`runtime.ts:735-740`); that one
  names the other page and is ignored (`runtime.ts:715`). Saved within one
  debounce window, the first is not named at all (`dev.ts:191-193`). The page
  keeps its old code, where `docs/dev-experience.md:9` has page edits apply in place.

The passing runs of `ClientRuntime`, `DevSession` and `AuthHandlers` state what holds besides,
with the exception spelled out (`raced`, `missed`, what a refusal leaves). `front` gives
`ServiceWorker` an edit of `sw.js`, so that a second install happens.

### What the properties except

An exception in a property is a fact about the code; each is in `PROJECT.json`
under the hazard it belongs to.

* `CookiesReachBrowser`: an exception loses the cookies collected so far; the
  page of `_500` is rendered without them (`util.ts:695-715`).
* `PageMatchesJar`: a loader may log in or out itself and return props. Its
  api calls all carry the cookies that the request came with
  (`docs/auth-and-sessions.md:20`), so that the page shows the session of before; the
  property still has that session be the one the action left.
* `PageMatchesJar`: after an action that sets a cookie, the loader's header is
  rebuilt without duplicates that disagree, while Go skips those it cannot
  verify and takes the one that is left (`util.ts:128-157`, `session.go:129-158`).
* `FormsAreAccepted`: two first visits mint a token each, and the native form of
  one of them is refused (`util.ts:472`).
* `RoutesAgree`: in the browser, pages that do not hydrate (above); on a static
  host, urls with empty segments between slashes or with encoded separators, which
  the server alone tells from the plain ones.
* `CopiesAreTrue`: a build that writes under a running index, and ranges without
  an index, which bun answers without consulting `If-Range`.
* `ShowsKnownMutations`: props prefetched while a post runs (`racy`), since
  `runtime.ts:435` clears the cache before the post only; against
  `docs/client-navigation.md:21`.
* `PageFollowsSource`: a page whose last greeting named another page while its own
  code had changed (`missed`); `dev_missed` shows what that breaks.
* `RealtimeSettles`: a presence count that bun dropped, for a socket with too much
  under way, stays wrong until somebody joins or leaves (`behind`). Other dropped frames
  are lost without a trace: "no replay, no delivery guarantee" (`docs/realtime.md:114`).
* `SourceIsServed`, `PageFollowsSource`: `Excused`, see the bounds.
* `NoRerun`: a post whose connection breaks after the action ran is sent again by
  the native path (`runtime.ts:443-447`).
* `NothingStranded`: a zlib that fails neither cancels the reader of its source
  nor wakes a parked pump (`compress.ts:336-338`); and a client that stops reading and
  does not leave (`Stalls`) keeps the render and the pump for ever, since
  `idleTimeout` is 0 (`server.ts:305`).

### Bounds, and why they are enough

* One stream and two publishers are the fewest for which a publisher can find a
  channel full of another's frame between any two steps of a handler. A channel
  of one is full as soon as a frame waits. The invariants and the refinement are
  proved for any number of streams, publishers and any capacity.
* Three intents overlap every pair of operations and let a third decide
  between them; two mutations tell an older answer from a newer one. The four
  invariants are proved for any number.
* One slot and three requests: one hashes, one queues, one is anywhere else.
  The invariants are proved for any number.
* Around a threshold of two units lie a response below it, at it and past it;
  four calls are a header change, a `WriteHeader` and two writes in any order.
  The four properties are proved for any number.
* Three saves are the fewest with which a file returns to what it held or a
  save falls into the rebuild of another; one trouble (a crash, a failed rename,
  lost events), in place of the third save, can fall on any step: the safety properties and `NothingOutlives`
  hold through all of them, while those that say what is served in the end
  excuse by name (`Excused`) a session with a trouble, a file that was saved
  again before its event arrived, and the end of the watcher. `ApiProcessesSound` and
  `ReloadFindsApi` are proved for any number of files, saves and troubles.
* Two pages and a part are the fewest with a greeting that is for the page on
  screen, one that is not, and one for a file that both share; with three saves one
  of them may come before, during and after the rebuild of the others.
* Two channels with two places for sockets: each may take the place the other
  has left, and meet what its last socket left behind; one fault can fall on any
  step, and every reconnect takes the same path again. Two events are the fewest
  with an order. That they stay in order is proved for any
  number. The one fault is a cut, a refused handshake or a dropped frame.
* Four of requests and cookie-setting api calls together (`MaxWork`): three requests
  and a login or logout (a first visit of each tab and a post, or an action, and a page
  after it), or two and two (an action and its loader, two loaders, a login and its
  logout in two tabs). Two are the fewest by which an old session is told from a new
  one. Proved for any number of tabs, requests and calls.
* Two forwarded requests, one retried while the other is in flight; two retries are
  one that fails and one that ends the loop, and an api that goes down twice can do so
  before the first attempt and between any two. Proved for any number.
* Three builds: a chunk changes at every second one, so that there are two
  neighbours that share it and two that do not, and a resumed copy can be older
  than the index and the index older than the tree. Proved for any number of builds.
* Precedence and the collision of two urls in one directory concern two pages, two
  segments and one list of params; a third could only repeat a pair, which the proof
  for apps of any size confirms.
* Three chunks fill zlib, both queues and React at once. The invariants are
  proved for any number of chunks and any room.

Every constant that only bounds the search is marked `bound` where it is
declared: `MaxFrames`, `MaxIntents`, `MaxHistory`, `MaxVersion`, `MaxHops` (the
code's own limit of 10), `MaxUnits`, `MaxCalls`, `MaxRestarts`, `MaxEdits`,
`MaxTroubles`, `MaxChunks`,
`MaxPublished`, `MaxFaults`, `MaxWork`, `MaxBuilds`,
`MaxPages`, `MaxSets`, `MaxSegments`. `MaxEdits`
of `ServiceWorker` counts edits of `sw.js`. Deadlock is not checked because every
one of these systems may come to rest: a session ends, a process exits, users stop
asking.

### Fairness

* `ApiServer`: goroutines, tickers, write deadlines, the shutdown hook and the
  grace timer run. Among the ready cases of a `select` Go chooses at random, so
  a closed `Done` or a waiting frame is picked in the end: strong fairness for
  `SeeDone` and `Receive`. No fairness makes a plain request finish, a client
  read, or a signal arrive.
* `AuthHandlers`: started handlers run, hashes end, the store answers, the queue
  timer fires. Clients owe neither a request nor a hang-up.
* `ClientRuntime`: requests are answered or fail, continuations run. The user
  owes nothing.
* `ApiProxy`: what the Bun runtime has due is delivered, a connection is
  accepted or refused, and a client sends its body or hangs up. Nothing makes
  a browser ask, or the api answer or come back: only the deadline may. One weak fairness of all
  requests is enough, since each has finitely many steps.
* `DocumentStream`: React settles every chunk and the event loop runs what is ready.
  Nothing makes a client read or leave, and no timeout of the server does
  (`server.ts:305`).
* `PageLoad`: that of `DocumentStream` and that of `ClientRuntime`.
* `DevSession`: the event loop runs what is due, processes start and end when
  asked, the browser reconnects. Nothing makes anybody save.
* `Realtime`: timers fire, handlers run, and each end of a cut line notices in
  the end, the browser by its own timeouts and the server by the idle timeout
  and pings that bun has for websockets, which the `idleTimeout: 0` of http leaves alone. One weak fairness of all these steps is enough, since each
  of them brings the topic closer to rest. Nobody owes a subscription, an event,
  a `close()` or a fault.
* `GzipResponse`, `Requests`, `Assets`, `ServiceWorker` and `Routes` state safety
  only.

## Proofs

| theorems | for every | argument |
| --- | --- | --- |
| `ApiServerProofs`: `HubTyping`, `SlotsOwnedAlways`, `InOrderAlways`, `HubIsBroadcast` | streams, publishers, capacity, frames | `HubInv` |
| `ApiServerProofs`: `ServerRunsHub`, `ServerSlotsOwned`, `ServerInOrder`, `ServerIsBroadcast`, `ServerTyping` | the same, and requests | every step of the server is a step of the hub or leaves it alone |
| `AuthHandlersProofs`: `AuthTyping`, `SlotsAlways`, `AccountsAlways`, `EqualCostAlways` | requests, names, passwords, slots | `AuthInv` |
| `GzipResponseProofs`: `GzipTyping`, `PoolIsIdleAlways`, `TransparentAlways`, `PanicNeverMixesAlways`, `FlushDeliversAlways`, `PoolSafeAlways` | requests, writers, threshold, calls | `GzipInv`, `Faithful` |
| `ApiProxyProofs`: `ProxyTyping`, `ReceivedOnceAlways`, `AnswerIsTrueAlways` | requests, retries, restarts | `ProxyInv` |
| `PageLoadProofs`: `DocumentTyping`, `WholeOrErrorAlways`, `ThrottledAlways` | chunks, room in zlib | `DocumentInv` |
| `PageLoadProofs`: `ClientTyping`, `UrlMatchesPageAlways`, `LastIntentShownAlways`, `ShowsKnownMutationsAlways`, `NoRerunAlways` | sites, intents, history, mutations | `ClientInv` |
| `PageLoadProofs`: `LoadRunsRuntime`, `LoadStreamsDocument`, `PageLoadSafe` | all of these | every step of a page load is one of the runtime or one of the streams |
| `DevSessionProofs`: `DevTyping`, `ApiProcessesSoundAlways`, `ReloadFindsApiAlways` | files, saves, troubles | `DevInv` |
| `RealtimeProofs`: `RealtimeTyping`, `PublishedInOrderAlways` | channels, sockets, events, faults | `RealtimeInv` |
| `FrontServerProofs`: `CookiesReachBrowserAlways`, `PageMatchesJarAlways`, `FormsAreAcceptedAlways` | tabs, requests, logins, first visits | `RequestsInv` |
| `FrontServerProofs`: `CopiesAreTrueAlways`, `CacheIsItsBuildAlways` | builds, boots, edits | `AssetsInv`, `WorkerInv` |
| `FrontServerProofs`: `RoutesAgreeAlways` | pages, segments, urls, params | `RoutesInv` |
| `FrontServerProofs`: `FrontRunsTopics`, `FrontRunsRequests`, `FrontRunsProxy`, `FrontRunsRoutes`, `FrontServerSafe` | all of these | the parts share no state |

So every invariant of a passing run is stated by a theorem, and so is the refinement
of `Broadcast`. `FrontServerSafe` and `PageLoadSafe` are about the very
specifications that the runs `front` and `page_load` check.

The assumptions are the named ones on the constants (`HubAssumption` and so on),
which TLC evaluates in every run; nothing else is assumed. One of them is not
enforced by the code: `RoutesAssumption` has the params of one file named apart.
`pages/[id]/[id].tsx` would build, and `matchPattern` would keep the last value
of the two (`router.ts:105`).

* **HubInv.** `InOrder` alone is not inductive: a publisher could append an old
  frame. `LockDiscipline` (only the holder of the lock has a frame, it is the
  newest, and it visits subscribers only), `UnvisitedIsOlder` (what an unvisited
  channel holds is older than that frame) and `HandInOrder` (the frame in a
  handler's hand lies between what was shown and what waits) close it. The
  refinement follows: `PublishLock` is `Emit`, `Subscribe` is `Join`,
  `Unsubscribe` is `Leave`, `WriteOk` of a frame is `Show`, and all else
  stutters.
* **AuthInv.** That a slot is held exactly while its handler hashes makes the
  cardinality of `holders` follow each step; `StagesAgree` ties what a handler
  knows (the hash it looked up, the answer) to its stage, and
  `AccountsHaveAuthors` ties each account to the register that stored it, which
  is what lets two registers of one name be told apart.
* **GzipInv.** `PoolIsIdle` is not inductive: a step that parks a writer must
  know that nobody else holds it. `Held` adds that the writer of a response is
  aimed at that response and not parked. Every step then is one of three: it
  moves no writer (`Calm`), it takes one that nobody holds (`Takes`), or parks
  its own (`Parks`), and each of the three is a lemma.
* **Faithful.** What the client of a response has is a function of what its
  handler asked, one function per phase. Until the handler ends, nobody has asked
  anything (`Quiet`), all of it is in the buffer (`Buffered`), it goes out as it is
  written (`Straight`), or it goes through a writer, and what was sent and what
  deflate holds make up what was written (`Zipped`). `Finished` and `Over` say what
  `finish` and the recovery make of each. A goroutine that writes later only
  touches a closed response, which changes nothing the client sees (`Shut`), and a
  step of one request moves no other's bytes, because of `Held`. The four
  properties are read off the phases.
* **ClientInv.** The four properties are conjuncts of it, and need: `OneLive` (at
  most one operation under way is still the current one, for every start raises
  `navSeq`), `AnswersKnown` (where an operation stands says what is known of
  its answer), `AddressBar` (`UrlMatchesPage`, and an operation under way that leaves the history alone goes to
  the entry it is at), `IntentKept` (the live operation is that of the
  last intent, or a `popstate` raced it) and `MutationsKept` (no fetch under way is
  behind what its reader was told).
* **PageLoad.** A step is a step of the runtime that leaves the streams alone, or the
  other way round, so the specification implies both others, fairness included, and their
  theorems carry over.
* **DocumentStream.** `Order`: the units a client has, the queue of its stream,
  those in zlib and the queue of the source are one gapless run, as long as what
  was produced; from it follows that a clean end is a whole page. `Room`, what
  the pump saw before it read, bounds how far React may be ahead.
* **ApiProxy.** `Exchange`: what the handler knows of its deadline agrees with
  the deadline of the attempt in flight, and a request that may still be sent
  again has not reached the api.
* **DevInv.** An exit is blamed on the right api only if the watcher refers to the right
  one. `Referred`: while it is up, every api alive is the one in `goProc` or the one that
  the chain has just dropped and waits for; the one in `goProc` was never asked to go. With it,
  `OneAlive` (two of them never live at once) survives the start of the next. `ExitsKnown` says how
  each ended, and `PlanBuilds` that what the chain is about to start did build.
* **RealtimeInv.** `PublishedInOrder` needs `NothingWaits` (the queue is empty
  while the socket is open, or an event would overtake those that wait) and
  `OwnSockets` (no two channels share a socket, or an `onopen` would concern
  both).
* **RequestsInv.** `Tokens`: the token of a page on the screen stays backed by the jar,
  and as long as no sibling host has set one, every token was minted for a first visit, so that
  a post can only be refused where two of those met. `Carries` and `Brings` say what a
  request under way has of the jar, and what its answer will make of it.
* **WorkerInv.** `BuildOrder`: a build removes the manifest first and writes its
  own after the entry, so that a manifest on the disk is always of the entry
  beside it, whatever build was killed. `Installing`: what an undisturbed worker
  has fetched is of the stamp it read.
* **AssetsInv.** `TreeOrder` and `IndexOrder` order the builds of the tree, its compressed
  siblings and the index. `Horizon` is the oldest build the entry may still be served
  of; it never goes down. `CopyOrder`: the bytes of a copy are of the build of its
  tag, unless that build is below the horizon, where no server will confirm
  the tag again.
* **RoutesInv.** The invariant itself is short: what is on the screen and in
  `dist/site` is what the server answers. Its base is lemmas about the table.
  `TheMostSpecific`: the first match of an ordered table is the most
  specific one. `ClientFindsIt`: the table of the browser is the same sequence with pages
  left out, so its first match is the server's whenever it has that page.
  `SameDirectory`: urls of pages that answer with a name in each segment share a
  directory only if they are the same up to slashes at the end. `FlattenSeq`
  and the first match need induction over the naturals: the library's theorem takes an operator,
  so `NatsAreInductive` states it of sets and proves it by a least
  counterexample from the well-foundedness of the naturals.
* **FrontServer.** The parts share no variable, except the tree of files, which
  `Assets` and `ServiceWorker` both read; only one of the two has work in a behaviour, and
  `FilesInv` has the invariant of that one and the other at its start.
  `FrontSpec` implies `RealtimeSpec`, `RequestsSpec`, `ProxySpec` and `RoutesSpec`.

## Only model-checked

Liveness: all properties under fairness, since `ENABLED` is out of the prover's
reach. The invariants are checked as well, on the instances above, so that the
theorems are about specifications that do something.

## Not modelled, and why

* **Of routes and export**: layouts, heads, `_404` and `_500`; redirects of an
  exported loader, `404.html`, the copy of `public` and the api process of an export.
* **The processes of `borgo start`**: of it, only what it requires of the assets.
* **Signing and expiry of a session**: functions of the token and the clock; a
  session is valid through the second in which it expires (`session.go:119`).
* **`WriteJSON`, `Handle`, cache headers, the typed bridge**: one encoding or one
  header per call, without state.
* **Health, metrics and the request log**: a probe shared for a second, and
  counters that the number of routes bounds.
* **Deploy, borgogen, scaffolding, diagnostics**: one-shot generators of
  files, compared with golden files by their own tests.
* Left out inside modelled parts: scroll positions, fragments, heads and islands
  in `ClientRuntime`; content sniffing and the negotiation of encodings in
  `GzipResponse` (whether a client accepts gzip is an input); the rewriting of
  headers in `ApiProxy`; the poll of a launcher, borgogen and css swaps inside
  the page in `DevSession`; the length of a backoff in `Realtime`; the size of a
  body, the origin check and pages without a `CsrfField` in `Requests`; the
  `Cache-Control` a browser follows without asking, and which paths may be
  served, in `Assets`; builds that change nothing in `Builds`; a worker's other
  files than the entry and one chunk in `ServiceWorker`.

Some behaviours met on the way are worth knowing besides those above:

* `isUnchanged` drops a save that changes nothing, so "save a .go file to
  restart" needs a change (`docs/faq-and-troubleshooting.md:50`), and a file saved
  three times quickly may stay stale (`overtaken`);
* a handler that panics after a part of its response is committed ends that
  response cleanly, and not with the JSON 500 of `docs/pages-and-routing.md:205`;
  `PanicNeverMixes` states what does hold;
* a dev build that is killed leaves the mode of the production build before it
  (`build.ts:341`), and `borgo start` serves what it finds;
* an event given to a socket whose line is already cut is lost without a word;
  only what is published while no socket is open waits in the queue;
* a static page with a loader that has not opted in is exported all the same when
  the `prerenderPaths` of a dynamic page beside it list its segment
  (`export.ts:213`), against `docs/deploy.md:107`.
