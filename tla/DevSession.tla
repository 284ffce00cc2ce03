----------------------------- MODULE DevSession -----------------------------
(***************************************************************************)
(* `borgo dev`: the watcher of dev.ts, the api and the front server it     *)
(* rebuilds and restarts, the dev channel and the page open in a browser.  *)
(*                                                                         *)
(* The watcher is one event loop: an action is what runs between two       *)
(* awaits of it.  A file is its contents, a build reads them all at once   *)
(* and fails if one is broken.  Stamps are the numbers of the front's      *)
(* boots.  The file system, the two toolchains, the processes and the      *)
(* browser's reload are external.  The model starts where dev() calls      *)
(* watch, both servers up.                                                 *)
(***************************************************************************)
EXTENDS Naturals, Sequences, FiniteSets

CONSTANTS
  Go,          \* the .go file
  Pages, Parts, Styles,   \* pages/*.tsx, the other .tsx, the style sheets
  Current,     \* the page the browser is on
  Unknown,     \* "__borgo_unknown__": events were lost
  Contents, Broken, First,   \* what a file may hold; what does not build; at the start
  MaxEdits,    \* bound: saves and troubles together
  MaxTroubles, \* bound: crashes of the api, failed renames and lost events
  NoFile, NoContent

AppFiles == Pages \cup Parts \cup Styles
Files == AppFiles \cup {Go}

ASSUME DevAssumption ==
  /\ IsFiniteSet(Files) /\ Go \notin AppFiles /\ Unknown \notin Files /\ NoFile \notin Files
  /\ Current \in Pages /\ Pages \cap (Parts \cup Styles) = {} /\ Parts \cap Styles = {}
  /\ Broken \subseteq Contents /\ First \in Contents \ Broken /\ NoContent \notin Contents
  /\ MaxEdits \in Nat /\ MaxTroubles \in Nat

VARIABLES
  disk,      \* the files
  events,    \* files whose change the watcher has not heard of
  lastSeen,  \* isUnchanged's hashes
  timers,    \* the debounced job of each side
  queue,     \* the rebuilds chained behind the running one
  job,       \* the running one
  liveGo,    \* liveGoHash
  goProc,    \* the api the watcher refers to, 0 for null
  apis,      \* every api spawned, in order
  front,     \* the front server
  page,      \* the browser's page
  watcher,   \* "up" or "gone"
  edits,     \* how many saves there were
  troubles,  \* history: crashes, failed renames and lost events
  reported,  \* history: the apis said to have exited on their own
  overtaken  \* history: a file was saved again before the watcher heard of it

watchVars == <<events, lastSeen, timers>>
procVars == <<liveGo, goProc, apis, front>>
vars == <<disk, watchVars, queue, job, procVars, page, watcher, edits, troubles, reported, overtaken>>

Side(f) == IF f = Go THEN "api" ELSE IF f \in Styles THEN "css" ELSE "app"
Sides == {"api", "app", "css"}
NoJob == [side |-> "none", file |-> NoFile, step |-> "idle", next |-> NoContent, previous |-> 0]
Source == [f \in AppFiles |-> disk[f]]
Builds(code) == \A f \in AppFiles : code[f] \notin Broken

Init ==
  /\ disk = [f \in Files |-> First]
  /\ events = {} /\ lastSeen = [f \in Files |-> NoContent]
  /\ timers = [s \in Sides |-> NoFile] /\ queue = <<>> /\ job = NoJob
  /\ liveGo = First /\ goProc = 1
  /\ apis = <<[state |-> "up", code |-> First, exit |-> "none"]>>
  /\ front = [state |-> "up", boot |-> 1, changed |-> NoFile, code |-> Source]
  /\ page = [shows |-> "app", code |-> Source, conn |-> 1, stamp |-> 1, doing |-> "idle", of |-> 0, missed |-> FALSE]
  /\ watcher = "up" /\ edits = 0 /\ troubles = 0 /\ reported = {}
  /\ overtaken = FALSE

-----------------------------------------------------------------------------
(* Saves and the watch.                                                    *)

\* An editor writes the file.
Save(f, c) ==
  /\ watcher = "up" /\ edits + troubles < MaxEdits /\ c # disk[f]
  /\ edits' = edits + 1
  /\ disk' = [disk EXCEPT ![f] = c]
  /\ events' = events \cup {f}
  /\ overtaken' = (overtaken \/ f \in events)
  /\ UNCHANGED <<lastSeen, timers, queue, job, procVars, page, watcher, troubles, reported>>

\* Variant: what happens during a rebuild is blamed on the rebuild.
ChangedUnlessBusy(f) ==
  /\ watcher = "up" /\ f \in events
  /\ events' = events \ {f}
  /\ IF job # NoJob \/ lastSeen[f] = disk[f] THEN UNCHANGED <<timers, lastSeen>>
     ELSE /\ lastSeen' = [lastSeen EXCEPT ![f] = disk[f]]
          /\ timers' = [timers EXCEPT ![Side(f)] = f]
  /\ UNCHANGED <<disk, queue, job, procVars, page, watcher, edits, troubles, reported, overtaken>>

\* The watch callback: what isUnchanged reads now decides; a later file of the
\* same side takes the place of an earlier one.
Changed(f) ==
  /\ watcher = "up" /\ f \in events
  /\ events' = events \ {f}
  /\ IF f \in Styles THEN timers' = [timers EXCEPT ![Side(f)] = f] /\ UNCHANGED lastSeen
     ELSE IF lastSeen[f] = disk[f] THEN UNCHANGED <<timers, lastSeen>>
     ELSE /\ lastSeen' = [lastSeen EXCEPT ![f] = disk[f]]
          /\ timers' = [timers EXCEPT ![Side(f)] = f]
  /\ UNCHANGED <<disk, queue, job, procVars, page, watcher, edits, troubles, reported, overtaken>>

MayFail == troubles < MaxTroubles /\ edits + troubles < MaxEdits   \* the bounds

\* The watch buffer overflowed; while busy, a rebuild's own writes are blamed.
EventsLost(busy) ==
  /\ watcher = "up" /\ events # {} /\ MayFail
  /\ job # NoJob => busy
  /\ troubles' = troubles + 1
  /\ events' = {}
  /\ timers' = IF busy THEN timers ELSE [timers EXCEPT !["app"] = Unknown]
  /\ UNCHANGED <<disk, lastSeen, queue, job, procVars, page, watcher, edits, reported, overtaken>>

TimerFires(s) ==
  /\ watcher = "up" /\ timers[s] # NoFile
  /\ queue' = Append(queue, [side |-> s, file |-> timers[s]])
  /\ timers' = [timers EXCEPT ![s] = NoFile]
  /\ UNCHANGED <<disk, events, lastSeen, job, procVars, page, watcher, edits, troubles, reported, overtaken>>

-----------------------------------------------------------------------------
(* The queue: one rebuild at a time.                                       *)

Alive(p) == p.state \in {"starting", "up", "term"}
Term(p) == IF p.state = "gone" THEN p ELSE [p EXCEPT !.state = "term", !.exit = "asked"]
Kill(list, g) == IF g = 0 THEN list ELSE [list EXCEPT ![g] = Term(@)]
KillFront == IF front.state = "gone" THEN front ELSE [front EXCEPT !.state = "term"]

At(side, step) == watcher = "up" /\ job.side = side /\ job.step = step
Step(step) == job' = [job EXCEPT !.step = step]
JobDone == job' = NoJob

StartJob ==
  /\ watcher = "up" /\ job = NoJob /\ queue # <<>>
  /\ LET j == Head(queue)
     IN /\ job' = [NoJob EXCEPT !.side = j.side, !.file = j.file,
                     !.step = CASE j.side = "api" -> "build"
                                [] j.side = "app" -> "stop"
                                [] j.side = "css" -> "notify"]
        /\ front' = IF j.side = "app" THEN KillFront ELSE front
  /\ queue' = Tail(queue)
  /\ UNCHANGED <<disk, watchVars, liveGo, goProc, apis, page, watcher, edits, troubles, reported, overtaken>>

GoBuild ==
  /\ At("api", "build")
  /\ job' = [job EXCEPT !.step = "built", !.next = disk[Go]]
  /\ UNCHANGED <<disk, watchVars, queue, procVars, page, watcher, edits, troubles, reported, overtaken>>

BuildFails ==
  /\ At("api", "built") /\ job.next \in Broken
  /\ JobDone
  /\ UNCHANGED <<disk, watchVars, queue, procVars, page, watcher, edits, troubles, reported, overtaken>>

\* goProc.exitCode is null.
Running == goProc # 0 /\ Alive(apis[goProc])

\* The binary the live api runs: no swap, no reload.
BuildUnchanged ==
  /\ At("api", "built") /\ job.next = liveGo /\ Running
  /\ JobDone
  /\ UNCHANGED <<disk, watchVars, queue, procVars, page, watcher, edits, troubles, reported, overtaken>>

\* The reference goes before the kill, so that the exit is known to be asked for.
StopApi ==
  /\ At("api", "built") /\ job.next \notin Broken /\ ~(job.next = liveGo /\ Running)
  /\ liveGo' = job.next
  /\ job' = [job EXCEPT !.step = "stop", !.previous = goProc]
  /\ goProc' = 0
  /\ apis' = Kill(apis, goProc)
  /\ UNCHANGED <<disk, watchVars, queue, front, page, watcher, edits, troubles, reported, overtaken>>

\* Variant: the old api may still be draining.
PreviousGoneOrDraining == TRUE

PreviousGone == job.previous # 0 => apis[job.previous].state = "gone"

SpawnApi ==
  /\ At("api", "stop") /\ PreviousGone
  /\ apis' = Append(apis, [state |-> "starting", code |-> job.next, exit |-> "none"])
  /\ goProc' = Len(apis) + 1
  /\ Step("ready")
  /\ UNCHANGED <<disk, watchVars, queue, liveGo, front, page, watcher, edits, troubles, reported, overtaken>>

\* A process of another session holds the binary: the api stays down.
RenameFails ==
  /\ At("api", "stop") /\ PreviousGone /\ MayFail
  /\ troubles' = troubles + 1
  /\ JobDone
  /\ UNCHANGED <<disk, watchVars, queue, procVars, page, watcher, edits, reported, overtaken>>

\* Variant: the reload does not wait for the api.
ApiAnswersEarly ==
  /\ At("api", "ready")
  /\ Step("notify")
  /\ UNCHANGED <<disk, watchVars, queue, procVars, page, watcher, edits, troubles, reported, overtaken>>

\* apiReady.
ApiAnswers ==
  /\ At("api", "ready") /\ apis[Len(apis)].state = "up"
  /\ Step("notify")
  /\ UNCHANGED <<disk, watchVars, queue, procVars, page, watcher, edits, troubles, reported, overtaken>>

\* It exited, or 30 s have passed.
ApiNotReady ==
  /\ At("api", "ready") /\ apis[Len(apis)].state \in {"starting", "gone"}
  /\ JobDone
  /\ UNCHANGED <<disk, watchVars, queue, procVars, page, watcher, edits, troubles, reported, overtaken>>

\* The exit callback of the api the watcher still refers to.
ExitSeen ==
  /\ watcher = "up" /\ goProc # 0 /\ apis[goProc].state = "gone"
  /\ reported' = reported \cup {goProc}
  /\ goProc' = 0
  /\ UNCHANGED <<disk, watchVars, queue, job, liveGo, apis, front, page, watcher, edits, troubles, overtaken>>

SpawnFront ==
  /\ At("app", "stop") /\ front.state = "gone"
  /\ front' = [state |-> "booting", boot |-> front.boot + 1, changed |-> job.file, code |-> Source]
  /\ Step("ready")
  /\ UNCHANGED <<disk, watchVars, queue, liveGo, goProc, apis, page, watcher, edits, troubles, reported, overtaken>>

\* It answers, it exited or 30 s have passed.
FrontAnswers ==
  /\ At("app", "ready")
  /\ JobDone
  /\ UNCHANGED <<disk, watchVars, queue, procVars, page, watcher, edits, troubles, reported, overtaken>>

Serving == front.state \in {"up", "fallback"}

NotifyGivesUp ==
  /\ At("api", "notify") \/ At("css", "notify")
  /\ ~Serving
  /\ JobDone
  /\ UNCHANGED <<disk, watchVars, queue, procVars, page, watcher, edits, troubles, reported, overtaken>>

\* The front compiles the styles again, unless one is broken.
SwapCss ==
  /\ At("css", "notify") /\ front.state = "up"
  /\ front' = IF \E f \in Styles : disk[f] \in Broken THEN front
              ELSE [front EXCEPT !.code = [f \in AppFiles |-> IF f \in Styles THEN disk[f] ELSE @[f]]]
  /\ JobDone
  /\ UNCHANGED <<disk, watchVars, queue, liveGo, goProc, apis, page, watcher, edits, troubles, reported, overtaken>>

\* The front is parked on a build error: x-borgo-fallback.
CssRestartsFallback ==
  /\ At("css", "notify") /\ front.state = "fallback"
  /\ job' = [job EXCEPT !.side = "app", !.step = "stop"]
  /\ front' = KillFront
  /\ UNCHANGED <<disk, watchVars, queue, liveGo, goProc, apis, page, watcher, edits, troubles, reported, overtaken>>

-----------------------------------------------------------------------------
(* The processes.                                                          *)

Untouched == UNCHANGED <<disk, watchVars, queue, job, liveGo, goProc, page, watcher, edits, reported, overtaken>>

\* An api listens, drains to its end, or exits with the watcher (watchParent).
ApiMoves(g) ==
  /\ \/ /\ apis[g].state = "starting"
        /\ apis' = [apis EXCEPT ![g].state = "up"]
     \/ /\ apis[g].state = "term"
        /\ apis' = [apis EXCEPT ![g].state = "gone"]
     \/ /\ watcher = "gone" /\ apis[g].state \in {"starting", "up"}
        /\ apis' = [apis EXCEPT ![g] = Term(@)]
  /\ UNCHANGED <<front, troubles>> /\ Untouched

ApiCrashes(g) ==
  /\ apis[g].state \in {"starting", "up"} /\ MayFail
  /\ troubles' = troubles + 1
  /\ apis' = [apis EXCEPT ![g].state = "gone", ![g].exit = "own"]
  /\ UNCHANGED front /\ Untouched

\* serve() builds what is on disk now; serve-entry.ts serves the error if it cannot.
FrontBoots ==
  /\ front.state = "booting"
  /\ front' = [front EXCEPT !.code = Source, !.state = IF Builds(Source) THEN "up" ELSE "fallback"]
  /\ UNCHANGED <<apis, troubles>> /\ Untouched

\* Variant: only a signal ends the front server.
FrontEndsBySignal ==
  /\ front.state = "term"
  /\ front' = [front EXCEPT !.state = "gone"]
  /\ UNCHANGED <<apis, troubles>> /\ Untouched

\* A signal, or the poll of the watcher's pid.
FrontEnds ==
  /\ front.state = "term" \/ (watcher = "gone" /\ front.state # "gone")
  /\ front' = [front EXCEPT !.state = "gone"]
  /\ UNCHANGED <<apis, troubles>> /\ Untouched

\* With the exit hook (ctrl-c, an uncaught exception) or without it (a kill); what
\* the watcher held in memory is gone with it.
WatcherExits(hook) ==
  /\ watcher = "up"
  /\ watcher' = "gone"
  /\ IF hook THEN apis' = Kill(apis, goProc) /\ front' = KillFront ELSE UNCHANGED <<apis, front>>
  /\ events' = {} /\ lastSeen' = [f \in Files |-> NoContent] /\ timers' = [s \in Sides |-> NoFile]
  /\ queue' = <<>> /\ job' = NoJob /\ liveGo' = First /\ goProc' = 0
  /\ UNCHANGED <<disk, page, edits, troubles, reported, overtaken>>

-----------------------------------------------------------------------------
(* The page: attachDevChannel of runtime.ts, and the overlay's own client. *)

Chunk == {Current} \cup Parts     \* what the code of the current page is built from
OnPage == page.shows # "dead"
NotPage == UNCHANGED <<disk, watchVars, queue, procVars, watcher, edits, troubles, reported, overtaken, job>>

\* Variant: the greeting of a boot is applied however often it comes.
GreetedAgain ==
  IF front.changed = NoFile THEN page ELSE [page EXCEPT !.doing = "loading"]

\* The code the page runs is not what the front has built for it.
Stale == \E f \in Chunk : page.code[f] # front.code[f]

\* applyUpdate up to its first await, on the greeting of this boot.  It names one
\* file, the last one saved: another page's is not for this page, and missed says
\* that the page went without a change of its own that way.
Greeted ==
  IF front.changed = NoFile \/ front.boot <= page.stamp THEN page
  ELSE IF page.shows = "overlay" THEN [page EXCEPT !.doing = "loading"]
  ELSE LET p == [page EXCEPT !.stamp = front.boot]
       IN IF front.changed \in Styles \cup {Unknown} THEN [p EXCEPT !.doing = "loading"]
          ELSE IF front.changed \in Pages \ {Current} THEN [p EXCEPT !.missed = Stale]
          ELSE IF front.state = "fallback" THEN [p EXCEPT !.doing = "loading"]
          ELSE [p EXCEPT !.doing = "applying", !.of = front.boot]

\* The socket opens (again), and a boot that follows a change greets it.
Connect ==
  /\ Serving /\ OnPage /\ page.conn # front.boot /\ page.doing # "loading"
  /\ page' = [Greeted EXCEPT !.conn = front.boot]
  /\ NotPage

\* The chunk and the props of this boot have come.
Apply ==
  /\ page.doing = "applying" /\ front.state = "up" /\ front.boot = page.of
  /\ page' = [page EXCEPT !.doing = "idle", !.code = front.code, !.missed = FALSE]
  /\ NotPage

\* The front went away under them, or the loader failed without an api.
ApplyFails ==
  /\ page.doing = "applying"
  /\ front.state # "up" \/ front.boot # page.of \/ (\A g \in DOMAIN apis : apis[g].state # "up")
  /\ page' = [page EXCEPT !.doing = "retrying"]
  /\ NotPage

\* Variant: an update that failed is given up.
RetryQuits ==
  /\ page.doing = "retrying"
  /\ page' = [page EXCEPT !.doing = "idle"]
  /\ NotPage

\* 3 s later: reload, unless a newer boot's greeting took over.
Retry ==
  /\ page.doing = "retrying"
  /\ page' = [page EXCEPT !.doing = IF page.stamp # page.of THEN "idle" ELSE "loading"]
  /\ NotPage

\* location.reload(), answered by whatever has the port.
Load ==
  /\ page.doing = "loading"
  /\ page' = [shows |-> IF front.state = "up" THEN "app" ELSE IF Serving THEN "overlay" ELSE "dead",
              code |-> front.code, conn |-> 0,
              stamp |-> IF Serving THEN front.boot ELSE page.stamp,
              doing |-> "idle", of |-> 0, missed |-> FALSE]
  /\ NotPage

\* notifyFront("reload"), broadcast to the sockets that are open.
NotifyReload ==
  /\ At("api", "notify") /\ Serving
  /\ page' = IF OnPage /\ page.conn = front.boot THEN [page EXCEPT !.doing = "loading"] ELSE page
  /\ JobDone
  /\ UNCHANGED <<disk, watchVars, queue, procVars, watcher, edits, troubles, reported, overtaken>>

-----------------------------------------------------------------------------
\* What the watcher's event loop has due.
EventLoop ==
  \/ \E f \in Files : Changed(f)
  \/ \E s \in Sides : TimerFires(s)
  \/ StartJob \/ GoBuild \/ BuildFails \/ BuildUnchanged \/ StopApi \/ SpawnApi
  \/ ApiAnswers \/ ApiNotReady \/ SpawnFront \/ FrontAnswers
  \/ NotifyReload \/ NotifyGivesUp \/ SwapCss \/ CssRestartsFallback \/ ExitSeen

Processes == FrontBoots \/ FrontEnds \/ \E g \in DOMAIN apis : ApiMoves(g)

Browser == Connect \/ Apply \/ ApplyFails \/ Retry \/ Load

Next ==
  \/ \E f \in Files, c \in Contents : Save(f, c)
  \/ \E busy \in BOOLEAN : EventsLost(busy)
  \/ EventLoop \/ RenameFails
  \/ Processes \/ \E g \in DOMAIN apis : ApiCrashes(g)
  \/ \E hook \in BOOLEAN : WatcherExits(hook)
  \/ Browser

\* The event loop runs what is due, processes start and end, the page reconnects.
\* Nothing makes anybody save, and nothing makes anything fail.
Fairness == WF_vars(EventLoop) /\ WF_vars(Processes) /\ WF_vars(Browser)

Spec == Init /\ [][Next]_vars /\ Fairness

-----------------------------------------------------------------------------
(* Properties.                                                             *)

Codes == [AppFiles -> Contents]
Steps == {"idle", "build", "built", "stop", "ready", "notify"}

TypeOK ==
  /\ disk \in [Files -> Contents] /\ events \subseteq Files
  /\ lastSeen \in [Files -> Contents \cup {NoContent}]
  /\ timers \in [Sides -> Files \cup {NoFile, Unknown}]
  /\ queue \in Seq([side : Sides, file : Files \cup {Unknown}])
  /\ job \in [side : Sides \cup {"none"}, file : Files \cup {NoFile, Unknown}, step : Steps,
              next : Contents \cup {NoContent}, previous : 0..Len(apis)]
  /\ liveGo \in Contents \ Broken /\ goProc \in 0..Len(apis)
  /\ apis \in Seq([state : {"starting", "up", "term", "gone"}, code : Contents \ Broken,
                   exit : {"none", "asked", "own"}])
  /\ front \in [state : {"booting", "up", "fallback", "term", "gone"}, boot : Nat \ {0},
                changed : Files \cup {NoFile, Unknown}, code : Codes]
  /\ page \in [shows : {"app", "overlay", "dead"}, code : Codes, conn : 0..front.boot,
               stamp : 1..front.boot, of : 0..front.boot,
               doing : {"idle", "applying", "retrying", "loading"}, missed : BOOLEAN]
  /\ watcher \in {"up", "gone"} /\ edits \in 0..MaxEdits /\ troubles \in 0..MaxTroubles
  /\ reported \subseteq DOMAIN apis /\ overtaken \in BOOLEAN

\* A new api is never started beside an old one that still has the port and, on
\* windows, the binary, however the rebuilds, crashes and restarts fall.
OneApi == Cardinality({g \in DOMAIN apis : Alive(apis[g])}) <= 1

\* "the api exited on its own" is said of no api the watcher itself stopped.
OnlyOwnExitsReported == \A g \in reported : apis[g].exit = "own"

\* Both: at every moment one api at most, and no exit blamed on the wrong one.
ApiProcessesSound == OneApi /\ OnlyOwnExitsReported

\* The browsers are told to reload only once the new api has answered: it serves,
\* or it crashed since.
ReloadFindsApi ==
  At("api", "notify") => LET p == apis[Len(apis)] IN p.state = "up" \/ p.exit = "own"

\* A file that is saved three times may end as the watcher last read it while a
\* build read what it held in between: isUnchanged drops the last event, and what
\* was built is stale until the next save.
Excused == watcher = "gone" \/ troubles > 0 \/ overtaken

\* Once the saves stop, the api that serves was built from the .go file as it is
\* now; if that does not build, one built from an earlier state keeps serving.
ApiFollowsSource ==
  <>[](\/ Excused
       \/ \E g \in DOMAIN apis : /\ apis[g].state = "up"
                                 /\ disk[Go] \in Broken \/ apis[g].code = disk[Go])

\* And the front server serves the tree as it is now, or something at least, the
\* error overlay included, while the tree does not build.
FrontFollowsSource ==
  <>[](\/ Excused
       \/ IF Builds(Source) THEN front.state = "up" /\ front.code = Source ELSE Serving)

\* Both: what serves, behind and in front, is what was saved last.
SourceIsServed == ApiFollowsSource /\ FrontFollowsSource

Follows == page.shows = "app" /\ \A f \in Chunk : page.code[f] = disk[f]
Lost == Excused \/ ~Builds(Source) \/ page.shows = "dead"

\* Once the saves stop, a page that is not lost runs the code of the tree as it
\* is now, through every hot update, restart and error overlay in between.  A page
\* that was told of another page only, while its own code had changed too, is
\* excepted: EditsApply says what that breaks.
PageFollowsSource == <>[](Lost \/ page.missed \/ Follows)

\* "Component, page and hook edits apply in place" (docs/dev-experience.md:9).  It
\* does not hold of a page saved together with another, or shortly before: the
\* debounce keeps the last file only (dev.ts:191-193), and the page ignores a
\* greeting that names another page (runtime.ts:715).
EditsApply == <>[](Lost \/ Follows)

\* The greeting of a boot, sent anew at every reconnect, does not reload a page
\* for ever: it comes to rest.
PageComesToRest == <>[](page.doing = "idle" \/ page.shows = "dead")

\* However the watcher ends, no api and no front server outlives it.
NothingOutlives ==
  watcher = "gone" ~> front.state = "gone" /\ \A g \in DOMAIN apis : ~Alive(apis[g])
=============================================================================
