-------------------------- MODULE DevSessionProofs --------------------------
(***************************************************************************)
(* Proofs about DevSession, packages/borgo/src/dev.ts, for any number of   *)
(* edits, files, builds and processes.                                     *)
(*                                                                         *)
(* ApiProcessesSound is not inductive: an api that the watcher stops is    *)
(* still there while the watcher waits, starts the next or is killed.      *)
(* ProcessInv says how each api came to its end (ExitsKnown), which of     *)
(* them the watcher still has a hand on (Referred), that at most one of    *)
(* them is alive (OneAlive) and what a rebuild under way will do with them *)
(* (PlanBuilds).                                                           *)
(***************************************************************************)
EXTENDS DevSession, SequenceTheorems, FiniteSetTheorems, TLAPS

-----------------------------------------------------------------------------
(* The invariant.                                                          *)

\* How an api can have ended: the watcher asked, or it exited on its own.
ExitsKnown ==
  \A g \in DOMAIN apis :
    /\ apis[g].state \in {"starting", "up"} => apis[g].exit = "none"
    /\ apis[g].state = "term" => apis[g].exit = "asked"
    /\ apis[g].state = "gone" => apis[g].exit # "none"

\* Between two awaits the watcher refers to every api there is, but for the one it
\* has just dropped and waits for; and it never asked the one it refers to to go.
Referred ==
  watcher = "up" =>
    /\ \A g \in DOMAIN apis :
         Alive(apis[g]) => g = goProc \/ (At("api", "stop") /\ g = job.previous)
    /\ goProc # 0 => apis[goProc].exit # "asked"
    /\ At("api", "stop") => goProc = 0

OneAlive == \A g, h \in DOMAIN apis : Alive(apis[g]) /\ Alive(apis[h]) => g = h

\* What was read to be built, and what is about to be started, which did build.
PlanBuilds ==
  /\ At("api", "built") => job.next \in Contents
  /\ At("api", "stop") => job.next \in Contents \ Broken

ProcessInv ==
  /\ ExitsKnown /\ Referred /\ OneAlive /\ PlanBuilds
  /\ OnlyOwnExitsReported /\ ReloadFindsApi

DevInv == TypeOK /\ ProcessInv

-----------------------------------------------------------------------------
(* Types, one part of the state at a time.                                 *)

JobType(procs) ==
  [side : Sides \cup {"none"}, file : Files \cup {NoFile, Unknown}, step : Steps,
   next : Contents \cup {NoContent}, previous : 0..procs]
ProcType ==
  [state : {"starting", "up", "term", "gone"}, code : Contents \ Broken,
   exit : {"none", "asked", "own"}]
FrontType ==
  [state : {"booting", "up", "fallback", "term", "gone"}, boot : Nat \ {0},
   changed : Files \cup {NoFile, Unknown}, code : Codes]
PageType(boot) ==
  [shows : {"app", "overlay", "dead"}, code : Codes, conn : 0..boot, stamp : 1..boot,
   of : 0..boot, doing : {"idle", "applying", "retrying", "loading"}, missed : BOOLEAN]

Watching ==
  /\ disk \in [Files -> Contents] /\ events \subseteq Files
  /\ lastSeen \in [Files -> Contents \cup {NoContent}]
  /\ timers \in [Sides -> Files \cup {NoFile, Unknown}]
  /\ queue \in Seq([side : Sides, file : Files \cup {Unknown}])
Procs ==
  /\ liveGo \in Contents \ Broken /\ goProc \in 0..Len(apis)
  /\ apis \in Seq(ProcType) /\ reported \subseteq DOMAIN apis
Counts ==
  /\ watcher \in {"up", "gone"} /\ edits \in 0..MaxEdits /\ troubles \in 0..MaxTroubles
  /\ overtaken \in BOOLEAN
Fronts == front \in FrontType
Shown == page \in PageType(front.boot)
JobOK == job \in JobType(Len(apis))

LEMMA DevTypes == TypeOK <=> Watching /\ JobOK /\ Procs /\ Fronts /\ Shown /\ Counts
  BY DEF TypeOK, Watching, JobOK, Procs, Fronts, Shown, Counts, JobType, ProcType,
         FrontType, PageType

LEMMA SourceIsCode == ASSUME Watching PROVE Source \in Codes
  BY DEF Watching, Source, Codes, Files

LEMMA WatchingStep == Watching /\ [Next]_vars => Watching'
<1> SUFFICES ASSUME Watching, [Next]_vars PROVE Watching' OBVIOUS
<1> USE DEF Watching, watchVars, procVars
<1>1. CASE \E f \in Files, c \in Contents : Save(f, c) BY <1>1 DEF Save
<1>2. CASE \E busy \in BOOLEAN : EventsLost(busy) BY <1>2 DEF EventsLost
<1>3. CASE \E f \in Files : Changed(f) BY <1>3 DEF Changed
<1>4. CASE \E s \in Sides : TimerFires(s)
  <2> PICK s \in Sides : TimerFires(s) BY <1>4
  <2>1. timers[s] \in Files \cup {Unknown} BY DEF TimerFires
  <2>2. queue' \in Seq([side : Sides, file : Files \cup {Unknown}])
    BY <2>1 DEF TimerFires
  <2>3. QED BY <2>2 DEF TimerFires
<1>5. CASE StartJob
  <2>1. queue' \in Seq([side : Sides, file : Files \cup {Unknown}])
    BY <1>5, HeadTailProperties DEF StartJob
  <2>2. QED BY <1>5, <2>1 DEF StartJob
<1>6. CASE \E hook \in BOOLEAN : WatcherExits(hook) BY <1>6 DEF WatcherExits
<1>7. CASE Browser
  BY <1>7 DEF Browser, Connect, Apply, ApplyFails, Retry, Load, NotPage
<1>8. CASE Processes \/ \E g \in DOMAIN apis : ApiCrashes(g)
  BY <1>8 DEF Processes, FrontBoots, FrontEnds, ApiMoves, ApiCrashes, Untouched
<1>9. CASE \/ GoBuild \/ BuildFails \/ BuildUnchanged \/ StopApi \/ SpawnApi \/ RenameFails
           \/ ApiAnswers \/ ApiNotReady \/ ExitSeen
  BY <1>9 DEF GoBuild, BuildFails, BuildUnchanged, StopApi, SpawnApi, RenameFails,
              ApiAnswers, ApiNotReady, ExitSeen
<1>10. CASE \/ SpawnFront \/ FrontAnswers \/ NotifyReload \/ NotifyGivesUp \/ SwapCss
            \/ CssRestartsFallback
  BY <1>10 DEF SpawnFront, FrontAnswers, NotifyReload, NotifyGivesUp, SwapCss,
               CssRestartsFallback
<1>11. CASE UNCHANGED vars BY <1>11 DEF vars
<1>12. QED
  BY <1>1, <1>2, <1>3, <1>4, <1>5, <1>6, <1>7, <1>8, <1>9, <1>10, <1>11 DEF Next, EventLoop

LEMMA CountsStep == Counts /\ [Next]_vars => Counts'
<1> SUFFICES ASSUME Counts, [Next]_vars PROVE Counts' OBVIOUS
<1>1. MaxEdits \in Nat /\ MaxTroubles \in Nat BY DevAssumption
<1> USE <1>1 DEF Counts
<1>2. CASE \E f \in Files, c \in Contents : Save(f, c) BY <1>2 DEF Save
<1>3. CASE \E busy \in BOOLEAN : EventsLost(busy) BY <1>3 DEF EventsLost, MayFail
<1>4. CASE RenameFails BY <1>4 DEF RenameFails, MayFail
<1>5. CASE \E g \in DOMAIN apis : ApiCrashes(g) BY <1>5 DEF ApiCrashes, Untouched, MayFail
<1>6. CASE Processes BY <1>6 DEF Processes, FrontBoots, FrontEnds, ApiMoves, Untouched
<1>7. CASE \E hook \in BOOLEAN : WatcherExits(hook) BY <1>7 DEF WatcherExits
<1>8. CASE Browser
  BY <1>8 DEF Browser, Connect, Apply, ApplyFails, Retry, Load, NotPage
<1>9. CASE \/ (\E f \in Files : Changed(f)) \/ (\E s \in Sides : TimerFires(s))
           \/ StartJob \/ GoBuild \/ BuildFails \/ BuildUnchanged \/ StopApi \/ SpawnApi
  BY <1>9 DEF Changed, TimerFires, StartJob, GoBuild, BuildFails, BuildUnchanged, StopApi,
              SpawnApi
<1>10. CASE \/ ApiAnswers \/ ApiNotReady \/ ExitSeen \/ SpawnFront \/ FrontAnswers
            \/ NotifyReload \/ NotifyGivesUp \/ SwapCss \/ CssRestartsFallback
  BY <1>10 DEF ApiAnswers, ApiNotReady, ExitSeen, SpawnFront, FrontAnswers, NotifyReload,
               NotifyGivesUp, SwapCss, CssRestartsFallback
<1>11. CASE UNCHANGED vars BY <1>11 DEF vars
<1>12. QED
  BY <1>2, <1>3, <1>4, <1>5, <1>6, <1>7, <1>8, <1>9, <1>10, <1>11 DEF Next, EventLoop

LEMMA FrontsStep == Fronts /\ Watching /\ JobOK /\ [Next]_vars => Fronts'
<1> SUFFICES ASSUME Fronts, Watching, JobOK, [Next]_vars PROVE Fronts' OBVIOUS
<1> USE DEF Fronts, watchVars, procVars
<1>1. KillFront \in FrontType BY DEF KillFront, FrontType
<1>2. CASE StartJob \/ CssRestartsFallback \/ \E hook \in BOOLEAN : WatcherExits(hook)
  BY <1>1, <1>2 DEF StartJob, CssRestartsFallback, WatcherExits
<1>3. CASE SpawnFront
  <2>1. front.boot + 1 \in Nat \ {0} /\ job.file \in Files \cup {NoFile, Unknown}
    BY DEF FrontType, JobOK, JobType
  <2>2. QED BY <1>3, <2>1, SourceIsCode DEF SpawnFront, FrontType
<1>4. CASE SwapCss
  <2>1. [f \in AppFiles |-> IF f \in Styles THEN disk[f] ELSE front.code[f]] \in Codes
    BY DEF Watching, FrontType, Codes, Files
  <2>2. QED BY <1>4, <2>1 DEF SwapCss, FrontType
<1>5. CASE FrontBoots BY <1>5, SourceIsCode DEF FrontBoots, FrontType
<1>6. CASE FrontEnds BY <1>6 DEF FrontEnds, FrontType
<1>7. CASE (\E f \in Files, c \in Contents : Save(f, c)) \/ \E busy \in BOOLEAN : EventsLost(busy)
  BY <1>7 DEF Save, EventsLost
<1>8. CASE \E g \in DOMAIN apis : ApiMoves(g) \/ ApiCrashes(g)
  BY <1>8 DEF ApiMoves, ApiCrashes
<1>9. CASE Browser
  BY <1>9 DEF Browser, Connect, Apply, ApplyFails, Retry, Load, NotPage
<1>10. CASE \/ (\E f \in Files : Changed(f)) \/ (\E s \in Sides : TimerFires(s))
            \/ GoBuild \/ BuildFails \/ BuildUnchanged \/ StopApi \/ SpawnApi \/ RenameFails
            \/ ApiAnswers \/ ApiNotReady \/ ExitSeen \/ FrontAnswers \/ NotifyReload
            \/ NotifyGivesUp
  BY <1>10 DEF Changed, TimerFires, GoBuild, BuildFails, BuildUnchanged, StopApi, SpawnApi,
               RenameFails, ApiAnswers, ApiNotReady, ExitSeen, FrontAnswers, NotifyReload,
               NotifyGivesUp
<1>11. CASE UNCHANGED vars BY <1>11 DEF vars
<1>12. QED
  BY <1>2, <1>3, <1>4, <1>5, <1>6, <1>7, <1>8, <1>9, <1>10, <1>11
  DEF Next, EventLoop, Processes

LEMMA ShownStep == Shown /\ Fronts /\ [Next]_vars => Shown'
<1> SUFFICES ASSUME Shown, Fronts, [Next]_vars PROVE Shown' OBVIOUS
<1> USE DEF watchVars, procVars
<1>1. front.boot \in Nat \ {0} /\ front.code \in Codes BY DEF Fronts, FrontType
<1>2. ASSUME page' = page, front'.boot = front.boot \/ front'.boot = front.boot + 1
      PROVE  Shown'
  BY <1>1, <1>2 DEF Shown, PageType
<1>3. KillFront.boot = front.boot BY DEF Fronts, KillFront, FrontType
<1>4. ASSUME page' \in PageType(front.boot), front' = front PROVE Shown' BY <1>4 DEF Shown
<1>5. CASE Connect
  <2>1. Greeted \in PageType(front.boot)
    <3>1. page \in PageType(front.boot) /\ front.boot \in 0..front.boot
          /\ front.boot \in 1..front.boot
      BY <1>1 DEF Shown
    <3>2. /\ [page EXCEPT !.doing = "loading"] \in PageType(front.boot)
          /\ [page EXCEPT !.stamp = front.boot] \in PageType(front.boot)
      BY <3>1 DEF PageType
    <3>3. \A p \in PageType(front.boot) :
            /\ [p EXCEPT !.doing = "loading"] \in PageType(front.boot)
            /\ [p EXCEPT !.doing = "applying", !.of = front.boot] \in PageType(front.boot)
            /\ [p EXCEPT !.missed = Stale] \in PageType(front.boot)
      <4>1. Stale \in BOOLEAN BY Zenon DEF Stale
      <4>2. TAKE p \in PageType(front.boot)
      <4>3. [p EXCEPT !.missed = Stale] \in PageType(front.boot) BY <4>1, <4>2 DEF PageType
      <4>4. QED BY <3>1, <4>2, <4>3 DEF PageType
    <3>4. QED BY <3>1, <3>2, <3>3 DEF Greeted
  <2>2. [Greeted EXCEPT !.conn = front.boot] \in PageType(front.boot)
    BY <1>1, <2>1 DEF PageType
  <2>3. QED BY <1>4, <1>5, <2>2 DEF Connect, NotPage
<1>6. CASE Apply BY <1>1, <1>4, <1>6 DEF Apply, NotPage, Shown, PageType
<1>7. CASE ApplyFails \/ Retry BY <1>4, <1>7 DEF ApplyFails, Retry, NotPage, Shown, PageType
<1>8. CASE Load
  <2>1. page.stamp \in 1..front.boot BY DEF Shown, PageType
  <2>2. page' \in PageType(front.boot) BY <1>1, <1>8, <2>1 DEF Load, PageType
  <2>3. QED BY <1>4, <1>8, <2>2 DEF Load, NotPage
<1>9. CASE NotifyReload BY <1>4, <1>9 DEF NotifyReload, Shown, PageType
<1>10. CASE StartJob \/ CssRestartsFallback \/ \E hook \in BOOLEAN : WatcherExits(hook)
  BY <1>2, <1>3, <1>10 DEF StartJob, CssRestartsFallback, WatcherExits
<1>11. CASE SpawnFront \/ SwapCss \/ FrontBoots \/ FrontEnds
  <2>1. page' = page
    BY <1>11 DEF SpawnFront, SwapCss, FrontBoots, FrontEnds, Untouched
  <2>2. front'.boot = front.boot \/ front'.boot = front.boot + 1
    <3>1. CASE SpawnFront BY <3>1 DEF SpawnFront
    <3>2. CASE SwapCss BY <3>2 DEF SwapCss, Fronts, FrontType
    <3>3. CASE FrontBoots \/ FrontEnds BY <3>3 DEF FrontBoots, FrontEnds, Fronts, FrontType
    <3>4. QED BY <1>11, <3>1, <3>2, <3>3
  <2>3. QED BY <1>2, <2>1, <2>2
<1>12. CASE (\E f \in Files, c \in Contents : Save(f, c)) \/ \E busy \in BOOLEAN : EventsLost(busy)
  BY <1>2, <1>12 DEF Save, EventsLost
<1>13. CASE \E g \in DOMAIN apis : ApiMoves(g) \/ ApiCrashes(g)
  BY <1>2, <1>13 DEF ApiMoves, ApiCrashes, Untouched
<1>14. CASE \/ (\E f \in Files : Changed(f)) \/ (\E s \in Sides : TimerFires(s))
            \/ GoBuild \/ BuildFails \/ BuildUnchanged \/ StopApi \/ SpawnApi \/ RenameFails
            \/ ApiAnswers \/ ApiNotReady \/ ExitSeen \/ FrontAnswers \/ NotifyGivesUp
  BY <1>2, <1>14 DEF Changed, TimerFires, GoBuild, BuildFails, BuildUnchanged, StopApi,
                     SpawnApi, RenameFails, ApiAnswers, ApiNotReady, ExitSeen, FrontAnswers,
                     NotifyGivesUp
<1>15. CASE UNCHANGED vars BY <1>2, <1>15 DEF vars
<1>16. QED
  BY <1>5, <1>6, <1>7, <1>8, <1>9, <1>10, <1>11, <1>12, <1>13, <1>14, <1>15
  DEF Next, EventLoop, Processes, Browser
-----------------------------------------------------------------------------
(* The list of api processes.                                              *)

\* Asking one to go changes its state, and how it ends unless it is gone.
LEMMA KillFacts ==
  ASSUME apis \in Seq(ProcType), NEW k \in 0..Len(apis)
  PROVE  /\ Kill(apis, k) \in Seq(ProcType) /\ Len(Kill(apis, k)) = Len(apis)
         /\ \A g \in DOMAIN apis :
              Kill(apis, k)[g] = IF g = k THEN Term(apis[g]) ELSE apis[g]
<1>1. \A g \in DOMAIN apis : apis[g] \in ProcType OBVIOUS
<1>2. \A p \in ProcType : Term(p) \in ProcType BY DEF Term, ProcType
<1>3. CASE k = 0 BY <1>3 DEF Kill
<1>4. CASE k # 0 BY <1>1, <1>2, <1>4 DEF Kill
<1>5. QED BY <1>3, <1>4

\* The steps of one api: only its own entry changes.
LEMMA ApiMovesFacts ==
  ASSUME Procs, NEW g \in DOMAIN apis, ApiMoves(g) \/ ApiCrashes(g)
  PROVE  /\ apis' \in Seq(ProcType) /\ Len(apis') = Len(apis)
         /\ \A h \in DOMAIN apis : h # g => apis'[h] = apis[h]
         /\ UNCHANGED <<goProc, liveGo, reported, job, watcher>>
         /\ \/ apis[g].state = "starting" /\ apis'[g] = [apis[g] EXCEPT !.state = "up"]
            \/ apis[g].state = "term" /\ apis'[g] = [apis[g] EXCEPT !.state = "gone"]
            \/ watcher = "gone" /\ apis[g].state \in {"starting", "up"} /\ apis'[g] = Term(apis[g])
            \/ /\ apis[g].state \in {"starting", "up"}
               /\ apis'[g] = [apis[g] EXCEPT !.state = "gone", !.exit = "own"]
<1>1. apis[g] \in ProcType /\ apis \in Seq(ProcType) BY DEF Procs
<1>2. PICK p \in ProcType :
        /\ apis' = [apis EXCEPT ![g] = p]
        /\ \/ apis[g].state = "starting" /\ p = [apis[g] EXCEPT !.state = "up"]
           \/ apis[g].state = "term" /\ p = [apis[g] EXCEPT !.state = "gone"]
           \/ watcher = "gone" /\ apis[g].state \in {"starting", "up"} /\ p = Term(apis[g])
           \/ /\ apis[g].state \in {"starting", "up"}
              /\ p = [apis[g] EXCEPT !.state = "gone", !.exit = "own"]
  BY <1>1 DEF ApiMoves, ApiCrashes, Term, ProcType
<1>3. UNCHANGED <<goProc, liveGo, reported, job, watcher>>
  BY DEF ApiMoves, ApiCrashes, Untouched
<1>4. QED BY <1>1, <1>2, <1>3

\* What a step that leaves the apis alone may do to the running rebuild: one that
\* waits for an api to be gone goes on waiting, or the api is gone.
JobMoves ==
  /\ JobOK'
  /\ At("api", "built")' => job' = job \/ job'.next \in Contents
  /\ At("api", "stop")' => job' = job
  /\ At("api", "stop") => job' = job \/ PreviousGone
  /\ At("api", "notify")' => job' = job \/ apis[Len(apis)].state = "up"

Quiet == UNCHANGED <<liveGo, goProc, apis, reported, watcher>> /\ JobMoves

LEMMA SameJob ==
  ASSUME JobOK, job' = job, UNCHANGED <<liveGo, goProc, apis, reported, watcher>>
  PROVE  Quiet
  BY DEF Quiet, JobMoves, JobOK

LEMMA JobEnds ==
  ASSUME JobOK, Procs, JobDone, At("api", "stop") => PreviousGone,
         UNCHANGED <<liveGo, goProc, apis, reported, watcher>>
  PROVE  Quiet
<1>1. Len(apis) \in Nat BY DEF Procs
<1>2. JobOK' BY <1>1 DEF JobOK, JobType, JobDone, NoJob, Steps
<1>3. job'.step = "idle" BY DEF JobDone, NoJob
<1>4. QED BY <1>2, <1>3 DEF Quiet, JobMoves, At

LEMMA StartJobQuiet == ASSUME TypeOK, StartJob PROVE Quiet
<1>1. Watching /\ Procs BY DevTypes
<1>2. Len(apis) \in Nat BY <1>1 DEF Procs
<1>3. job = NoJob /\ UNCHANGED <<liveGo, goProc, apis, reported, watcher>>
  BY DEF StartJob
<1>4. PICK j \in [side : Sides, file : Files \cup {Unknown}] :
        job' = [NoJob EXCEPT !.side = j.side, !.file = j.file,
                  !.step = CASE j.side = "api" -> "build"
                             [] j.side = "app" -> "stop"
                             [] j.side = "css" -> "notify"]
  <2>1. Head(queue) \in [side : Sides, file : Files \cup {Unknown}]
    BY <1>1, HeadTailProperties DEF StartJob, Watching
  <2>2. QED BY <2>1 DEF StartJob
<1>5. j.side \in {"api", "app", "css"} /\ j.file \in Files \cup {Unknown} BY DEF Sides
<1>6. JobOK'
  <2>1. PICK step \in {"build", "stop", "notify"} :
          job' = [side |-> j.side, file |-> j.file, step |-> step, next |-> NoContent,
                  previous |-> 0]
    BY <1>4, <1>5 DEF NoJob
  <2>2. job' \in JobType(Len(apis)) BY <1>2, <1>5, <2>1 DEF JobType, Steps, Sides
  <2>3. QED BY <1>3, <2>2 DEF JobOK
<1>7. job.step = "idle" BY <1>3 DEF NoJob
<1>8. job'.side = "api" => job'.step = "build" BY <1>4, <1>5 DEF NoJob
<1>9. QED BY <1>3, <1>6, <1>7, <1>8 DEF Quiet, JobMoves, At

\* A rebuild goes from one step to the next without touching an api.
LEMMA JobSteps ==
  ASSUME TypeOK, NEW side \in Sides, NEW step \in Steps, NEW next \in Contents \cup {NoContent},
         job' = [job EXCEPT !.side = side, !.step = step, !.next = next],
         UNCHANGED <<liveGo, goProc, apis, reported, watcher>>,
         ~At("api", "stop"), side = "api" => step # "stop",
         side = "api" /\ step = "built" => next \in Contents,
         side = "api" /\ step = "notify" => apis[Len(apis)].state = "up"
  PROVE  Quiet
<1>1. JobOK BY DevTypes
<1>2. job'.side = side /\ job'.step = step /\ job'.next = next /\ JobOK' BY <1>1 DEF JobOK, JobType
<1>3. QED BY <1>2 DEF Quiet, JobMoves, At

LEMMA QuietSteps ==
  ASSUME TypeOK, [Next]_vars
  PROVE  \/ StopApi \/ SpawnApi \/ ExitSeen \/ Quiet
         \/ \E g \in DOMAIN apis : ApiMoves(g) \/ ApiCrashes(g)
         \/ \E hook \in BOOLEAN : WatcherExits(hook)
<1>1. Watching /\ JobOK /\ Procs BY DevTypes
<1>2. job.side \in Sides \cup {"none"} /\ job.next \in Contents \cup {NoContent}
      /\ job \in JobType(Len(apis))
  BY <1>1 DEF JobOK, JobType
<1> USE DEF watchVars, procVars
<1>3. CASE GoBuild
  <2>1. disk[Go] \in Contents BY <1>1 DEF Watching, Files
  <2>2. job' = [job EXCEPT !.side = "api", !.step = "built", !.next = disk[Go]]
        /\ UNCHANGED <<liveGo, goProc, apis, reported, watcher>> /\ ~At("api", "stop")
    BY <1>2, <1>3 DEF GoBuild, At, JobType
  <2>3. QED BY <2>1, <2>2, JobSteps DEF Sides, Steps
<1>4. CASE ApiAnswers
  <2>1. job' = [job EXCEPT !.side = "api", !.step = "notify", !.next = job.next]
        /\ UNCHANGED <<liveGo, goProc, apis, reported, watcher>> /\ ~At("api", "stop")
        /\ apis[Len(apis)].state = "up"
    BY <1>2, <1>4 DEF ApiAnswers, At, JobType, Step
  <2>2. QED BY <1>2, <2>1, JobSteps DEF Sides, Steps
<1>5. CASE SpawnFront
  <2>1. job' = [job EXCEPT !.side = "app", !.step = "ready", !.next = job.next]
        /\ UNCHANGED <<liveGo, goProc, apis, reported, watcher>> /\ ~At("api", "stop")
    BY <1>2, <1>5 DEF SpawnFront, At, JobType, Step
  <2>2. QED BY <1>2, <2>1, JobSteps DEF Sides, Steps
<1>6. CASE CssRestartsFallback
  <2>1. job' = [job EXCEPT !.side = "app", !.step = "stop", !.next = job.next]
        /\ UNCHANGED <<liveGo, goProc, apis, reported, watcher>> /\ ~At("api", "stop")
    BY <1>2, <1>6 DEF CssRestartsFallback, At, JobType
  <2>2. QED BY <1>2, <2>1, JobSteps DEF Sides, Steps
<1>7. CASE \/ BuildFails \/ BuildUnchanged \/ ApiNotReady \/ FrontAnswers \/ NotifyReload
           \/ NotifyGivesUp \/ SwapCss
  <2>1. JobDone /\ UNCHANGED <<liveGo, goProc, apis, reported, watcher>>
    BY <1>7 DEF BuildFails, BuildUnchanged, ApiNotReady, FrontAnswers, NotifyReload,
                NotifyGivesUp, SwapCss
  <2>2. ~At("api", "stop")
    BY <1>7 DEF BuildFails, BuildUnchanged, ApiNotReady, FrontAnswers, NotifyReload,
                NotifyGivesUp, SwapCss, At
  <2>3. QED BY <1>1, <2>1, <2>2, JobEnds
<1>8. CASE RenameFails BY <1>1, <1>8, JobEnds DEF RenameFails
<1>9. CASE FrontBoots \/ FrontEnds \/ Browser
  <2>1. job' = job /\ UNCHANGED <<liveGo, goProc, apis, reported, watcher>>
    BY <1>9 DEF FrontBoots, FrontEnds, Untouched, Browser, Connect, Apply, ApplyFails, Retry,
                Load, NotPage
  <2>2. QED BY <1>1, <2>1, SameJob
<1>10. CASE \/ (\E f \in Files, c \in Contents : Save(f, c))
            \/ (\E busy \in BOOLEAN : EventsLost(busy))
            \/ (\E f \in Files : Changed(f)) \/ (\E s \in Sides : TimerFires(s))
  <2>1. job' = job /\ UNCHANGED <<liveGo, goProc, apis, reported, watcher>>
    BY <1>10 DEF Save, EventsLost, Changed, TimerFires
  <2>2. QED BY <1>1, <2>1, SameJob
<1>11. CASE UNCHANGED vars BY <1>1, <1>11, SameJob DEF vars
<1>12. CASE StartJob BY <1>12, StartJobQuiet
<1>13. QED
  BY <1>3, <1>4, <1>5, <1>6, <1>7, <1>8, <1>9, <1>10, <1>11, <1>12
  DEF Next, EventLoop, Processes

-----------------------------------------------------------------------------
(* What the processes keep.                                                *)

LEMMA DevFacts ==
  ASSUME DevInv
  PROVE  /\ Watching /\ JobOK /\ Procs /\ Fronts /\ Shown /\ Counts
         /\ apis \in Seq(ProcType) /\ Len(apis) \in Nat /\ DOMAIN apis = 1..Len(apis)
         /\ \A g \in DOMAIN apis : apis[g] \in ProcType
         /\ job \in JobType(Len(apis)) /\ job.previous \in 0..Len(apis)
         /\ goProc \in 0..Len(apis)
<1>1. Watching /\ JobOK /\ Procs /\ Fronts /\ Shown /\ Counts BY DevTypes DEF DevInv
<1>2. apis \in Seq(ProcType) /\ goProc \in 0..Len(apis) BY <1>1 DEF Procs
<1>3. job \in JobType(Len(apis)) BY <1>1 DEF JobOK
<1>4. job.previous \in 0..Len(apis) BY <1>3 DEF JobType
<1>5. QED BY <1>1, <1>2, <1>3, <1>4

LEMMA QuietKeeps ==
  ASSUME DevInv, Quiet
  PROVE  Procs' /\ JobOK' /\ ProcessInv'
<1>1. UNCHANGED <<liveGo, goProc, apis, reported, watcher>> /\ JobMoves BY DEF Quiet
<1>2. Procs' BY <1>1, DevFacts DEF Procs
<1>3. JobOK' BY <1>1 DEF JobMoves
<1>4. ExitsKnown' /\ OneAlive' /\ OnlyOwnExitsReported'
  BY <1>1 DEF DevInv, ProcessInv, ExitsKnown, OneAlive, OnlyOwnExitsReported, Alive
<1>5. PlanBuilds'
  BY <1>1 DEF DevInv, ProcessInv, PlanBuilds, JobMoves, At
<1>6. ReloadFindsApi'
  BY <1>1 DEF DevInv, ProcessInv, ReloadFindsApi, JobMoves, At
<1>7. Referred'
  <2> SUFFICES ASSUME watcher = "up"
      PROVE  /\ \A g \in DOMAIN apis :
                  Alive(apis[g]) => g = goProc \/ (At("api", "stop")' /\ g = job'.previous)
             /\ goProc # 0 => apis[goProc].exit # "asked"
             /\ At("api", "stop")' => goProc = 0
    BY <1>1 DEF Referred, Alive
  <2>1. CASE job' = job
    BY <1>1, <2>1 DEF DevInv, ProcessInv, Referred, At
  <2>2. CASE job' # job
    <3>1. ~At("api", "stop")' BY <1>1, <2>2 DEF JobMoves
    <3>2. At("api", "stop") => PreviousGone BY <1>1, <2>2 DEF JobMoves
    <3>3. \A g \in DOMAIN apis : Alive(apis[g]) => g = goProc
      <4> SUFFICES ASSUME NEW g \in DOMAIN apis, Alive(apis[g]), g # goProc PROVE FALSE
        OBVIOUS
      <4>1. At("api", "stop") /\ g = job.previous BY DEF DevInv, ProcessInv, Referred
      <4>2. g # 0 BY DevFacts
      <4>3. QED BY <3>2, <4>1, <4>2 DEF PreviousGone, Alive
    <3>4. QED BY <3>1, <3>3 DEF DevInv, ProcessInv, Referred
  <2>3. QED BY <2>1, <2>2
<1>8. QED BY <1>2, <1>3, <1>4, <1>5, <1>6, <1>7 DEF ProcessInv

\* Nothing that asks an api to go makes one live, or forgets that one exited.
LEMMA AskingKeeps ==
  ASSUME DevInv, NEW k \in 0..Len(apis), apis' = Kill(apis, k), k # 0 => k = goProc,
         reported' = reported, goProc' = 0
  PROVE  /\ apis' \in Seq(ProcType) /\ Len(apis') = Len(apis) /\ DOMAIN apis' = DOMAIN apis
         /\ ExitsKnown' /\ OneAlive' /\ OnlyOwnExitsReported'
         /\ \A g \in DOMAIN apis : Alive(apis'[g]) => Alive(apis[g])
<1>1. /\ apis' \in Seq(ProcType) /\ Len(apis') = Len(apis)
      /\ \A g \in DOMAIN apis : apis'[g] = IF g = k THEN Term(apis[g]) ELSE apis[g]
  BY DevFacts, KillFacts
<1>2. DOMAIN apis' = DOMAIN apis BY <1>1, DevFacts
<1>3. \A g \in DOMAIN apis : Alive(apis'[g]) => Alive(apis[g])
  BY <1>1, DevFacts DEF Alive, Term, ProcType
<1>4. ExitsKnown'
  <2>1. ExitsKnown BY DEF DevInv, ProcessInv
  <2>2. \A p \in ProcType :
          /\ p.state = "gone" => Term(p) = p
          /\ p.state # "gone" => Term(p).state = "term" /\ Term(p).exit = "asked"
    BY DEF Term, ProcType
  <2>3. \A g \in DOMAIN apis : apis[g] \in ProcType BY DevFacts
  <2>4. QED BY <1>1, <1>2, <2>1, <2>2, <2>3 DEF ExitsKnown
<1>5. OneAlive' BY <1>2, <1>3 DEF DevInv, ProcessInv, OneAlive
<1>6. OnlyOwnExitsReported'
  <2> SUFFICES ASSUME NEW g \in reported PROVE apis'[g].exit = "own"
    BY DEF OnlyOwnExitsReported
  <2>1. g \in DOMAIN apis /\ apis[g].exit = "own" /\ apis[g] \in ProcType
    BY DevFacts DEF DevInv, ProcessInv, OnlyOwnExitsReported, Procs
  <2>2. apis[g].state = "gone"
    BY <2>1 DEF DevInv, ProcessInv, ExitsKnown, ProcType
  <2>3. QED BY <1>1, <2>1, <2>2 DEF Term
<1>7. QED BY <1>1, <1>2, <1>3, <1>4, <1>5, <1>6

LEMMA StopApiStep == ASSUME DevInv, StopApi PROVE Procs' /\ JobOK' /\ ProcessInv'
<1>1. /\ At("api", "built") /\ job.next \notin Broken /\ ~(job.next = liveGo /\ Running)
      /\ liveGo' = job.next /\ job' = [job EXCEPT !.step = "stop", !.previous = goProc]
      /\ goProc' = 0 /\ apis' = Kill(apis, goProc) /\ UNCHANGED <<watcher, reported>>
  BY DEF StopApi
<1>2. /\ apis' \in Seq(ProcType) /\ Len(apis') = Len(apis) /\ DOMAIN apis' = DOMAIN apis
      /\ ExitsKnown' /\ OneAlive' /\ OnlyOwnExitsReported'
      /\ \A g \in DOMAIN apis : Alive(apis'[g]) => Alive(apis[g])
  BY <1>1, DevFacts, AskingKeeps
<1>3. job.next \in Contents BY <1>1 DEF DevInv, ProcessInv, PlanBuilds
<1>4. job' \in JobType(Len(apis)) /\ job'.side = "api" /\ job'.step = "stop"
      /\ job'.next = job.next /\ job'.previous = goProc
  BY <1>1, DevFacts DEF JobType, Steps, At
<1>5. Procs' /\ JobOK' BY <1>1, <1>2, <1>3, <1>4, DevFacts DEF Procs, JobOK
<1>6. PlanBuilds' /\ ReloadFindsApi'
  BY <1>1, <1>3, <1>4 DEF PlanBuilds, ReloadFindsApi, At
<1>7. watcher = "up" /\ job.step # "stop" BY <1>1 DEF At
<1>8. Referred'
  <2>1. \A g \in DOMAIN apis : Alive(apis'[g]) => g = job'.previous
    BY <1>2, <1>4, <1>7 DEF DevInv, ProcessInv, Referred, At
  <2>2. At("api", "stop")' BY <1>1, <1>4, <1>7 DEF At
  <2>3. QED BY <1>1, <1>2, <2>1, <2>2 DEF Referred, Alive
<1>9. QED BY <1>2, <1>5, <1>6, <1>8 DEF ProcessInv

\* Once the previous api is gone none is left, and the new one is the only one.
LEMMA SpawnApiStep == ASSUME DevInv, SpawnApi PROVE Procs' /\ JobOK' /\ ProcessInv'
<1> DEFINE new == [state |-> "starting", code |-> job.next, exit |-> "none"]
<1>1. /\ At("api", "stop") /\ PreviousGone /\ apis' = Append(apis, new)
      /\ goProc' = Len(apis) + 1 /\ job' = [job EXCEPT !.step = "ready"]
      /\ UNCHANGED <<liveGo, watcher, reported>>
  BY DEF SpawnApi, Step
<1>2. new \in ProcType /\ new.state = "starting" /\ new.exit = "none"
  BY <1>1 DEF DevInv, ProcessInv, PlanBuilds, ProcType
<1> HIDE DEF new
<1>3. /\ apis' \in Seq(ProcType) /\ Len(apis') = Len(apis) + 1
      /\ DOMAIN apis' = 1..(Len(apis) + 1) /\ apis'[Len(apis) + 1] = new
      /\ \A g \in DOMAIN apis : apis'[g] = apis[g]
  BY <1>1, <1>2, DevFacts
<1>4. job' \in JobType(Len(apis) + 1) /\ job'.step = "ready"
  <2>1. job.previous \in 0..(Len(apis) + 1) BY DevFacts
  <2>2. QED BY <1>1, <2>1, DevFacts DEF JobType, Steps
<1>5. Procs' /\ JobOK' BY <1>1, <1>3, <1>4, DevFacts DEF Procs, JobOK
<1>6. \A g \in DOMAIN apis : ~Alive(apis[g])
  <2> SUFFICES ASSUME NEW g \in DOMAIN apis, Alive(apis[g]) PROVE FALSE OBVIOUS
  <2>1. goProc = 0 /\ (g = goProc \/ g = job.previous)
    BY <1>1 DEF DevInv, ProcessInv, Referred, At
  <2>2. g # 0 BY DevFacts
  <2>3. QED BY <1>1, <2>1, <2>2 DEF PreviousGone, Alive
<1>7. \A g \in DOMAIN apis' : g \in DOMAIN apis \/ g = Len(apis) + 1 BY <1>3, DevFacts
<1>8. ExitsKnown' BY <1>2, <1>3, <1>7 DEF DevInv, ProcessInv, ExitsKnown
<1>9. \A g \in DOMAIN apis' : Alive(apis'[g]) => g = goProc'
  BY <1>1, <1>3, <1>6, <1>7
<1>10. OneAlive' BY <1>9 DEF OneAlive, Alive
<1>11. OnlyOwnExitsReported'
  BY <1>1, <1>3, DevFacts DEF DevInv, ProcessInv, OnlyOwnExitsReported, Procs
<1>12. PlanBuilds' /\ ReloadFindsApi' BY <1>4 DEF PlanBuilds, ReloadFindsApi, At
<1>13. Referred'
  <2>1. ~At("api", "stop")' BY <1>4 DEF At
  <2>2. apis'[goProc'].exit # "asked" BY <1>1, <1>2, <1>3
  <2>3. QED BY <1>9, <2>1, <2>2 DEF Referred, Alive
<1>14. QED BY <1>5, <1>8, <1>10, <1>11, <1>12, <1>13 DEF ProcessInv

LEMMA ExitSeenStep == ASSUME DevInv, ExitSeen PROVE Procs' /\ JobOK' /\ ProcessInv'
<1>1. /\ watcher = "up" /\ goProc # 0 /\ apis[goProc].state = "gone"
      /\ reported' = reported \cup {goProc} /\ goProc' = 0
      /\ UNCHANGED <<job, liveGo, apis, watcher>>
  BY DEF ExitSeen
<1>2. goProc \in DOMAIN apis /\ apis[goProc] \in ProcType BY <1>1, DevFacts
<1>3. Procs' /\ JobOK' BY <1>1, <1>2, DevFacts DEF Procs, JobOK
<1>4. apis[goProc].exit = "own"
  BY <1>1, <1>2 DEF DevInv, ProcessInv, ExitsKnown, Referred, ProcType
<1>5. ExitsKnown' /\ OneAlive' /\ PlanBuilds' /\ ReloadFindsApi'
  BY <1>1 DEF DevInv, ProcessInv, ExitsKnown, OneAlive, PlanBuilds, ReloadFindsApi, Alive, At
<1>6. OnlyOwnExitsReported'
  BY <1>1, <1>4 DEF DevInv, ProcessInv, OnlyOwnExitsReported
<1>7. Referred' BY <1>1 DEF DevInv, ProcessInv, Referred, Alive, At
<1>8. QED BY <1>3, <1>5, <1>6, <1>7 DEF ProcessInv

LEMMA ApiStep ==
  ASSUME DevInv, NEW g \in DOMAIN apis, ApiMoves(g) \/ ApiCrashes(g)
  PROVE  Procs' /\ JobOK' /\ ProcessInv'
<1>1. /\ apis' \in Seq(ProcType) /\ Len(apis') = Len(apis)
      /\ \A h \in DOMAIN apis : h # g => apis'[h] = apis[h]
      /\ UNCHANGED <<goProc, liveGo, reported, job, watcher>>
  BY DevFacts, ApiMovesFacts
<1>2. \/ apis[g].state = "starting" /\ apis'[g] = [apis[g] EXCEPT !.state = "up"]
      \/ apis[g].state = "term" /\ apis'[g] = [apis[g] EXCEPT !.state = "gone"]
      \/ watcher = "gone" /\ apis[g].state \in {"starting", "up"} /\ apis'[g] = Term(apis[g])
      \/ /\ apis[g].state \in {"starting", "up"}
         /\ apis'[g] = [apis[g] EXCEPT !.state = "gone", !.exit = "own"]
  BY DevFacts, ApiMovesFacts
<1>3. apis[g] \in ProcType /\ DOMAIN apis' = DOMAIN apis BY <1>1, DevFacts
<1>4. /\ Alive(apis'[g]) => Alive(apis[g]) /\ Alive(apis[g])
      /\ apis[g].state # "gone"
      /\ apis'[g].exit = "asked" => apis[g].exit = "asked" \/ watcher = "gone"
      /\ apis[g].state = "up" => apis'[g].exit = "own" \/ watcher = "gone"
      /\ apis'[g].state \in {"starting", "up"} => apis'[g].exit = apis[g].exit
      /\ apis'[g].state = "starting" => FALSE
      /\ apis'[g].state = "up" => apis[g].state = "starting"
  BY <1>2, <1>3 DEF Alive, Term, ProcType
<1>5. Procs' /\ JobOK' BY <1>1, <1>3, DevFacts DEF Procs, JobOK
<1>6. ExitsKnown'
  <2>1. /\ apis'[g].state \in {"starting", "up"} => apis'[g].exit = "none"
        /\ apis'[g].state = "term" => apis'[g].exit = "asked"
        /\ apis'[g].state = "gone" => apis'[g].exit # "none"
    BY <1>2, <1>3 DEF DevInv, ProcessInv, ExitsKnown, Term, ProcType
  <2>2. QED BY <1>1, <1>3, <2>1 DEF DevInv, ProcessInv, ExitsKnown
<1>7. \A h \in DOMAIN apis : Alive(apis'[h]) => Alive(apis[h]) BY <1>1, <1>4
<1>8. OneAlive' BY <1>3, <1>7 DEF DevInv, ProcessInv, OneAlive, Alive
<1>9. OnlyOwnExitsReported'
  <2> SUFFICES ASSUME NEW h \in reported PROVE apis'[h].exit = "own"
    BY <1>1 DEF OnlyOwnExitsReported
  <2>1. h \in DOMAIN apis /\ apis[h].exit = "own"
    BY DevFacts DEF DevInv, ProcessInv, OnlyOwnExitsReported, Procs
  <2>2. h # g
    BY <1>3, <1>4, <2>1 DEF DevInv, ProcessInv, ExitsKnown, ProcType
  <2>3. QED BY <1>1, <2>1, <2>2
<1>10. PlanBuilds' BY <1>1 DEF DevInv, ProcessInv, PlanBuilds, At
<1>11. Referred'
  <2> SUFFICES ASSUME watcher = "up"
      PROVE  /\ \A h \in DOMAIN apis :
                  Alive(apis'[h]) => h = goProc \/ (At("api", "stop") /\ h = job.previous)
             /\ goProc # 0 => apis'[goProc].exit # "asked"
             /\ At("api", "stop") => goProc = 0
    BY <1>1, <1>3 DEF Referred, Alive, At
  <2>1. goProc # 0 => apis'[goProc].exit # "asked"
    <3>1. CASE goProc = g BY <1>4, <3>1 DEF DevInv, ProcessInv, Referred
    <3>2. CASE goProc # g BY <1>1, <3>2, DevFacts DEF DevInv, ProcessInv, Referred
    <3>3. QED BY <3>1, <3>2
  <2>2. QED BY <1>7, <2>1 DEF DevInv, ProcessInv, Referred
<1>12. ReloadFindsApi'
  <2> SUFFICES ASSUME At("api", "notify")
      PROVE  apis'[Len(apis)].state = "up" \/ apis'[Len(apis)].exit = "own"
    BY <1>1 DEF ReloadFindsApi, At
  <2>1. apis[Len(apis)].state = "up" \/ apis[Len(apis)].exit = "own"
    BY DEF DevInv, ProcessInv, ReloadFindsApi
  <2>2. watcher = "up" BY DEF At
  <2>3. CASE g = Len(apis)
    <3>1. apis[g].exit = "own" => FALSE
      BY <1>3, <1>4 DEF DevInv, ProcessInv, ExitsKnown, ProcType
    <3>2. QED BY <1>4, <2>1, <2>2, <2>3, <3>1
  <2>4. CASE g # Len(apis)
    <3>1. Len(apis) \in DOMAIN apis BY <1>3, DevFacts
    <3>2. QED BY <1>1, <2>1, <2>4, <3>1
  <2>5. QED BY <2>3, <2>4
<1>13. QED BY <1>5, <1>6, <1>8, <1>9, <1>10, <1>11, <1>12 DEF ProcessInv

LEMMA WatcherExitsStep ==
  ASSUME DevInv, NEW hook \in BOOLEAN, WatcherExits(hook)
  PROVE  Procs' /\ JobOK' /\ ProcessInv'
<1>1. /\ watcher' = "gone" /\ job' = NoJob /\ liveGo' = First /\ goProc' = 0
      /\ apis' = Kill(apis, IF hook THEN goProc ELSE 0) /\ reported' = reported
  BY DEF WatcherExits, Kill
<1>2. /\ apis' \in Seq(ProcType) /\ Len(apis') = Len(apis) /\ DOMAIN apis' = DOMAIN apis
      /\ ExitsKnown' /\ OneAlive' /\ OnlyOwnExitsReported'
  BY <1>1, DevFacts, AskingKeeps
<1>3. Procs' BY <1>1, <1>2, DevAssumption, DevFacts DEF Procs
<1>4. JobOK' BY <1>1, <1>2, DevFacts DEF JobOK, JobType, NoJob, Steps
<1>5. Referred' /\ PlanBuilds' /\ ReloadFindsApi'
  BY <1>1 DEF Referred, PlanBuilds, ReloadFindsApi, At
<1>6. QED BY <1>2, <1>3, <1>4, <1>5 DEF ProcessInv
-----------------------------------------------------------------------------
(* The theorems.                                                           *)

LEMMA DevInitially == Init => DevInv
<1> SUFFICES ASSUME Init PROVE DevInv OBVIOUS
<1> USE DEF Init
<1>1. First \in Contents \ Broken /\ Unknown \notin Files BY DevAssumption
<1>2. Watching BY <1>1 DEF Watching
<1>3. Source \in Codes BY <1>2, SourceIsCode
<1>4. Procs BY <1>1 DEF Procs, ProcType
<1>5. JobOK BY DEF JobOK, JobType, NoJob, Steps
<1>6. Fronts /\ Shown BY <1>3 DEF Fronts, FrontType, Shown, PageType
<1>7. Counts
  <2>1. MaxEdits \in Nat /\ MaxTroubles \in Nat BY DevAssumption
  <2>2. watcher \in {"up", "gone"} /\ edits \in 0..MaxEdits /\ troubles \in 0..MaxTroubles
    BY <2>1
  <2>3. overtaken \in BOOLEAN BY Zenon
  <2>4. QED BY <2>2, <2>3, Zenon DEF Counts
<1>8. TypeOK BY <1>2, <1>4, <1>5, <1>6, <1>7, DevTypes
<1>9. DOMAIN apis = {1} /\ apis[1].state = "up" /\ apis[1].exit = "none" OBVIOUS
<1>10. job.step = "idle" BY DEF NoJob
<1>11. ExitsKnown /\ OneAlive BY <1>9 DEF ExitsKnown, OneAlive
<1>12. Referred BY <1>9, <1>10 DEF Referred, At
<1>13. PlanBuilds /\ OnlyOwnExitsReported /\ ReloadFindsApi
  BY <1>10 DEF PlanBuilds, OnlyOwnExitsReported, ReloadFindsApi, At
<1>14. QED BY <1>8, <1>11, <1>12, <1>13 DEF DevInv, ProcessInv

LEMMA DevStep == DevInv /\ [Next]_vars => DevInv'
<1> SUFFICES ASSUME DevInv, [Next]_vars PROVE DevInv' OBVIOUS
<1>1. Watching' /\ Fronts' /\ Shown' /\ Counts'
  BY DevFacts, WatchingStep, FrontsStep, ShownStep, CountsStep
<1>2. Procs' /\ JobOK' /\ ProcessInv'
  <2>1. TypeOK BY DEF DevInv
  <2>2. QED
    BY <2>1, QuietSteps, QuietKeeps, StopApiStep, SpawnApiStep, ExitSeenStep, ApiStep,
       WatcherExitsStep
<1>3. TypeOK' <=> Watching' /\ JobOK' /\ Procs' /\ Fronts' /\ Shown' /\ Counts'
  BY DEF TypeOK, Watching, JobOK, Procs, Fronts, Shown, Counts, JobType, ProcType,
         FrontType, PageType
<1>4. QED BY <1>1, <1>2, <1>3 DEF DevInv

\* The invariant of the watcher of dev.ts and the processes it starts, for every
\* tree, every order of saves, rebuilds, crashes and exits; dev.ts:28-262.
THEOREM DevInvariance == Spec => []DevInv
  BY DevInitially, DevStep, PTL DEF Spec

\* The state of the session has the types it is declared with: what the watcher
\* keeps in variables of dev(), the processes and the page; dev.ts:28-40.
THEOREM DevTyping == Spec => []TypeOK
<1>1. DevInv => TypeOK BY DEF DevInv
<1>2. QED BY <1>1, DevInvariance, PTL

\* An api is never started beside one that has the port, and no exit the watcher
\* asked for is reported as the api's own; dev.ts:87-138.
THEOREM ApiProcessesSoundAlways == Spec => []ApiProcessesSound
<1>1. DevInv => ApiProcessesSound
  <2> SUFFICES ASSUME DevInv PROVE OneApi
    BY DEF ApiProcessesSound, DevInv, ProcessInv
  <2> DEFINE live == {g \in DOMAIN apis : Alive(apis[g])}
  <2>1. CASE live = {} BY <2>1, FS_EmptySet DEF OneApi
  <2>2. CASE live # {}
    <3>1. PICK g : g \in live BY <2>2
    <3>2. live = {g} BY <3>1 DEF DevInv, ProcessInv, OneAlive
    <3>3. Cardinality(live) = 1 BY <3>2, FS_Singleton
    <3>4. QED BY <3>3 DEF OneApi
  <2>3. QED BY <2>1, <2>2
<1>2. QED BY <1>1, DevInvariance, PTL

\* The browsers reload once the new api has answered, or it crashed since;
\* dev.ts:124-145.
THEOREM ReloadFindsApiAlways == Spec => []ReloadFindsApi
<1>1. DevInv => ReloadFindsApi BY DEF DevInv, ProcessInv
<1>2. QED BY <1>1, DevInvariance, PTL
=============================================================================
