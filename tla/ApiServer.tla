----------------------------- MODULE ApiServer -----------------------------
(***************************************************************************)
(* borgo.go's Serve and shutdown around the hub of SSEHub: one server      *)
(* process with its event streams and its plain requests, from listening   *)
(* to exit.  net/http's Server is external: Shutdown closes the listeners, *)
(* starts the registered hooks each in a goroutine and returns when no     *)
(* request is left or its context ends; Close cuts what is left.           *)
(***************************************************************************)
EXTENDS SSEHub

CONSTANTS Requests   \* the plain requests

VARIABLES
  phase,   \* "booting", "serving", "draining" (srv.Shutdown runs) or "exited"
  grace,   \* BORGO_SHUTDOWN_TIMEOUT is not 0: Shutdown's context has a deadline
  hook,    \* the goroutine of the registered signalShutdown hook is due
  req      \* each plain request

serverVars == <<phase, grace, hook, req>>
vars == <<hubVars, serverVars>>

Init ==
  /\ HubInit
  /\ phase = "booting"
  /\ grace \in BOOLEAN
  /\ hook = FALSE
  /\ req = [r \in Requests |-> "none"]

Alive == phase # "exited"
ActiveRequests == {r \in Requests : req[r] = "active"}
OpenStreams == {c \in Streams : handler[c] \notin {"none", "gone"}}

\* The process ends: whatever request is still active is cut with it.
Exit ==
  /\ phase' = "exited"
  /\ req' = [r \in Requests |-> IF req[r] = "active" THEN "cut" ELSE req[r]]
  /\ UNCHANGED <<hubVars, grace, hook>>

-----------------------------------------------------------------------------
Listen ==
  /\ phase = "booting"
  /\ phase' = "serving"
  /\ UNCHANGED <<hubVars, grace, hook, req>>

\* ListenAndServe's error reaches errCh, which the select reads until a signal has
\* been taken: the port is taken at boot, or Accept fails for good while requests
\* are in flight.  log.Fatal waits for nobody.
ListenFails == phase \in {"booting", "serving"} /\ Exit

\* A request on a connection accepted before the listeners closed is still read
\* while the server drains.
Accepting == phase \in {"serving", "draining"}

StartRequest(r) ==
  /\ Accepting
  /\ req[r] = "none"
  /\ req' = [req EXCEPT ![r] = "active"]
  /\ UNCHANGED <<hubVars, phase, grace, hook>>

FinishRequest(r) ==
  /\ Alive
  /\ req[r] = "active"
  /\ req' = [req EXCEPT ![r] = "done"]
  /\ UNCHANGED <<hubVars, phase, grace, hook>>

StreamWork(c) ==
  /\ Accepting
  /\ StreamStep(c)
  /\ UNCHANGED serverVars

PublishWork(p) ==
  /\ Alive
  /\ PublishStep(p)
  /\ UNCHANGED serverVars

\* An interrupt, a SIGTERM or watchParent's channel: stop(), then shutdown.
BeginShutdown ==
  /\ phase = "serving"
  /\ phase' = "draining"
  /\ hook' = TRUE
  /\ UNCHANGED <<hubVars, grace, req>>

RunHook ==
  /\ Alive
  /\ hook
  /\ hook' = FALSE
  /\ SignalShutdown
  /\ UNCHANGED <<phase, grace, req>>

\* Shutdown returns nil once nothing is in flight, and main returns.
Drained ==
  /\ phase = "draining"
  /\ ActiveRequests = {} /\ OpenStreams = {}
  /\ Exit

\* The context's deadline passes: srv.Close(), and main returns.
GraceElapses ==
  /\ phase = "draining" /\ grace
  /\ Exit

\* stop() restored the default handlers: a second signal kills the process.
Kill == phase = "draining" /\ Exit

Next ==
  \/ Listen \/ ListenFails
  \/ \E r \in Requests : StartRequest(r) \/ FinishRequest(r)
  \/ \E c \in Streams : StreamWork(c)
  \/ \E p \in Publishers : PublishWork(p)
  \/ BeginShutdown \/ RunHook \/ Drained \/ GraceElapses \/ Kill

\* What the runtime schedules: the handler goroutine (its ticker fires, its
\* writes end within sseWriteTimeout), the watcher, Publish, the hook and the
\* grace timer.  Among the ready cases of a select Go picks at random, so a case
\* ready time after time is picked in the end: strong fairness.  Nothing makes a
\* plain request finish, a client read or hang up, or a signal arrive.
HandlerGoes(c) ==
  /\ Alive /\ UNCHANGED serverVars
  /\ \/ Subscribe(c) \/ WriteOk(c) \/ WriteFail(c) \/ Unsubscribe(c)
     \/ PingTick(c) \/ Receive(c)
WatcherGoes(c) == Alive /\ StreamDone(c) /\ UNCHANGED serverVars
PicksDone(c) == Alive /\ SeeDone(c) /\ UNCHANGED serverVars
PicksFrame(c) == Alive /\ Receive(c) /\ UNCHANGED serverVars
PublisherGoes(p) ==
  /\ Alive /\ UNCHANGED serverVars
  /\ PublishUnlock(p) \/ \E c \in Streams : PublishTo(p, c)

Fairness ==
  /\ \A c \in Streams : /\ WF_vars(HandlerGoes(c)) /\ WF_vars(WatcherGoes(c))
                        /\ SF_vars(PicksDone(c)) /\ SF_vars(PicksFrame(c))
  /\ \A p \in Publishers : WF_vars(PublisherGoes(p))
  /\ WF_vars(RunHook) /\ WF_vars(Drained) /\ WF_vars(GraceElapses)

Spec == Init /\ [][Next]_vars /\ Fairness

-----------------------------------------------------------------------------
ServerTypeOK ==
  /\ phase \in {"booting", "serving", "draining", "exited"}
  /\ grace \in BOOLEAN /\ hook \in BOOLEAN
  /\ req \in [Requests -> {"none", "active", "done", "cut"}]

TypeOK == HubTypeOK /\ ServerTypeOK

\* A stream never holds the process: a drain that never ends is the doing of a
\* plain request under a grace of 0, whatever the streams were doing (opening,
\* blocked in a write, reading a full channel) when the signal came.
\* sse.go:19-23, borgo.go:349-352.
StreamsNeverHoldShutdown ==
  <>[](phase = "draining") => <>[](~grace /\ ActiveRequests # {})

\* A client that went dark without closing its connection is noticed through a
\* write (the ping, if nothing is published) and its slot is given back, with no
\* event needed from it.  sse.go:15-17, 176-185.
DeadClientLeaves ==
  \A c \in Streams : (conn[c] = "dead" /\ handler[c] # "gone" /\ Alive) ~>
                       (c \notin subs \/ ~Alive)

\* Publish never waits for a client: a call that took the lock gives it back
\* although no client ever reads again.  sse.go:140-143, 153-156.
PublishReturns ==
  \A p \in Publishers : (mu = p) ~> (mu # p \/ ~Alive)

\* A frame that reached a subscriber's channel is taken up for that client or the
\* client's stream ends: pings never starve it, newer frames never replace it.
\* sse.go:152-157, 178-190.
QueuedIsShown ==
  \A c \in Streams, k \in 1 .. MaxFrames :
    (c \in subs /\ \E i \in 1 .. Len(chan[c]) : chan[c][i] = k)
      ~> (hand[c] = k \/ handler[c] \in {"returning", "gone"} \/ ~Alive)

\* Both ends of a publish: its caller is never held up by a client, and what it put
\* into a channel is not lost there.
PublishedIsShown == PublishReturns /\ QueuedIsShown
=============================================================================
