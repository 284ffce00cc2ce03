---------------------------- MODULE FrontServer -----------------------------
(***************************************************************************)
(* What the front server does besides rendering: the table of pages, the   *)
(* /api hop, cookies, topics, static files, and the worker that keeps these*)
(* in the browser.  The parts share the process and no state, so that a    *)
(* behaviour has work for one of them, and all are checked as one system.  *)
(***************************************************************************)
EXTENDS Realtime, Requests, ApiProxy, Assets, ServiceWorker, Routes

VARIABLE workload   \* the part that has work

filesVars == <<assetsVars, workerVars>>
frontVars == <<realtimeVars, requestsVars, proxyVars, filesVars, routesVars, workload>>

\* The api and its deadline are left open only where requests are forwarded to it.
IdleProxy == limited /\ api = "up"

FrontInit ==
  /\ workload \in {"realtime", "requests", "proxy", "assets", "worker", "routes"}
  /\ RealtimeInit /\ RequestsInit /\ ProxyInit /\ AssetsInit /\ WorkerInit /\ RoutesInit
  /\ workload # "proxy" => IdleProxy

FrontNext ==
  /\ UNCHANGED workload
  /\ \/ /\ workload = "realtime" /\ RealtimeNext
        /\ UNCHANGED <<requestsVars, proxyVars, filesVars, routesVars>>
     \/ /\ workload = "requests" /\ RequestsNext
        /\ UNCHANGED <<realtimeVars, proxyVars, filesVars, routesVars>>
     \/ /\ workload = "proxy" /\ ProxyNext
        /\ UNCHANGED <<realtimeVars, requestsVars, filesVars, routesVars>>
     \/ /\ workload = "routes" /\ RoutesNext
        /\ UNCHANGED <<realtimeVars, requestsVars, proxyVars, filesVars>>
     \/ /\ workload = "assets" /\ AssetsNext
        /\ UNCHANGED <<realtimeVars, requestsVars, proxyVars, routesVars, caches, script,
                       installed, installing, active, looked, loaded>>
     \/ /\ workload = "worker" /\ WorkerNext
        /\ UNCHANGED <<realtimeVars, requestsVars, proxyVars, routesVars, index, copy>>

FrontSpec == FrontInit /\ [][FrontNext]_frontVars /\ RealtimeFairness /\ ProxyFairness
=============================================================================
