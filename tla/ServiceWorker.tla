--------------------------- MODULE ServiceWorker ----------------------------
(***************************************************************************)
(* The worker that `borgo pwa init` writes (packages/borgo/src/pwa.ts) over*)
(* the tree that Builds keeps writing: it caches the files that            *)
(* precache.json lists under app-<stamp>.  The browser installs sw.js at   *)
(* the first visit, and again only when the file has changed, which a build*)
(* never does: it is the app's to edit.                                    *)
(***************************************************************************)
EXTENDS Builds, FiniteSets, FiniteSetsExt

CONSTANT MaxEdits   \* bound: edits of sw.js

VARIABLES
  caches,      \* per stamp: Nothing, or the build of its entry and its chunks; 0 and {}: empty
  script,      \* edits of sw.js
  installed,   \* the script whose worker was installed last, or Nothing
  installing,  \* the worker on its way: its step, the stamp it read, what it has, and
               \* a ghost: no build wrote meanwhile
  active,      \* a worker controls the pages
  looked,      \* ghost: sw.js was compared since a build wrote last
  loaded         \* the build of the entry of the last page load, and whether all had settled before

workerVars == <<disk, building, built, caches, script, installed, installing, active,
                looked, loaded>>

WorkerInit ==
  /\ BuildsInit
  /\ caches = [s \in 1 .. MaxBuilds |-> Nothing]
  /\ script = 0 /\ installed = Nothing /\ installing = Nothing
  /\ active = FALSE /\ looked = FALSE /\ loaded = Nothing

Empty == [entry |-> 0, chunks |-> {}, sure |-> FALSE]
Filled == {s \in 1 .. MaxBuilds : caches[s] # Nothing /\ caches[s].entry # 0}
At(step) == installing # Nothing /\ installing.step = step

\* The fetch handler: client.js from the oldest cache that has it, or the network.
Entry == IF active /\ Filled # {} THEN caches[Min(Filled)].entry ELSE disk.entry

\* A page loads, and registers sw.js: the browser compares it with the one it has.
Visit ==
  /\ Entry # 0
  /\ loaded' = [entry |-> Entry, settled |-> active /\ looked /\ installing = Nothing /\ building = Nothing]
  /\ looked' = TRUE
  /\ installing' = IF installing = Nothing /\ installed # script
                   THEN [step |-> "read", script |-> script, stamp |-> Nothing,
                         entry |-> 0, chunks |-> {}, sure |-> TRUE]
                   ELSE installing
  /\ UNCHANGED <<disk, building, built, caches, script, installed, active>>

\* install: currentStamp, then the cache is opened.
ReadManifest ==
  /\ At("read") /\ disk.manifest # 0
  /\ installing' = [installing EXCEPT !.step = "fill", !.stamp = disk.manifest]
  /\ caches' = [caches EXCEPT ![disk.manifest] = IF @ = Nothing THEN Empty ELSE @]
  /\ UNCHANGED <<disk, building, built, script, installed, active, looked, loaded>>

\* addAll: the files in any order, all of them or none.
FetchEntry ==
  /\ At("fill") /\ installing.entry = 0 /\ disk.entry # 0
  /\ installing' = [installing EXCEPT !.entry = disk.entry]
  /\ UNCHANGED <<disk, building, built, caches, script, installed, active, looked, loaded>>

FetchChunk ==
  /\ At("fill") /\ installing.chunks = {} /\ ChunkOf(installing.stamp) \in disk.chunks
  /\ installing' = [installing EXCEPT !.chunks = {ChunkOf(installing.stamp)}]
  /\ UNCHANGED <<disk, building, built, caches, script, installed, active, looked, loaded>>

Fill ==
  /\ At("fill") /\ installing.entry # 0 /\ installing.chunks # {}
  /\ caches' = [caches EXCEPT ![installing.stamp] =
       [entry |-> installing.entry, chunks |-> installing.chunks, sure |-> installing.sure]]
  /\ installed' = installing.script
  /\ installing' = [installing EXCEPT !.step = "activate"]
  /\ UNCHANGED <<disk, building, built, script, active, looked, loaded>>

\* A file is not there, or the network fails: the next visit tries again.
InstallFails ==
  /\ At("read") \/ At("fill")
  /\ installing' = Nothing
  /\ UNCHANGED <<disk, building, built, caches, script, installed, active, looked, loaded>>

\* activate, at once (skipWaiting): all other caches go, if the manifest can be
\* read; the worker is active in any case.
Activate ==
  /\ At("activate")
  /\ caches' = [s \in 1 .. MaxBuilds |->
       IF disk.manifest \in {0, s} THEN caches[s] ELSE Nothing]
  /\ active' = TRUE /\ installing' = Nothing
  /\ UNCHANGED <<disk, building, built, script, installed, looked, loaded>>

Edit ==
  /\ script < MaxEdits
  /\ script' = script + 1 /\ looked' = FALSE /\ loaded' = Nothing
  /\ UNCHANGED <<disk, building, built, caches, installed, installing, active>>

Build ==
  /\ BuildsStep
  /\ looked' = FALSE /\ loaded' = Nothing
  /\ installing' = IF installing = Nothing THEN Nothing ELSE [installing EXCEPT !.sure = FALSE]
  /\ UNCHANGED <<caches, script, installed, active>>

WorkerNext ==
  \/ Visit \/ ReadManifest \/ FetchEntry \/ FetchChunk \/ Fill \/ InstallFails \/ Activate
  \/ Edit \/ Build

WorkerSpec == WorkerInit /\ [][WorkerNext]_workerVars

\* A cache that was filled while no build wrote holds the very build that its stamp
\* names, whatever builds were killed before; build.ts:303-307, 325-334, pwa.ts:50.
CacheIsItsBuild ==
  \A s \in Filled :
    caches[s].sure => caches[s].entry = s /\ caches[s].chunks = {ChunkOf(s)}

\* "a deploy invalidates the cache" (docs/pwa.md:44): once the browser has compared
\* sw.js since a production build ended, the next page runs that build.
DeployInvalidatesCache ==
  loaded # Nothing /\ loaded.settled /\ disk.manifest # 0 => loaded.entry = disk.entry
=============================================================================
