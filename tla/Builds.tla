------------------------------- MODULE Builds -------------------------------
(***************************************************************************)
(* public/assets as `borgo build` and `borgo dev` leave it (buildAssets in *)
(* packages/borgo/src/build.ts): a build empties it and fills it again, in *)
(* place and step by step, while servers and browsers read it; it may be   *)
(* killed on the way.  Builds are numbered, and 0 stands for no file.      *)
(* Kept of each: the entry client.js, whose name is stable, its brotli     *)
(* sibling, the chunks, whose names are hashes of their content, and       *)
(* precache.json, whose stamp is the build's number.                       *)
(***************************************************************************)
EXTENDS Naturals

CONSTANTS Nothing, MaxBuilds   \* bound: builds

ASSUME BuildsAssumption == MaxBuilds \in Nat /\ Nothing \notin Nat

VARIABLES
  disk,      \* the build each file is of; the names of the chunks; the mode of the last build
  building,  \* the mode and the next step of the build that runs, or Nothing
  built      \* builds so far

buildsVars == <<disk, building, built>>

\* A change of the entry alone leaves its chunk as it is: builds 1 and 2, 3 and 4.
ChunkOf(v) == (v + 1) \div 2

\* precacheStamp: a hash of the names and of the bytes that are listed.  Every build
\* changes the entry, so the build's number stands for it.
Stamp(v) == v

BuildsInit ==
  /\ disk = [entry |-> 0, sibling |-> 0, chunks |-> {}, manifest |-> 0, mode |-> "none"]
  /\ building = Nothing /\ built = 0

StartBuild(mode) ==
  /\ building = Nothing /\ built < MaxBuilds
  /\ built' = built + 1
  /\ building' = [mode |-> mode, next |-> "wipe"]
  /\ UNCHANGED disk

Step(now, then) ==
  /\ building # Nothing /\ building.next = now
  /\ building' = IF then = "done" THEN Nothing ELSE [building EXCEPT !.next = then]
  /\ UNCHANGED built

\* Variant: what the last build left stays until it is overwritten.
WipeNothing == Step("wipe", "emit") /\ UNCHANGED disk

\* The stale chunks, the siblings and precache.json.
Wipe ==
  /\ Step("wipe", "emit")
  /\ disk' = [disk EXCEPT !.entry = 0, !.sibling = 0, !.chunks = {}, !.manifest = 0]

Emit ==
  /\ building # Nothing
  /\ Step("emit", IF building.mode = "dev" THEN "mark" ELSE "list")
  /\ disk' = [disk EXCEPT !.entry = built, !.chunks = @ \cup {ChunkOf(built)}]

List ==
  /\ Step("list", "compress")
  /\ disk' = [disk EXCEPT !.manifest = Stamp(built)]

\* precompressAssets; a sibling that would not be smaller is not written.
Compress ==
  /\ Step("compress", "mark")
  /\ \E smaller \in BOOLEAN : disk' = [disk EXCEPT !.sibling = IF smaller THEN built ELSE @]

Mark ==
  /\ Step("mark", "done")
  /\ disk' = [disk EXCEPT !.mode = building.mode]

Kill == building # Nothing /\ building' = Nothing /\ UNCHANGED <<disk, built>>

BuildsStep ==
  \/ \E mode \in {"production", "dev"} : StartBuild(mode)
  \/ Wipe \/ Emit \/ List \/ Compress \/ Mark \/ Kill
=============================================================================
