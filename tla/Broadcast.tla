----------------------------- MODULE Broadcast -----------------------------
(***************************************************************************)
(* What SSEHub promises its callers, with no lock, no channel and no       *)
(* goroutine: events get one number each, in one order, and a member is    *)
(* shown a subsequence of the events published since it joined.  It may    *)
(* miss events (a slow client skips), it never sees one twice, never an    *)
(* older one after a newer one, and never one from before it joined.       *)
(***************************************************************************)
EXTENDS Naturals

CONSTANTS Members   \* everyone who may ever join

VARIABLES
  log,     \* how many events have been published; event k is the k-th
  joined,  \* the members now
  shown    \* [Members -> Nat], the newest event each member was shown

bvars == <<log, joined, shown>>

BInit ==
  /\ log = 0
  /\ joined = {}
  /\ shown = [m \in Members |-> 0]

Emit == log' = log + 1 /\ UNCHANGED <<joined, shown>>

Join(m) ==
  /\ m \notin joined
  /\ joined' = joined \cup {m}
  /\ shown' = [shown EXCEPT ![m] = log]
  /\ UNCHANGED log

Leave(m) == joined' = joined \ {m} /\ UNCHANGED <<log, shown>>

\* A member skips whatever it was too slow for and is shown a later event.
Show(m) ==
  /\ m \in joined
  /\ \E k \in shown[m] + 1 .. log : shown' = [shown EXCEPT ![m] = k]
  /\ UNCHANGED <<log, joined>>

BNext == Emit \/ \E m \in Members : Join(m) \/ Leave(m) \/ Show(m)

BSpec == BInit /\ [][BNext]_bvars
=============================================================================
