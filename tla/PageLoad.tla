------------------------------ MODULE PageLoad ------------------------------
(***************************************************************************)
(* A tab from the first byte on: the document comes in as a stream, and    *)
(* the runtime takes over once it is whole, because the script that starts *)
(* it stands in the tail and is deferred (util.ts and compress.ts send,    *)
(* runtime.ts runs).  What is left of the response behind the tab, in zlib *)
(* and in react, goes on beside the runtime.                               *)
(***************************************************************************)
EXTENDS ClientRuntime, DocumentStream

loadVars == <<vars, documentVars>>

LoadInit == DocumentInit /\ Init

Loaded == outcome = "complete"

LoadNext ==
  \/ DocumentNext /\ UNCHANGED vars
  \/ Loaded /\ Next /\ UNCHANGED documentVars

LoadSpec == LoadInit /\ [][LoadNext]_loadVars /\ DocumentFairness /\ Fairness
=============================================================================
