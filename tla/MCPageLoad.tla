----------------------------- MODULE MCPageLoad -----------------------------
(* Three chunks of react and a zlib that takes two units, enough for a parked   *)
(* pump with units in zlib, in both queues and in the hands of react at once; *)
(* then two pages and a form.                                                 *)
EXTENDS PageLoad
CONSTANTS a, b, f1
MCPages == {a, b}
MCForms == {f1}
=============================================================================
