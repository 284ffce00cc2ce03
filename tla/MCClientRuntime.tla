-------------------------- MODULE MCClientRuntime --------------------------
EXTENDS ClientRuntime
CONSTANTS a, b, f1
MCPages == {a, b}
MCForms == {f1}
=============================================================================
