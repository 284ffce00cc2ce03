-------------------------- MODULE MCAuthHandlers --------------------------
(* Three requests for two names and one slot: one hashes, one waits, one is *)
(* anywhere else.  One of the names has a principal too large for a cookie. *)
EXTENDS AuthHandlers
CONSTANTS q1, q2, q3, ann, bob, pw1
MCRequests == {q1, q2, q3}
MCNames == {ann, bob}
MCPasswords == {pw1, DummyPass}
MCRoomy == {ann}
Asking(k, n, p) == [kind |-> k, name |-> n, pass |-> p]
\* Both ways to be refused a login (no account yet, the wrong password), and two
\* registers of one name or of two.
MCAsks == {Asking("login", ann, pw1), Asking("login", ann, DummyPass),
           Asking("register", ann, pw1), Asking("register", bob, pw1)}
=============================================================================
