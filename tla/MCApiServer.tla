---------------------------- MODULE MCApiServer ----------------------------
(* A stream, two publishers, a channel of one frame (so that it is full as *)
(* soon as one frame waits), two frames and one plain request.             *)
EXTENDS ApiServer
CONSTANTS s1, p1, p2, r1
MCStreams == {s1}
MCPublishers == {p1, p2}
MCRequests == {r1}
=============================================================================
