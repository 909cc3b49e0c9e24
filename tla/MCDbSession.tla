---------------------------- MODULE MCDbSession ----------------------------
(* Small instances of DbSession: two requests and a pool of two.            *)
EXTENDS DbSession
CONSTANTS r1, r2
MCRequests == {r1, r2}
MCBoth == {TRUE, FALSE}
MCSsh == {TRUE}
=============================================================================
