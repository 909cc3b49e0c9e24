---------------------------- MODULE MCUserStore ----------------------------
(* A small instance of UserStore: a default superuser and one account that   *)
(* may be created.                                                          *)
EXTENDS UserStore
CONSTANTS w1, w2, root, ann
MCWorkers == {w1, w2}
MCUsers == {root, ann}
MCDefaults == {root}
MCDefaultRole == [u \in {root} |-> "superuser"]
=============================================================================
