----------------------------- MODULE MCConsole -----------------------------
(* A small instance of Console: a default superuser and one account that may *)
(* be created, and a log of two entries, one on a page.                     *)
EXTENDS Console, TLC
CONSTANTS w1, w2, root, ann
MCWorkers == {w1, w2}
MCUsers == {root, ann}
MCDefaults == {root}
MCDefaultRole == [u \in {root} |-> "superuser"]
Symmetry == Permutations(MCWorkers)
=============================================================================
