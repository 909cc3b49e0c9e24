------------------------------ MODULE MCWsHub ------------------------------
(* A small instance of WsHub: two clients and two overlapping broadcasts.   *)
EXTENDS WsHub
CONSTANTS c1, c2
MCConns == {c1, c2}
=============================================================================
