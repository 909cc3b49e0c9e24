---------------------------- MODULE MCDashboard ----------------------------
(* Small instances of Dashboard, whose constants are bounds only.           *)
EXTENDS Dashboard
=============================================================================
