--------------------------- MODULE MCIotRegistry ---------------------------
(* Small instances of IotRegistry: a gate whose agent reports ACTIVE, or    *)
(* one of the words that the supervisor reads or the code writes itself.    *)
EXTENDS IotRegistry
CONSTANTS n1
MCNodes == {n1}
MCReports == {"ACTIVE", "ERROR", "OFFLINE", "DEPLOYED"}
=============================================================================
