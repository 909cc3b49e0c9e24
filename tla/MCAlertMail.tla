---------------------------- MODULE MCAlertMail ----------------------------
(* A small instance of AlertMail: a burst of loans, a return and a profile   *)
(* between two events without an alert.                                     *)
EXTENDS AlertMail
MCRows == <<[table |-> "issues", type |-> "INSERT"],
            [table |-> "issues", type |-> "UPDATE"],
            [table |-> "old_issues", type |-> "INSERT"],
            [table |-> "borrowers", type |-> "UPDATE"]>>
=============================================================================
