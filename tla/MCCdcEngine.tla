---------------------------- MODULE MCCdcEngine ----------------------------
(* Small instances of CdcEngine: three events in two binlog files, the      *)
(* first of two rows, with a rotation between the second and the third.     *)
EXTENDS CdcEngine

MCRowsOf == <<2, 1, 1>>
MCFileOf == <<1, 1, 2>>
MCFileStart == <<0, 2>>

\* The first row of event 1 is fine and the second one raises.
MCBadRows == {<<1, 2>>}

MCOn == {TRUE}
MCOnOff == {TRUE, FALSE}
=============================================================================
