----------------------------- MODULE MCSession -----------------------------
(***************************************************************************)
(* Instance of Session for TLC.                                            *)
(***************************************************************************)
EXTENDS Session

(* Handles below, inside, right behind and well above a table of two       *)
(* entries.                                                                *)
TwoEntryDevices == {-1, 0, 1, 2, 3}
=============================================================================
