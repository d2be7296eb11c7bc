------------------------------ MODULE MCVxi11Io ------------------------------
(***************************************************************************)
(* Instance of Vxi11Io for TLC.                                            *)
(***************************************************************************)
EXTENDS Vxi11Io
=============================================================================
