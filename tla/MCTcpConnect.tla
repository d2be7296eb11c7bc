---------------------------- MODULE MCTcpConnect ----------------------------
(***************************************************************************)
(* Instances of TcpConnect for TLC.                                        *)
(***************************************************************************)
EXTENDS TcpConnect

(* Enough descriptors for both callers to be open and one to be lost ...   *)
ThreeFds == 3 .. 5

(* ... and few enough for one to be reused.                                *)
TwoFds == 3 .. 4
=============================================================================
