------------------------------ MODULE MCTcpIo ------------------------------
(***************************************************************************)
(* Instances of TcpIo for TLC.                                             *)
(***************************************************************************)
EXTENDS TcpIo

(* Up to four bytes, so that a message can be cut into four pieces.        *)
SmallSizes == {0, 1, 3, 4}
=============================================================================
