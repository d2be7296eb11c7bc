------------------------------- MODULE MCMdns -------------------------------
(***************************************************************************)
(* Instance of Mdns for TLC.                                               *)
(***************************************************************************)
EXTENDS Mdns
=============================================================================
