----------------------------- MODULE MCDiscover -----------------------------
(***************************************************************************)
(* Instances of Discover for TLC.                                          *)
(***************************************************************************)
EXTENDS Discover

(* One interface without a broadcast address, and two ordinary ones, of    *)
(* which the second has an entry for another address family.               *)
FourInterfaces ==
    << [name |-> "tun0", inet |-> TRUE,  broadcast |-> FALSE],
       [name |-> "eth1", inet |-> FALSE, broadcast |-> TRUE],
       [name |-> "eth0", inet |-> TRUE,  broadcast |-> TRUE],
       [name |-> "eth1", inet |-> TRUE,  broadcast |-> TRUE] >>
=============================================================================
