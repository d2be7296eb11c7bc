--------------------------- MODULE MCVxi11Connect ---------------------------
(***************************************************************************)
(* Instance of Vxi11Connect for TLC: one call, all its interleavings, with *)
(* timeouts and clocks around the boundaries.                              *)
(***************************************************************************)
EXTENDS Vxi11Connect

BoundaryTimeouts ==
    {-2147483647, -1001, -1000, -999, -1, 0, 1, 499, 500, 999, 1000, 1001,
     25000, 2147483647}

BoundaryNanos ==
    {0, 1, 999999, 1000000, 499999999, 500000000, 500000001, 998999999,
     999000000, 999000001, 999999999}
=============================================================================
