------------------------------ MODULE Deadline ------------------------------
(***************************************************************************)
(* What becomes of a timeout in milliseconds: the absolute deadline        *)
(* (struct timespec) that vxi11_connect waits for, and the duration        *)
(* (struct timeval) that tcp.c, the VXI-11 discovery and the DNS-SD        *)
(* backends give to select() and SO_RCVTIMEO.                              *)
(***************************************************************************)
EXTENDS Integers

CONSTANTS
    Timeouts,   \* values of the argument "timeout", an int
    Seconds,    \* tv_sec of CLOCK_REALTIME
    Nanos       \* tv_nsec of CLOCK_REALTIME

ASSUME DeadlineAssumption ==
    /\ Timeouts \subseteq Int
    /\ Seconds \subseteq Nat
    /\ \A n \in Nanos : n \in Nat /\ n < 1000000000

(* Division and remainder of C: the quotient is rounded towards zero, and  *)
(* the remainder has the sign of the dividend.                             *)
CDiv(a, b) == IF a >= 0 THEN a \div b ELSE -((-a) \div b)
CMod(a, b) == IF a >= 0 THEN a % b ELSE -((-a) % b)

(* Mutant: the carry is taken a nanosecond late.                           *)
CarryNeeded_OffByOne(nsec) == nsec > 1000000000

CarryNeeded(nsec) == nsec >= 1000000000

(* "Convert timeout in ms to timespec".                                    *)
Deadline(now, timeout) ==
    LET sec  == now.sec + CDiv(timeout, 1000)
        nsec == now.nsec + CMod(timeout, 1000) * 1000000
    IN  IF CarryNeeded(nsec)
          THEN [sec |-> sec + 1, nsec |-> CMod(nsec, 1000000000)]
          ELSE [sec |-> sec, nsec |-> nsec]

Duration(timeout) ==
    [sec |-> CDiv(timeout, 1000), usec |-> CMod(timeout, 1000) * 1000]

(* What pthread_cond_timedwait accepts (external); for any other deadline  *)
(* it returns EINVAL at once, before it has released the mutex.            *)
ValidTimespec(ts) == ts.nsec >= 0 /\ ts.nsec < 1000000000

(* What select and setsockopt accept (external).                           *)
ValidTimeval(tv) == tv.sec >= 0 /\ tv.usec >= 0 /\ tv.usec < 1000000
=============================================================================
