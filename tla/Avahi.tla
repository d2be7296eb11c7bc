------------------------------- MODULE Avahi -------------------------------
(***************************************************************************)
(* The mDNS discovery through Avahi (avahi.c): one avahi_discover after    *)
(* another, the globals simple_poll, sb and count that outlive a call, and *)
(* the callbacks that the Avahi client library makes from its loop.        *)
(*                                                                         *)
(* A discovery leaves count at -1, so that the next one stores its first   *)
(* browser in sb[-1].  What that overwrites depends on the build: nothing  *)
(* that matters, or state the program cannot recover from ("undefined").   *)
(***************************************************************************)
EXTENDS Integers

CONSTANTS
    Types,      \* number of service types that are browsed: 5
    Entries,    \* number of entries of sb: 10
    MaxFound,   \* bound on the services announced during one discovery
    MaxCalls    \* bound on the calls of avahi_discover

ASSUME AvahiAssumption ==
    /\ Types \in Nat \ {0} /\ Entries \in Nat /\ Types <= Entries
    /\ MaxFound \in Nat /\ MaxCalls \in Nat

VARIABLES
    pc,          \* where avahi_discover is
    calls,       \* calls so far
    count, sb,   \* the globals; sb with the word below the array, sb[-1]
    created,     \* browsers asked for by this call
    simple_poll, \* "NULL" or "live" or "freed"
    client,      \* the same
    quit,        \* the loop was told to quit
    timer,       \* the timeout of the loop: "none", "armed", "over"
    status,      \* the local variable status
    service,     \* whether lxi_info->service is a function
    resolving,   \* resolvers that exist
    found, reported, unresolved  \* history: services announced, passed to
                                 \* service(), not resolved, in this call

setup    == <<calls, created, service>>
table    == <<count, sb>>
services == <<resolving, found, reported, unresolved>>
loop     == <<quit, timer>>
vars == <<pc, setup, table, simple_poll, client, loop, status, services>>

Pointers == {"NULL", "live", "freed"}

TypeOK ==
    /\ pc \in {"idle", "poll", "client", "browsers", "loop", "fail_sb", "fail",
               "aborted", "undefined"}
    /\ calls \in 0 .. MaxCalls
    /\ count \in -1 .. Types
    /\ sb \in [-1 .. Entries - 1 -> Pointers]
    /\ created \in 0 .. Types
    /\ simple_poll \in Pointers /\ client \in Pointers
    /\ quit \in BOOLEAN /\ timer \in {"none", "armed", "over"}
    /\ status \in {0, 1}
    /\ service \in BOOLEAN
    /\ resolving \in 0 .. MaxFound /\ found \in 0 .. MaxFound
    /\ reported \in 0 .. MaxFound /\ unresolved \in 0 .. MaxFound

Init ==
    /\ pc = "idle" /\ calls = 0
    /\ count = 0 /\ sb = [i \in -1 .. Entries - 1 |-> "NULL"]
    /\ created = 0
    /\ simple_poll = "NULL" /\ client = "NULL"
    /\ quit = FALSE /\ timer = "none" /\ status = 1 /\ service = FALSE
    /\ resolving = 0 /\ found = 0 /\ reported = 0 /\ unresolved = 0

-----------------------------------------------------------------------------
(* avahi_discover *)

avahi_discover(callback) ==
    /\ pc = "idle" /\ calls < MaxCalls
    /\ calls' = calls + 1
    /\ service' = callback
    /\ client' = "NULL" /\ status' = 1
    /\ created' = 0 /\ found' = 0 /\ reported' = 0 /\ unresolved' = 0
    /\ pc' = "poll"
    /\ UNCHANGED <<table, simple_poll, loop, resolving>>

avahi_simple_poll_new ==
    /\ pc = "poll"
    /\ simple_poll' = "live" /\ quit' = FALSE /\ timer' = "none"
    /\ pc' = "client"
    /\ UNCHANGED <<setup, table, client, status, services>>

avahi_simple_poll_new_failed ==
    /\ pc = "poll"
    /\ simple_poll' = "NULL"
    /\ pc' = "fail"
    /\ UNCHANGED <<setup, table, client, loop, status, services>>

avahi_client_new ==
    /\ pc = "client"
    /\ client' = "live"
    /\ pc' = "browsers"
    /\ UNCHANGED <<setup, table, simple_poll, loop, status, services>>

(* No poll API, or no daemon to connect to.                                *)
avahi_client_new_failed ==
    /\ pc = "client"
    /\ pc' = "fail"
    /\ UNCHANGED <<setup, table, simple_poll, client, loop, status, services>>

(* sb[count++] = pointer, for the next service type.                       *)
Store(pointer) ==
    /\ sb' = [sb EXCEPT ![count] = pointer]
    /\ count' = count + 1
    /\ created' = created + 1

create_service_browser ==
    /\ pc = "browsers" /\ created < Types
    /\ Store("live")
    /\ pc' \in IF count < 0 THEN {"browsers", "undefined"} ELSE {"browsers"}
    /\ UNCHANGED <<calls, service, simple_poll, client, loop, status, services>>

(* The null pointer is stored and counted as well.                         *)
create_service_browser_failed ==
    /\ pc = "browsers" /\ created < Types
    /\ Store("NULL")
    /\ pc' \in IF count < 0 THEN {"fail_sb", "undefined"} ELSE {"fail_sb"}
    /\ UNCHANGED <<calls, service, simple_poll, client, loop, status, services>>

avahi_simple_poll_loop ==
    /\ pc = "browsers" /\ created = Types
    /\ timer' = "armed"
    /\ pc' = "loop"
    /\ UNCHANGED <<setup, table, simple_poll, client, quit, status, services>>

avahi_simple_poll_loop_return ==
    /\ pc = "loop" /\ quit
    /\ status' = 0
    /\ pc' = "fail_sb"
    /\ UNCHANGED <<setup, table, simple_poll, client, loop, services>>

(* Mutant: while (count >= 0) sb[count--].                                 *)
Released_OffByOne == 0 .. count

(* The entries that the loop "while (--count >= 0)" frees.                 *)
Released == 0 .. count - 1

(* avahi_service_browser_free asserts that it is given a browser; the      *)
(* null pointer of a browser that could not be created comes first.        *)
fail_sb_aborts ==
    /\ pc = "fail_sb"
    /\ \E i \in Released : sb[i] = "NULL"
    /\ count' = count - 1
    /\ pc' = "aborted"
    /\ UNCHANGED <<setup, sb, simple_poll, client, loop, status, services>>

fail_sb ==
    /\ pc = "fail_sb"
    /\ \A i \in Released : sb[i] # "NULL"
    /\ sb' = [i \in DOMAIN sb |-> IF i \in Released THEN "freed" ELSE sb[i]]
    /\ count' = -1
    /\ pc' = "fail"
    /\ UNCHANGED <<setup, simple_poll, client, loop, status, services>>

(* Mutant: the client is not freed.                                        *)
fail_NoClientFree ==
    /\ pc = "fail"
    /\ simple_poll' = IF simple_poll = "NULL" THEN "NULL" ELSE "freed"
    /\ pc' = "idle"
    /\ UNCHANGED <<setup, table, client, resolving, loop, status, found,
                   reported, unresolved>>

(* Freeing the client frees the browsers and the resolvers it still has;   *)
(* freeing the poll object, the timeout.                                   *)
fail ==
    /\ pc = "fail"
    /\ IF client = "NULL"
         THEN UNCHANGED <<client, sb, resolving>>
         ELSE /\ client' = "freed"
              /\ sb' = [i \in DOMAIN sb |->
                          IF sb[i] = "live" THEN "freed" ELSE sb[i]]
              /\ resolving' = 0
    /\ simple_poll' = IF simple_poll = "NULL" THEN "NULL" ELSE "freed"
    /\ timer' = "none"
    /\ pc' = "idle"
    /\ UNCHANGED <<setup, count, quit, status, found, reported, unresolved>>

-----------------------------------------------------------------------------
(* The callbacks, made by the loop.  Those already due are made after      *)
(* avahi_simple_poll_quit, too.                                            *)

Quit ==
    /\ quit' = TRUE
    /\ UNCHANGED <<pc, setup, table, simple_poll, client, status, services>>

(* Mutant: the callback of the timeout does nothing.                       *)
avahi_terminate_NoQuit ==
    /\ pc = "loop" /\ timer = "armed"
    /\ timer' = "over"
    /\ UNCHANGED <<pc, setup, table, simple_poll, client, quit, status,
                   services>>

avahi_terminate ==
    /\ pc = "loop" /\ timer = "armed"
    /\ timer' = "over"
    /\ Quit

(* AVAHI_CLIENT_FAILURE, in the loop or while the client or its browsers   *)
(* are being made.                                                         *)
avahi_client_callback ==
    /\ pc \in {"client", "browsers", "loop"}
    /\ Quit
    /\ UNCHANGED timer

(* AVAHI_BROWSER_FAILURE *)
avahi_browse_callback_failure ==
    /\ pc = "loop"
    /\ Quit
    /\ UNCHANGED timer

(* AVAHI_BROWSER_NEW; the resolver may not be to be had.  The other events *)
(* change nothing.                                                         *)
avahi_browse_callback_new ==
    /\ pc = "loop" /\ found < MaxFound
    /\ found' = found + 1
    /\ \/ resolving' = resolving + 1 /\ UNCHANGED unresolved
       \/ unresolved' = unresolved + 1 /\ UNCHANGED resolving
    /\ UNCHANGED <<pc, setup, table, simple_poll, client, loop, status,
                   reported>>

(* AVAHI_RESOLVER_FAILURE *)
avahi_resolve_callback_failure ==
    /\ pc = "loop" /\ resolving > 0
    /\ unresolved' = unresolved + 1
    /\ resolving' = resolving - 1
    /\ UNCHANGED <<pc, setup, table, simple_poll, client, loop, status, found,
                   reported>>

(* Mutant: the resolver is kept, and calls again when the service changes. *)
avahi_resolve_callback_found_Keeps ==
    /\ pc = "loop" /\ resolving > 0
    /\ reported' = IF service THEN reported + 1 ELSE reported
    /\ UNCHANGED <<pc, setup, table, simple_poll, client, loop, status, found,
                   unresolved, resolving>>

(* AVAHI_RESOLVER_FOUND *)
avahi_resolve_callback_found ==
    /\ pc = "loop" /\ resolving > 0
    /\ reported' = IF service THEN reported + 1 ELSE reported
    /\ resolving' = resolving - 1
    /\ UNCHANGED <<pc, setup, table, simple_poll, client, loop, status, found,
                   unresolved>>

-----------------------------------------------------------------------------
(* What the call does by itself, its timeout included.                     *)
Step ==
    \/ avahi_simple_poll_new \/ avahi_simple_poll_new_failed
    \/ avahi_client_new \/ avahi_client_new_failed
    \/ create_service_browser \/ create_service_browser_failed
    \/ avahi_simple_poll_loop \/ avahi_simple_poll_loop_return
    \/ fail_sb_aborts \/ fail_sb \/ fail \/ avahi_terminate

(* What the daemon and the network do.                                     *)
Event ==
    \/ avahi_client_callback \/ avahi_browse_callback_failure
    \/ avahi_browse_callback_new \/ avahi_resolve_callback_failure
    \/ avahi_resolve_callback_found

Next == Step \/ Event \/ \E callback \in BOOLEAN : avahi_discover(callback)

Spec == Init /\ [][Next]_vars

FairSpec == Spec /\ WF_vars(Step)

-----------------------------------------------------------------------------
(* A browser is stored outside of sb only in sb[-1], and only by a         *)
(* discovery that is not the first.  count is never reset.                 *)
OutsideOnlyBelow ==
    pc = "browsers" /\ created < Types =>
        \/ count \in 0 .. Entries - 1
        \/ count = -1 /\ calls > 1 /\ created = 0

(* The clean-up frees only browsers of this call, none of them twice, in   *)
(* spite of what earlier discoveries left in sb and count.  The exception  *)
(* is the null pointer of a browser that could not be created.             *)
FreesOnlyLive ==
    pc = "fail_sb" =>
        \A i \in Released :
            \/ sb[i] = "live"
            \/ sb[i] = "NULL" /\ i = count - 1 /\ status = 1

(* What a discovery does with the table that the one before has left.      *)
BrowserTable == OutsideOnlyBelow /\ FreesOnlyLive

(* Whatever fails, avahi_discover returns with nothing left allocated: not *)
(* the browser in sb[-1], which the clean-up does not reach, nor a         *)
(* resolver that had no answer yet.                                        *)
NothingLeft ==
    pc = "idle" =>
        /\ simple_poll # "live" /\ client # "live" /\ resolving = 0
        /\ \A i \in DOMAIN sb : sb[i] # "live"

(* A service that is announced is reported at most once: it is reported,   *)
(* given up, or its resolver is there until the discovery ends.            *)
EachServiceOnce ==
    pc = "loop" =>
        IF service THEN found = reported + unresolved + resolving
                   ELSE reported = 0

(* A discovery returns when its timeout is over, if nobody's assertion     *)
(* fails and nothing is overwritten.                                       *)
DiscoverReturns == (pc # "idle") ~> (pc \in {"idle", "aborted", "undefined"})
=============================================================================
