---------------------------- MODULE MdnsProofs ----------------------------
(***************************************************************************)
(* Proofs about mdns_discover: through Avahi, for any number of calls,     *)
(* service types and services; through DNS-SD, for any number of threads   *)
(* and service types, and whichever function the DLL lacks.                *)
(***************************************************************************)
EXTENDS Mdns, Sequences, TLAPS

-----------------------------------------------------------------------------
(* avahi_discover                                                          *)

(* count follows the browsers that were asked for, one behind them in a    *)
(* discovery that began with count at -1, which the first one does not.    *)
CountInv ==
    /\ pc = "idle" => count \in {0, -1} /\ (count = -1 => calls > 0)
    /\ pc = "fail" => count \in {0, -1} /\ calls > 0
    /\ pc \in {"poll", "client"} => created = 0
    /\ pc \in {"poll", "client", "browsers", "loop", "fail_sb"} =>
          /\ count = created \/ (count = created - 1 /\ calls > 1)
          /\ calls > 0
    /\ pc \in {"poll", "client", "browsers", "loop"} => status = 1

(* What the entries below count hold.                                      *)
TableInv ==
    /\ pc \in {"browsers", "loop"} =>
          \A i \in 0 .. count - 1 : sb[i] = "live"
    /\ FreesOnlyLive

(* Browsers and resolvers exist only with their client.                    *)
ClientInv ==
    /\ pc \in {"idle", "poll", "client"} \/ (pc = "fail" /\ client = "NULL") =>
          /\ client # "live" /\ resolving = 0
          /\ \A i \in DOMAIN sb : sb[i] # "live"
    /\ pc \in {"poll", "client"} => client = "NULL"
    /\ pc \in {"browsers", "loop", "fail_sb"} => client = "live"
    /\ pc \in {"idle", "poll"} => simple_poll # "live"

(* Every service that is announced is somewhere.                           *)
ServicesInv ==
    /\ reported + unresolved + resolving <= found
    /\ service /\ pc \notin {"idle", "fail"} =>
          found = reported + unresolved + resolving
    /\ ~service /\ pc # "idle" => reported = 0

AvahiInv == TypeOK /\ CountInv /\ TableInv /\ ClientInv /\ ServicesInv

-----------------------------------------------------------------------------
(* A discovery begins.                                                     *)
LEMMA AvahiDiscoverInv ==
    ASSUME AvahiInv, NEW callback \in BOOLEAN, avahi_discover(callback)
    PROVE  AvahiInv'
<1> USE AvahiAssumption DEF AvahiInv, avahi_discover, table, loop, Pointers
<1>1. TypeOK'
  <2>1. quit' \in BOOLEAN /\ service' \in BOOLEAN
    BY Zenon DEF TypeOK
  <2> QED
    BY SMT, <2>1 DEF TypeOK, ClientInv, ServicesInv
<1>2. CountInv' /\ TableInv'
  BY SMT DEF TypeOK, CountInv, TableInv, FreesOnlyLive
<1>3. ClientInv' /\ ServicesInv'
  BY SMT DEF TypeOK, ClientInv, ServicesInv
<1> QED
  BY Zenon, <1>1, <1>2, <1>3

(* The poll object is made.                                                *)
LEMMA AvahiSimplePollNewInv ==
    ASSUME AvahiInv, avahi_simple_poll_new
    PROVE  AvahiInv'
<1> USE AvahiAssumption
    DEF AvahiInv, avahi_simple_poll_new, setup, table, services
<1>1. TypeOK'
  <2>1. quit' \in BOOLEAN /\ service' \in BOOLEAN
    BY Zenon DEF TypeOK
  <2> QED
    BY SMT, <2>1 DEF TypeOK, Pointers, CountInv, ServicesInv
<1>2. CountInv'
  BY SMT DEF TypeOK, CountInv
<1>3. TableInv'
  BY SMT DEF TypeOK, CountInv, TableInv, FreesOnlyLive, Released
<1>4. ClientInv'
  BY SMT DEF TypeOK, ClientInv, Pointers
<1>5. ServicesInv'
  BY SMT DEF TypeOK, ClientInv, ServicesInv
<1> QED
  BY Zenon, <1>1, <1>2, <1>3, <1>4, <1>5

(* No poll object.                                                         *)
LEMMA AvahiSimplePollNewFailedInv ==
    ASSUME AvahiInv, avahi_simple_poll_new_failed
    PROVE  AvahiInv'
<1> USE AvahiAssumption
    DEF AvahiInv, avahi_simple_poll_new_failed, setup, table, loop, services
<1>1. TypeOK'
  BY SMT DEF TypeOK, Pointers, CountInv, ServicesInv
<1>2. CountInv'
  BY SMT DEF TypeOK, CountInv
<1>3. TableInv'
  BY SMT DEF TypeOK, CountInv, TableInv, FreesOnlyLive, Released
<1>4. ClientInv'
  BY SMT DEF TypeOK, ClientInv, Pointers
<1>5. ServicesInv'
  BY SMT DEF TypeOK, ClientInv, ServicesInv
<1> QED
  BY Zenon, <1>1, <1>2, <1>3, <1>4, <1>5

(* The client is made.                                                     *)
LEMMA AvahiClientNewInv ==
    ASSUME AvahiInv, avahi_client_new
    PROVE  AvahiInv'
<1> USE AvahiAssumption
    DEF AvahiInv, avahi_client_new, setup, table, loop, services
<1>1. TypeOK'
  BY SMT DEF TypeOK, Pointers, CountInv, ServicesInv
<1>2. CountInv'
  BY SMT DEF TypeOK, CountInv
<1>3. TableInv'
  BY SMT DEF TypeOK, CountInv, TableInv, FreesOnlyLive, Released
<1>4. ClientInv'
  BY SMT DEF TypeOK, ClientInv, Pointers
<1>5. ServicesInv'
  BY SMT DEF TypeOK, ClientInv, ServicesInv
<1> QED
  BY Zenon, <1>1, <1>2, <1>3, <1>4, <1>5

(* No client.                                                              *)
LEMMA AvahiClientNewFailedInv ==
    ASSUME AvahiInv, avahi_client_new_failed
    PROVE  AvahiInv'
<1> USE AvahiAssumption
    DEF AvahiInv, avahi_client_new_failed, setup, table, loop, services
<1>1. TypeOK'
  BY SMT DEF TypeOK, Pointers, CountInv, ServicesInv
<1>2. CountInv'
  BY SMT DEF TypeOK, CountInv
<1>3. TableInv'
  BY SMT DEF TypeOK, CountInv, TableInv, FreesOnlyLive, Released
<1>4. ClientInv'
  BY SMT DEF TypeOK, ClientInv, Pointers
<1>5. ServicesInv'
  BY SMT DEF TypeOK, ClientInv, ServicesInv
<1> QED
  BY Zenon, <1>1, <1>2, <1>3, <1>4, <1>5

(* A browser is stored.                                                    *)
LEMMA CreateServiceBrowserInv ==
    ASSUME AvahiInv, create_service_browser
    PROVE  AvahiInv'
<1> USE AvahiAssumption
    DEF AvahiInv, create_service_browser, loop, services, Store
<1>1. TypeOK'
  BY SMT DEF TypeOK, Pointers, CountInv, ServicesInv
<1>2. CountInv'
  BY SMT DEF TypeOK, CountInv
<1>3. TableInv'
  BY SMT DEF TypeOK, CountInv, TableInv, FreesOnlyLive, Released
<1>4. ClientInv'
  BY SMT DEF TypeOK, ClientInv, Pointers
<1>5. ServicesInv'
  BY SMT DEF TypeOK, ClientInv, ServicesInv
<1> QED
  BY Zenon, <1>1, <1>2, <1>3, <1>4, <1>5

(* A null pointer is stored.                                               *)
LEMMA CreateServiceBrowserFailedInv ==
    ASSUME AvahiInv, create_service_browser_failed
    PROVE  AvahiInv'
<1> USE AvahiAssumption
    DEF AvahiInv, create_service_browser_failed, loop, services, Store
<1>1. TypeOK'
  BY SMT DEF TypeOK, Pointers, CountInv, ServicesInv
<1>2. CountInv'
  BY SMT DEF TypeOK, CountInv
<1>3. TableInv'
  BY SMT DEF TypeOK, CountInv, TableInv, FreesOnlyLive, Released
<1>4. ClientInv'
  BY SMT DEF TypeOK, ClientInv, Pointers
<1>5. ServicesInv'
  BY SMT DEF TypeOK, ClientInv, ServicesInv
<1> QED
  BY Zenon, <1>1, <1>2, <1>3, <1>4, <1>5

(* The loop begins.                                                        *)
LEMMA AvahiSimplePollLoopInv ==
    ASSUME AvahiInv, avahi_simple_poll_loop
    PROVE  AvahiInv'
<1> USE AvahiAssumption
    DEF AvahiInv, avahi_simple_poll_loop, setup, table, loop, services
<1>1. TypeOK'
  BY SMT DEF TypeOK, Pointers, CountInv, ServicesInv
<1>2. CountInv'
  BY SMT DEF TypeOK, CountInv
<1>3. TableInv'
  BY SMT DEF TypeOK, CountInv, TableInv, FreesOnlyLive, Released
<1>4. ClientInv'
  BY SMT DEF TypeOK, ClientInv, Pointers
<1>5. ServicesInv'
  BY SMT DEF TypeOK, ClientInv, ServicesInv
<1> QED
  BY Zenon, <1>1, <1>2, <1>3, <1>4, <1>5

(* The loop ends.                                                          *)
LEMMA AvahiSimplePollLoopReturnInv ==
    ASSUME AvahiInv, avahi_simple_poll_loop_return
    PROVE  AvahiInv'
<1> USE AvahiAssumption
    DEF AvahiInv, avahi_simple_poll_loop_return, setup, table, loop, services
<1>1. TypeOK'
  BY SMT DEF TypeOK, Pointers, CountInv, ServicesInv
<1>2. CountInv'
  BY SMT DEF TypeOK, CountInv
<1>3. TableInv'
  BY SMT DEF TypeOK, CountInv, TableInv, FreesOnlyLive, Released
<1>4. ClientInv'
  BY SMT DEF TypeOK, ClientInv, Pointers
<1>5. ServicesInv'
  BY SMT DEF TypeOK, ClientInv, ServicesInv
<1> QED
  BY Zenon, <1>1, <1>2, <1>3, <1>4, <1>5

(* The null pointer is given to avahi_service_browser_free.                *)
LEMMA FailSbAbortsInv ==
    ASSUME AvahiInv, fail_sb_aborts
    PROVE  AvahiInv'
<1> USE AvahiAssumption
    DEF AvahiInv, fail_sb_aborts, setup, loop, services, Released
<1>1. TypeOK'
  BY SMT DEF TypeOK, Pointers, CountInv, ServicesInv
<1>2. CountInv'
  BY SMT DEF TypeOK, CountInv
<1>3. TableInv'
  BY SMT DEF TypeOK, CountInv, TableInv, FreesOnlyLive, Released
<1>4. ClientInv'
  BY SMT DEF TypeOK, ClientInv, Pointers
<1>5. ServicesInv'
  BY SMT DEF TypeOK, ClientInv, ServicesInv
<1> QED
  BY Zenon, <1>1, <1>2, <1>3, <1>4, <1>5

(* The browsers up to count are freed.                                     *)
LEMMA FailSbInv ==
    ASSUME AvahiInv, fail_sb
    PROVE  AvahiInv'
<1> USE AvahiAssumption
    DEF AvahiInv, fail_sb, setup, loop, services, Released
<1>1. TypeOK'
  BY SMT DEF TypeOK, Pointers, CountInv, ServicesInv
<1>2. CountInv'
  BY SMT DEF TypeOK, CountInv
<1>3. TableInv'
  BY SMT DEF TypeOK, CountInv, TableInv, FreesOnlyLive, Released
<1>4. ClientInv'
  BY SMT DEF TypeOK, ClientInv, Pointers
<1>5. ServicesInv'
  BY SMT DEF TypeOK, ClientInv, ServicesInv
<1> QED
  BY Zenon, <1>1, <1>2, <1>3, <1>4, <1>5

(* The client and the poll object are freed.                               *)
LEMMA FailInv ==
    ASSUME AvahiInv, fail
    PROVE  AvahiInv'
<1> USE AvahiAssumption
    DEF AvahiInv, fail, setup
<1>1. TypeOK'
  BY SMT DEF TypeOK, Pointers, CountInv, ServicesInv
<1>2. CountInv'
  BY SMT DEF TypeOK, CountInv
<1>3. TableInv'
  BY SMT DEF TypeOK, CountInv, TableInv, FreesOnlyLive, Released
<1>4. ClientInv'
  BY SMT DEF TypeOK, ClientInv, Pointers
<1>5. ServicesInv'
  BY SMT DEF TypeOK, ClientInv, ServicesInv
<1> QED
  BY Zenon, <1>1, <1>2, <1>3, <1>4, <1>5

(* The timeout.                                                            *)
LEMMA AvahiTerminateInv ==
    ASSUME AvahiInv, avahi_terminate
    PROVE  AvahiInv'
<1> USE AvahiAssumption
    DEF AvahiInv, avahi_terminate, setup, table, loop, services,
        Quit
<1>1. TypeOK'
  BY SMT DEF TypeOK, Pointers, CountInv, ServicesInv
<1>2. CountInv'
  BY SMT DEF TypeOK, CountInv
<1>3. TableInv'
  BY SMT DEF TypeOK, CountInv, TableInv, FreesOnlyLive, Released
<1>4. ClientInv'
  BY SMT DEF TypeOK, ClientInv, Pointers
<1>5. ServicesInv'
  BY SMT DEF TypeOK, ClientInv, ServicesInv
<1> QED
  BY Zenon, <1>1, <1>2, <1>3, <1>4, <1>5

(* The client failed.                                                      *)
LEMMA AvahiClientCallbackInv ==
    ASSUME AvahiInv, avahi_client_callback
    PROVE  AvahiInv'
<1> USE AvahiAssumption
    DEF AvahiInv, avahi_client_callback, setup, table, loop, services,
        Quit
<1>1. TypeOK'
  BY SMT DEF TypeOK, Pointers, CountInv, ServicesInv
<1>2. CountInv'
  BY SMT DEF TypeOK, CountInv
<1>3. TableInv'
  BY SMT DEF TypeOK, CountInv, TableInv, FreesOnlyLive, Released
<1>4. ClientInv'
  BY SMT DEF TypeOK, ClientInv, Pointers
<1>5. ServicesInv'
  BY SMT DEF TypeOK, ClientInv, ServicesInv
<1> QED
  BY Zenon, <1>1, <1>2, <1>3, <1>4, <1>5

(* A browser failed.                                                       *)
LEMMA AvahiBrowseCallbackFailureInv ==
    ASSUME AvahiInv, avahi_browse_callback_failure
    PROVE  AvahiInv'
<1> USE AvahiAssumption
    DEF AvahiInv, avahi_browse_callback_failure, setup, table, loop, services,
        Quit
<1>1. TypeOK'
  BY SMT DEF TypeOK, Pointers, CountInv, ServicesInv
<1>2. CountInv'
  BY SMT DEF TypeOK, CountInv
<1>3. TableInv'
  BY SMT DEF TypeOK, CountInv, TableInv, FreesOnlyLive, Released
<1>4. ClientInv'
  BY SMT DEF TypeOK, ClientInv, Pointers
<1>5. ServicesInv'
  BY SMT DEF TypeOK, ClientInv, ServicesInv
<1> QED
  BY Zenon, <1>1, <1>2, <1>3, <1>4, <1>5

(* A service is announced.                                                 *)
LEMMA AvahiBrowseCallbackNewInv ==
    ASSUME AvahiInv, avahi_browse_callback_new
    PROVE  AvahiInv'
<1> USE AvahiAssumption
    DEF AvahiInv, avahi_browse_callback_new, setup, table, loop
<1>1. TypeOK'
  BY SMT DEF TypeOK, Pointers, CountInv, ServicesInv
<1>2. CountInv'
  BY SMT DEF TypeOK, CountInv
<1>3. TableInv'
  BY SMT DEF TypeOK, CountInv, TableInv, FreesOnlyLive, Released
<1>4. ClientInv'
  BY SMT DEF TypeOK, ClientInv, Pointers
<1>5. ServicesInv'
  BY SMT DEF TypeOK, ClientInv, ServicesInv
<1> QED
  BY Zenon, <1>1, <1>2, <1>3, <1>4, <1>5

(* A service could not be resolved.                                        *)
LEMMA AvahiResolveCallbackFailureInv ==
    ASSUME AvahiInv, avahi_resolve_callback_failure
    PROVE  AvahiInv'
<1> USE AvahiAssumption
    DEF AvahiInv, avahi_resolve_callback_failure, setup, table, loop
<1>1. TypeOK'
  BY SMT DEF TypeOK, Pointers, CountInv, ServicesInv
<1>2. CountInv'
  BY SMT DEF TypeOK, CountInv
<1>3. TableInv'
  BY SMT DEF TypeOK, CountInv, TableInv, FreesOnlyLive, Released
<1>4. ClientInv'
  BY SMT DEF TypeOK, ClientInv, Pointers
<1>5. ServicesInv'
  BY SMT DEF TypeOK, ClientInv, ServicesInv
<1> QED
  BY Zenon, <1>1, <1>2, <1>3, <1>4, <1>5

(* A service is resolved.                                                  *)
LEMMA AvahiResolveCallbackFoundInv ==
    ASSUME AvahiInv, avahi_resolve_callback_found
    PROVE  AvahiInv'
<1> USE AvahiAssumption
    DEF AvahiInv, avahi_resolve_callback_found, setup, table, loop
<1>1. TypeOK'
  BY SMT DEF TypeOK, Pointers, CountInv, ServicesInv
<1>2. CountInv'
  BY SMT DEF TypeOK, CountInv
<1>3. TableInv'
  BY SMT DEF TypeOK, CountInv, TableInv, FreesOnlyLive, Released
<1>4. ClientInv'
  BY SMT DEF TypeOK, ClientInv, Pointers
<1>5. ServicesInv'
  BY SMT DEF TypeOK, ClientInv, ServicesInv
<1> QED
  BY Zenon, <1>1, <1>2, <1>3, <1>4, <1>5

-----------------------------------------------------------------------------
(* bonjour_discover and cygwin_dnssd_discover                              *)

(* Where a thread is: inside load_cygwin_dnssd_dll, or in                  *)
(* browse_lxi_services, before or after the reference of a type was made.  *)
LoadLabels == {"load", "dlopen", "dlsym", "error_load"}
Answering == {"sockfd", "process", "resolve", "wait", "dealloc"}
Searching == {"browse"} \cup Answering

DnsTypeOK ==
    /\ build \in {"HAVE_AVAHI", "HAVE_BONJOUR", "HAVE_CYGWIN_DNSSD"}
    /\ loaded \in SUBSET Dns!Names
    /\ at \in [Callers -> {"idle"} \cup LoadLabels \cup Searching]
    /\ sym \in [Callers -> 1 .. 6]
    /\ s \in [Callers -> 1 .. BrowseTypes + 1]
    /\ dnsService \in [Callers -> 0 .. BrowseTypes]
    /\ refs \in
          [Callers -> SUBSET ({"browse", "resolve"} \X (1 .. BrowseTypes))]
    /\ data \in [Callers -> SUBSET (1 .. BrowseTypes)]
    /\ dnsFound \in [Callers -> SUBSET (1 .. BrowseTypes)]
    /\ dnsReported \in [Callers -> SUBSET (1 .. BrowseTypes)]
    /\ gaveup \in [Callers -> SUBSET (1 .. BrowseTypes)]
    /\ cut \in [Callers -> BOOLEAN]
    /\ discoveries \in [Callers -> Nat]

(* The references of the types up to n, and no others, were made by a      *)
(* browse and not deallocated.                                             *)
Browsed(c, n) ==
    \A t \in 1 .. BrowseTypes : <<"browse", t>> \in refs[c] <=> t <= n

(* Which references of a browse thread c has, and which one service is.    *)
BrowseOf(c) ==
    /\ at[c] \in LoadLabels => s[c] = 1 /\ dnsService[c] = 0 /\ refs[c] = {}
    /\ at[c] = "browse" => dnsService[c] = s[c] - 1 /\ Browsed(c, s[c] - 1)
    /\ at[c] \in Answering =>
          s[c] <= BrowseTypes /\ dnsService[c] = s[c] /\ Browsed(c, s[c])
    /\ at[c] = "idle" /\ ~cut[c] /\ discoveries[c] > 0 =>
          s[c] = BrowseTypes + 1 /\ Browsed(c, BrowseTypes - 1)

(* Which references of a resolve it has.                                   *)
ResolveOf(c) ==
    \A t \in 1 .. BrowseTypes : <<"resolve", t>> \in refs[c] =>
        t \in gaveup[c] \/ (t = s[c] /\ at[c] \in {"wait", "dealloc"})

(* What has become of the services it has found, none of a type that is    *)
(* still to be browsed.                                                    *)
ServicesOf(c) ==
    /\ dnsFound[c] = dnsReported[c] \cup data[c]
    /\ dnsReported[c] \cap data[c] = {}
    /\ \A t \in dnsFound[c] :
          t < s[c] \/ (t = s[c] /\ at[c] \in {"resolve", "wait", "dealloc"})
    /\ at[c] \in {"resolve", "wait"} => s[c] \in data[c]

SearchOf(c) == BrowseOf(c) /\ ResolveOf(c) /\ ServicesOf(c)

(* As long as no two threads have loaded the DLL at once: one loads at a   *)
(* time, the pointers that it has passed are set, and nobody searches      *)
(* before all of them are.                                                 *)
LoadInv ==
    /\ build = "HAVE_BONJOUR" => \A c \in Callers : at[c] \notin LoadLabels
    /\ \A c \in Callers : at[c] = "dlsym" => sym[c] \in 1 .. 5
    /\ ~overlap =>
          /\ \A c, d \in Callers :
                at[c] \in Dns!Loading /\ at[d] \in Dns!Loading => c = d
          /\ (\A c \in Callers : at[c] \notin Dns!Loading) =>
                hDnssdDLL = "NULL" \/ loaded = Dns!Names
          /\ \A c \in Callers : at[c] = "dlsym" =>
                /\ hDnssdDLL # "NULL"
                /\ \A i \in 1 .. sym[c] - 1 : Dns!Functions[i] \in loaded
          /\ build # "HAVE_BONJOUR" =>
                \A c \in Callers : at[c] \in Searching =>
                    /\ hDnssdDLL # "NULL" /\ loaded = Dns!Names
                    /\ \A d \in Callers : at[d] \notin Dns!Loading

DnsInv ==
    /\ DnsTypeOK
    /\ \A c \in Callers : SearchOf(c)
    /\ LoadInv
    /\ NullCallNeedsOverlap

(* Only what thread c has of its own changes.                              *)
Frame(c) ==
    \A d \in Callers \ {c} :
        /\ at'[d] = at[d] /\ s'[d] = s[d] /\ dnsService'[d] = dnsService[d]
        /\ refs'[d] = refs[d] /\ data'[d] = data[d] /\ gaveup'[d] = gaveup[d]
        /\ dnsFound'[d] = dnsFound[d] /\ dnsReported'[d] = dnsReported[d]
        /\ cut'[d] = cut[d] /\ discoveries'[d] = discoveries[d]

(* Thread c goes on with its search, or ends it.                           *)
Browsing(c) ==
    /\ at[c] \in Searching
    /\ at' \in {[at EXCEPT ![c] = l] : l \in {"idle"} \cup Searching}
    /\ UNCHANGED <<build, hDnssdDLL, loaded, sym, overlap>>
    /\ crash' # "null_function" \/ crash' = crash

-----------------------------------------------------------------------------
(* The functions of the library.                                           *)
LEMMA FunctionsAre ==
    /\ Len(Dns!Functions) = 5
    /\ \A i \in 1 .. 5 : Dns!Functions[i] \in Dns!Names
    /\ \A f \in Dns!Names : \E i \in 1 .. 5 : f = Dns!Functions[i]
<1>1. Len(Dns!Functions) = 5
  BY SMT DEF Dns!Functions
<1> QED
  BY SMT, <1>1 DEF Dns!Names

(* What holds of each of the other threads holds after a step of c.        *)
LEMMA SearchFrame ==
    ASSUME NEW c \in Callers, \A d \in Callers : SearchOf(d), Frame(c),
           SearchOf(c)'
    PROVE  (\A d \in Callers : SearchOf(d))'
<1> SUFFICES ASSUME NEW d \in Callers, d # c PROVE SearchOf(d)'
  BY Zenon
<1>1. SearchOf(d)
  BY Zenon
<1> QED
  BY SMT, <1>1
     DEF Frame, SearchOf, BrowseOf, Browsed, ResolveOf, ServicesOf

(* The next turn of the loop finds the references of the turns before.     *)
LEMMA BrowseNextType ==
    ASSUME DnsTypeOK, NEW c \in Callers, BrowseOf(c), at[c] \in Answering,
           at'[c] = "browse", s'[c] = s[c] + 1, dnsService'[c] = dnsService[c],
           \A t \in 1 .. BrowseTypes :
              <<"browse", t>> \in refs'[c] <=> <<"browse", t>> \in refs[c]
    PROVE  BrowseOf(c)'
<1>1. /\ s[c] \in Nat /\ s'[c] - 1 = s[c] /\ dnsService[c] = s[c]
      /\ Browsed(c, s[c])
  BY SMT, DnsSdAssumption DEF DnsTypeOK, BrowseOf
<1>2. \A t \in 1 .. BrowseTypes : <<"browse", t>> \in refs'[c] <=> t <= s[c]
  BY Zenon, <1>1 DEF Browsed
<1>3. at'[c] \notin LoadLabels /\ at'[c] \notin Answering /\ at'[c] # "idle"
  BY SMT DEF LoadLabels, Answering
<1> QED
  BY SMT, <1>1, <1>2, <1>3 DEF BrowseOf, Browsed

(* Nothing of the types before is touched by the next turn of the loop.    *)
LEMMA ServicesNextType ==
    ASSUME DnsTypeOK, NEW c \in Callers, ServicesOf(c), at'[c] = "browse",
           s'[c] = s[c] + 1, data' = data, dnsFound' = dnsFound,
           dnsReported' = dnsReported
    PROVE  ServicesOf(c)'
<1>1. s[c] \in Nat /\ \A t \in dnsFound[c] : t \in Nat
  BY SMT, DnsSdAssumption DEF DnsTypeOK
<1>2. \A t \in dnsFound[c] : t < s[c] + 1
  BY SMT, <1>1 DEF ServicesOf
<1>3. at'[c] \notin {"resolve", "wait"}
  BY SMT
<1> QED
  BY Zenon, <1>2, <1>3 DEF ServicesOf

(* The end of the loop deallocates the last reference.                     *)
LEMMA BrowsedButLast ==
    ASSUME NEW c \in Callers, Browsed(c, BrowseTypes),
           refs'[c] = refs[c] \ {<<"browse", BrowseTypes>>}
    PROVE  Browsed(c, BrowseTypes - 1)'
<1>1. \A t \in 1 .. BrowseTypes :
         <<"browse", t>> \in refs'[c] <=>
             <<"browse", t>> \in refs[c] /\ t # BrowseTypes
  BY SMT, DnsSdAssumption
<1>2. \A t \in 1 .. BrowseTypes :
         t <= BrowseTypes /\ t # BrowseTypes <=> t <= BrowseTypes - 1
  BY SMT, DnsSdAssumption
<1> QED
  BY Zenon, <1>1, <1>2 DEF Browsed

(* The loop ends when all types were browsed.                              *)
LEMMA LabelEnd ==
    ASSUME DnsTypeOK, NEW c \in Callers, Dns!Label(c) = "end"
    PROVE  at[c] = "browse" /\ s[c] > BrowseTypes
<1>1. at[c] # "end"
  BY SMT DEF DnsTypeOK, LoadLabels, Searching, Answering
<1> QED
  BY SMT, <1>1 DEF Dns!Label

(* A step of a search leaves the DLL as it is.                             *)
LEMMA LoadBrowsing ==
    ASSUME DnsTypeOK, LoadInv, NullCallNeedsOverlap, NEW c \in Callers,
           Browsing(c)
    PROVE  LoadInv' /\ NullCallNeedsOverlap'
<1>1. PICK l \in {"idle"} \cup Searching : at' = [at EXCEPT ![c] = l]
  BY Zenon DEF Browsing
<1>2. /\ \A d \in Callers : at'[d] = IF d = c THEN l ELSE at[d]
  BY SMT, <1>1 DEF DnsTypeOK
<1>3. at[c] \in Searching
  BY Zenon DEF Browsing
<1>4. /\ l \notin LoadLabels /\ l \notin Dns!Loading /\ l # "dlsym"
      /\ at[c] \notin Dns!Loading
  BY SMT, <1>3 DEF Searching, Answering, LoadLabels, Dns!Loading
<1>5. /\ build' = build /\ hDnssdDLL' = hDnssdDLL /\ loaded' = loaded
      /\ sym' = sym /\ (overlap' <=> overlap)
  BY Zenon DEF Browsing
<1>6. \A d \in Callers :
         /\ at'[d] \in LoadLabels => at[d] \in LoadLabels
         /\ at'[d] \in Dns!Loading <=> at[d] \in Dns!Loading
         /\ at'[d] = "dlsym" => at[d] = "dlsym"
         /\ at'[d] \in Searching => at[d] \in Searching
  BY SMT, <1>2, <1>4, <1>3
<1>7. LoadInv'
  BY Zenon, <1>5, <1>6 DEF LoadInv
<1>8. NullCallNeedsOverlap'
  BY Zenon DEF Browsing, NullCallNeedsOverlap, Dns!NullCallNeedsOverlap
<1> QED
  BY <1>7, <1>8

(* DNSServiceBrowse gives a reference.                                     *)
LEMMA DNSServiceBrowseOkInv ==
    ASSUME DnsInv, NEW c \in Callers, Dns!DNSServiceBrowse_ok(c)
    PROVE  DnsInv'
<1> USE DnsSdAssumption
    DEF DnsInv, Dns!DNSServiceBrowse_ok, Dns!Calling, Dns!Label,
        Dns!Go, Dns!others, Dns!library, Dns!history, Dns!results
<1>1. DnsTypeOK'
  BY SMT DEF DnsTypeOK, SearchOf, BrowseOf, LoadLabels, Searching, Answering
<1>2. Frame(c)
  BY SMT DEF DnsTypeOK, Frame
<1>3. BrowseOf(c)'
  BY SMT DEF DnsTypeOK, SearchOf, BrowseOf, Browsed, LoadLabels, Searching,
     Answering
<1>4. /\ at[c] = "browse" /\ at'[c] = "sockfd" /\ s' = s
      /\ refs'[c] = refs[c] \cup {<<"browse", s[c]>>} /\ gaveup' = gaveup
      /\ data' = data /\ dnsFound' = dnsFound /\ dnsReported' = dnsReported
  BY SMT DEF DnsTypeOK
<1>5. ResolveOf(c)'
  BY SMT, <1>4 DEF SearchOf, ResolveOf
<1>6. ServicesOf(c)'
  BY SMT, <1>4 DEF SearchOf, ServicesOf
<1>7. Browsing(c)
  BY SMT DEF DnsTypeOK, Browsing, Searching, Answering
<1> QED
  BY Zenon, <1>1, <1>2, <1>3, <1>5, <1>6, <1>7, SearchFrame, LoadBrowsing
     DEF SearchOf

(* DNSServiceBrowse fails.                                                 *)
LEMMA DNSServiceBrowseFailedInv ==
    ASSUME DnsInv, NEW c \in Callers, Dns!DNSServiceBrowse_failed(c)
    PROVE  DnsInv'
<1> USE DnsSdAssumption
    DEF DnsInv, Dns!DNSServiceBrowse_failed, Dns!Calling, Dns!Label,
        Dns!Go, Dns!others, Dns!library, Dns!history, Dns!results, Dns!Return
<1>1. DnsTypeOK'
  BY SMT DEF DnsTypeOK, SearchOf, BrowseOf, LoadLabels, Searching, Answering
<1>2. Frame(c)
  BY SMT DEF DnsTypeOK, Frame
<1>3. BrowseOf(c)'
  BY SMT DEF DnsTypeOK, SearchOf, BrowseOf, Browsed, LoadLabels, Searching,
     Answering
<1>4. ResolveOf(c)'
  BY SMT DEF DnsTypeOK, SearchOf, BrowseOf, ResolveOf, Answering
<1>5. ServicesOf(c)'
  BY SMT DEF DnsTypeOK, SearchOf, BrowseOf, ServicesOf, Answering
<1>6. Browsing(c)
  BY SMT DEF DnsTypeOK, Browsing, Searching, Answering
<1> QED
  BY Zenon, <1>1, <1>2, <1>3, <1>4, <1>5, <1>6, SearchFrame, LoadBrowsing
     DEF SearchOf

(* A reply to the browse is there.                                         *)
LEMMA SelectReadyInv ==
    ASSUME DnsInv, NEW c \in Callers, Dns!select_ready(c)
    PROVE  DnsInv'
<1> USE DnsSdAssumption
    DEF DnsInv, Dns!select_ready, Dns!Calling, Dns!Label,
        Dns!Go, Dns!others, Dns!library, Dns!history, Dns!results
<1>1. DnsTypeOK'
  BY SMT DEF DnsTypeOK, SearchOf, BrowseOf, LoadLabels, Searching, Answering
<1>2. Frame(c)
  BY SMT DEF DnsTypeOK, Frame
<1>3. BrowseOf(c)'
  BY SMT DEF DnsTypeOK, SearchOf, BrowseOf, Browsed, LoadLabels, Searching,
     Answering
<1>4. ResolveOf(c)'
  BY SMT DEF DnsTypeOK, SearchOf, BrowseOf, ResolveOf, Answering
<1>5. ServicesOf(c)'
  BY SMT DEF DnsTypeOK, SearchOf, BrowseOf, ServicesOf, Answering
<1>6. Browsing(c)
  BY SMT DEF DnsTypeOK, Browsing, Searching, Answering
<1> QED
  BY Zenon, <1>1, <1>2, <1>3, <1>4, <1>5, <1>6, SearchFrame, LoadBrowsing
     DEF SearchOf

(* No reply to the browse.                                                 *)
LEMMA SelectTimeoutInv ==
    ASSUME DnsInv, NEW c \in Callers, Dns!select_timeout(c)
    PROVE  DnsInv'
<1> USE DnsSdAssumption
    DEF DnsInv, Dns!select_timeout, Dns!Calling, Dns!Label,
        Dns!Go, Dns!others, Dns!library, Dns!history, Dns!results, Dns!NextType
<1>1. DnsTypeOK'
  BY SMT DEF DnsTypeOK, SearchOf, BrowseOf, LoadLabels, Searching, Answering
<1>2. Frame(c)
  BY SMT DEF DnsTypeOK, Frame
<1>3. BrowseOf(c)'
  <2>1. /\ at[c] \in Answering /\ at'[c] = "browse" /\ s'[c] = s[c] + 1
        /\ dnsService'[c] = dnsService[c]
    BY SMT DEF DnsTypeOK, Answering
  <2>2. \A t \in 1 .. BrowseTypes :
           <<"browse", t>> \in refs'[c] <=> <<"browse", t>> \in refs[c]
    BY SMT DEF DnsTypeOK
  <2> QED
    BY Zenon, <2>1, <2>2, BrowseNextType DEF SearchOf
<1>4. ResolveOf(c)'
  BY SMT DEF DnsTypeOK, SearchOf, BrowseOf, ResolveOf, Answering
<1>5. ServicesOf(c)'
  <2>1. at'[c] = "browse" /\ s'[c] = s[c] + 1
    BY SMT DEF DnsTypeOK
  <2> QED
    BY Zenon, <2>1, ServicesNextType DEF SearchOf
<1>6. Browsing(c)
  BY SMT DEF DnsTypeOK, Browsing, Searching, Answering
<1> QED
  BY Zenon, <1>1, <1>2, <1>3, <1>4, <1>5, <1>6, SearchFrame, LoadBrowsing
     DEF SearchOf

(* select() fails.                                                         *)
LEMMA SelectFailedInv ==
    ASSUME DnsInv, NEW c \in Callers, Dns!select_failed(c)
    PROVE  DnsInv'
<1> USE DnsSdAssumption
    DEF DnsInv, Dns!select_failed, Dns!Calling, Dns!Label,
        Dns!Go, Dns!others, Dns!library, Dns!history, Dns!results, Dns!Return
<1>1. DnsTypeOK'
  BY SMT DEF DnsTypeOK, SearchOf, BrowseOf, LoadLabels, Searching, Answering
<1>2. Frame(c)
  BY SMT DEF DnsTypeOK, Frame
<1>3. BrowseOf(c)'
  BY SMT DEF DnsTypeOK, SearchOf, BrowseOf, Browsed, LoadLabels, Searching,
     Answering
<1>4. ResolveOf(c)'
  BY SMT DEF DnsTypeOK, SearchOf, BrowseOf, ResolveOf, Answering
<1>5. ServicesOf(c)'
  BY SMT DEF DnsTypeOK, SearchOf, BrowseOf, ServicesOf, Answering
<1>6. Browsing(c)
  BY SMT DEF DnsTypeOK, Browsing, Searching, Answering
<1> QED
  BY Zenon, <1>1, <1>2, <1>3, <1>4, <1>5, <1>6, SearchFrame, LoadBrowsing
     DEF SearchOf

(* The reply cannot be read.                                               *)
LEMMA ProcessResultFailedInv ==
    ASSUME DnsInv, NEW c \in Callers, Dns!ProcessResult_failed(c)
    PROVE  DnsInv'
<1> USE DnsSdAssumption
    DEF DnsInv, Dns!ProcessResult_failed, Dns!Calling, Dns!Label,
        Dns!Go, Dns!others, Dns!library, Dns!history, Dns!results, Dns!Return
<1>1. DnsTypeOK'
  BY SMT DEF DnsTypeOK, SearchOf, BrowseOf, LoadLabels, Searching, Answering
<1>2. Frame(c)
  BY SMT DEF DnsTypeOK, Frame
<1>3. BrowseOf(c)'
  BY SMT DEF DnsTypeOK, SearchOf, BrowseOf, Browsed, LoadLabels, Searching,
     Answering
<1>4. ResolveOf(c)'
  BY SMT DEF DnsTypeOK, SearchOf, BrowseOf, ResolveOf, Answering
<1>5. ServicesOf(c)'
  BY SMT DEF DnsTypeOK, SearchOf, BrowseOf, ServicesOf, Answering
<1>6. Browsing(c)
  BY SMT DEF DnsTypeOK, Browsing, Searching, Answering
<1> QED
  BY Zenon, <1>1, <1>2, <1>3, <1>4, <1>5, <1>6, SearchFrame, LoadBrowsing
     DEF SearchOf

(* The daemon reports an error.                                            *)
LEMMA BrowseCallbackErrorInv ==
    ASSUME DnsInv, NEW c \in Callers, Dns!browse_callback_error(c)
    PROVE  DnsInv'
<1> USE DnsSdAssumption
    DEF DnsInv, Dns!browse_callback_error, Dns!Calling, Dns!Label,
        Dns!Go, Dns!others, Dns!library, Dns!history, Dns!results, Dns!NextType
<1>1. DnsTypeOK'
  BY SMT DEF DnsTypeOK, SearchOf, BrowseOf, LoadLabels, Searching, Answering
<1>2. Frame(c)
  BY SMT DEF DnsTypeOK, Frame
<1>3. BrowseOf(c)'
  <2>1. /\ at[c] \in Answering /\ at'[c] = "browse" /\ s'[c] = s[c] + 1
        /\ dnsService'[c] = dnsService[c]
    BY SMT DEF DnsTypeOK, Answering
  <2>2. \A t \in 1 .. BrowseTypes :
           <<"browse", t>> \in refs'[c] <=> <<"browse", t>> \in refs[c]
    BY SMT DEF DnsTypeOK
  <2> QED
    BY Zenon, <2>1, <2>2, BrowseNextType DEF SearchOf
<1>4. ResolveOf(c)'
  BY SMT DEF DnsTypeOK, SearchOf, BrowseOf, ResolveOf, Answering
<1>5. ServicesOf(c)'
  <2>1. at'[c] = "browse" /\ s'[c] = s[c] + 1
    BY SMT DEF DnsTypeOK
  <2> QED
    BY Zenon, <2>1, ServicesNextType DEF SearchOf
<1>6. Browsing(c)
  BY SMT DEF DnsTypeOK, Browsing, Searching, Answering
<1> QED
  BY Zenon, <1>1, <1>2, <1>3, <1>4, <1>5, <1>6, SearchFrame, LoadBrowsing
     DEF SearchOf

(* A service is found.                                                     *)
LEMMA BrowseCallbackInv ==
    ASSUME DnsInv, NEW c \in Callers, Dns!browse_callback(c)
    PROVE  DnsInv'
<1> USE DnsSdAssumption
    DEF DnsInv, Dns!browse_callback, Dns!Calling, Dns!Label,
        Dns!Go, Dns!others, Dns!library, Dns!history, Dns!results, Dns!Crash
<1>1. DnsTypeOK'
  <2>1. CASE "broadcast" \in info[c]
    BY SMT, <2>1
       DEF DnsTypeOK, SearchOf, BrowseOf, LoadLabels, Searching, Answering
  <2>2. CASE "broadcast" \notin info[c]
    BY SMT, <2>2
       DEF DnsTypeOK, SearchOf, BrowseOf, LoadLabels, Searching, Answering
  <2> QED
    BY <2>1, <2>2
<1>2. Frame(c)
  BY SMT DEF DnsTypeOK, Frame
<1>3. BrowseOf(c)'
  BY SMT DEF DnsTypeOK, SearchOf, BrowseOf, Browsed, LoadLabels, Searching,
     Answering
<1>4. ResolveOf(c)'
  BY SMT DEF DnsTypeOK, SearchOf, BrowseOf, ResolveOf, Answering
<1>5. ServicesOf(c)'
  BY SMT DEF DnsTypeOK, SearchOf, BrowseOf, ServicesOf, Answering
<1>6. Browsing(c)
  <2>1. at[c] = "process" /\ at[c] \in Searching
    BY SMT DEF DnsTypeOK, Searching, Answering
  <2>2. \/ at' = [at EXCEPT ![c] = "resolve"]
        \/ at' = [at EXCEPT ![c] = "process"]
    BY SMT, <2>1 DEF DnsTypeOK
  <2>3. crash' = crash \/ crash' = "broadcast"
    BY SMT
  <2> QED
    BY SMT, <2>1, <2>2, <2>3 DEF Browsing, Searching, Answering
<1> QED
  BY Zenon, <1>1, <1>2, <1>3, <1>4, <1>5, <1>6, SearchFrame, LoadBrowsing
     DEF SearchOf

(* There is no memory for browse_data.                                     *)
LEMMA BrowseCallbackNoMemoryInv ==
    ASSUME DnsInv, NEW c \in Callers, Dns!browse_callback_no_memory(c)
    PROVE  DnsInv'
<1> USE DnsSdAssumption
    DEF DnsInv, Dns!browse_callback_no_memory, Dns!Calling, Dns!Label,
        Dns!Go, Dns!others, Dns!library, Dns!history, Dns!results, Dns!NextType
<1>1. DnsTypeOK'
  BY SMT DEF DnsTypeOK, SearchOf, BrowseOf, LoadLabels, Searching, Answering
<1>2. Frame(c)
  BY SMT DEF DnsTypeOK, Frame
<1>3. BrowseOf(c)'
  <2>1. /\ at[c] \in Answering /\ at'[c] = "browse" /\ s'[c] = s[c] + 1
        /\ dnsService'[c] = dnsService[c]
    BY SMT DEF DnsTypeOK, Answering
  <2>2. \A t \in 1 .. BrowseTypes :
           <<"browse", t>> \in refs'[c] <=> <<"browse", t>> \in refs[c]
    BY SMT DEF DnsTypeOK
  <2> QED
    BY Zenon, <2>1, <2>2, BrowseNextType DEF SearchOf
<1>4. ResolveOf(c)'
  BY SMT DEF DnsTypeOK, SearchOf, BrowseOf, ResolveOf, Answering
<1>5. ServicesOf(c)'
  <2>1. at'[c] = "browse" /\ s'[c] = s[c] + 1
    BY SMT DEF DnsTypeOK
  <2> QED
    BY Zenon, <2>1, ServicesNextType DEF SearchOf
<1>6. Browsing(c)
  BY SMT DEF DnsTypeOK, Browsing, Searching, Answering
<1> QED
  BY Zenon, <1>1, <1>2, <1>3, <1>4, <1>5, <1>6, SearchFrame, LoadBrowsing
     DEF SearchOf

(* The resolve is asked for.                                               *)
LEMMA DNSServiceResolveOkInv ==
    ASSUME DnsInv, NEW c \in Callers, Dns!DNSServiceResolve_ok(c)
    PROVE  DnsInv'
<1> USE DnsSdAssumption
    DEF DnsInv, Dns!DNSServiceResolve_ok, Dns!Calling, Dns!Label,
        Dns!Go, Dns!others, Dns!library, Dns!history, Dns!results
<1>1. DnsTypeOK'
  BY SMT DEF DnsTypeOK, SearchOf, BrowseOf, LoadLabels, Searching, Answering
<1>2. Frame(c)
  BY SMT DEF DnsTypeOK, Frame
<1>3. BrowseOf(c)'
  BY SMT DEF DnsTypeOK, SearchOf, BrowseOf, Browsed, LoadLabels, Searching,
     Answering
<1>4. ResolveOf(c)'
  BY SMT DEF DnsTypeOK, SearchOf, BrowseOf, ResolveOf, Answering
<1>5. ServicesOf(c)'
  BY SMT DEF DnsTypeOK, SearchOf, BrowseOf, ServicesOf, Answering
<1>6. Browsing(c)
  BY SMT DEF DnsTypeOK, Browsing, Searching, Answering
<1> QED
  BY Zenon, <1>1, <1>2, <1>3, <1>4, <1>5, <1>6, SearchFrame, LoadBrowsing
     DEF SearchOf

(* The resolve cannot be asked for.                                        *)
LEMMA DNSServiceResolveFailedInv ==
    ASSUME DnsInv, NEW c \in Callers, Dns!DNSServiceResolve_failed(c)
    PROVE  DnsInv'
<1> USE DnsSdAssumption
    DEF DnsInv, Dns!DNSServiceResolve_failed, Dns!Calling, Dns!Label,
        Dns!Go, Dns!others, Dns!library, Dns!history, Dns!results, Dns!NextType
<1>1. DnsTypeOK'
  BY SMT DEF DnsTypeOK, SearchOf, BrowseOf, LoadLabels, Searching, Answering
<1>2. Frame(c)
  BY SMT DEF DnsTypeOK, Frame
<1>3. BrowseOf(c)'
  <2>1. /\ at[c] \in Answering /\ at'[c] = "browse" /\ s'[c] = s[c] + 1
        /\ dnsService'[c] = dnsService[c]
    BY SMT DEF DnsTypeOK, Answering
  <2>2. \A t \in 1 .. BrowseTypes :
           <<"browse", t>> \in refs'[c] <=> <<"browse", t>> \in refs[c]
    BY SMT DEF DnsTypeOK
  <2> QED
    BY Zenon, <2>1, <2>2, BrowseNextType DEF SearchOf
<1>4. ResolveOf(c)'
  BY SMT DEF DnsTypeOK, SearchOf, BrowseOf, ResolveOf, Answering
<1>5. ServicesOf(c)'
  <2>1. at'[c] = "browse" /\ s'[c] = s[c] + 1
    BY SMT DEF DnsTypeOK
  <2> QED
    BY Zenon, <2>1, ServicesNextType DEF SearchOf
<1>6. Browsing(c)
  BY SMT DEF DnsTypeOK, Browsing, Searching, Answering
<1> QED
  BY Zenon, <1>1, <1>2, <1>3, <1>4, <1>5, <1>6, SearchFrame, LoadBrowsing
     DEF SearchOf

(* The answer to the resolve cannot be read.                               *)
LEMMA ResolveFailedInv ==
    ASSUME DnsInv, NEW c \in Callers, Dns!resolve_failed(c)
    PROVE  DnsInv'
<1> USE DnsSdAssumption
    DEF DnsInv, Dns!resolve_failed, Dns!Calling, Dns!Label,
        Dns!Go, Dns!others, Dns!library, Dns!history, Dns!results, Dns!NextType
<1>1. DnsTypeOK'
  BY SMT DEF DnsTypeOK, SearchOf, BrowseOf, LoadLabels, Searching, Answering
<1>2. Frame(c)
  BY SMT DEF DnsTypeOK, Frame
<1>3. BrowseOf(c)'
  <2>1. /\ at[c] \in Answering /\ at'[c] = "browse" /\ s'[c] = s[c] + 1
        /\ dnsService'[c] = dnsService[c]
    BY SMT DEF DnsTypeOK, Answering
  <2>2. \A t \in 1 .. BrowseTypes :
           <<"browse", t>> \in refs'[c] <=> <<"browse", t>> \in refs[c]
    BY SMT DEF DnsTypeOK
  <2> QED
    BY Zenon, <2>1, <2>2, BrowseNextType DEF SearchOf
<1>4. ResolveOf(c)'
  BY SMT DEF DnsTypeOK, SearchOf, BrowseOf, ResolveOf, Answering
<1>5. ServicesOf(c)'
  <2>1. at'[c] = "browse" /\ s'[c] = s[c] + 1
    BY SMT DEF DnsTypeOK
  <2> QED
    BY Zenon, <2>1, ServicesNextType DEF SearchOf
<1>6. Browsing(c)
  BY SMT DEF DnsTypeOK, Browsing, Searching, Answering
<1> QED
  BY Zenon, <1>1, <1>2, <1>3, <1>4, <1>5, <1>6, SearchFrame, LoadBrowsing
     DEF SearchOf

(* The resolve failed.                                                     *)
LEMMA ResolveCallbackErrorInv ==
    ASSUME DnsInv, NEW c \in Callers, Dns!resolve_callback_error(c)
    PROVE  DnsInv'
<1> USE DnsSdAssumption
    DEF DnsInv, Dns!resolve_callback_error, Dns!Calling, Dns!Label,
        Dns!Go, Dns!others, Dns!library, Dns!history, Dns!results
<1>1. DnsTypeOK'
  BY SMT DEF DnsTypeOK, SearchOf, BrowseOf, LoadLabels, Searching, Answering
<1>2. Frame(c)
  BY SMT DEF DnsTypeOK, Frame
<1>3. BrowseOf(c)'
  BY SMT DEF DnsTypeOK, SearchOf, BrowseOf, Browsed, LoadLabels, Searching,
     Answering
<1>4. ResolveOf(c)'
  BY SMT DEF DnsTypeOK, SearchOf, BrowseOf, ResolveOf, Answering
<1>5. ServicesOf(c)'
  BY SMT DEF DnsTypeOK, SearchOf, BrowseOf, ServicesOf, Answering
<1>6. Browsing(c)
  BY SMT DEF DnsTypeOK, Browsing, Searching, Answering
<1> QED
  BY Zenon, <1>1, <1>2, <1>3, <1>4, <1>5, <1>6, SearchFrame, LoadBrowsing
     DEF SearchOf

(* A service is resolved.                                                  *)
LEMMA ResolveCallbackInv ==
    ASSUME DnsInv, NEW c \in Callers, Dns!resolve_callback(c)
    PROVE  DnsInv'
<1> USE DnsSdAssumption
    DEF DnsInv, Dns!resolve_callback, Dns!Calling, Dns!Label,
        Dns!Go, Dns!others, Dns!library, Dns!history, Dns!results, Dns!Crash
<1>1. DnsTypeOK'
  <2>1. CASE "service" \in info[c]
    BY SMT, <2>1
       DEF DnsTypeOK, SearchOf, BrowseOf, LoadLabels, Searching, Answering
  <2>2. CASE "service" \notin info[c]
    BY SMT, <2>2
       DEF DnsTypeOK, SearchOf, BrowseOf, LoadLabels, Searching, Answering
  <2> QED
    BY <2>1, <2>2
<1>2. Frame(c)
  BY SMT DEF DnsTypeOK, Frame
<1>3. BrowseOf(c)'
  BY SMT DEF DnsTypeOK, SearchOf, BrowseOf, Browsed, LoadLabels, Searching,
     Answering
<1>4. ResolveOf(c)'
  BY SMT DEF DnsTypeOK, SearchOf, BrowseOf, ResolveOf, Answering
<1>5. ServicesOf(c)'
  BY SMT DEF DnsTypeOK, SearchOf, BrowseOf, ServicesOf, Answering
<1>6. Browsing(c)
  <2>1. at[c] = "wait" /\ at[c] \in Searching
    BY SMT DEF DnsTypeOK, Searching, Answering
  <2>2. \/ at' = [at EXCEPT ![c] = "dealloc"]
        \/ at' = [at EXCEPT ![c] = "wait"]
    BY SMT, <2>1 DEF DnsTypeOK
  <2>3. crash' = crash \/ crash' = "service"
    BY SMT
  <2> QED
    BY SMT, <2>1, <2>2, <2>3 DEF Browsing, Searching, Answering
<1> QED
  BY Zenon, <1>1, <1>2, <1>3, <1>4, <1>5, <1>6, SearchFrame, LoadBrowsing
     DEF SearchOf

(* servinfo is followed.                                                   *)
LEMMA ResolveIpAddressCrashInv ==
    ASSUME DnsInv, NEW c \in Callers, Dns!resolve_ip_address_crash(c)
    PROVE  DnsInv'
<1> USE DnsSdAssumption
    DEF DnsInv, Dns!resolve_ip_address_crash, Dns!Calling, Dns!Label,
        Dns!Go, Dns!others, Dns!library, Dns!history, Dns!results, Dns!Crash
<1>1. DnsTypeOK'
  BY SMT DEF DnsTypeOK, SearchOf, BrowseOf, LoadLabels, Searching, Answering
<1>2. Frame(c)
  BY SMT DEF DnsTypeOK, Frame
<1>3. BrowseOf(c)'
  BY SMT DEF DnsTypeOK, SearchOf, BrowseOf, Browsed, LoadLabels, Searching,
     Answering
<1>4. ResolveOf(c)'
  BY SMT DEF DnsTypeOK, SearchOf, BrowseOf, ResolveOf, Answering
<1>5. ServicesOf(c)'
  BY SMT DEF DnsTypeOK, SearchOf, BrowseOf, ServicesOf, Answering
<1>6. Browsing(c)
  BY SMT DEF DnsTypeOK, Browsing, Searching, Answering
<1> QED
  BY Zenon, <1>1, <1>2, <1>3, <1>4, <1>5, <1>6, SearchFrame, LoadBrowsing
     DEF SearchOf

(* The reference of the resolve is deallocated.                            *)
LEMMA ResolveDeallocInv ==
    ASSUME DnsInv, NEW c \in Callers, Dns!resolve_dealloc(c)
    PROVE  DnsInv'
<1> USE DnsSdAssumption
    DEF DnsInv, Dns!resolve_dealloc, Dns!Calling, Dns!Label,
        Dns!Go, Dns!others, Dns!library, Dns!history, Dns!results, Dns!NextType
<1>1. DnsTypeOK'
  BY SMT DEF DnsTypeOK, SearchOf, BrowseOf, LoadLabels, Searching, Answering
<1>2. Frame(c)
  BY SMT DEF DnsTypeOK, Frame
<1>3. BrowseOf(c)'
  <2>1. /\ at[c] \in Answering /\ at'[c] = "browse" /\ s'[c] = s[c] + 1
        /\ dnsService'[c] = dnsService[c]
    BY SMT DEF DnsTypeOK, Answering
  <2>2. \A t \in 1 .. BrowseTypes :
           <<"browse", t>> \in refs'[c] <=> <<"browse", t>> \in refs[c]
    BY SMT DEF DnsTypeOK
  <2> QED
    BY Zenon, <2>1, <2>2, BrowseNextType DEF SearchOf
<1>4. ResolveOf(c)'
  BY SMT DEF DnsTypeOK, SearchOf, BrowseOf, ResolveOf, Answering
<1>5. ServicesOf(c)'
  <2>1. at'[c] = "browse" /\ s'[c] = s[c] + 1
    BY SMT DEF DnsTypeOK
  <2> QED
    BY Zenon, <2>1, ServicesNextType DEF SearchOf
<1>6. Browsing(c)
  BY SMT DEF DnsTypeOK, Browsing, Searching, Answering
<1> QED
  BY Zenon, <1>1, <1>2, <1>3, <1>4, <1>5, <1>6, SearchFrame, LoadBrowsing
     DEF SearchOf

(* The search is complete.                                                 *)
LEMMA BrowseLxiServicesEndInv ==
    ASSUME DnsInv, NEW c \in Callers, Dns!browse_lxi_services_end(c)
    PROVE  DnsInv'
<1> USE DnsSdAssumption
    DEF DnsInv, Dns!browse_lxi_services_end, Dns!Calling, Dns!Label,
        Dns!Go, Dns!others, Dns!library, Dns!history, Dns!results
<1>1. DnsTypeOK'
  BY SMT DEF DnsTypeOK, SearchOf, BrowseOf, LoadLabels, Searching, Answering
<1>2. Frame(c)
  BY SMT DEF DnsTypeOK, Frame
<1>3. /\ at[c] = "browse" /\ s[c] = BrowseTypes + 1 /\ at'[c] = "idle"
      /\ s' = s /\ gaveup' = gaveup
  BY SMT, LabelEnd DEF DnsTypeOK
<1>4. dnsService[c] = BrowseTypes /\ Browsed(c, BrowseTypes)
  BY SMT, <1>3 DEF SearchOf, BrowseOf
<1>5. refs'[c] = refs[c] \ {<<"browse", BrowseTypes>>}
  BY SMT, <1>4 DEF DnsTypeOK
<1>6. BrowseOf(c)'
  <2>1. Browsed(c, BrowseTypes - 1)'
    BY Zenon, <1>4, <1>5, BrowsedButLast
  <2> QED
    BY SMT, <1>3, <2>1 DEF BrowseOf, LoadLabels, Answering
<1>7. ResolveOf(c)'
  BY SMT, <1>3, <1>5 DEF SearchOf, ResolveOf
<1>8. ServicesOf(c)'
  BY SMT DEF DnsTypeOK, SearchOf, BrowseOf, ServicesOf, Answering
<1>9. Browsing(c)
  <2>1. at[c] \in Searching /\ at' = [at EXCEPT ![c] = "idle"]
    BY SMT, LabelEnd DEF Searching
  <2> QED
    BY Zenon, <2>1 DEF Browsing
<1> QED
  BY Zenon, <1>1, <1>2, <1>6, <1>7, <1>8, <1>9, SearchFrame, LoadBrowsing
     DEF SearchOf

(* Where LoadInv looks: nothing of the search, and everybody's label.      *)
Loads(c, l) ==
    /\ at[c] \in LoadLabels
    /\ at' = [at EXCEPT ![c] = l]
    /\ UNCHANGED <<build, s, dnsService, refs, data, gaveup, dnsFound,
                   dnsReported, discoveries, crash>>

(* Whether the search comes to nothing, by the label that follows.         *)
Cuts(c, l) ==
    \/ l \in LoadLabels \cup {"browse"} /\ cut' = cut
    \/ l = "idle" /\ cut' = [cut EXCEPT ![c] = TRUE]

(* A step of load_cygwin_dnssd_dll does not touch the search, which has    *)
(* not begun, or does not take place because of an error.                  *)
LEMMA SearchLoads ==
    ASSUME DnsInv, NEW c \in Callers, NEW l, Loads(c, l), Cuts(c, l),
           overlap => overlap'
    PROVE  /\ (\A d \in Callers : SearchOf(d))'
           /\ NullCallNeedsOverlap'
           /\ at' \in [Callers -> {"idle"} \cup LoadLabels \cup Searching]
           /\ cut' \in [Callers -> BOOLEAN]
<1> USE DnsSdAssumption DEF DnsInv
<1>1. /\ cut' \in [Callers -> BOOLEAN]
      /\ \A d \in Callers \ {c} : cut'[d] = cut[d]
  <2>1. CASE cut' = cut
    BY Zenon, <2>1 DEF DnsTypeOK
  <2>2. CASE cut' = [cut EXCEPT ![c] = TRUE]
    BY Zenon, <2>2 DEF DnsTypeOK
  <2> QED
    BY Zenon, <2>1, <2>2 DEF Cuts
<1>2. Frame(c)
  BY SMT, <1>1 DEF DnsTypeOK, Loads, Frame
<1>3. at'[c] = l /\ s'[c] = 1 /\ dnsService'[c] = 0 /\ refs'[c] = {}
  BY SMT DEF DnsTypeOK, Loads, SearchOf, BrowseOf
<1>4. /\ l \in LoadLabels \cup {"browse"} \/ l = "idle"
      /\ l = "idle" => cut'[c]
  <2>1. "idle" \notin LoadLabels \cup {"browse"}
    BY SMT DEF LoadLabels
  <2> QED
    BY Zenon, <2>1 DEF Cuts, DnsTypeOK
<1>5. BrowseOf(c)'
  BY SMT, <1>3, <1>4 DEF BrowseOf, Browsed, LoadLabels, Answering
<1>6. ResolveOf(c)'
  BY SMT, <1>3 DEF ResolveOf
<1>7. ServicesOf(c)'
  <2>1. /\ dnsFound' = dnsFound /\ dnsReported' = dnsReported /\ data' = data
        /\ s[c] = s'[c] /\ at[c] \in LoadLabels
        /\ ServicesOf(c)
    BY Zenon DEF Loads, SearchOf
  <2>2. \A t \in dnsFound[c] : t < s[c]
    BY SMT, <2>1 DEF ServicesOf, LoadLabels
  <2>3. l \notin {"resolve", "wait"}
    BY SMT, <1>4 DEF LoadLabels
  <2> QED
    BY SMT, <2>1, <2>2, <2>3, <1>3 DEF ServicesOf
<1>8. at' \in [Callers -> {"idle"} \cup LoadLabels \cup Searching]
  BY SMT, <1>4 DEF DnsTypeOK, Loads, Searching
<1>9. NullCallNeedsOverlap'
  BY Zenon DEF Loads, NullCallNeedsOverlap, Dns!NullCallNeedsOverlap
<1> QED
  BY Zenon, <1>2, <1>5, <1>6, <1>7, <1>8, <1>1, <1>9, SearchFrame DEF SearchOf

(* The handle is looked at.                                                *)
LEMMA LoadDllInv ==
    ASSUME DnsInv, NEW c \in Callers, Dns!load_cygwin_dnssd_dll(c)
    PROVE  DnsInv'
<1> DEFINE l == IF hDnssdDLL # "NULL" THEN "browse" ELSE "dlopen"
<1> USE DEF DnsInv, Dns!load_cygwin_dnssd_dll, Dns!Go, Dns!lookup, Dns!results
<1>1. Loads(c, l) /\ Cuts(c, l)
  BY SMT DEF Loads, Cuts, LoadLabels
<1>2. /\ hDnssdDLL' = hDnssdDLL /\ loaded' = loaded /\ sym' = sym
      /\ build' = build /\ at[c] = "load"
      /\ overlap' <=>
            overlap \/ \E d \in Callers \ {c} : at[d] \in Dns!Loading
  BY Zenon DEF Loads
<1>3. /\ (\A d \in Callers : SearchOf(d))' /\ NullCallNeedsOverlap'
      /\ at' \in [Callers -> {"idle"} \cup LoadLabels \cup Searching]
      /\ cut' \in [Callers -> BOOLEAN]
  BY Zenon, <1>1, <1>2, SearchLoads
<1>4. DnsTypeOK'
  BY Zenon, <1>1, <1>2, <1>3 DEF DnsTypeOK, Loads
<1>5. LoadInv'
  <2>1. /\ \A d \in Callers : at'[d] = IF d = c THEN l ELSE at[d]
        /\ build # "HAVE_BONJOUR"
        /\ at[c] \notin Dns!Loading
    BY SMT, <1>1, <1>2 DEF Loads, DnsTypeOK, LoadInv, LoadLabels, Dns!Loading
  <2>2. SUFFICES ASSUME ~overlap' PROVE LoadInv'
    BY SMT, <1>2, <2>1 DEF LoadInv
  <2>3. ~overlap /\ \A d \in Callers : at[d] \notin Dns!Loading
    BY Zenon, <1>2, <2>1, <2>2
  <2>4. CASE hDnssdDLL = "NULL"
    BY SMT, <1>2, <2>1, <2>3, <2>4
       DEF LoadInv, Dns!Loading, Searching, Answering
  <2>5. CASE hDnssdDLL # "NULL"
    BY SMT, <1>2, <2>1, <2>3, <2>5
       DEF LoadInv, Dns!Loading, Searching, Answering
  <2> QED
    BY <2>4, <2>5
<1> QED
  BY Zenon, <1>3, <1>4, <1>5

(* What a step that leads to label l has done, if it loads alone.          *)
Alone(c, l) ==
    /\ l = "dlsym" =>
          /\ hDnssdDLL' # "NULL"
          /\ \A i \in 1 .. sym'[c] - 1 : Dns!Functions[i] \in loaded'
    /\ l = "idle" => hDnssdDLL' = "NULL"
    /\ l = "browse" => hDnssdDLL' # "NULL" /\ loaded' = Dns!Names

(* A thread that loads the DLL and goes on doing so, or gives up with the  *)
(* handle closed, while nobody else loads it.                              *)
LEMMA LoadAlone ==
    ASSUME DnsInv, NEW c \in Callers, NEW l, Loads(c, l),
           at[c] \in Dns!Loading, overlap' = overlap,
           l \in {"dlsym", "error_load", "idle", "browse"},
           \A d \in Callers \ {c} : sym'[d] = sym[d],
           l = "dlsym" => sym'[c] \in 1 .. 5,
           ~overlap => Alone(c, l)
    PROVE  LoadInv'
<1> USE DEF DnsInv
<1>1. /\ \A d \in Callers : at'[d] = IF d = c THEN l ELSE at[d]
      /\ build' = build /\ build # "HAVE_BONJOUR"
  BY SMT DEF Loads, DnsTypeOK, LoadInv
<1>2. SUFFICES ASSUME ~overlap' PROVE LoadInv'
  BY SMT, <1>1 DEF LoadInv
<1>3. \A d \in Callers : at'[d] = "dlsym" => sym'[d] \in 1 .. 5
  BY SMT, <1>1 DEF LoadInv
<1>4. ~overlap
  BY Zenon, <1>2
<1>5. /\ \A d \in Callers \ {c} : at[d] \notin Dns!Loading
      /\ \A d \in Callers : at[d] \notin Searching
  BY Zenon, <1>1, <1>4 DEF LoadInv
<1>6. \A d \in Callers \ {c} :
         at'[d] \notin Dns!Loading /\ at'[d] \notin Searching
  BY SMT, <1>1, <1>5
<1>7. \A d \in Callers \ {c} : at'[d] # "dlsym"
  BY SMT, <1>6 DEF Dns!Loading
<1>8. CASE l = "dlsym"
  BY SMT, <1>1, <1>4, <1>6, <1>7, <1>3, <1>8
     DEF LoadInv, Alone, Dns!Loading, Searching, Answering
<1>9. CASE l = "error_load"
  BY SMT, <1>1, <1>4, <1>6, <1>7, <1>3, <1>9
     DEF LoadInv, Dns!Loading, Searching, Answering
<1>10. CASE l = "idle"
  BY SMT, <1>1, <1>4, <1>6, <1>7, <1>3, <1>10
     DEF LoadInv, Alone, Dns!Loading, Searching, Answering
<1>11. CASE l = "browse"
  BY SMT, <1>1, <1>4, <1>6, <1>7, <1>3, <1>11
     DEF LoadInv, Alone, Dns!Loading, Searching, Answering
<1> QED
  BY Zenon, <1>8, <1>9, <1>10, <1>11

(* The DLL is opened.                                                      *)
LEMMA DlopenOkInv ==
    ASSUME DnsInv, NEW c \in Callers, Dns!dlopen_ok(c)
    PROVE  DnsInv'
<1> USE DEF DnsInv
<1>1. Loads(c, "dlsym") /\ Cuts(c, "dlsym")
  BY SMT DEF Dns!dlopen_ok, Dns!Go, Dns!lookup, Dns!results,
     Loads, Cuts, LoadLabels
<1>2. /\ at[c] \in Dns!Loading /\ overlap' = overlap
      /\ hDnssdDLL' = "open" /\ loaded' = loaded
  BY SMT DEF Dns!dlopen_ok, Dns!Go, Dns!lookup, Dns!results,
     Dns!Loading
<1>3. sym' \in [Callers -> 1 .. 6] /\ sym'[c] = 1
  BY SMT DEF Dns!dlopen_ok, DnsTypeOK
<1>4. /\ (\A d \in Callers : SearchOf(d))' /\ NullCallNeedsOverlap'
      /\ at' \in [Callers -> {"idle"} \cup LoadLabels \cup Searching]
      /\ cut' \in [Callers -> BOOLEAN]
  BY Zenon, <1>1, <1>2, SearchLoads
<1>5. DnsTypeOK'
  BY Zenon, <1>1, <1>2, <1>3, <1>4 DEF DnsTypeOK, Loads
<1>6. LoadInv'
  <2>1. Alone(c, "dlsym") /\ sym'[c] \in 1 .. 5
    BY SMT, <1>2, <1>3 DEF Alone
  <2>2. \A d \in Callers \ {c} : sym'[d] = sym[d]
    BY SMT DEF Dns!dlopen_ok, DnsTypeOK
  <2> QED
    BY Zenon, <1>1, <1>2, <2>1, <2>2, LoadAlone
<1> QED
  BY Zenon, <1>4, <1>5, <1>6

(* There is no DLL.                                                        *)
LEMMA DlopenFailedInv ==
    ASSUME DnsInv, NEW c \in Callers, Dns!dlopen_failed(c)
    PROVE  DnsInv'
<1> USE DEF DnsInv
<1>1. Loads(c, "idle") /\ Cuts(c, "idle")
  BY SMT DEF Dns!dlopen_failed, Dns!Go, Dns!lookup, Dns!results,
     Loads, Cuts, LoadLabels
<1>2. /\ at[c] \in Dns!Loading /\ overlap' = overlap
      /\ hDnssdDLL' = "NULL" /\ sym' = sym /\ loaded' = loaded
  BY SMT DEF Dns!dlopen_failed, Dns!Go, Dns!lookup, Dns!results,
     Dns!Loading
<1>3. /\ (\A d \in Callers : SearchOf(d))' /\ NullCallNeedsOverlap'
      /\ at' \in [Callers -> {"idle"} \cup LoadLabels \cup Searching]
      /\ cut' \in [Callers -> BOOLEAN]
  BY Zenon, <1>1, <1>2, SearchLoads
<1>4. DnsTypeOK'
  BY Zenon, <1>1, <1>2, <1>3 DEF DnsTypeOK, Loads
<1>5. LoadInv'
  <2>1. Alone(c, "idle") /\ "idle" # "dlsym"
    BY SMT, <1>2 DEF Alone
  <2> QED
    BY Zenon, <1>1, <1>2, <2>1, LoadAlone
<1> QED
  BY Zenon, <1>3, <1>4, <1>5

(* A function is missing, the DLL is closed.                               *)
LEMMA ErrorLoadInv ==
    ASSUME DnsInv, NEW c \in Callers, Dns!error_load(c)
    PROVE  DnsInv'
<1> USE DEF DnsInv
<1>1. Loads(c, "idle") /\ Cuts(c, "idle")
  BY SMT DEF Dns!error_load, Dns!Go, Dns!lookup, Dns!results,
     Loads, Cuts, LoadLabels
<1>2. /\ at[c] \in Dns!Loading /\ overlap' = overlap
      /\ hDnssdDLL' = "NULL" /\ sym' = sym /\ loaded' = {}
  BY SMT DEF Dns!error_load, Dns!Go, Dns!lookup, Dns!results,
     Dns!Loading
<1>3. /\ (\A d \in Callers : SearchOf(d))' /\ NullCallNeedsOverlap'
      /\ at' \in [Callers -> {"idle"} \cup LoadLabels \cup Searching]
      /\ cut' \in [Callers -> BOOLEAN]
  BY Zenon, <1>1, <1>2, SearchLoads
<1>4. DnsTypeOK'
  BY Zenon, <1>1, <1>2, <1>3 DEF DnsTypeOK, Loads
<1>5. LoadInv'
  <2>1. Alone(c, "idle") /\ "idle" # "dlsym"
    BY SMT, <1>2 DEF Alone
  <2> QED
    BY Zenon, <1>1, <1>2, <2>1, LoadAlone
<1> QED
  BY Zenon, <1>3, <1>4, <1>5

(* A function is looked for.                                               *)
LEMMA DlsymInv ==
    ASSUME DnsInv, NEW c \in Callers, Dns!dlsym(c)
    PROVE  DnsInv'
<1> USE DEF DnsInv
<1> DEFINE f == Dns!Functions[sym[c]]
           l == IF sym[c] = 5 THEN "browse" ELSE "dlsym"
<1>1. /\ at[c] = "dlsym" /\ hDnssdDLL' = hDnssdDLL /\ overlap' = overlap
      /\ cut' = cut
  BY Zenon DEF Dns!dlsym
<1>2. at[c] \in Dns!Loading /\ at[c] \in LoadLabels
  BY SMT, <1>1 DEF Dns!Loading, LoadLabels
<1>3. \/ /\ loaded' = loaded \cup {f} /\ sym' = [sym EXCEPT ![c] = @ + 1]
         /\ Loads(c, l)
      \/ loaded' = loaded \ {f} /\ sym' = sym /\ Loads(c, "error_load")
  BY SMT, FunctionsAre, <1>2
     DEF Dns!dlsym, Dns!Go, Dns!lookup, Dns!results, Loads
<1>4. CASE loaded' = loaded \ {f} /\ sym' = sym /\ Loads(c, "error_load")
  <2>1. Cuts(c, "error_load")
    BY SMT, <1>1 DEF Cuts, LoadLabels
  <2>2. /\ (\A d \in Callers : SearchOf(d))' /\ NullCallNeedsOverlap'
        /\ at' \in [Callers -> {"idle"} \cup LoadLabels \cup Searching]
        /\ cut' \in [Callers -> BOOLEAN]
    BY Zenon, <1>1, <1>4, <2>1, SearchLoads
  <2>3. loaded' \in SUBSET Dns!Names
    BY Zenon, <1>4 DEF DnsTypeOK
  <2>4. DnsTypeOK'
    BY Zenon, <1>4, <2>2, <2>3 DEF DnsTypeOK, Loads
  <2>5. Alone(c, "error_load") /\ "error_load" # "dlsym"
    BY SMT DEF Alone
  <2>6. LoadInv'
    BY Zenon, <1>1, <1>2, <1>4, <2>5, LoadAlone
  <2> QED
    BY Zenon, <2>2, <2>4, <2>6
<1>5. CASE /\ loaded' = loaded \cup {f} /\ sym' = [sym EXCEPT ![c] = @ + 1]
           /\ Loads(c, l)
  <2>1. Cuts(c, l)
    BY SMT, <1>1 DEF Cuts, LoadLabels
  <2>2. /\ (\A d \in Callers : SearchOf(d))' /\ NullCallNeedsOverlap'
        /\ at' \in [Callers -> {"idle"} \cup LoadLabels \cup Searching]
        /\ cut' \in [Callers -> BOOLEAN]
    BY Zenon, <1>1, <1>5, <2>1, SearchLoads
  <2>3. sym[c] \in 1 .. 5 /\ f \in Dns!Names
    BY Zenon, <1>1, FunctionsAre DEF LoadInv
  <2>4. loaded' \in SUBSET Dns!Names
    BY Zenon, <1>5, <2>3 DEF DnsTypeOK
  <2>5. sym' \in [Callers -> 1 .. 6] /\ sym'[c] = sym[c] + 1
    BY SMT, <1>5, <2>3 DEF DnsTypeOK
  <2>6. \A d \in Callers \ {c} : sym'[d] = sym[d]
    BY SMT, <1>5 DEF DnsTypeOK
  <2>7. DnsTypeOK'
    BY Zenon, <1>5, <2>2, <2>4, <2>5 DEF DnsTypeOK, Loads
  <2>8. ASSUME ~overlap
        PROVE  /\ hDnssdDLL' # "NULL"
               /\ \A i \in 1 .. sym'[c] - 1 : Dns!Functions[i] \in loaded'
    <3>1. /\ hDnssdDLL' # "NULL"
          /\ \A i \in 1 .. sym[c] - 1 : Dns!Functions[i] \in loaded
      BY Zenon, <2>8, <1>1 DEF LoadInv
    <3>2. SUFFICES ASSUME NEW i \in 1 .. sym'[c] - 1
                   PROVE  Dns!Functions[i] \in loaded'
      BY Zenon, <3>1
    <3>3. i \in 1 .. sym[c] - 1 \/ i = sym[c]
      BY SMT, <2>3, <2>5
    <3> QED
      BY Zenon, <3>1, <3>3, <1>5
  <2>9. ASSUME sym[c] = 5 PROVE LoadInv'
    <3>1. ~overlap => loaded' = Dns!Names
      <4>1. SUFFICES ASSUME ~overlap PROVE loaded' = Dns!Names
        OBVIOUS
      <4>2. \A i \in 1 .. 5 : Dns!Functions[i] \in loaded'
        BY SMT, <2>5, <2>8, <2>9, <4>1
      <4> QED
        BY Zenon, <2>4, <4>2, FunctionsAre
    <3>2. Loads(c, "browse") /\ "browse" # "dlsym"
      BY SMT, <1>5, <2>9
    <3>3. ~overlap => Alone(c, "browse")
      BY SMT, <2>8, <3>1 DEF Alone
    <3> QED
      BY Zenon, <1>1, <1>2, <2>6, <3>2, <3>3, LoadAlone
  <2>10. ASSUME sym[c] # 5 PROVE LoadInv'
    <3>1. sym'[c] \in 1 .. 5
      BY SMT, <2>3, <2>5, <2>10
    <3>2. Loads(c, "dlsym")
      BY SMT, <1>5, <2>10
    <3>3. ~overlap => Alone(c, "dlsym")
      BY SMT, <2>8 DEF Alone
    <3> QED
      BY Zenon, <1>1, <1>2, <2>6, <3>1, <3>2, <3>3, LoadAlone
  <2> QED
    BY Zenon, <2>2, <2>7, <2>9, <2>10
<1> QED
  BY <1>3, <1>4, <1>5

(* A discovery begins.                                                     *)
LEMMA DiscoverInv ==
    ASSUME DnsInv, NEW c \in Callers, NEW callbacks, Dns!discover(c, callbacks)
    PROVE  DnsInv'
<1> USE DnsSdAssumption DEF DnsInv
<1> DEFINE l == IF build = "HAVE_BONJOUR" THEN "browse" ELSE "load"
<1>1. /\ at[c] = "idle" /\ at' = [at EXCEPT ![c] = l]
      /\ UNCHANGED <<build, hDnssdDLL, loaded, sym, overlap, crash>>
  BY SMT DEF Dns!discover, Dns!Go, Dns!library
<1>2. DnsTypeOK'
  BY SMT, <1>1 DEF Dns!discover, DnsTypeOK, LoadLabels, Searching
<1>3. Frame(c)
  BY SMT, <1>1 DEF Dns!discover, DnsTypeOK, Frame
<1>4. /\ at'[c] = l /\ s'[c] = 1 /\ dnsService'[c] = 0 /\ refs'[c] = {}
      /\ data'[c] = {} /\ dnsFound'[c] = {} /\ dnsReported'[c] = {}
  BY SMT, <1>1 DEF Dns!discover, DnsTypeOK
<1>5. BrowseOf(c)'
  BY SMT, <1>4 DEF BrowseOf, Browsed, LoadLabels, Answering
<1>6. ResolveOf(c)' /\ ServicesOf(c)'
  BY SMT, <1>4 DEF ResolveOf, ServicesOf
<1>7. LoadInv'
  <2>1. \A d \in Callers : at'[d] = IF d = c THEN l ELSE at[d]
    BY SMT, <1>1 DEF DnsTypeOK
  <2>2. \A d \in Callers :
           /\ at'[d] \in Dns!Loading <=> at[d] \in Dns!Loading
           /\ at'[d] = "dlsym" => at[d] = "dlsym"
           /\ build # "HAVE_BONJOUR" =>
                 (at'[d] \in Searching => at[d] \in Searching)
           /\ build = "HAVE_BONJOUR" =>
                 (at'[d] \in LoadLabels => at[d] \in LoadLabels)
    BY SMT, <1>1, <2>1 DEF Dns!Loading, Searching, Answering, LoadLabels
  <2> QED
    BY Zenon, <1>1, <2>2 DEF LoadInv
<1>8. NullCallNeedsOverlap'
  BY Zenon, <1>1 DEF NullCallNeedsOverlap, Dns!NullCallNeedsOverlap
<1> QED
  BY Zenon, <1>2, <1>3, <1>5, <1>6, <1>7, <1>8, SearchFrame DEF SearchOf

(* A null pointer is called.                                               *)
LEMMA CallNullInv ==
    ASSUME DnsInv, build # "HAVE_AVAHI", NEW c \in Callers, Dns!call_null(c)
    PROVE  DnsInv'
<1> USE DEF DnsInv
<1>1. /\ UNCHANGED <<build, hDnssdDLL, loaded, at, sym, s, dnsService, refs,
                     data, dnsFound, dnsReported, gaveup, cut, discoveries,
                     overlap>>
      /\ build # "HAVE_BONJOUR" /\ loaded # Dns!Names
      /\ Dns!Calls(Dns!Label(c)) \in Dns!Names
  BY Zenon
     DEF Dns!call_null, Dns!library, Dns!history, Dns!results, Dns!Callable
<1>2. at[c] \in Searching
  <2>1. SUFFICES ASSUME at[c] \notin Searching PROVE FALSE
    OBVIOUS
  <2>2. at[c] \in {"idle"} \cup LoadLabels
    BY SMT, <2>1 DEF DnsTypeOK
  <2>3. Dns!Label(c) \in {"idle"} \cup LoadLabels
    BY SMT, <2>2 DEF Dns!Label, LoadLabels
  <2>4. Dns!Calls(Dns!Label(c)) = "none"
    BY SMT, <2>3 DEF Dns!Calls, LoadLabels
  <2>5. \A i \in 1 .. 5 : Dns!Functions[i] # "none"
    BY SMT DEF Dns!Functions
  <2> QED
    BY Zenon, <1>1, <2>4, <2>5, FunctionsAre
<1>3. overlap'
  BY Zenon, <1>1, <1>2 DEF LoadInv
<1>4. DnsTypeOK' /\ LoadInv'
  BY SMT, <1>1 DEF DnsTypeOK, LoadInv
<1>5. (\A d \in Callers : SearchOf(d))'
  BY SMT, <1>1 DEF SearchOf, BrowseOf, Browsed, ResolveOf, ServicesOf
<1> QED
  BY Zenon, <1>3, <1>4, <1>5 DEF NullCallNeedsOverlap, Dns!NullCallNeedsOverlap

-----------------------------------------------------------------------------
(* The invariants of both backends hold throughout, whichever is built.    *)
LEMMA AvahiInvariance == MdnsSpec => []AvahiInv
<1>1. mdns_init => AvahiInv
  <2> SUFFICES ASSUME Init PROVE AvahiInv
    BY Zenon DEF mdns_init
  <2>1. quit \in BOOLEAN /\ service \in BOOLEAN
    BY Zenon DEF Init
  <2>2. TypeOK
    BY SMT, <2>1, AvahiAssumption DEF Init, TypeOK, Pointers
  <2> QED
    BY SMT, <2>2, AvahiAssumption
       DEF Init, AvahiInv, CountInv, TableInv, FreesOnlyLive, ClientInv,
           ServicesInv
<1>2. AvahiInv /\ [mdns_discover]_<<vars, dnsVars>> => AvahiInv'
  <2> SUFFICES ASSUME AvahiInv, Next \/ UNCHANGED vars PROVE AvahiInv'
    BY Zenon DEF mdns_discover
  <2>1. CASE UNCHANGED vars
    BY SMT, <2>1 DEF vars, setup, table, loop, services, AvahiInv, TypeOK,
       CountInv, TableInv, FreesOnlyLive, Released, ClientInv, ServicesInv
  <2>2. CASE Step
    BY Zenon, <2>2, AvahiSimplePollNewInv, AvahiSimplePollNewFailedInv,
       AvahiClientNewInv, AvahiClientNewFailedInv, CreateServiceBrowserInv,
       CreateServiceBrowserFailedInv, AvahiSimplePollLoopInv,
       AvahiSimplePollLoopReturnInv, FailSbAbortsInv, FailSbInv, FailInv,
       AvahiTerminateInv DEF Step
  <2>3. CASE Event
    BY Zenon, <2>3, AvahiClientCallbackInv, AvahiBrowseCallbackFailureInv,
       AvahiBrowseCallbackNewInv, AvahiResolveCallbackFailureInv,
       AvahiResolveCallbackFoundInv DEF Event
  <2> QED
    BY Zenon, <2>1, <2>2, <2>3, AvahiDiscoverInv DEF Next
<1> QED
  BY <1>1, <1>2, PTL DEF MdnsSpec

LEMMA DnsInvariance == MdnsSpec => []DnsInv
<1>1. mdns_init => DnsInv
  <2> SUFFICES ASSUME mdns_init PROVE DnsInv
    OBVIOUS
  <2> USE DnsSdAssumption DEF mdns_init, Dns!Init, Dns!NoTypes
  <2>1. DnsTypeOK
    <3>1. cut \in [Callers -> BOOLEAN]
      BY Zenon
    <3>2. at \in [Callers -> {"idle"} \cup LoadLabels \cup Searching]
      BY SMT
    <3> QED
      BY SMT, <3>1, <3>2 DEF DnsTypeOK
  <2>2. \A c \in Callers : SearchOf(c)
    <3> SUFFICES ASSUME NEW c \in Callers PROVE SearchOf(c)
      OBVIOUS
    <3>1. BrowseOf(c)
      BY SMT DEF BrowseOf, LoadLabels, Answering
    <3>2. ResolveOf(c) /\ ServicesOf(c)
      BY SMT DEF ResolveOf, ServicesOf
    <3> QED
      BY <3>1, <3>2 DEF SearchOf
  <2>3. LoadInv
    BY SMT DEF LoadInv, LoadLabels, Searching, Answering, Dns!Loading
  <2>4. NullCallNeedsOverlap
    BY SMT DEF NullCallNeedsOverlap, Dns!NullCallNeedsOverlap
  <2> QED
    BY <2>1, <2>2, <2>3, <2>4 DEF DnsInv
<1>2. DnsInv /\ [mdns_discover]_<<vars, dnsVars>> => DnsInv'
  <2> SUFFICES ASSUME DnsInv,
                      \/ build # "HAVE_AVAHI" /\ Dns!Next
                      \/ UNCHANGED dnsVars
               PROVE  DnsInv'
    BY SMT DEF mdns_discover
  <2>1. CASE UNCHANGED dnsVars
    <3>1. DnsTypeOK' /\ LoadInv' /\ NullCallNeedsOverlap'
      BY Zenon, <2>1 DEF DnsInv, DnsTypeOK, LoadInv, NullCallNeedsOverlap,
         Dns!NullCallNeedsOverlap, dnsVars
    <3>2. (\A d \in Callers : SearchOf(d))'
      <4> SUFFICES ASSUME NEW d \in Callers PROVE SearchOf(d)'
        BY Zenon
      <4>1. SearchOf(d)
        BY Zenon DEF DnsInv
      <4> QED
        BY SMT, <2>1, <4>1 DEF SearchOf, BrowseOf, Browsed, ResolveOf,
           ServicesOf, dnsVars
    <3> QED
      BY Zenon, <3>1, <3>2 DEF DnsInv
  <2>2. CASE build # "HAVE_AVAHI" /\ Dns!Next
    <3>1. PICK c \in Callers :
             \/ \E callbacks \in SUBSET {"broadcast", "service"} :
                   Dns!discover(c, callbacks)
             \/ Dns!Step(c) \/ Dns!Reply(c)
      BY Zenon, <2>2 DEF Dns!Next
    <3>2. CASE Dns!Step(c)
      BY Zenon, <2>2, <3>2, LoadDllInv, DlopenOkInv, DlopenFailedInv, DlsymInv,
         ErrorLoadInv, CallNullInv, DNSServiceBrowseOkInv,
         DNSServiceBrowseFailedInv, SelectTimeoutInv, SelectFailedInv,
         ProcessResultFailedInv, BrowseCallbackErrorInv, BrowseCallbackInv,
         BrowseCallbackNoMemoryInv, DNSServiceResolveOkInv,
         DNSServiceResolveFailedInv, ResolveDeallocInv, BrowseLxiServicesEndInv
         DEF Dns!Step
    <3>3. CASE Dns!Reply(c)
      BY Zenon, <3>3, SelectReadyInv, ResolveFailedInv,
         ResolveCallbackErrorInv, ResolveCallbackInv, ResolveIpAddressCrashInv
         DEF Dns!Reply
    <3> QED
      BY Zenon, <3>1, <3>2, <3>3, DiscoverInv
  <2> QED
    BY <2>1, <2>2
<1> QED
  BY <1>1, <1>2, PTL DEF MdnsSpec

-----------------------------------------------------------------------------
(* The variables of avahi_discover keep their types: sb is written at no   *)
(* index but those of the array and -1.                                    *)
THEOREM TypeCorrect == MdnsSpec => []TypeOK
<1>1. AvahiInv => TypeOK
  BY Zenon DEF AvahiInv
<1> QED
  BY AvahiInvariance, <1>1, PTL

(* However many discoveries there were, the table is left only at -1, and  *)
(* the clean-up frees the browsers of this one.                            *)
THEOREM TableSafe == MdnsSpec => []BrowserTable
<1>1. AvahiInv => BrowserTable
  <2> SUFFICES ASSUME AvahiInv PROVE BrowserTable
    OBVIOUS
  <2>1. OutsideOnlyBelow
    BY SMT, AvahiAssumption DEF AvahiInv, TypeOK, CountInv, OutsideOnlyBelow
  <2> QED
    BY Zenon, <2>1 DEF AvahiInv, TableInv, BrowserTable
<1> QED
  BY AvahiInvariance, <1>1, PTL

(* A discovery through Avahi that returns leaves nothing allocated.        *)
THEOREM LeakFree == MdnsSpec => []NothingLeft
<1>1. AvahiInv => NothingLeft
  BY SMT DEF AvahiInv, ClientInv, NothingLeft
<1> QED
  BY AvahiInvariance, <1>1, PTL

(* Through Avahi, no service is reported twice.                            *)
THEOREM ReportedOnce == MdnsSpec => []EachServiceOnce
<1>1. AvahiInv => EachServiceOnce
  BY SMT DEF AvahiInv, TypeOK, ServicesInv, EachServiceOnce
<1> QED
  BY AvahiInvariance, <1>1, PTL

(* A complete discovery through DNS-SD loses the references of all browses *)
(* but the last, and of a resolve only if its answer could not be read,    *)
(* whatever other threads do.                                              *)
THEOREM RefsSafe == MdnsSpec => []RefsAccountedFor
<1>1. DnsInv => RefsAccountedFor
  <2> SUFFICES ASSUME DnsInv, NEW c \in Callers
               PROVE  /\ ResolveOf(c)
                      /\ at[c] = "idle" /\ ~cut[c] /\ discoveries[c] > 0 =>
                         {t \in 1 .. BrowseTypes : <<"browse", t>> \in refs[c]}
                             = 1 .. BrowseTypes - 1
    BY Zenon DEF RefsAccountedFor, Dns!RefsAccountedFor, ResolveOf
  <2>1. ResolveOf(c) /\ BrowseOf(c)
    BY Zenon DEF DnsInv, SearchOf
  <2>2. ASSUME at[c] = "idle" /\ ~cut[c] /\ discoveries[c] > 0
        PROVE  {t \in 1 .. BrowseTypes : <<"browse", t>> \in refs[c]} =
                   1 .. BrowseTypes - 1
    <3>1. Browsed(c, BrowseTypes - 1)
      BY Zenon, <2>1, <2>2 DEF BrowseOf
    <3> QED
      BY SMT, <3>1, DnsSdAssumption DEF Browsed
  <2> QED
    BY <2>1, <2>2
<1> QED
  BY DnsInvariance, <1>1, PTL

(* A search through DNS-SD that no error cut short has gone through all    *)
(* types, and every service it found was reported, once, or is lost.       *)
THEOREM SearchComplete == MdnsSpec => []FoundOrLost
<1>1. DnsInv => FoundOrLost
  BY Zenon DEF DnsInv, SearchOf, BrowseOf, ServicesOf, FoundOrLost,
     Dns!FoundOrLost
<1> QED
  BY DnsInvariance, <1>1, PTL

(* However many threads discover, one after the other they never call a    *)
(* null pointer, whichever function the DLL lacks and however often it was *)
(* loaded before.                                                          *)
THEOREM NullCallsExplained == MdnsSpec => []NullCallNeedsOverlap
<1>1. DnsInv => NullCallNeedsOverlap
  BY DEF DnsInv
<1> QED
  BY DnsInvariance, <1>1, PTL
=============================================================================
