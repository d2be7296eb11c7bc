------------------------------- MODULE DnsSd -------------------------------
(***************************************************************************)
(* The mDNS discovery through the DNS-SD library: bonjour.c and its twin   *)
(* cygwin_dnssd.c, which loads the library first.  Several threads may     *)
(* discover at once; they share the handle of the DLL and the five         *)
(* function pointers.  The daemon answers a browse or a resolve, or fails, *)
(* or never answers (external, from dns_sd.h and the use of it here).      *)
(*                                                                         *)
(* One call of DNSServiceProcessResult reads one reply and makes one       *)
(* callback (dns_sd.h), so a discovery sees at most one service of each    *)
(* type.  Time is left out: whether select() writes the time that is left  *)
(* into the timeval, which bonjour.c gives to every select(), decides how  *)
(* long a later type is waited for, and not what may happen.               *)
(***************************************************************************)
EXTENDS Integers, Sequences

CONSTANTS
    Callers,        \* threads that discover
    BrowseTypes,    \* number of entries of lxi_services: 5
    MaxDiscoveries  \* bound on the discoveries of one thread

(* The functions of the library, in the order in which they are loaded.    *)
Functions == <<"DNSServiceBrowse", "DNSServiceResolve",
               "DNSServiceProcessResult", "DNSServiceRefDeallocate",
               "DNSServiceRefSockFD">>

Names == {Functions[i] : i \in 1 .. Len(Functions)}

VARIABLES
    build,      \* which of the two files is built, chosen by Mdns
    exported,   \* functions that the installed DLL has
    hDnssdDLL,  \* "NULL" or "open"
    loaded,     \* functions whose pointer is not NULL
    at,         \* where each thread is
    sym,        \* the function whose pointer a thread loads next
    s,          \* the service type that a thread looks for
    service,    \* its reference "service": the type it was made for, or 0
    info,       \* which of the callbacks broadcast and service are given
    refs,       \* references of a thread's discovery not deallocated
    data,       \* types whose browse_data is allocated
    discoveries,           \* history: discoveries a thread has begun,
    found, reported,       \* types with a browse_data, passed to service(),
    gaveup, cut,           \* whose resolve failed; an error ended the search
    overlap,    \* history: two threads were loading the DLL at once
    crash       \* what the process died of, or "none"

library == <<build, exported, hDnssdDLL, loaded>>
history == <<discoveries, overlap>>
results == <<found, reported, gaveup>>
vars == <<library, at, sym, s, service, info, refs, data, results, cut,
          history, crash>>

NoTypes == [c \in Callers |-> {}]

Init ==
    /\ exported \in IF build = "HAVE_CYGWIN_DNSSD"
                      THEN {Names} \cup {Names \ {f} : f \in Names}
                      ELSE {Names}
    /\ hDnssdDLL = "NULL" /\ loaded = {}
    /\ at = [c \in Callers |-> "idle"]
    /\ sym = [c \in Callers |-> 1]
    /\ s = [c \in Callers |-> 1]
    /\ service = [c \in Callers |-> 0]
    /\ info = NoTypes /\ refs = NoTypes /\ data = NoTypes
    /\ found = NoTypes /\ reported = NoTypes /\ gaveup = NoTypes
    /\ cut = [c \in Callers |-> FALSE]
    /\ discoveries = [c \in Callers |-> 0]
    /\ overlap = FALSE /\ crash = "none"

-----------------------------------------------------------------------------
(* Thread c goes on at label; the process has not died.                    *)
Go(c, label) ==
    /\ crash = "none"
    /\ at' = [at EXCEPT ![c] = label]

Crash(cause) ==
    /\ crash = "none"
    /\ crash' = cause

Loading == {"dlopen", "dlsym", "error_load"}

(* bonjour_discover, cygwin_dnssd_discover.                                *)
discover(c, callbacks) ==
    /\ at[c] = "idle" /\ discoveries[c] < MaxDiscoveries
    /\ discoveries' = [discoveries EXCEPT ![c] = @ + 1]
    /\ info' = [info EXCEPT ![c] = callbacks]
    /\ s' = [s EXCEPT ![c] = 1] /\ service' = [service EXCEPT ![c] = 0]
    /\ refs' = [refs EXCEPT ![c] = {}] /\ data' = [data EXCEPT ![c] = {}]
    /\ found' = [found EXCEPT ![c] = {}]
    /\ reported' = [reported EXCEPT ![c] = {}]
    /\ gaveup' = [gaveup EXCEPT ![c] = {}]
    /\ cut' = [cut EXCEPT ![c] = FALSE]
    /\ Go(c, IF build = "HAVE_BONJOUR" THEN "browse" ELSE "load")
    /\ UNCHANGED <<library, sym, overlap, crash>>

-----------------------------------------------------------------------------
(* load_cygwin_dnssd_dll *)

(* What loading leaves alone.                                              *)
lookup == <<s, service, info, refs, data, results, discoveries, crash, build,
            exported>>

load_cygwin_dnssd_dll(c) ==
    /\ at[c] = "load"
    /\ Go(c, IF hDnssdDLL # "NULL" THEN "browse" ELSE "dlopen")
    /\ overlap' = (overlap \/ \E d \in Callers \ {c} : at[d] \in Loading)
    /\ UNCHANGED <<lookup, hDnssdDLL, loaded, sym, cut>>

dlopen_ok(c) ==
    /\ at[c] = "dlopen"
    /\ hDnssdDLL' = "open"
    /\ sym' = [sym EXCEPT ![c] = 1]
    /\ Go(c, "dlsym")
    /\ UNCHANGED <<lookup, loaded, overlap, cut>>

(* cygwin_dnssd_discover returns -1.                                       *)
dlopen_failed(c) ==
    /\ at[c] = "dlopen"
    /\ hDnssdDLL' = "NULL"
    /\ cut' = [cut EXCEPT ![c] = TRUE]
    /\ Go(c, "idle")
    /\ UNCHANGED <<lookup, loaded, sym, overlap>>

(* dlsym(NULL, ...) looks in whatever the process has loaded.              *)
SymbolFound(c) ==
    IF hDnssdDLL = "NULL" THEN BOOLEAN ELSE {Functions[sym[c]] \in exported}

dlsym(c) ==
    /\ at[c] = "dlsym"
    /\ \E ok \in SymbolFound(c) :
          IF ok
            THEN /\ loaded' = loaded \cup {Functions[sym[c]]}
                 /\ sym' = [sym EXCEPT ![c] = @ + 1]
                 /\ Go(c, IF sym[c] = Len(Functions) THEN "browse" ELSE "dlsym")
            ELSE /\ loaded' = loaded \ {Functions[sym[c]]}
                 /\ Go(c, "error_load")
                 /\ UNCHANGED sym
    /\ UNCHANGED <<lookup, hDnssdDLL, overlap, cut>>

(* Mutant: the handle of the closed DLL is kept.                           *)
error_load_KeepsHandle(c) ==
    /\ at[c] = "error_load"
    /\ loaded' = {}
    /\ cut' = [cut EXCEPT ![c] = TRUE]
    /\ Go(c, "idle")
    /\ UNCHANGED <<lookup, hDnssdDLL, sym, overlap>>

error_load(c) ==
    /\ at[c] = "error_load"
    /\ loaded' = {} /\ hDnssdDLL' = "NULL"
    /\ cut' = [cut EXCEPT ![c] = TRUE]
    /\ Go(c, "idle")
    /\ UNCHANGED <<lookup, sym, overlap>>

-----------------------------------------------------------------------------
(* browse_lxi_services *)

(* Whether function f of the library can be called.                        *)
Callable(f) == build = "HAVE_BONJOUR" \/ f \in loaded

(* The function that a thread calls at each label.                         *)
Calls(label) ==
    CASE label = "browse"              -> "DNSServiceBrowse"
      [] label = "resolve"             -> "DNSServiceResolve"
      [] label \in {"process", "wait"} -> "DNSServiceProcessResult"
      [] label \in {"dealloc", "end"}  -> "DNSServiceRefDeallocate"
      [] label = "sockfd"              -> "DNSServiceRefSockFD"
      [] OTHER                         -> "none"

Label(c) == IF at[c] = "browse" /\ s[c] > BrowseTypes THEN "end" ELSE at[c]

(* What browsing leaves alone.                                             *)
others == <<library, sym, info, history>>

call_null(c) ==
    /\ Calls(Label(c)) \in Names /\ ~Callable(Calls(Label(c)))
    /\ Crash("null_function")
    /\ UNCHANGED <<library, at, sym, s, service, info, refs, data, results,
                   cut, history>>

(* Thread c has reached label and the function it calls there is loaded.   *)
Calling(c, label) == Label(c) = label /\ Callable(Calls(label))

DNSServiceBrowse_ok(c) ==
    /\ Calling(c, "browse")
    /\ service' = [service EXCEPT ![c] = s[c]]
    /\ refs' = [refs EXCEPT ![c] = @ \cup {<<"browse", s[c]>>}]
    /\ Go(c, "sockfd")
    /\ UNCHANGED <<others, s, data, results, cut, crash>>

(* An early return: nothing is deallocated.                                *)
Return(c) ==
    /\ cut' = [cut EXCEPT ![c] = TRUE]
    /\ Go(c, "idle")
    /\ UNCHANGED <<others, s, service, refs, data, results, crash>>

DNSServiceBrowse_failed(c) == Calling(c, "browse") /\ Return(c)

(* The next turn of the loop overwrites service.                           *)
NextType(c) ==
    /\ s' = [s EXCEPT ![c] = @ + 1]
    /\ Go(c, "browse")

select_ready(c) ==
    /\ Calling(c, "sockfd")
    /\ Go(c, "process")
    /\ UNCHANGED <<others, s, service, refs, data, results, cut, crash>>

(* Mutant: a type that does not answer ends the search.                    *)
select_timeout_Returns(c) ==
    /\ Calling(c, "sockfd")
    /\ Go(c, "idle")
    /\ UNCHANGED <<others, s, service, refs, data, results, cut, crash>>

select_timeout(c) ==
    /\ Calling(c, "sockfd")
    /\ NextType(c)
    /\ UNCHANGED <<others, service, refs, data, results, cut, crash>>

select_failed(c) == Calling(c, "sockfd") /\ Return(c)

(* DNSServiceProcessResult(service) *)
ProcessResult_failed(c) == Calling(c, "process") /\ Return(c)

(* browse_callback with an error code.                                     *)
browse_callback_error(c) ==
    /\ Calling(c, "process")
    /\ NextType(c)
    /\ UNCHANGED <<others, service, refs, data, results, cut, crash>>

(* browse_callback, as far as DNSServiceResolve: broadcast() is called     *)
(* whether it is given or not.                                             *)
browse_callback(c) ==
    /\ Calling(c, "process")
    /\ IF "broadcast" \in info[c]
         THEN /\ found' = [found EXCEPT ![c] = @ \cup {s[c]}]
              /\ data' = [data EXCEPT ![c] = @ \cup {s[c]}]
              /\ Go(c, "resolve")
              /\ UNCHANGED crash
         ELSE /\ Crash("broadcast")
              /\ UNCHANGED <<found, data, at>>
    /\ UNCHANGED <<others, s, service, refs, reported, gaveup, cut>>

(* malloc fails: broadcast() was called, browse_callback returns.          *)
browse_callback_no_memory(c) ==
    /\ Calling(c, "process") /\ "broadcast" \in info[c]
    /\ NextType(c)
    /\ UNCHANGED <<others, service, refs, data, results, cut, crash>>

DNSServiceResolve_ok(c) ==
    /\ Calling(c, "resolve")
    /\ refs' = [refs EXCEPT ![c] = @ \cup {<<"resolve", s[c]>>}]
    /\ Go(c, "wait")
    /\ UNCHANGED <<others, s, service, data, results, cut, crash>>

DNSServiceResolve_failed(c) ==
    /\ Calling(c, "resolve")
    /\ NextType(c)
    /\ UNCHANGED <<others, service, refs, data, results, cut, crash>>

(* DNSServiceProcessResult(resolveService) fails: the callback of the      *)
(* browse returns, the search goes on.                                     *)
resolve_failed(c) ==
    /\ Calling(c, "wait")
    /\ gaveup' = [gaveup EXCEPT ![c] = @ \cup {s[c]}]
    /\ NextType(c)
    /\ UNCHANGED <<others, service, refs, data, found, reported, cut, crash>>

(* resolve_callback with an error code.                                    *)
resolve_callback_error(c) ==
    /\ Calling(c, "wait")
    /\ Go(c, "dealloc")
    /\ UNCHANGED <<others, s, service, refs, data, results, cut, crash>>

(* resolve_callback: service() is called whether it is given or not.       *)
resolve_callback(c) ==
    /\ Calling(c, "wait")
    /\ IF "service" \in info[c]
         THEN /\ reported' = [reported EXCEPT ![c] = @ \cup {s[c]}]
              /\ data' = [data EXCEPT ![c] = @ \ {s[c]}]
              /\ Go(c, "dealloc")
              /\ UNCHANGED crash
         ELSE /\ Crash("service")
              /\ UNCHANGED <<reported, data, at>>
    /\ UNCHANGED <<others, s, service, refs, found, gaveup, cut>>

(* resolve_ip_address after getaddrinfo failed: servinfo, which it did not *)
(* set, is followed and freed.  If that does no harm the address that is   *)
(* reported was never written (resolve_callback).                          *)
resolve_ip_address_crash(c) ==
    /\ Calling(c, "wait")
    /\ Crash("servinfo")
    /\ UNCHANGED <<library, at, sym, s, service, info, refs, data, results,
                   cut, history>>

(* Mutant: the reference of the browse is deallocated instead.             *)
resolve_dealloc_Wrong(c) ==
    /\ Calling(c, "dealloc")
    /\ refs' = [refs EXCEPT ![c] = @ \ {<<"browse", s[c]>>}]
    /\ NextType(c)
    /\ UNCHANGED <<others, service, data, results, cut, crash>>

resolve_dealloc(c) ==
    /\ Calling(c, "dealloc")
    /\ refs' = [refs EXCEPT ![c] = @ \ {<<"resolve", s[c]>>}]
    /\ NextType(c)
    /\ UNCHANGED <<others, service, data, results, cut, crash>>

(* The end of the loop: the last reference is deallocated.                 *)
browse_lxi_services_end(c) ==
    /\ Calling(c, "end")
    /\ refs' = [refs EXCEPT ![c] = @ \ {<<"browse", service[c]>>}]
    /\ Go(c, "idle")
    /\ UNCHANGED <<others, s, service, data, results, cut, crash>>

-----------------------------------------------------------------------------
(* What the thread does by itself.                                         *)
Step(c) ==
    \/ load_cygwin_dnssd_dll(c) \/ dlopen_ok(c) \/ dlopen_failed(c)
    \/ dlsym(c) \/ error_load(c) \/ call_null(c)
    \/ DNSServiceBrowse_ok(c) \/ DNSServiceBrowse_failed(c)
    \/ select_timeout(c) \/ select_failed(c)
    \/ ProcessResult_failed(c) \/ browse_callback_error(c) \/ browse_callback(c)
    \/ browse_callback_no_memory(c)
    \/ DNSServiceResolve_ok(c) \/ DNSServiceResolve_failed(c)
    \/ resolve_dealloc(c) \/ browse_lxi_services_end(c)

(* What the daemon does: a reply to a browse, and the reply to a resolve,  *)
(* which is waited for without a timeout.                                  *)
Reply(c) ==
    \/ select_ready(c)
    \/ resolve_failed(c) \/ resolve_callback_error(c) \/ resolve_callback(c)
    \/ resolve_ip_address_crash(c)

Next ==
    \E c \in Callers :
        \/ \E callbacks \in SUBSET {"broadcast", "service"} :
              discover(c, callbacks)
        \/ Step(c) \/ Reply(c)

Fairness == \A c \in Callers : WF_vars(Step(c))

-----------------------------------------------------------------------------
(* service is overwritten in every turn of the loop of                     *)
(* browse_lxi_services: a complete discovery deallocates exactly the last  *)
(* reference of a browse, and the reference of a resolve is left only when *)
(* its answer could not be read (bonjour.c:126).  No reference is          *)
(* deallocated that is not the thread's own.                               *)
RefsAccountedFor ==
    \A c \in Callers :
        /\ \A t \in 1 .. BrowseTypes : <<"resolve", t>> \in refs[c] =>
              t \in gaveup[c] \/ (t = s[c] /\ at[c] \in {"wait", "dealloc"})
        /\ at[c] = "idle" /\ ~cut[c] /\ discoveries[c] > 0 =>
              {t \in 1 .. BrowseTypes : <<"browse", t>> \in refs[c]} =
                  1 .. BrowseTypes - 1

(* A search that no error of the daemon has cut short goes through all     *)
(* types, whatever did not answer or could not be resolved on the way.     *)
(* Each service that was found is reported and its browse_data freed, or   *)
(* it is not reported and browse_data is lost.                             *)
FoundOrLost ==
    \A c \in Callers :
        at[c] = "idle" /\ discoveries[c] > 0 =>
            /\ cut[c] \/ s[c] = BrowseTypes + 1
            /\ found[c] = reported[c] \cup data[c]
            /\ reported[c] \cap data[c] = {}

(* A null function pointer is called only if two threads loaded the DLL at *)
(* the same time: the second sees the handle before the pointers are set   *)
(* (cygwin_dnssd.c:60).  A discovery after a failed one loads again.       *)
NullCallNeedsOverlap == crash = "null_function" => overlap

(* A discovery returns, or the process has died, or the answer to a        *)
(* resolve never comes (bonjour.c:122).                                    *)
ReturnsOrWaits ==
    \A c \in Callers :
        (at[c] # "idle") ~>
            (at[c] = "idle" \/ crash # "none" \/ [](at[c] = "wait"))
=============================================================================
