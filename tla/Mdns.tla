-------------------------------- MODULE Mdns --------------------------------
(***************************************************************************)
(* mdns_discover (mdns.c): the backend for mDNS that the library was built *)
(* with.  Avahi comes first, then Bonjour, then the DNS-SD of Cygwin; a    *)
(* build without any of them finds nothing.  The two backends have no      *)
(* state in common, so the steps of one leave the other's alone.           *)
(***************************************************************************)
EXTENDS Avahi

CONSTANTS Callers, BrowseTypes, MaxDiscoveries

ASSUME DnsSdAssumption == BrowseTypes \in Nat /\ MaxDiscoveries \in Nat

VARIABLES build, exported, hDnssdDLL, loaded, at, sym, s, dnsService, info,
          refs, data, discoveries, dnsFound, dnsReported, cut, gaveup, overlap,
          crash

Dns == INSTANCE DnsSd WITH service <- dnsService, found <- dnsFound,
                           reported <- dnsReported

dnsVars == <<build, exported, hDnssdDLL, loaded, at, sym, s, dnsService, info,
             refs, data, discoveries, dnsFound, dnsReported, cut, gaveup,
             overlap, crash>>

mdns_init ==
    /\ build \in {"HAVE_AVAHI", "HAVE_BONJOUR", "HAVE_CYGWIN_DNSSD"}
    /\ Init
    /\ Dns!Init

(* The conditional compilation of mdns_discover.                           *)
mdns_discover ==
    \/ build = "HAVE_AVAHI" /\ Next /\ UNCHANGED dnsVars
    \/ build \in {"HAVE_BONJOUR", "HAVE_CYGWIN_DNSSD"} /\ Dns!Next /\ UNCHANGED vars

MdnsSpec ==
    /\ mdns_init /\ [][mdns_discover]_<<vars, dnsVars>>
    /\ WF_vars(Step) /\ Dns!Fairness

-----------------------------------------------------------------------------
(* The references of a discovery through DNS-SD: see DnsSd.                *)
RefsAccountedFor == Dns!RefsAccountedFor

(* What becomes of the services that DNS-SD finds: see DnsSd.              *)
FoundOrLost == Dns!FoundOrLost

(* The race of two threads that load the DLL: see DnsSd.                   *)
NullCallNeedsOverlap == Dns!NullCallNeedsOverlap

(* Whichever backend it is built with, mdns_discover returns when its      *)
(* timeout is over, unless the process dies, as Avahi and DnsSd say, or    *)
(* the answer to a resolve of DNS-SD never comes.                          *)
MdnsReturns == DiscoverReturns /\ Dns!ReturnsOrWaits
=============================================================================
