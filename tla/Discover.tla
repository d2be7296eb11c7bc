------------------------------ MODULE Discover ------------------------------
(***************************************************************************)
(* lxi_discover and lxi_discover_if (lxi.c) and the VXI-11 discovery       *)
(* behind them (vxi11.c): the search of the network interfaces, the        *)
(* answers to the broadcast, and the identification of each device over    *)
(* VXI-11 with its fallback over HTTP.                                     *)
(*                                                                         *)
(* Which device an answer is from, and the text of its identification, are *)
(* left out.  The UDP socket of each search is never closed and not part   *)
(* of the state.                                                           *)
(***************************************************************************)
EXTENDS Naturals, Sequences

CONSTANTS
    Interfaces,     \* what getifaddrs lists: a sequence of records
    Timeouts,       \* values of the argument "timeout", in milliseconds
    MaxAnswers      \* bound on the answers of one discovery

ASSUME DiscoverAssumption ==
    /\ Interfaces \in Seq([name : STRING, inet : BOOLEAN, broadcast : BOOLEAN])
    /\ Timeouts \subseteq Nat
    /\ MaxAnswers \in Nat

VARIABLES
    pc,         \* where the call is
    ifname,     \* the argument "ifname", or "NULL"
    timeout,    \* the argument "timeout"
    at,         \* index of the interface ifap_p
    announced,  \* interfaces the broadcast callback was called for
    client,     \* the VXI-11 client of get_device_id: "open" or "none"
    response,   \* the uninitialised buffer response: "xml" or "none"
    muted,      \* stderr goes to /dev/null
    got, reported, failed   \* history: answers of this call

search  == <<ifname, timeout, at, announced>>
history == <<got, reported, failed>>
vars == <<pc, search, client, response, muted, history>>

Identifying == {"connect", "send", "receive", "http", "http_recv",
                "xml", "report"}
PCs == {"idle", "mdns", "interfaces", "socket", "recv", "crashed", "hung"}
       \cup Identifying

Names == {"NULL"} \cup {Interfaces[i].name : i \in 1 .. Len(Interfaces)}

TypeOK ==
    /\ pc \in PCs
    /\ ifname \in Names
    /\ timeout \in Timeouts
    /\ at \in 1 .. Len(Interfaces) + 1
    /\ announced \subseteq 1 .. Len(Interfaces)
    /\ client \in {"open", "none"}
    /\ response \in {"xml", "none"}
    /\ muted \in BOOLEAN
    /\ got \in 0 .. MaxAnswers
    /\ reported \in 0 .. got /\ failed \in 0 .. got

Init ==
    /\ pc = "idle"
    /\ ifname = "NULL" /\ timeout \in Timeouts
    /\ at = 1 /\ announced = {}
    /\ client = "none" /\ response = "none" /\ muted = FALSE
    /\ got = 0 /\ reported = 0 /\ failed = 0

Goto(l) ==
    /\ pc' = l
    /\ UNCHANGED <<client, response, muted>>

-----------------------------------------------------------------------------
(* The dispatch on the type, and what becomes of getifaddrs.  Nothing a    *)
(* backend returns changes the result, LXI_OK.                             *)
lxi_discover(name) ==
    /\ pc = "idle"
    /\ Goto("interfaces")
    /\ ifname' = name /\ timeout' \in Timeouts
    /\ at' = 1 /\ announced' = {}
    /\ got' = 0 /\ reported' = 0 /\ failed' = 0

lxi_discover_mdns ==
    /\ pc = "idle"
    /\ Goto("mdns")
    /\ UNCHANGED <<search, history>>

(* external: the mDNS backend returns.                                     *)
mdns_discover ==
    /\ pc = "mdns"
    /\ Goto("idle")
    /\ UNCHANGED <<search, history>>

getifaddrs_failed ==
    /\ pc = "interfaces" /\ at = 1
    /\ Goto("idle")
    /\ UNCHANGED <<search, history>>

(* The interfaces that are searched.  With a name, the broadcast address   *)
(* is not looked at before it is used.                                     *)
Selected(i) ==
    /\ Interfaces[i].inet
    /\ IF ifname = "NULL" THEN Interfaces[i].broadcast
                          ELSE Interfaces[i].name = ifname

next_interface ==
    /\ pc = "interfaces"
    /\ at <= Len(Interfaces)
    /\ IF ~Selected(at)
         THEN at' = at + 1 /\ Goto("interfaces") /\ UNCHANGED announced
         ELSE IF ~Interfaces[at].broadcast
                THEN Goto("crashed") /\ UNCHANGED <<at, announced>>
                ELSE /\ announced' = announced \cup {at}
                     /\ Goto("socket")
                     /\ UNCHANGED at
    /\ UNCHANGED <<ifname, timeout, history>>

no_more_interfaces ==
    /\ pc = "interfaces"
    /\ at > Len(Interfaces)
    /\ Goto("idle")
    /\ UNCHANGED <<search, history>>

-----------------------------------------------------------------------------
(* discover_devices *)

(* Mutant: the error path advances to the next interface by itself.        *)
socket_failed_Twice ==
    /\ pc = "socket"
    /\ at' = at + 2
    /\ Goto("interfaces")
    /\ UNCHANGED <<ifname, timeout, announced, history>>

(* Back to the search of the interfaces.                                   *)
SearchNext ==
    /\ at' = at + 1
    /\ Goto("interfaces")
    /\ UNCHANGED <<ifname, timeout, announced, history>>

(* No socket, or its options cannot be set.                                *)
socket_failed ==
    /\ pc = "socket"
    /\ SearchNext

(* The broadcast is sent.                                                  *)
sendto ==
    /\ pc = "socket"
    /\ Goto("recv")
    /\ UNCHANGED <<search, history>>

(* An answer, perhaps not the first of this device: the handling of one    *)
(* begins.                                                                 *)
recvfrom ==
    /\ pc = "recv"
    /\ got < MaxAnswers
    /\ got' = got + 1
    /\ Goto("connect")
    /\ UNCHANGED <<search, reported, failed>>

(* Mutant: the socket has no receive timeout.                              *)
recvfrom_timeout_Never == FALSE /\ UNCHANGED vars

(* SO_RCVTIMEO, which starts again with every answer.  For a timeout of 0  *)
(* it is set to zero, which means that there is none.                      *)
recvfrom_timeout ==
    /\ pc = "recv"
    /\ timeout # 0
    /\ SearchNext

(* An empty answer, or an error, ends the loop as well.                    *)
recvfrom_empty ==
    /\ pc = "recv"
    /\ SearchNext

(* info->device, if the program has registered one.                        *)
device_callback ==
    /\ pc = "report"
    /\ reported' = reported + 1
    /\ Goto("recv")
    /\ UNCHANGED <<search, got, failed>>

-----------------------------------------------------------------------------
(* get_device_id *)

(* The return of -1.                                                       *)
NotFound ==
    /\ pc' = "recv"
    /\ failed' = failed + 1
    /\ UNCHANGED <<search, response, got, reported>>

(* Mutant: the failure is noted and the device asked nevertheless.         *)
vxi11_connect_failed_GoesOn ==
    /\ pc = "connect"
    /\ failed' = failed + 1
    /\ Goto("send")
    /\ UNCHANGED <<search, got, reported>>

vxi11_connect_failed ==
    /\ pc = "connect"
    /\ NotFound
    /\ UNCHANGED <<client, muted>>

vxi11_connect ==
    /\ pc = "connect"
    /\ client' = "open"
    /\ pc' = "send"
    /\ UNCHANGED <<search, response, muted, history>>

vxi11_send ==
    /\ pc = "send"
    /\ Goto("receive")
    /\ UNCHANGED <<search, history>>

(* Mutant: error_send and error_receive do not disconnect.                 *)
vxi11_io_failed_NoDisconnect ==
    /\ pc \in {"send", "receive"}
    /\ NotFound
    /\ UNCHANGED <<client, muted>>

(* error_send, error_receive                                               *)
vxi11_io_failed ==
    /\ pc \in {"send", "receive"}
    /\ client' = "none"
    /\ NotFound
    /\ UNCHANGED muted

(* An answer of at least one character, perhaps only the end of a line: it *)
(* is terminated and stripped, and is the identification.                  *)
vxi11_receive ==
    /\ pc = "receive"
    /\ client' = "none"
    /\ pc' = "report"
    /\ UNCHANGED <<search, response, muted, history>>

(* An empty answer: the fallback begins and mutes stderr.                  *)
vxi11_receive_nothing ==
    /\ pc = "receive"
    /\ client' = "none"
    /\ muted' = TRUE
    /\ pc' = "http"
    /\ UNCHANGED <<search, response, history>>

(* tcp_connect and tcp_send succeed, and the first bytes arrive ...        *)
http_begins ==
    /\ pc = "http"
    /\ Goto("http_recv")
    /\ UNCHANGED <<search, history>>

(* ... and tcp_receive_wait ends when the server hangs up: it has sent     *)
(* something, with or without XML.                                         *)
http_ends ==
    /\ pc = "http_recv"
    /\ response' \in {"xml", "none"}
    /\ pc' = "xml"
    /\ UNCHANGED <<search, client, muted, history>>

(* send() on a connection that was refused or reset raises SIGPIPE.        *)
http_sigpipe ==
    /\ pc = "http"
    /\ Goto("crashed")
    /\ UNCHANGED <<search, history>>

(* One of the calls fails or times out, which nobody notices: the buffer   *)
(* is not cleared, and what was on the stack remains, perhaps the XML of   *)
(* the last device.                                                        *)
http_failed ==
    /\ pc = "http"
    /\ response' \in {response, "none"}
    /\ pc' = "xml"
    /\ UNCHANGED <<search, client, muted, history>>

(* No XML, or none that libxml can read: stderr is restored.               *)
xml_failed ==
    /\ pc = "xml"
    /\ muted' = FALSE
    /\ NotFound
    /\ UNCHANGED client

(* The identification is put together; stderr stays muted.                 *)
xml_ok ==
    /\ pc = "xml"
    /\ response = "xml"
    /\ Goto("report")
    /\ UNCHANGED <<search, history>>

(* An element is missing: strcat is given a null pointer.                  *)
xml_element_missing ==
    /\ pc = "xml"
    /\ response = "xml"
    /\ Goto("crashed")
    /\ UNCHANGED <<search, history>>

-----------------------------------------------------------------------------
(* The waits inside a backend that need not end: the two hangs of          *)
(* vxi11_connect (ReturnsOrHangs in Vxi11Connect), the loop of             *)
(* vxi11_receive (CallReturns in Vxi11Io), and the resolve without a       *)
(* timeout of mdns_discover (MdnsReturns in Mdns).                         *)
backend_hangs ==
    /\ pc \in {"mdns", "connect", "receive"}
    /\ Goto("hung")
    /\ UNCHANGED <<search, history>>

Call == lxi_discover_mdns \/ \E name \in Names : lxi_discover(name)

(* What the library and the kernel do by themselves.                       *)
Step ==
    \/ mdns_discover \/ getifaddrs_failed \/ next_interface
    \/ no_more_interfaces \/ socket_failed \/ sendto \/ recvfrom_timeout
    \/ device_callback \/ vxi11_connect_failed \/ vxi11_connect
    \/ vxi11_send \/ vxi11_io_failed \/ vxi11_receive
    \/ vxi11_receive_nothing \/ http_failed \/ http_sigpipe
    \/ xml_failed \/ xml_ok \/ xml_element_missing

(* What takes a device or a server to answer or to hang up.                *)
Peer == recvfrom \/ recvfrom_empty \/ http_begins \/ http_ends

Next == Call \/ Step \/ Peer \/ backend_hangs

Spec == Init /\ [][Next]_vars

(* A backend that does not hang ends, by its timeout at the latest, and so *)
(* does recvfrom if it has one; nobody has to answer, and a backend may    *)
(* hang (backend_hangs is possible wherever one does).                     *)
FairSpec == Spec /\ WF_vars(Step)

-----------------------------------------------------------------------------
(* Every answer is handled once: it ends as one call of the device         *)
(* callback or as a failure, and a failure of one device costs no other.   *)
EachAnswerOnce ==
    pc \notin {"crashed", "hung"} =>
        got = reported + failed + (IF pc \in Identifying THEN 1 ELSE 0)

(* No path through get_device_id leaves its VXI-11 client open: the socket *)
(* would be lost, once for every answer.                                   *)
ClientClosed == client = "open" => pc \in {"send", "receive", "hung"}

(* vxi11.c 396: "Mute stderr temporarily".  Once the fallback over HTTP is *)
(* done with, stderr is no longer muted.                                   *)
StderrRestored == muted => pc \in {"http", "http_recv", "xml", "crashed"}

(* When a discovery is over, it has searched every interface it was asked  *)
(* to search, and no other, whichever of them could not be searched.       *)
(* (getifaddrs_failed: none.)                                              *)
SearchesAll ==
    [][pc = "interfaces" /\ pc' = "idle" /\ at > 1 =>
          announced = {i \in 1 .. Len(Interfaces) :
                        /\ Interfaces[i].inet /\ Interfaces[i].broadcast
                        /\ ifname \in {"NULL", Interfaces[i].name}}]_vars

(* Once no more answers arrive (MaxAnswers; each starts the timeout again) *)
(* a discovery ends, or hangs in a backend, or waits for ever in one of    *)
(* two receives without a timeout: that of an HTTP server which begins to  *)
(* answer and never hangs up, and that of the answers to the broadcast if  *)
(* the caller passed a timeout of 0.                                       *)
DiscoverReturns ==
    (pc # "idle") ~>
        \/ pc \in {"idle", "crashed", "hung"}
        \/ [](pc = "http_recv")
        \/ [](pc = "recv" /\ timeout = 0)
=============================================================================
