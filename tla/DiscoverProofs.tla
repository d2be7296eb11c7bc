--------------------------- MODULE DiscoverProofs ---------------------------
(***************************************************************************)
(* Proofs about the discovery over VXI-11, for any list of interfaces, any *)
(* timeouts and any number of answers.                                     *)
(***************************************************************************)
EXTENDS Discover, TLAPS

(* The interfaces that a discovery with this argument is to search.        *)
Wanted(i, name) ==
    /\ Interfaces[i].inet /\ Interfaces[i].broadcast
    /\ name \in {"NULL", Interfaces[i].name}

(* The call works on the interface ifap_p.                                 *)
Busy == {"socket", "recv"} \cup Identifying

(* What is searched so far is what was wanted so far.                      *)
SearchInv ==
    /\ pc = "interfaces" =>
          announced = {i \in 1 .. at - 1 : Wanted(i, ifname)}
    /\ pc \in Busy =>
          /\ at \in 1 .. Len(Interfaces)
          /\ announced = {i \in 1 .. at : Wanted(i, ifname)}

IInv == TypeOK /\ EachAnswerOnce /\ ClientClosed /\ SearchInv

(* The list of interfaces is finite.                                       *)
LEMMA InterfacesType == Len(Interfaces) \in Nat
BY SMT, DiscoverAssumption

(* The test of the interface and the use of its broadcast address amount   *)
(* to what is wanted.                                                      *)
LEMMA SelectedWanted ==
    ASSUME NEW i
    PROVE  /\ ~Selected(i) => ~Wanted(i, ifname)
           /\ Selected(i) /\ Interfaces[i].broadcast => Wanted(i, ifname)
BY Zenon DEF Selected, Wanted

-----------------------------------------------------------------------------
(* A discovery over VXI-11 begins.                                         *)
LEMMA LxiDiscoverInv ==
    ASSUME IInv, NEW name \in Names, lxi_discover(name)
    PROVE  IInv'
<1> USE DiscoverAssumption, InterfacesType
    DEF IInv, lxi_discover, Goto
<1>1. TypeOK'
  <2>1. muted' \in BOOLEAN
    BY Zenon DEF TypeOK
  <2> QED
    BY SMT, <2>1 DEF TypeOK, EachAnswerOnce, Identifying, PCs, SearchInv,
       Busy
<1>2. EachAnswerOnce'
  BY SMT DEF TypeOK, EachAnswerOnce, Identifying, PCs
<1>3. ClientClosed'
  BY SMT DEF TypeOK, ClientClosed
<1>4. SearchInv'
  BY SMT DEF TypeOK, PCs, SearchInv, Busy, Identifying
<1> QED
  BY Zenon, <1>1, <1>2, <1>3, <1>4

(* An interface is searched, or passed over.                               *)
LEMMA NextInterfaceInv ==
    ASSUME IInv, next_interface
    PROVE  IInv'
<1> USE DiscoverAssumption, InterfacesType
    DEF IInv, next_interface, Goto, history
<1>1. TypeOK'
  <2>1. muted' \in BOOLEAN
    BY Zenon DEF TypeOK
  <2> QED
    BY SMT, <2>1 DEF TypeOK, EachAnswerOnce, Identifying, PCs, SearchInv,
       Busy
<1>2. EachAnswerOnce'
  BY SMT DEF TypeOK, EachAnswerOnce, Identifying, PCs
<1>3. ClientClosed'
  BY SMT DEF TypeOK, ClientClosed
<1>4. SearchInv'
  <2>1. CASE ~Selected(at)
    <3>1. ~Wanted(at, ifname)
      BY Zenon, <2>1, SelectedWanted
    <3> QED
      BY SMT, <2>1, <3>1 DEF TypeOK, SearchInv, Busy, Identifying
  <2>2. CASE Selected(at) /\ ~Interfaces[at].broadcast
    BY SMT, <2>2 DEF TypeOK, SearchInv, Busy, Identifying
  <2>3. CASE Selected(at) /\ Interfaces[at].broadcast
    <3>1. Wanted(at, ifname)
      BY Zenon, <2>3, SelectedWanted
    <3> QED
      BY SMT, <2>3, <3>1 DEF TypeOK, SearchInv, Busy, Identifying
  <2> QED
    BY Zenon, <2>1, <2>2, <2>3
<1> QED
  BY Zenon, <1>1, <1>2, <1>3, <1>4

(* An interface cannot be searched.                                        *)
LEMMA SocketFailedInv ==
    ASSUME IInv, socket_failed
    PROVE  IInv'
<1> USE DiscoverAssumption, InterfacesType
    DEF IInv, socket_failed, SearchNext, Goto, history
<1>1. TypeOK'
  <2>1. muted' \in BOOLEAN
    BY Zenon DEF TypeOK
  <2> QED
    BY SMT, <2>1 DEF TypeOK, EachAnswerOnce, Identifying, PCs, SearchInv,
       Busy
<1>2. EachAnswerOnce'
  BY SMT DEF TypeOK, EachAnswerOnce, Identifying, PCs
<1>3. ClientClosed'
  BY SMT DEF TypeOK, ClientClosed
<1>4. SearchInv'
  BY SMT DEF TypeOK, PCs, SearchInv, Busy, Identifying
<1> QED
  BY Zenon, <1>1, <1>2, <1>3, <1>4

(* An interface is done with.                                              *)
LEMMA RecvfromTimeoutInv ==
    ASSUME IInv, recvfrom_timeout
    PROVE  IInv'
<1> USE DiscoverAssumption, InterfacesType
    DEF IInv, recvfrom_timeout, SearchNext, Goto, history
<1>1. TypeOK'
  <2>1. muted' \in BOOLEAN
    BY Zenon DEF TypeOK
  <2> QED
    BY SMT, <2>1 DEF TypeOK, EachAnswerOnce, Identifying, PCs, SearchInv,
       Busy
<1>2. EachAnswerOnce'
  BY SMT DEF TypeOK, EachAnswerOnce, Identifying, PCs
<1>3. ClientClosed'
  BY SMT DEF TypeOK, ClientClosed
<1>4. SearchInv'
  BY SMT DEF TypeOK, PCs, SearchInv, Busy, Identifying
<1> QED
  BY Zenon, <1>1, <1>2, <1>3, <1>4

(* An empty answer ends the search of an interface.                        *)
LEMMA RecvfromEmptyInv ==
    ASSUME IInv, recvfrom_empty
    PROVE  IInv'
<1> USE DiscoverAssumption, InterfacesType
    DEF IInv, recvfrom_empty, SearchNext, Goto, history
<1>1. TypeOK'
  <2>1. muted' \in BOOLEAN
    BY Zenon DEF TypeOK
  <2> QED
    BY SMT, <2>1 DEF TypeOK, EachAnswerOnce, Identifying, PCs, SearchInv,
       Busy
<1>2. EachAnswerOnce'
  BY SMT DEF TypeOK, EachAnswerOnce, Identifying, PCs
<1>3. ClientClosed'
  BY SMT DEF TypeOK, ClientClosed
<1>4. SearchInv'
  BY SMT DEF TypeOK, PCs, SearchInv, Busy, Identifying
<1> QED
  BY Zenon, <1>1, <1>2, <1>3, <1>4

(* An answer arrives.                                                      *)
LEMMA RecvfromInv ==
    ASSUME IInv, recvfrom
    PROVE  IInv'
<1> USE DiscoverAssumption, InterfacesType
    DEF IInv, recvfrom, Goto, search
<1>1. TypeOK'
  <2>1. muted' \in BOOLEAN
    BY Zenon DEF TypeOK
  <2> QED
    BY SMT, <2>1 DEF TypeOK, EachAnswerOnce, Identifying, PCs, SearchInv,
       Busy
<1>2. EachAnswerOnce'
  BY SMT DEF TypeOK, EachAnswerOnce, Identifying, PCs
<1>3. ClientClosed'
  BY SMT DEF TypeOK, ClientClosed
<1>4. SearchInv'
  BY SMT DEF TypeOK, PCs, SearchInv, Busy, Identifying
<1> QED
  BY Zenon, <1>1, <1>2, <1>3, <1>4

(* The mDNS backend returns.                                               *)
LEMMA MdnsDiscoverInv ==
    ASSUME IInv, mdns_discover
    PROVE  IInv'
<1> USE DiscoverAssumption, InterfacesType
    DEF IInv, mdns_discover, Goto, search, history
<1>1. TypeOK'
  <2>1. muted' \in BOOLEAN
    BY Zenon DEF TypeOK
  <2> QED
    BY SMT, <2>1 DEF TypeOK, EachAnswerOnce, Identifying, PCs, SearchInv,
       Busy
<1>2. EachAnswerOnce'
  BY SMT DEF TypeOK, EachAnswerOnce, Identifying, PCs
<1>3. ClientClosed'
  BY SMT DEF TypeOK, ClientClosed
<1>4. SearchInv'
  BY SMT DEF TypeOK, PCs, SearchInv, Busy, Identifying
<1> QED
  BY Zenon, <1>1, <1>2, <1>3, <1>4

(* A discovery over mDNS begins.                                           *)
LEMMA LxiDiscoverMdnsInv ==
    ASSUME IInv, lxi_discover_mdns
    PROVE  IInv'
<1> USE DiscoverAssumption, InterfacesType
    DEF IInv, lxi_discover_mdns, Goto, search, history
<1>1. TypeOK'
  <2>1. muted' \in BOOLEAN
    BY Zenon DEF TypeOK
  <2> QED
    BY SMT, <2>1 DEF TypeOK, EachAnswerOnce, Identifying, PCs, SearchInv,
       Busy
<1>2. EachAnswerOnce'
  BY SMT DEF TypeOK, EachAnswerOnce, Identifying, PCs
<1>3. ClientClosed'
  BY SMT DEF TypeOK, ClientClosed
<1>4. SearchInv'
  BY SMT DEF TypeOK, PCs, SearchInv, Busy, Identifying
<1> QED
  BY Zenon, <1>1, <1>2, <1>3, <1>4

(* No list of interfaces.                                                  *)
LEMMA GetifaddrsFailedInv ==
    ASSUME IInv, getifaddrs_failed
    PROVE  IInv'
<1> USE DiscoverAssumption, InterfacesType
    DEF IInv, getifaddrs_failed, Goto, search, history
<1>1. TypeOK'
  <2>1. muted' \in BOOLEAN
    BY Zenon DEF TypeOK
  <2> QED
    BY SMT, <2>1 DEF TypeOK, EachAnswerOnce, Identifying, PCs, SearchInv,
       Busy
<1>2. EachAnswerOnce'
  BY SMT DEF TypeOK, EachAnswerOnce, Identifying, PCs
<1>3. ClientClosed'
  BY SMT DEF TypeOK, ClientClosed
<1>4. SearchInv'
  BY SMT DEF TypeOK, PCs, SearchInv, Busy, Identifying
<1> QED
  BY Zenon, <1>1, <1>2, <1>3, <1>4

(* The search is over.                                                     *)
LEMMA NoMoreInterfacesInv ==
    ASSUME IInv, no_more_interfaces
    PROVE  IInv'
<1> USE DiscoverAssumption, InterfacesType
    DEF IInv, no_more_interfaces, Goto, search, history
<1>1. TypeOK'
  <2>1. muted' \in BOOLEAN
    BY Zenon DEF TypeOK
  <2> QED
    BY SMT, <2>1 DEF TypeOK, EachAnswerOnce, Identifying, PCs, SearchInv,
       Busy
<1>2. EachAnswerOnce'
  BY SMT DEF TypeOK, EachAnswerOnce, Identifying, PCs
<1>3. ClientClosed'
  BY SMT DEF TypeOK, ClientClosed
<1>4. SearchInv'
  BY SMT DEF TypeOK, PCs, SearchInv, Busy, Identifying
<1> QED
  BY Zenon, <1>1, <1>2, <1>3, <1>4

(* The broadcast is sent.                                                  *)
LEMMA SendtoInv ==
    ASSUME IInv, sendto
    PROVE  IInv'
<1> USE DiscoverAssumption, InterfacesType
    DEF IInv, sendto, Goto, search, history
<1>1. TypeOK'
  <2>1. muted' \in BOOLEAN
    BY Zenon DEF TypeOK
  <2> QED
    BY SMT, <2>1 DEF TypeOK, EachAnswerOnce, Identifying, PCs, SearchInv,
       Busy
<1>2. EachAnswerOnce'
  BY SMT DEF TypeOK, EachAnswerOnce, Identifying, PCs
<1>3. ClientClosed'
  BY SMT DEF TypeOK, ClientClosed
<1>4. SearchInv'
  BY SMT DEF TypeOK, PCs, SearchInv, Busy, Identifying
<1> QED
  BY Zenon, <1>1, <1>2, <1>3, <1>4

(* A device is reported.                                                   *)
LEMMA DeviceCallbackInv ==
    ASSUME IInv, device_callback
    PROVE  IInv'
<1> USE DiscoverAssumption, InterfacesType
    DEF IInv, device_callback, Goto, search
<1>1. TypeOK'
  <2>1. muted' \in BOOLEAN
    BY Zenon DEF TypeOK
  <2> QED
    BY SMT, <2>1 DEF TypeOK, EachAnswerOnce, Identifying, PCs, SearchInv,
       Busy
<1>2. EachAnswerOnce'
  BY SMT DEF TypeOK, EachAnswerOnce, Identifying, PCs
<1>3. ClientClosed'
  BY SMT DEF TypeOK, ClientClosed
<1>4. SearchInv'
  BY SMT DEF TypeOK, PCs, SearchInv, Busy, Identifying
<1> QED
  BY Zenon, <1>1, <1>2, <1>3, <1>4

(* A device cannot be connected to.                                        *)
LEMMA Vxi11ConnectFailedInv ==
    ASSUME IInv, vxi11_connect_failed
    PROVE  IInv'
<1> USE DiscoverAssumption, InterfacesType
    DEF IInv, vxi11_connect_failed, NotFound, search
<1>1. TypeOK'
  <2>1. muted' \in BOOLEAN
    BY Zenon DEF TypeOK
  <2> QED
    BY SMT, <2>1 DEF TypeOK, EachAnswerOnce, Identifying, PCs, SearchInv,
       Busy
<1>2. EachAnswerOnce'
  BY SMT DEF TypeOK, EachAnswerOnce, Identifying, PCs
<1>3. ClientClosed'
  BY SMT DEF TypeOK, ClientClosed
<1>4. SearchInv'
  BY SMT DEF TypeOK, PCs, SearchInv, Busy, Identifying
<1> QED
  BY Zenon, <1>1, <1>2, <1>3, <1>4

(* A device is connected to.                                               *)
LEMMA Vxi11ConnectInv ==
    ASSUME IInv, vxi11_connect
    PROVE  IInv'
<1> USE DiscoverAssumption, InterfacesType
    DEF IInv, vxi11_connect, search, history
<1>1. TypeOK'
  <2>1. muted' \in BOOLEAN
    BY Zenon DEF TypeOK
  <2> QED
    BY SMT, <2>1 DEF TypeOK, EachAnswerOnce, Identifying, PCs, SearchInv,
       Busy
<1>2. EachAnswerOnce'
  BY SMT DEF TypeOK, EachAnswerOnce, Identifying, PCs
<1>3. ClientClosed'
  BY SMT DEF TypeOK, ClientClosed
<1>4. SearchInv'
  BY SMT DEF TypeOK, PCs, SearchInv, Busy, Identifying
<1> QED
  BY Zenon, <1>1, <1>2, <1>3, <1>4

(* A device is asked.                                                      *)
LEMMA Vxi11SendInv ==
    ASSUME IInv, vxi11_send
    PROVE  IInv'
<1> USE DiscoverAssumption, InterfacesType
    DEF IInv, vxi11_send, Goto, search, history
<1>1. TypeOK'
  <2>1. muted' \in BOOLEAN
    BY Zenon DEF TypeOK
  <2> QED
    BY SMT, <2>1 DEF TypeOK, EachAnswerOnce, Identifying, PCs, SearchInv,
       Busy
<1>2. EachAnswerOnce'
  BY SMT DEF TypeOK, EachAnswerOnce, Identifying, PCs
<1>3. ClientClosed'
  BY SMT DEF TypeOK, ClientClosed
<1>4. SearchInv'
  BY SMT DEF TypeOK, PCs, SearchInv, Busy, Identifying
<1> QED
  BY Zenon, <1>1, <1>2, <1>3, <1>4

(* A device does not answer.                                               *)
LEMMA Vxi11IoFailedInv ==
    ASSUME IInv, vxi11_io_failed
    PROVE  IInv'
<1> USE DiscoverAssumption, InterfacesType
    DEF IInv, vxi11_io_failed, NotFound, search
<1>1. TypeOK'
  <2>1. muted' \in BOOLEAN
    BY Zenon DEF TypeOK
  <2> QED
    BY SMT, <2>1 DEF TypeOK, EachAnswerOnce, Identifying, PCs, SearchInv,
       Busy
<1>2. EachAnswerOnce'
  BY SMT DEF TypeOK, EachAnswerOnce, Identifying, PCs
<1>3. ClientClosed'
  BY SMT DEF TypeOK, ClientClosed
<1>4. SearchInv'
  BY SMT DEF TypeOK, PCs, SearchInv, Busy, Identifying
<1> QED
  BY Zenon, <1>1, <1>2, <1>3, <1>4

(* A device identifies itself.                                             *)
LEMMA Vxi11ReceiveInv ==
    ASSUME IInv, vxi11_receive
    PROVE  IInv'
<1> USE DiscoverAssumption, InterfacesType
    DEF IInv, vxi11_receive, search, history
<1>1. TypeOK'
  <2>1. muted' \in BOOLEAN
    BY Zenon DEF TypeOK
  <2> QED
    BY SMT, <2>1 DEF TypeOK, EachAnswerOnce, Identifying, PCs, SearchInv,
       Busy
<1>2. EachAnswerOnce'
  BY SMT DEF TypeOK, EachAnswerOnce, Identifying, PCs
<1>3. ClientClosed'
  BY SMT DEF TypeOK, ClientClosed
<1>4. SearchInv'
  BY SMT DEF TypeOK, PCs, SearchInv, Busy, Identifying
<1> QED
  BY Zenon, <1>1, <1>2, <1>3, <1>4

(* A device answers with nothing.                                          *)
LEMMA Vxi11ReceiveNothingInv ==
    ASSUME IInv, vxi11_receive_nothing
    PROVE  IInv'
<1> USE DiscoverAssumption, InterfacesType
    DEF IInv, vxi11_receive_nothing, search, history
<1>1. TypeOK'
  <2>1. muted' \in BOOLEAN
    BY Zenon DEF TypeOK
  <2> QED
    BY SMT, <2>1 DEF TypeOK, EachAnswerOnce, Identifying, PCs, SearchInv,
       Busy
<1>2. EachAnswerOnce'
  BY SMT DEF TypeOK, EachAnswerOnce, Identifying, PCs
<1>3. ClientClosed'
  BY SMT DEF TypeOK, ClientClosed
<1>4. SearchInv'
  BY SMT DEF TypeOK, PCs, SearchInv, Busy, Identifying
<1> QED
  BY Zenon, <1>1, <1>2, <1>3, <1>4

(* The HTTP server begins to answer.                                       *)
LEMMA HttpBeginsInv ==
    ASSUME IInv, http_begins
    PROVE  IInv'
<1> USE DiscoverAssumption, InterfacesType
    DEF IInv, http_begins, Goto, search, history
<1>1. TypeOK'
  <2>1. muted' \in BOOLEAN
    BY Zenon DEF TypeOK
  <2> QED
    BY SMT, <2>1 DEF TypeOK, EachAnswerOnce, Identifying, PCs, SearchInv,
       Busy
<1>2. EachAnswerOnce'
  BY SMT DEF TypeOK, EachAnswerOnce, Identifying, PCs
<1>3. ClientClosed'
  BY SMT DEF TypeOK, ClientClosed
<1>4. SearchInv'
  BY SMT DEF TypeOK, PCs, SearchInv, Busy, Identifying
<1> QED
  BY Zenon, <1>1, <1>2, <1>3, <1>4

(* The HTTP server hangs up.                                               *)
LEMMA HttpEndsInv ==
    ASSUME IInv, http_ends
    PROVE  IInv'
<1> USE DiscoverAssumption, InterfacesType
    DEF IInv, http_ends, search, history
<1>1. TypeOK'
  <2>1. muted' \in BOOLEAN
    BY Zenon DEF TypeOK
  <2> QED
    BY SMT, <2>1 DEF TypeOK, EachAnswerOnce, Identifying, PCs, SearchInv,
       Busy
<1>2. EachAnswerOnce'
  BY SMT DEF TypeOK, EachAnswerOnce, Identifying, PCs
<1>3. ClientClosed'
  BY SMT DEF TypeOK, ClientClosed
<1>4. SearchInv'
  BY SMT DEF TypeOK, PCs, SearchInv, Busy, Identifying
<1> QED
  BY Zenon, <1>1, <1>2, <1>3, <1>4

(* The HTTP request ends the program.                                      *)
LEMMA HttpSigpipeInv ==
    ASSUME IInv, http_sigpipe
    PROVE  IInv'
<1> USE DiscoverAssumption, InterfacesType
    DEF IInv, http_sigpipe, Goto, search, history
<1>1. TypeOK'
  <2>1. muted' \in BOOLEAN
    BY Zenon DEF TypeOK
  <2> QED
    BY SMT, <2>1 DEF TypeOK, EachAnswerOnce, Identifying, PCs, SearchInv,
       Busy
<1>2. EachAnswerOnce'
  BY SMT DEF TypeOK, EachAnswerOnce, Identifying, PCs
<1>3. ClientClosed'
  BY SMT DEF TypeOK, ClientClosed
<1>4. SearchInv'
  BY SMT DEF TypeOK, PCs, SearchInv, Busy, Identifying
<1> QED
  BY Zenon, <1>1, <1>2, <1>3, <1>4

(* The HTTP request fails.                                                 *)
LEMMA HttpFailedInv ==
    ASSUME IInv, http_failed
    PROVE  IInv'
<1> USE DiscoverAssumption, InterfacesType
    DEF IInv, http_failed, search, history
<1>1. TypeOK'
  <2>1. muted' \in BOOLEAN
    BY Zenon DEF TypeOK
  <2> QED
    BY SMT, <2>1 DEF TypeOK, EachAnswerOnce, Identifying, PCs, SearchInv,
       Busy
<1>2. EachAnswerOnce'
  BY SMT DEF TypeOK, EachAnswerOnce, Identifying, PCs
<1>3. ClientClosed'
  BY SMT DEF TypeOK, ClientClosed
<1>4. SearchInv'
  BY SMT DEF TypeOK, PCs, SearchInv, Busy, Identifying
<1> QED
  BY Zenon, <1>1, <1>2, <1>3, <1>4

(* There is no XML.                                                        *)
LEMMA XmlFailedInv ==
    ASSUME IInv, xml_failed
    PROVE  IInv'
<1> USE DiscoverAssumption, InterfacesType
    DEF IInv, xml_failed, NotFound, search
<1>1. TypeOK'
  <2>1. muted' \in BOOLEAN
    BY Zenon DEF TypeOK
  <2> QED
    BY SMT, <2>1 DEF TypeOK, EachAnswerOnce, Identifying, PCs, SearchInv,
       Busy
<1>2. EachAnswerOnce'
  BY SMT DEF TypeOK, EachAnswerOnce, Identifying, PCs
<1>3. ClientClosed'
  BY SMT DEF TypeOK, ClientClosed
<1>4. SearchInv'
  BY SMT DEF TypeOK, PCs, SearchInv, Busy, Identifying
<1> QED
  BY Zenon, <1>1, <1>2, <1>3, <1>4

(* The XML is read.                                                        *)
LEMMA XmlOkInv ==
    ASSUME IInv, xml_ok
    PROVE  IInv'
<1> USE DiscoverAssumption, InterfacesType
    DEF IInv, xml_ok, Goto, search, history
<1>1. TypeOK'
  <2>1. muted' \in BOOLEAN
    BY Zenon DEF TypeOK
  <2> QED
    BY SMT, <2>1 DEF TypeOK, EachAnswerOnce, Identifying, PCs, SearchInv,
       Busy
<1>2. EachAnswerOnce'
  BY SMT DEF TypeOK, EachAnswerOnce, Identifying, PCs
<1>3. ClientClosed'
  BY SMT DEF TypeOK, ClientClosed
<1>4. SearchInv'
  BY SMT DEF TypeOK, PCs, SearchInv, Busy, Identifying
<1> QED
  BY Zenon, <1>1, <1>2, <1>3, <1>4

(* The XML lacks an element.                                               *)
LEMMA XmlElementMissingInv ==
    ASSUME IInv, xml_element_missing
    PROVE  IInv'
<1> USE DiscoverAssumption, InterfacesType
    DEF IInv, xml_element_missing, Goto, search, history
<1>1. TypeOK'
  <2>1. muted' \in BOOLEAN
    BY Zenon DEF TypeOK
  <2> QED
    BY SMT, <2>1 DEF TypeOK, EachAnswerOnce, Identifying, PCs, SearchInv,
       Busy
<1>2. EachAnswerOnce'
  BY SMT DEF TypeOK, EachAnswerOnce, Identifying, PCs
<1>3. ClientClosed'
  BY SMT DEF TypeOK, ClientClosed
<1>4. SearchInv'
  BY SMT DEF TypeOK, PCs, SearchInv, Busy, Identifying
<1> QED
  BY Zenon, <1>1, <1>2, <1>3, <1>4

(* A backend does not return.                                              *)
LEMMA BackendHangsInv ==
    ASSUME IInv, backend_hangs
    PROVE  IInv'
<1> USE DiscoverAssumption, InterfacesType
    DEF IInv, backend_hangs, Goto, search, history
<1>1. TypeOK'
  <2>1. muted' \in BOOLEAN
    BY Zenon DEF TypeOK
  <2> QED
    BY SMT, <2>1 DEF TypeOK, EachAnswerOnce, Identifying, PCs, SearchInv,
       Busy
<1>2. EachAnswerOnce'
  BY SMT DEF TypeOK, EachAnswerOnce, Identifying, PCs
<1>3. ClientClosed'
  BY SMT DEF TypeOK, ClientClosed
<1>4. SearchInv'
  BY SMT DEF TypeOK, PCs, SearchInv, Busy, Identifying
<1> QED
  BY Zenon, <1>1, <1>2, <1>3, <1>4

(* The invariant holds throughout.                                         *)
LEMMA Invariance == Spec => []IInv
<1>1. Init => IInv
  <2> SUFFICES ASSUME Init PROVE IInv
    OBVIOUS
  <2>1. muted \in BOOLEAN
    BY Zenon DEF Init
  <2>2. ifname \in Names
    BY Zenon DEF Init, Names
  <2>3. TypeOK
    BY SMT, <2>1, <2>2, DiscoverAssumption, InterfacesType
       DEF Init, TypeOK, PCs
  <2> QED
    BY SMT, <2>3 DEF Init, IInv, EachAnswerOnce, Identifying, ClientClosed,
       SearchInv, Busy
<1>2. IInv /\ [Next]_vars => IInv'
  <2> SUFFICES ASSUME IInv, [Next]_vars PROVE IInv'
    OBVIOUS
  <2>1. CASE UNCHANGED vars
    BY Zenon, <2>1 DEF vars, search, history, IInv, TypeOK, EachAnswerOnce,
       ClientClosed, SearchInv
  <2>2. CASE Call
    BY Zenon, <2>2, LxiDiscoverMdnsInv, LxiDiscoverInv DEF Call
  <2>3. CASE Step
    BY Zenon, <2>3, MdnsDiscoverInv, GetifaddrsFailedInv, NextInterfaceInv,
       NoMoreInterfacesInv, SocketFailedInv, SendtoInv, RecvfromTimeoutInv,
       DeviceCallbackInv, Vxi11ConnectFailedInv, Vxi11ConnectInv,
       Vxi11SendInv, Vxi11IoFailedInv, Vxi11ReceiveInv,
       Vxi11ReceiveNothingInv, HttpFailedInv,
       HttpSigpipeInv, XmlFailedInv, XmlOkInv, XmlElementMissingInv DEF
       Step
  <2>4. CASE Peer
    BY Zenon, <2>4, RecvfromInv, RecvfromEmptyInv, HttpBeginsInv, HttpEndsInv
       DEF Peer
  <2>5. CASE backend_hangs
    BY Zenon, <2>5, BackendHangsInv
  <2> QED
    BY Zenon, <2>1, <2>2, <2>3, <2>4, <2>5 DEF Next
<1> QED
  BY <1>1, <1>2, PTL DEF Spec

-----------------------------------------------------------------------------
(* The variables keep their types: ifap_p never passes the end of the list *)
(* by more than one.                                                       *)
THEOREM TypeCorrect == Spec => []TypeOK
<1>1. IInv => TypeOK
  BY Zenon DEF IInv
<1> QED
  BY Invariance, <1>1, PTL

(* However many devices answer, each answer is reported once or fails once. *)
THEOREM AnswersHandled == Spec => []EachAnswerOnce
<1>1. IInv => EachAnswerOnce
  BY Zenon DEF IInv
<1> QED
  BY Invariance, <1>1, PTL

(* No path through get_device_id leaves a client open, however the device  *)
(* and its HTTP server behave.                                             *)
THEOREM NothingOpen == Spec => []ClientClosed
<1>1. IInv => ClientClosed
  BY Zenon DEF IInv
<1> QED
  BY Invariance, <1>1, PTL

(* Whatever the interfaces are, a discovery that ends has searched exactly *)
(* the ones it was to search.                                              *)
THEOREM SearchComplete == Spec => SearchesAll
<1> DEFINE Search ==
      pc = "interfaces" /\ pc' = "idle" /\ at > 1 =>
          announced = {i \in 1 .. Len(Interfaces) :
                        /\ Interfaces[i].inet /\ Interfaces[i].broadcast
                        /\ ifname \in {"NULL", Interfaces[i].name}}
<1>1. IInv /\ [Next]_vars => [Search]_vars
  <2> SUFFICES ASSUME IInv, Next, pc = "interfaces", pc' = "idle", at > 1
               PROVE  announced = {i \in 1 .. Len(Interfaces) :
                                      Wanted(i, ifname)}
    BY Zenon DEF Wanted
  <2>1. no_more_interfaces
    BY SMT DEF Next, Call, Step, Peer, Goto, SearchNext, lxi_discover,
       lxi_discover_mdns, mdns_discover, getifaddrs_failed, next_interface,
       socket_failed, sendto, recvfrom_timeout, device_callback,
       vxi11_connect_failed, vxi11_connect, vxi11_send, vxi11_io_failed,
       vxi11_receive, vxi11_receive_nothing, http_failed, http_sigpipe,
       xml_failed, xml_ok, xml_element_missing, recvfrom, recvfrom_empty,
       http_begins, http_ends, backend_hangs, NotFound
  <2>2. at - 1 = Len(Interfaces)
    BY SMT, <2>1, InterfacesType DEF IInv, TypeOK, no_more_interfaces
  <2> QED
    BY Zenon, <2>2 DEF IInv, SearchInv
<1> QED
  BY Invariance, <1>1, PTL DEF Spec, SearchesAll
=============================================================================
