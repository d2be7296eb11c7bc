--------------------------- MODULE SessionProofs ---------------------------
(***************************************************************************)
(* Proofs about the session table, for every number of threads, entries    *)
(* and blocks and for every program, whatever handles it passes and        *)
(* however often it calls lxi_init: no call meets memory that is not its   *)
(* own, and the table implements the handle interface of SessionApi, until *)
(* the handle SESSIONS_MAX is let through or an entry is taken away from a *)
(* call of another thread.                                                 *)
(***************************************************************************)
EXTENDS Session, TLAPS

-----------------------------------------------------------------------------
(* The inductive invariant.  What always holds:                            *)

(* session_mutex is held by exactly the thread inside a locked section.    *)
MutexInv == \A t \in Threads : mutex = t <=> pc[t] \in Locked

(* Every part of the library but the call behind the table works on an     *)
(* entry of the table.                                                     *)
EntryInv ==
    \A t \in Threads :
        /\ pc[t] \in ({"init_connected", "connecting"} \cup Validated)
                       \ {"outside"} => device[t] \in Slots
        /\ pc[t] = "connecting" => data[device[t]] \in Blocks

(* What holds until the checks of the library are got round:               *)

(* What a send or receive has read from the entry is still there.          *)
LoadInv ==
    \A t \in Threads :
        /\ pc[t] \in {"load", "running"} => fn[t] = backend[device[t]]
        /\ pc[t] = "running" => ptr[t] = data[device[t]]

(* The entry of a connect in progress is free, its block live.             *)
ConnectInv ==
    \A t \in Threads : pc[t] = "connecting" =>
        /\ ~allocated[device[t]]
        /\ backend[device[t]] \in Backends
        /\ heap[data[device[t]]] = backend[device[t]]

(* Thread t is about to free entry i, which no other call uses.            *)
FreedBy(i, t) ==
    /\ pc[t] = "freeing" /\ device[t] = i
    /\ \A u \in Threads \ {t} : ~Uses(u, i)

(* The block of an allocated entry is live, and its connection is open     *)
(* until lxi_disconnect has closed it.                                     *)
SlotInv ==
    \A i \in Slots : allocated[i] =>
        /\ data[i] \in Blocks
        /\ backend[i] \in Backends
        /\ heap[data[i]] = backend[i]
        /\ \/ data[i] \in open
           \/ \E t \in Threads : FreedBy(i, t)

(* The entries that refer to a block of the heap.                          *)
Claimed(i) ==
    allocated[i] \/ \E t \in Threads : pc[t] = "connecting" /\ device[t] = i

ClaimInv ==
    \A i, j \in Slots :
        Claimed(i) /\ Claimed(j) /\ data[i] = data[j] => i = j

SoundInv ==
    /\ ValidHandles
    /\ LoadInv
    /\ ConnectInv
    /\ SlotInv
    /\ ClaimInv

(* What holds until, in addition, lxi_init resets an open session:         *)

(* The flags agree, and a connect in progress has a fresh block.           *)
FlagInv ==
    /\ \A i \in Slots : allocated[i] => connected[i]
    /\ \A t \in Threads :
          pc[t] = "connecting" => data[device[t]] \notin open

(* A session is closed before it is freed.                                 *)
FreeingInv ==
    \A t \in Threads : pc[t] = "freeing" => data[device[t]] \notin open

CleanInv ==
    /\ FlagInv
    /\ FreeingInv
    /\ NoLeak
    /\ ClosedBeforeFreed

Inv ==
    /\ TypeOK
    /\ MutexInv
    /\ EntryInv
    /\ Unharmed => SoundInv
    /\ misuse = {} => CleanInv

(* The call leaves the table alone.                                        *)
LEMMA Inv_lxi_init ==
    ASSUME Inv, NEW t \in Threads, lxi_init(t)
    PROVE  Inv'
<1> USE SessionAssumption DEF Inv, TypeOK, lxi_init, Goto, table, memory,
        Slots, PCs, Locked, Validated, Backends, Protocols, Operations,
        Misuses
<1>1. TypeOK'
  BY DEF EntryInv
<1>2. MutexInv' /\ EntryInv'
  BY DEF MutexInv, EntryInv
<1>3. (Unharmed' => Unharmed) /\ (misuse' = {} => misuse = {})
  BY DEF Unharmed
<1>4. ASSUME Unharmed' PROVE SoundInv'
  <2> USE <1>3, <1>4 DEF SoundInv, EntryInv
  <2>1. ValidHandles'
    BY DEF ValidHandles
  <2>2. LoadInv'
    BY DEF LoadInv, ValidHandles
  <2>3. ConnectInv'
    BY DEF ConnectInv
  <2>4. SlotInv'
    BY DEF SlotInv, FreedBy, Uses, ValidHandles
  <2>5. ClaimInv'
    BY DEF ClaimInv, Claimed
  <2> QED
    BY <2>1, <2>2, <2>3, <2>4, <2>5
<1>5. ASSUME misuse' = {} PROVE CleanInv'
  <2> USE <1>3, <1>5 DEF SoundInv, CleanInv, EntryInv, Unharmed
  <2>1. FlagInv'
    BY DEF FlagInv
  <2>2. FreeingInv'
    BY DEF FreeingInv
  <2>3. NoLeak'
    BY DEF NoLeak
  <2>4. ClosedBeforeFreed'
    BY DEF ClosedBeforeFreed
  <2> QED
    BY <2>1, <2>2, <2>3, <2>4
<1> HIDE DEF SoundInv, CleanInv
<1> QED
  BY <1>1, <1>2, <1>4, <1>5

(* An entry that a call uses, or that is allocated, counts as misuse.      *)
LEMMA Inv_lxi_init_allocated ==
    ASSUME Inv, NEW t \in Threads, lxi_init_allocated(t)
    PROVE  Inv'
<1> USE SessionAssumption DEF Inv, TypeOK, lxi_init_allocated, Goto, memory,
        locals, Taken, Voided, Uses, Slots, PCs, Locked, Validated, Backends,
        Protocols, Operations, Misuses
<1>1. TypeOK'
  BY DEF EntryInv
<1>2. MutexInv' /\ EntryInv'
  BY DEF MutexInv, EntryInv
<1>3. (Unharmed' => Unharmed) /\ (misuse' = {} => misuse = {})
  BY DEF Unharmed
<1>4. ASSUME Unharmed' PROVE SoundInv'
  <2> USE <1>3, <1>4 DEF SoundInv, EntryInv
  <2>1. ValidHandles'
    <3>1. \A u \in Threads \ {t} : ~Uses(u, device[t])
      BY DEF Unharmed
    <3> QED
      BY <3>1 DEF ValidHandles
  <2>2. LoadInv'
    BY DEF LoadInv, ValidHandles
  <2>3. ConnectInv'
    BY DEF ConnectInv
  <2>4. SlotInv'
    BY DEF SlotInv, FreedBy, Uses, ValidHandles
  <2>5. ClaimInv'
    BY DEF ClaimInv, Claimed
  <2> QED
    BY <2>1, <2>2, <2>3, <2>4, <2>5
<1>5. ASSUME misuse' = {} PROVE CleanInv'
  <2> USE <1>3, <1>5 DEF SoundInv, CleanInv, EntryInv, Unharmed
  <2>1. allocated' = allocated
    <3>1. ~allocated[device[t]]
      OBVIOUS
    <3> QED
      BY <3>1
  <2>2. FlagInv'
    BY DEF FlagInv
  <2>3. FreeingInv'
    BY DEF FreeingInv
  <2>4. NoLeak'
    <3>1. UNCHANGED <<heap, allocated, data>>
      BY <2>1
    <3>2. \A u \in Threads : pc[u] = "connecting" =>
            pc'[u] = "connecting" /\ device'[u] = device[u]
      OBVIOUS
    <3>3. NoLeak
      OBVIOUS
    <3> HIDE DEF Inv, CleanInv, lxi_init_allocated
    <3> QED
      BY <3>1, <3>2, <3>3 DEF NoLeak
  <2>5. ClosedBeforeFreed'
    BY DEF ClosedBeforeFreed
  <2> QED
    BY <2>2, <2>3, <2>4, <2>5
<1> HIDE DEF SoundInv, CleanInv
<1> QED
  BY <1>1, <1>2, <1>4, <1>5

(* So does an entry that was connected in between.                         *)
LEMMA Inv_lxi_init_connected ==
    ASSUME Inv, NEW t \in Threads, lxi_init_connected(t)
    PROVE  Inv'
<1> USE SessionAssumption DEF Inv, TypeOK, lxi_init_connected, Goto, memory,
        Voided, Slots, PCs, Locked, Validated, Backends, Protocols,
        Operations, Misuses
<1>1. TypeOK'
  BY DEF EntryInv
<1>2. MutexInv' /\ EntryInv'
  BY DEF MutexInv, EntryInv
<1>3. (Unharmed' => Unharmed) /\ (misuse' = {} => misuse = {})
  BY DEF Unharmed
<1>4. ASSUME Unharmed' PROVE SoundInv'
  <2> USE <1>3, <1>4 DEF SoundInv, EntryInv
  <2>1. ValidHandles'
    BY DEF ValidHandles
  <2>2. LoadInv'
    BY DEF LoadInv, ValidHandles
  <2>3. ConnectInv'
    BY DEF ConnectInv
  <2>4. SlotInv'
    BY DEF SlotInv, FreedBy, Uses, ValidHandles
  <2>5. ClaimInv'
    BY DEF ClaimInv, Claimed
  <2> QED
    BY <2>1, <2>2, <2>3, <2>4, <2>5
<1>5. ASSUME misuse' = {} PROVE CleanInv'
  <2> USE <1>3, <1>5 DEF SoundInv, CleanInv, EntryInv, Unharmed
  <2>1. FlagInv'
    BY DEF FlagInv
  <2>2. FreeingInv'
    BY DEF FreeingInv
  <2>3. NoLeak'
    BY DEF NoLeak
  <2>4. ClosedBeforeFreed'
    BY DEF ClosedBeforeFreed
  <2> QED
    BY <2>1, <2>2, <2>3, <2>4
<1> HIDE DEF SoundInv, CleanInv
<1> QED
  BY <1>1, <1>2, <1>4, <1>5

(* The call ends and leaves the table alone.                               *)
LEMMA Inv_lxi_init_return ==
    ASSUME Inv, NEW t \in Threads, lxi_init_return(t)
    PROVE  Inv'
<1> USE SessionAssumption DEF Inv, TypeOK, lxi_init_return, Goto, Return,
        table, memory, Slots, PCs, Locked, Validated, Backends, Protocols,
        Operations, Misuses
<1>1. TypeOK'
  BY DEF EntryInv
<1>2. MutexInv' /\ EntryInv'
  BY DEF MutexInv, EntryInv
<1>3. (Unharmed' => Unharmed) /\ (misuse' = {} => misuse = {})
  BY DEF Unharmed
<1>4. ASSUME Unharmed' PROVE SoundInv'
  <2> USE <1>3, <1>4 DEF SoundInv, EntryInv
  <2>1. ValidHandles'
    BY DEF ValidHandles
  <2>2. LoadInv'
    BY DEF LoadInv, ValidHandles
  <2>3. ConnectInv'
    BY DEF ConnectInv
  <2>4. SlotInv'
    BY DEF SlotInv, FreedBy, Uses, ValidHandles
  <2>5. ClaimInv'
    BY DEF ClaimInv, Claimed
  <2> QED
    BY <2>1, <2>2, <2>3, <2>4, <2>5
<1>5. ASSUME misuse' = {} PROVE CleanInv'
  <2> USE <1>3, <1>5 DEF SoundInv, CleanInv, EntryInv, Unharmed
  <2>1. FlagInv'
    BY DEF FlagInv
  <2>2. FreeingInv'
    BY DEF FreeingInv
  <2>3. NoLeak'
    BY DEF NoLeak
  <2>4. ClosedBeforeFreed'
    BY DEF ClosedBeforeFreed
  <2> QED
    BY <2>1, <2>2, <2>3, <2>4
<1> HIDE DEF SoundInv, CleanInv
<1> QED
  BY <1>1, <1>2, <1>4, <1>5

(* The call waits for the mutex.                                           *)
LEMMA Inv_lxi_connect ==
    ASSUME Inv, NEW t \in Threads, lxi_connect(t)
    PROVE  Inv'
<1> USE SessionAssumption DEF Inv, TypeOK, lxi_connect, Goto, table, memory,
        Slots, PCs, Locked, Validated, Backends, Protocols, Operations,
        Misuses
<1>1. TypeOK'
  BY DEF EntryInv
<1>2. MutexInv' /\ EntryInv'
  BY DEF MutexInv, EntryInv
<1>3. (Unharmed' => Unharmed) /\ (misuse' = {} => misuse = {})
  BY DEF Unharmed
<1>4. ASSUME Unharmed' PROVE SoundInv'
  <2> USE <1>3, <1>4 DEF SoundInv, EntryInv
  <2>1. ValidHandles'
    BY DEF ValidHandles
  <2>2. LoadInv'
    BY DEF LoadInv, ValidHandles
  <2>3. ConnectInv'
    BY DEF ConnectInv
  <2>4. SlotInv'
    BY DEF SlotInv, FreedBy, Uses, ValidHandles
  <2>5. ClaimInv'
    BY DEF ClaimInv, Claimed
  <2> QED
    BY <2>1, <2>2, <2>3, <2>4, <2>5
<1>5. ASSUME misuse' = {} PROVE CleanInv'
  <2> USE <1>3, <1>5 DEF SoundInv, CleanInv, EntryInv, Unharmed
  <2>1. FlagInv'
    BY DEF FlagInv
  <2>2. FreeingInv'
    BY DEF FreeingInv
  <2>3. NoLeak'
    BY DEF NoLeak
  <2>4. ClosedBeforeFreed'
    BY DEF ClosedBeforeFreed
  <2> QED
    BY <2>1, <2>2, <2>3, <2>4
<1> HIDE DEF SoundInv, CleanInv
<1> QED
  BY <1>1, <1>2, <1>4, <1>5

(* The call takes and releases the mutex in one step.                      *)
LEMMA Inv_lxi_connect_refused ==
    ASSUME Inv, NEW t \in Threads, lxi_connect_refused(t)
    PROVE  Inv'
<1> USE SessionAssumption DEF Inv, TypeOK, lxi_connect_refused, Goto, Return,
        table, memory, ConnectRefused, FreeSlots, Slots, PCs, Locked,
        Validated, Backends, Protocols, Operations, Misuses
<1>1. TypeOK'
  BY DEF EntryInv
<1>2. MutexInv' /\ EntryInv'
  BY DEF MutexInv, EntryInv
<1>3. (Unharmed' => Unharmed) /\ (misuse' = {} => misuse = {})
  BY DEF Unharmed
<1>4. ASSUME Unharmed' PROVE SoundInv'
  <2> USE <1>3, <1>4 DEF SoundInv, EntryInv
  <2>1. ValidHandles'
    BY DEF ValidHandles
  <2>2. LoadInv'
    BY DEF LoadInv, ValidHandles
  <2>3. ConnectInv'
    BY DEF ConnectInv
  <2>4. SlotInv'
    BY DEF SlotInv, FreedBy, Uses, ValidHandles
  <2>5. ClaimInv'
    BY DEF ClaimInv, Claimed
  <2> QED
    BY <2>1, <2>2, <2>3, <2>4, <2>5
<1>5. ASSUME misuse' = {} PROVE CleanInv'
  <2> USE <1>3, <1>5 DEF SoundInv, CleanInv, EntryInv, Unharmed
  <2>1. FlagInv'
    BY DEF FlagInv
  <2>2. FreeingInv'
    BY DEF FreeingInv
  <2>3. NoLeak'
    BY DEF NoLeak
  <2>4. ClosedBeforeFreed'
    BY DEF ClosedBeforeFreed
  <2> QED
    BY <2>1, <2>2, <2>3, <2>4
<1> HIDE DEF SoundInv, CleanInv
<1> QED
  BY <1>1, <1>2, <1>4, <1>5

(* The entry is free and the block fresh, so no other entry claims it.     *)
LEMMA Inv_lxi_connect_setup ==
    ASSUME Inv, NEW t \in Threads, lxi_connect_setup(t)
    PROVE  Inv'
<1> USE SessionAssumption DEF Inv, TypeOK, lxi_connect_setup, Goto,
        ConnectRefused, FreeSlots, IsFirst, Slots, PCs, Locked, Validated,
        Backends, Protocols, Operations, Misuses
<1> PICK i \in Slots, b \in Blocks :
          /\ ~allocated[i]
          /\ heap[b] = "free"
          /\ heap'    = [heap EXCEPT ![b] = op[t]]
          /\ data'    = [data EXCEPT ![i] = b]
          /\ backend' = [backend EXCEPT ![i] = op[t]]
          /\ device'  = [device EXCEPT ![t] = i]
  OBVIOUS
<1>1. TypeOK'
  BY DEF EntryInv
<1>2. MutexInv' /\ EntryInv'
  BY DEF MutexInv, EntryInv
<1>3. (Unharmed' => Unharmed) /\ (misuse' = {} => misuse = {})
  BY DEF Unharmed
<1>4. ASSUME Unharmed' PROVE SoundInv'
  <2> USE <1>3, <1>4 DEF SoundInv, EntryInv
  <2>1. ValidHandles'
    BY DEF ValidHandles
  <2>2. LoadInv'
    BY DEF LoadInv, ValidHandles
  <2>3. ConnectInv'
    BY DEF ConnectInv, MutexInv
  <2>4. SlotInv'
    <3>1. \A u \in Threads : pc[u] # "freeing"
      BY DEF MutexInv
    <3> QED
      BY <3>1 DEF SlotInv, FreedBy
  <2>5. ClaimInv'
    <3>1. \A j \in Slots : Claimed(j)' <=> allocated[j] \/ j = i
      BY DEF Claimed, MutexInv
    <3>2. \A j \in Slots : allocated[j] => data'[j] = data[j] /\ data[j] # b
      <4> SUFFICES ASSUME NEW j \in Slots, allocated[j]
                   PROVE  data'[j] = data[j] /\ data[j] # b
        OBVIOUS
      <4>1. heap[data[j]] # "free"
        BY DEF SlotInv
      <4> QED
        BY <4>1
    <3> QED
      BY <3>1, <3>2 DEF ClaimInv, Claimed
  <2> QED
    BY <2>1, <2>2, <2>3, <2>4, <2>5
<1>5. ASSUME misuse' = {} PROVE CleanInv'
  <2> USE <1>3, <1>5 DEF SoundInv, CleanInv, EntryInv, Unharmed
  <2>1. FlagInv'
    BY DEF FlagInv, ClosedBeforeFreed, MutexInv
  <2>2. FreeingInv'
    BY DEF FreeingInv, ValidHandles, MutexInv
  <2>3. NoLeak'
    <3> SUFFICES ASSUME NEW c \in Blocks, heap'[c] # "free"
                 PROVE  \/ \E j \in Slots : allocated[j] /\ data'[j] = c
                        \/ data'[device'[t]] = c
      <4>1. pc'[t] = "connecting" /\ allocated' = allocated
        OBVIOUS
      <4> HIDE DEF lxi_connect_setup
      <4> QED
        BY <4>1 DEF NoLeak
    <3>1. CASE c = b
      BY <3>1
    <3>2. CASE c # b
      <4>1. PICK j \in Slots : allocated[j] /\ data[j] = c
        <5>1. heap[c] # "free"
          BY <3>2
        <5>2. \A u \in Threads : pc[u] # "connecting"
          BY DEF MutexInv
        <5>3. NoLeak
          OBVIOUS
        <5> QED
          BY <5>1, <5>2, <5>3 DEF NoLeak
      <4> QED
        BY <4>1
    <3> QED
      BY <3>1, <3>2
  <2>4. ClosedBeforeFreed'
    BY DEF ClosedBeforeFreed
  <2> QED
    BY <2>1, <2>2, <2>3, <2>4
<1> HIDE DEF SoundInv, CleanInv
<1> QED
  BY <1>1, <1>2, <1>4, <1>5

(* The claim on the entry turns into the caller's handle.                  *)
LEMMA Inv_lxi_connect_ok ==
    ASSUME Inv, NEW t \in Threads, lxi_connect_ok(t)
    PROVE  Inv'
<1> USE SessionAssumption DEF Inv, TypeOK, lxi_connect_ok, Goto, Return,
        Slots, PCs, Locked, Validated, Backends, Protocols, Operations,
        Misuses
<1>1. TypeOK'
  BY DEF EntryInv
<1>2. MutexInv' /\ EntryInv'
  BY DEF MutexInv, EntryInv
<1>3. (Unharmed' => Unharmed) /\ (misuse' = {} => misuse = {})
  BY DEF Unharmed
<1>4. ASSUME Unharmed' PROVE SoundInv'
  <2> USE <1>3, <1>4 DEF SoundInv, EntryInv
  <2>1. ValidHandles'
    BY DEF ValidHandles, ConnectInv, MutexInv
  <2>2. LoadInv'
    BY DEF LoadInv, ValidHandles
  <2>3. ConnectInv'
    BY DEF ConnectInv, MutexInv
  <2>4. SlotInv'
    BY DEF SlotInv, FreedBy, Uses, ConnectInv, MutexInv
  <2>5. ClaimInv'
    <3>1. ASSUME NEW i \in Slots, Claimed(i)' PROVE Claimed(i)
      BY <3>1 DEF Claimed
    <3>2. data' = data
      OBVIOUS
    <3> QED
      BY <3>1, <3>2 DEF ClaimInv
  <2> QED
    BY <2>1, <2>2, <2>3, <2>4, <2>5
<1>5. ASSUME misuse' = {} PROVE CleanInv'
  <2> USE <1>3, <1>5 DEF SoundInv, CleanInv, EntryInv, Unharmed
  <2>1. FlagInv'
    <3>1. \A i \in Slots : allocated'[i] => connected'[i]
      BY DEF FlagInv
    <3>2. \A u \in Threads : pc'[u] # "connecting"
      BY DEF MutexInv
    <3> QED
      BY <3>1, <3>2 DEF FlagInv
  <2>2. FreeingInv'
    BY DEF FreeingInv, MutexInv
  <2>3. NoLeak'
    <3>1. /\ data' = data /\ heap' = heap /\ allocated'[device[t]]
          /\ \A i \in Slots : allocated[i] => allocated'[i]
      OBVIOUS
    <3>2. \A u \in Threads : pc[u] = "connecting" => u = t
      BY DEF MutexInv
    <3>3. device[t] \in Slots
      OBVIOUS
    <3> HIDE DEF lxi_connect_ok
    <3> QED
      BY <3>1, <3>2, <3>3 DEF NoLeak
  <2>4. ClosedBeforeFreed'
    BY DEF ClosedBeforeFreed, ConnectInv
  <2> QED
    BY <2>1, <2>2, <2>3, <2>4
<1> HIDE DEF SoundInv, CleanInv
<1> QED
  BY <1>1, <1>2, <1>4, <1>5

(* The claim is given up together with the block.                          *)
LEMMA Inv_lxi_connect_error ==
    ASSUME Inv, NEW t \in Threads, lxi_connect_error(t)
    PROVE  Inv'
<1> USE SessionAssumption DEF Inv, TypeOK, lxi_connect_error, Goto, Return,
        table, Slots, PCs, Locked, Validated, Backends, Protocols, Operations,
        Misuses
<1>1. TypeOK'
  BY DEF EntryInv
<1>2. MutexInv' /\ EntryInv'
  BY DEF MutexInv, EntryInv
<1>3. (Unharmed' => Unharmed) /\ (misuse' = {} => misuse = {})
  BY DEF Unharmed
<1>4. ASSUME Unharmed' PROVE SoundInv'
  <2> USE <1>3, <1>4 DEF SoundInv, EntryInv
  <2>1. /\ \A u \in Threads : pc[u] = "connecting" <=> u = t
        /\ \A u \in Threads : pc'[u] # "connecting"
    BY DEF MutexInv
  <2>2. \A i \in Slots : allocated[i] => data[i] # data[device[t]]
    BY DEF ClaimInv, Claimed, ConnectInv
  <2>3. ValidHandles'
    BY DEF ValidHandles
  <2>4. LoadInv'
    BY DEF LoadInv, ValidHandles
  <2>5. ConnectInv'
    BY <2>1 DEF ConnectInv
  <2>6. SlotInv'
    BY <2>2 DEF SlotInv, FreedBy, Uses
  <2>7. ClaimInv'
    BY DEF ClaimInv, Claimed
  <2> QED
    BY <2>3, <2>4, <2>5, <2>6, <2>7
<1>5. ASSUME misuse' = {} PROVE CleanInv'
  <2> USE <1>3, <1>5 DEF SoundInv, CleanInv, EntryInv, Unharmed
  <2>1. \A u \in Threads : pc[u] = "connecting" => u = t
    BY DEF MutexInv
  <2>2. FlagInv'
    BY DEF FlagInv
  <2>3. FreeingInv'
    BY DEF FreeingInv
  <2>4. NoLeak'
    <3> SUFFICES ASSUME NEW c \in Blocks, heap'[c] # "free"
                 PROVE  \E i \in Slots : allocated'[i] /\ data'[i] = c
      BY DEF NoLeak
    <3>1. heap[c] # "free" /\ c # data[device[t]]
      OBVIOUS
    <3> QED
      BY <2>1, <3>1 DEF NoLeak
  <2>5. ClosedBeforeFreed'
    BY DEF ClosedBeforeFreed, FlagInv
  <2> QED
    BY <2>2, <2>3, <2>4, <2>5
<1> HIDE DEF SoundInv, CleanInv
<1> QED
  BY <1>1, <1>2, <1>4, <1>5

(* A call may be on any handle; nothing is known of it yet.                *)
LEMMA Inv_lxi_call ==
    ASSUME Inv, NEW t \in Threads, lxi_call(t)
    PROVE  Inv'
<1> USE SessionAssumption DEF Inv, TypeOK, lxi_call, Goto, table, memory,
        Slots, PCs, Locked, Validated, Backends, Protocols, Operations,
        Misuses
<1>1. TypeOK'
  BY DEF EntryInv
<1>2. MutexInv' /\ EntryInv'
  BY DEF MutexInv, EntryInv
<1>3. (Unharmed' => Unharmed) /\ (misuse' = {} => misuse = {})
  BY DEF Unharmed
<1>4. ASSUME Unharmed' PROVE SoundInv'
  <2> USE <1>3, <1>4 DEF SoundInv, EntryInv
  <2>1. ValidHandles'
    BY DEF ValidHandles
  <2>2. LoadInv'
    BY DEF LoadInv, ValidHandles
  <2>3. ConnectInv'
    BY DEF ConnectInv
  <2>4. SlotInv'
    <3>1. ASSUME NEW i \in Slots, NEW u \in Threads, FreedBy(i, u)
          PROVE  FreedBy(i, u)'
      BY <3>1 DEF FreedBy, Uses
    <3>2. SlotInv /\ UNCHANGED <<allocated, data, backend, heap, open>>
      OBVIOUS
    <3> HIDE DEF Inv, SoundInv, lxi_call
    <3> QED
      BY <3>1, <3>2 DEF SlotInv
  <2>5. ClaimInv'
    BY DEF ClaimInv, Claimed
  <2> QED
    BY <2>1, <2>2, <2>3, <2>4, <2>5
<1>5. ASSUME misuse' = {} PROVE CleanInv'
  <2> USE <1>3, <1>5 DEF SoundInv, CleanInv, EntryInv, Unharmed
  <2>1. FlagInv'
    BY DEF FlagInv
  <2>2. FreeingInv'
    BY DEF FreeingInv
  <2>3. NoLeak'
    <3>1. UNCHANGED <<heap, allocated, data>>
      OBVIOUS
    <3>2. \A u \in Threads : pc[u] = "connecting" =>
            pc'[u] = "connecting" /\ device'[u] = device[u]
      OBVIOUS
    <3>3. NoLeak
      OBVIOUS
    <3> HIDE DEF Inv, CleanInv, lxi_call
    <3> QED
      BY <3>1, <3>2, <3>3 DEF NoLeak
  <2>4. ClosedBeforeFreed'
    BY DEF ClosedBeforeFreed
  <2> QED
    BY <2>1, <2>2, <2>3, <2>4
<1> HIDE DEF SoundInv, CleanInv
<1> QED
  BY <1>1, <1>2, <1>4, <1>5

(* The call ends and leaves the table alone.                               *)
LEMMA Inv_is_valid_session_no ==
    ASSUME Inv, NEW t \in Threads, is_valid_session_no(t)
    PROVE  Inv'
<1> USE SessionAssumption DEF Inv, TypeOK, is_valid_session_no, Goto, Return,
        table, memory, Slots, PCs, Locked, Validated, Backends, Protocols,
        Operations, Misuses
<1>1. TypeOK'
  BY DEF EntryInv
<1>2. MutexInv' /\ EntryInv'
  BY DEF MutexInv, EntryInv
<1>3. (Unharmed' => Unharmed) /\ (misuse' = {} => misuse = {})
  BY DEF Unharmed
<1>4. ASSUME Unharmed' PROVE SoundInv'
  <2> USE <1>3, <1>4 DEF SoundInv, EntryInv
  <2>1. ValidHandles'
    BY DEF ValidHandles
  <2>2. LoadInv'
    BY DEF LoadInv, ValidHandles
  <2>3. ConnectInv'
    BY DEF ConnectInv
  <2>4. SlotInv'
    BY DEF SlotInv, FreedBy, Uses, ValidHandles
  <2>5. ClaimInv'
    BY DEF ClaimInv, Claimed
  <2> QED
    BY <2>1, <2>2, <2>3, <2>4, <2>5
<1>5. ASSUME misuse' = {} PROVE CleanInv'
  <2> USE <1>3, <1>5 DEF SoundInv, CleanInv, EntryInv, Unharmed
  <2>1. FlagInv'
    BY DEF FlagInv
  <2>2. FreeingInv'
    BY DEF FreeingInv
  <2>3. NoLeak'
    BY DEF NoLeak
  <2>4. ClosedBeforeFreed'
    BY DEF ClosedBeforeFreed
  <2> QED
    BY <2>1, <2>2, <2>3, <2>4
<1> HIDE DEF SoundInv, CleanInv
<1> QED
  BY <1>1, <1>2, <1>4, <1>5

(* The entry is in the table and allocated, or misuse is recorded.         *)
LEMMA Inv_is_valid_session_yes ==
    ASSUME Inv, NEW t \in Threads, is_valid_session_yes(t)
    PROVE  Inv'
<1> USE SessionAssumption DEF Inv, TypeOK, is_valid_session_yes, Goto, table,
        memory, locals, OutOfRange, AllocatedReads, Slots, PCs, Locked,
        Validated, Backends, Protocols, Operations, Misuses
<1>1. TypeOK'
  BY DEF EntryInv
<1>2. MutexInv' /\ EntryInv'
  BY DEF MutexInv, EntryInv
<1>3. (Unharmed' => Unharmed) /\ (misuse' = {} => misuse = {})
  BY DEF Unharmed
<1>4. ASSUME Unharmed' PROVE SoundInv'
  <2> USE <1>3, <1>4 DEF SoundInv, EntryInv
  <2>1. ValidHandles'
    <3>1. device[t] # SESSIONS_MAX
      BY DEF Unharmed
    <3>2. device[t] \in Int /\ device[t] >= 0 /\ ~(device[t] > SESSIONS_MAX)
      OBVIOUS
    <3>3. device[t] \in Slots
      BY <3>1, <3>2
    <3>4. TRUE = allocated[device[t]]
      BY <3>3, Zenon
    <3> QED
      BY <3>3, <3>4 DEF ValidHandles
  <2>2. LoadInv'
    BY DEF LoadInv, ValidHandles
  <2>3. ConnectInv'
    BY DEF ConnectInv
  <2>4. SlotInv'
    <3>1. \A u \in Threads : pc[u] # "freeing"
      BY DEF MutexInv
    <3> QED
      BY <3>1 DEF SlotInv, FreedBy
  <2>5. ClaimInv'
    BY DEF ClaimInv, Claimed
  <2> QED
    BY <2>1, <2>2, <2>3, <2>4, <2>5
<1>5. ASSUME misuse' = {} PROVE CleanInv'
  <2> USE <1>3, <1>5 DEF SoundInv, CleanInv, EntryInv, Unharmed
  <2>1. FlagInv'
    BY DEF FlagInv
  <2>2. FreeingInv'
    BY DEF FreeingInv
  <2>3. NoLeak'
    BY DEF NoLeak
  <2>4. ClosedBeforeFreed'
    BY DEF ClosedBeforeFreed
  <2> QED
    BY <2>1, <2>2, <2>3, <2>4
<1> HIDE DEF SoundInv, CleanInv
<1> QED
  BY <1>1, <1>2, <1>4, <1>5

(* Such calls exist only once misuse is recorded.                          *)
LEMMA Inv_lxi_outside ==
    ASSUME Inv, NEW t \in Threads, lxi_outside(t)
    PROVE  Inv'
<1> USE SessionAssumption DEF Inv, TypeOK, lxi_outside, Goto, Return, table,
        memory, Slots, PCs, Locked, Validated, Backends, Protocols,
        Operations, Misuses
<1>1. TypeOK'
  BY DEF EntryInv
<1>2. MutexInv' /\ EntryInv'
  BY DEF MutexInv, EntryInv
<1>3. (Unharmed' => Unharmed) /\ (misuse' = {} => misuse = {})
  BY DEF Unharmed
<1>4. ASSUME Unharmed' PROVE SoundInv'
  <2> USE <1>3, <1>4 DEF SoundInv, EntryInv
  <2>1. ValidHandles'
    BY DEF ValidHandles
  <2>2. LoadInv'
    BY DEF LoadInv, ValidHandles
  <2>3. ConnectInv'
    BY DEF ConnectInv
  <2>4. SlotInv'
    BY DEF SlotInv, FreedBy, Uses, ValidHandles
  <2>5. ClaimInv'
    BY DEF ClaimInv, Claimed
  <2> QED
    BY <2>1, <2>2, <2>3, <2>4, <2>5
<1>5. ASSUME misuse' = {} PROVE CleanInv'
  <2> USE <1>3, <1>5 DEF SoundInv, CleanInv, EntryInv, Unharmed
  <2>1. FlagInv'
    BY DEF FlagInv
  <2>2. FreeingInv'
    BY DEF FreeingInv
  <2>3. NoLeak'
    BY DEF NoLeak
  <2>4. ClosedBeforeFreed'
    BY DEF ClosedBeforeFreed
  <2> QED
    BY <2>1, <2>2, <2>3, <2>4
<1> HIDE DEF SoundInv, CleanInv
<1> QED
  BY <1>1, <1>2, <1>4, <1>5

(* The function pointer is the entry's.                                    *)
LEMMA Inv_lxi_io_dispatch ==
    ASSUME Inv, NEW t \in Threads, lxi_io_dispatch(t)
    PROVE  Inv'
<1> USE SessionAssumption DEF Inv, TypeOK, lxi_io_dispatch, Goto, table,
        memory, Slots, PCs, Locked, Validated, Backends, Protocols,
        Operations, Misuses
<1>1. TypeOK'
  BY DEF EntryInv
<1>2. MutexInv' /\ EntryInv'
  BY DEF MutexInv, EntryInv
<1>3. (Unharmed' => Unharmed) /\ (misuse' = {} => misuse = {})
  BY DEF Unharmed
<1>4. ASSUME Unharmed' PROVE SoundInv'
  <2> USE <1>3, <1>4 DEF SoundInv, EntryInv
  <2>1. ValidHandles'
    BY DEF ValidHandles
  <2>2. LoadInv'
    BY DEF LoadInv, ValidHandles
  <2>3. ConnectInv'
    BY DEF ConnectInv
  <2>4. SlotInv'
    BY DEF SlotInv, FreedBy, Uses, ValidHandles
  <2>5. ClaimInv'
    BY DEF ClaimInv, Claimed
  <2> QED
    BY <2>1, <2>2, <2>3, <2>4, <2>5
<1>5. ASSUME misuse' = {} PROVE CleanInv'
  <2> USE <1>3, <1>5 DEF SoundInv, CleanInv, EntryInv, Unharmed
  <2>1. FlagInv'
    BY DEF FlagInv
  <2>2. FreeingInv'
    BY DEF FreeingInv
  <2>3. NoLeak'
    BY DEF NoLeak
  <2>4. ClosedBeforeFreed'
    BY DEF ClosedBeforeFreed
  <2> QED
    BY <2>1, <2>2, <2>3, <2>4
<1> HIDE DEF SoundInv, CleanInv
<1> QED
  BY <1>1, <1>2, <1>4, <1>5

(* The data pointer is the entry's.                                        *)
LEMMA Inv_lxi_io_load ==
    ASSUME Inv, NEW t \in Threads, lxi_io_load(t)
    PROVE  Inv'
<1> USE SessionAssumption DEF Inv, TypeOK, lxi_io_load, Goto, table, memory,
        Slots, PCs, Locked, Validated, Backends, Protocols, Operations,
        Misuses
<1>1. TypeOK'
  BY DEF EntryInv
<1>2. MutexInv' /\ EntryInv'
  BY DEF MutexInv, EntryInv
<1>3. (Unharmed' => Unharmed) /\ (misuse' = {} => misuse = {})
  BY DEF Unharmed
<1>4. ASSUME Unharmed' PROVE SoundInv'
  <2> USE <1>3, <1>4 DEF SoundInv, EntryInv
  <2>1. ValidHandles'
    BY DEF ValidHandles
  <2>2. LoadInv'
    BY DEF LoadInv, ValidHandles
  <2>3. ConnectInv'
    BY DEF ConnectInv
  <2>4. SlotInv'
    BY DEF SlotInv, FreedBy, Uses, ValidHandles
  <2>5. ClaimInv'
    BY DEF ClaimInv, Claimed
  <2> QED
    BY <2>1, <2>2, <2>3, <2>4, <2>5
<1>5. ASSUME misuse' = {} PROVE CleanInv'
  <2> USE <1>3, <1>5 DEF SoundInv, CleanInv, EntryInv, Unharmed
  <2>1. FlagInv'
    BY DEF FlagInv
  <2>2. FreeingInv'
    BY DEF FreeingInv
  <2>3. NoLeak'
    BY DEF NoLeak
  <2>4. ClosedBeforeFreed'
    BY DEF ClosedBeforeFreed
  <2> QED
    BY <2>1, <2>2, <2>3, <2>4
<1> HIDE DEF SoundInv, CleanInv
<1> QED
  BY <1>1, <1>2, <1>4, <1>5

(* The call ends and leaves the table alone.                               *)
LEMMA Inv_lxi_io_return ==
    ASSUME Inv, NEW t \in Threads, lxi_io_return(t)
    PROVE  Inv'
<1> USE SessionAssumption DEF Inv, TypeOK, lxi_io_return, Goto, Return, table,
        memory, Slots, PCs, Locked, Validated, Backends, Protocols,
        Operations, Misuses
<1>1. TypeOK'
  BY DEF EntryInv
<1>2. MutexInv' /\ EntryInv'
  BY DEF MutexInv, EntryInv
<1>3. (Unharmed' => Unharmed) /\ (misuse' = {} => misuse = {})
  BY DEF Unharmed
<1>4. ASSUME Unharmed' PROVE SoundInv'
  <2> USE <1>3, <1>4 DEF SoundInv, EntryInv
  <2>1. ValidHandles'
    BY DEF ValidHandles
  <2>2. LoadInv'
    BY DEF LoadInv, ValidHandles
  <2>3. ConnectInv'
    BY DEF ConnectInv
  <2>4. SlotInv'
    BY DEF SlotInv, FreedBy, Uses, ValidHandles
  <2>5. ClaimInv'
    BY DEF ClaimInv, Claimed
  <2> QED
    BY <2>1, <2>2, <2>3, <2>4, <2>5
<1>5. ASSUME misuse' = {} PROVE CleanInv'
  <2> USE <1>3, <1>5 DEF SoundInv, CleanInv, EntryInv, Unharmed
  <2>1. FlagInv'
    BY DEF FlagInv
  <2>2. FreeingInv'
    BY DEF FreeingInv
  <2>3. NoLeak'
    BY DEF NoLeak
  <2>4. ClosedBeforeFreed'
    BY DEF ClosedBeforeFreed
  <2> QED
    BY <2>1, <2>2, <2>3, <2>4
<1> HIDE DEF SoundInv, CleanInv
<1> QED
  BY <1>1, <1>2, <1>4, <1>5

(* The entry is still allocated; if the flags agree, it is connected.      *)
LEMMA Inv_lxi_disconnect_lock ==
    ASSUME Inv, NEW t \in Threads, lxi_disconnect_lock(t)
    PROVE  Inv'
<1> USE SessionAssumption DEF Inv, TypeOK, lxi_disconnect_lock, Goto, table,
        memory, locals, Slots, PCs, Locked, Validated, Backends, Protocols,
        Operations, Misuses
<1>1. TypeOK'
  BY DEF EntryInv
<1>2. MutexInv' /\ EntryInv'
  BY DEF MutexInv, EntryInv
<1>3. (Unharmed' => Unharmed) /\ (misuse' = {} => misuse = {})
  BY DEF Unharmed
<1>4. ASSUME Unharmed' PROVE SoundInv'
  <2> USE <1>3, <1>4 DEF SoundInv, EntryInv
  <2>1. ValidHandles'
    BY DEF ValidHandles
  <2>2. LoadInv'
    BY DEF LoadInv, ValidHandles
  <2>3. ConnectInv'
    BY DEF ConnectInv
  <2>4. SlotInv'
    BY DEF SlotInv, FreedBy, Uses, ValidHandles
  <2>5. ClaimInv'
    BY DEF ClaimInv, Claimed
  <2> QED
    BY <2>1, <2>2, <2>3, <2>4, <2>5
<1>5. ASSUME misuse' = {} PROVE CleanInv'
  <2> USE <1>3, <1>5 DEF SoundInv, CleanInv, EntryInv, Unharmed
  <2>1. FlagInv'
    BY DEF FlagInv
  <2>2. FreeingInv'
    BY DEF FreeingInv, ValidHandles, FlagInv
  <2>3. NoLeak'
    BY DEF NoLeak
  <2>4. ClosedBeforeFreed'
    BY DEF ClosedBeforeFreed
  <2> QED
    BY <2>1, <2>2, <2>3, <2>4
<1> HIDE DEF SoundInv, CleanInv
<1> QED
  BY <1>1, <1>2, <1>4, <1>5

(* The connection of the entry is closed, and of no other one.             *)
LEMMA Inv_lxi_disconnect_backend ==
    ASSUME Inv, NEW t \in Threads, lxi_disconnect_backend(t)
    PROVE  Inv'
<1> USE SessionAssumption DEF Inv, TypeOK, lxi_disconnect_backend, Goto,
        table, locals, Taken, Uses, Slots, PCs, Locked, Validated, Backends,
        Protocols, Operations, Misuses
<1>1. TypeOK'
  BY DEF EntryInv
<1>2. MutexInv' /\ EntryInv'
  BY DEF MutexInv, EntryInv
<1>3. (Unharmed' => Unharmed) /\ (misuse' = {} => misuse = {})
  BY DEF Unharmed
<1>4. ASSUME Unharmed' PROVE SoundInv'
  <2> USE <1>3, <1>4 DEF SoundInv, EntryInv
  <2>1. /\ device[t] \in Slots
        /\ \A i \in Slots : allocated[i] /\ i # device[t] =>
              data[i] # data[device[t]]
    BY DEF ClaimInv, Claimed, ValidHandles
  <2>2. ValidHandles'
    BY DEF ValidHandles
  <2>3. LoadInv'
    BY DEF LoadInv, ValidHandles
  <2>4. ConnectInv'
    BY DEF ConnectInv
  <2>5. SlotInv'
    <3> SUFFICES ASSUME NEW i \in Slots, allocated[i]
                 PROVE  \/ data[i] \in open'
                        \/ \E u \in Threads : FreedBy(i, u)'
      BY DEF SlotInv
    <3>1. CASE i = device[t]
      <4>1. \A u \in Threads \ {t} : ~Uses(u, i)
        BY <3>1 DEF Unharmed
      <4> QED
        BY <3>1, <4>1 DEF FreedBy
    <3>2. CASE i # device[t]
      <4>1. data[i] # data[device[t]]
        BY <2>1, <3>2
      <4>2. \A u \in Threads : pc[u] # "freeing"
        BY DEF MutexInv
      <4> QED
        BY <4>1, <4>2 DEF SlotInv, FreedBy
    <3> QED
      BY <3>1, <3>2
  <2>6. ClaimInv'
    BY DEF ClaimInv, Claimed
  <2> QED
    BY <2>2, <2>3, <2>4, <2>5, <2>6
<1>5. ASSUME misuse' = {} PROVE CleanInv'
  <2> USE <1>3, <1>5 DEF SoundInv, CleanInv, EntryInv, Unharmed
  <2>1. FlagInv'
    BY DEF FlagInv
  <2>2. FreeingInv'
    BY DEF FreeingInv
  <2>3. NoLeak'
    BY DEF NoLeak
  <2>4. ClosedBeforeFreed'
    BY DEF ClosedBeforeFreed
  <2> QED
    BY <2>1, <2>2, <2>3, <2>4
<1> HIDE DEF SoundInv, CleanInv
<1> QED
  BY <1>1, <1>2, <1>4, <1>5

(* The claim is given up together with the block, which nobody else uses.  *)
LEMMA Inv_lxi_disconnect_free ==
    ASSUME Inv, NEW t \in Threads, lxi_disconnect_free(t)
    PROVE  Inv'
<1> USE SessionAssumption DEF Inv, TypeOK, lxi_disconnect_free, Goto, Return,
        Taken, Uses, Slots, PCs, Locked, Validated, Backends, Protocols,
        Operations, Misuses
<1>1. TypeOK'
  <2>1. data[device[t]] \in Blocks \cup {NULL}
    BY DEF EntryInv
  <2>2. misuse' \subseteq Misuses
    OBVIOUS
  <2>3. heap' \in [Blocks -> Backends \cup {"free"}]
    OBVIOUS
  <2>4. connected' \in [Slots -> BOOLEAN] /\ allocated' \in [Slots -> BOOLEAN]
    OBVIOUS
  <2>5. /\ mutex' \in Threads \cup {NoThread}
        /\ pc' \in [Threads -> PCs]
        /\ op' \in [Threads -> Operations \cup Protocols \cup {"none"}]
        /\ device' \in [Threads -> Int]
        /\ fn' \in [Threads -> Backends \cup {NULL}]
        /\ ptr' \in [Threads -> Blocks \cup {NULL}]
    OBVIOUS
  <2>6. UNCHANGED <<data, backend, open, inits>>
    OBVIOUS
  <2> HIDE DEF lxi_disconnect_free
  <2> QED
    BY <2>2, <2>3, <2>4, <2>5, <2>6
<1>2. MutexInv' /\ EntryInv'
  BY DEF MutexInv, EntryInv
<1>3. (Unharmed' => Unharmed) /\ (misuse' = {} => misuse = {})
  BY DEF Unharmed
<1>4. ASSUME Unharmed' PROVE SoundInv'
  <2> USE <1>3, <1>4 DEF SoundInv, EntryInv
  <2>1. \A u \in Threads \ {t} : ~Uses(u, device[t])
    BY DEF Unharmed
  <2>2. /\ device[t] \in Slots
         /\ \A i \in Slots : allocated[i] /\ i # device[t] =>
               data[i] # data[device[t]]
    BY DEF ClaimInv, Claimed, ValidHandles
  <2>3. \A u \in Threads : pc[u] # "connecting"
    BY DEF MutexInv
  <2>4. ValidHandles'
    BY <2>1 DEF ValidHandles
  <2>5. LoadInv'
    BY DEF LoadInv, ValidHandles
  <2>6. ConnectInv'
    BY <2>3 DEF ConnectInv
  <2>7. SlotInv'
    <3> SUFFICES ASSUME NEW i \in Slots, allocated'[i]
                 PROVE  /\ data[i] \in Blocks /\ backend[i] \in Backends
                        /\ heap'[data[i]] = backend[i]
                        /\ data[i] \in open
      BY DEF SlotInv
    <3>1. i # device[t] /\ allocated[i]
      BY <2>2
    <3>2. data[i] # data[device[t]]
      BY <2>2, <3>1
    <3>3. \A u \in Threads : pc[u] = "freeing" => u = t
      BY DEF MutexInv
    <3> QED
      BY <3>1, <3>2, <3>3 DEF SlotInv, FreedBy
  <2>8. ClaimInv'
    BY DEF ClaimInv, Claimed
  <2> QED
    BY <2>4, <2>5, <2>6, <2>7, <2>8
<1>5. ASSUME misuse' = {} PROVE CleanInv'
  <2> USE <1>3, <1>5 DEF SoundInv, CleanInv, EntryInv, Unharmed
  <2>1. \A u \in Threads : pc[u] # "connecting"
    BY DEF MutexInv
  <2>2. FlagInv'
    BY DEF FlagInv
  <2>3. FreeingInv'
    BY DEF FreeingInv
  <2>4. NoLeak'
    <3> SUFFICES ASSUME NEW c \in Blocks, heap'[c] # "free"
                 PROVE  \E i \in Slots : allocated'[i] /\ data'[i] = c
      BY DEF NoLeak
    <3>1. heap[c] # "free" /\ c # data[device[t]]
      BY DEF ValidHandles
    <3>2. PICK i \in Slots : allocated[i] /\ data[i] = c
      BY <2>1, <3>1 DEF NoLeak
    <3> QED
      BY <3>1, <3>2
  <2>5. ClosedBeforeFreed'
    BY DEF ClosedBeforeFreed, FreeingInv
  <2> QED
    BY <2>2, <2>3, <2>4, <2>5
<1> HIDE DEF SoundInv, CleanInv
<1> QED
  BY <1>1, <1>2, <1>4, <1>5

-----------------------------------------------------------------------------
LEMMA InitInv == Init => Inv
BY SessionAssumption
   DEF Init, Inv, TypeOK, MutexInv, EntryInv, SoundInv, CleanInv, ValidHandles,
       LoadInv, ConnectInv, SlotInv, FreedBy, Claimed, ClaimInv, FlagInv,
       FreeingInv, NoLeak, ClosedBeforeFreed, PCs, Locked, Validated

LEMMA StutterInv == ASSUME Inv, UNCHANGED vars PROVE Inv'
BY DEF vars, table, memory, locals, Inv, TypeOK, MutexInv, EntryInv, SoundInv,
       CleanInv, Unharmed, ValidHandles, LoadInv, ConnectInv, SlotInv, FreedBy,
       Uses, Claimed, ClaimInv, FlagInv, FreeingInv, NoLeak, ClosedBeforeFreed

LEMMA NextInv == ASSUME Inv, [Next]_vars PROVE Inv'
<1>1. CASE UNCHANGED vars
  BY <1>1, StutterInv
<1>2. CASE Next
  <2>1. PICK t \in Threads : Call(t) \/ Step(t) \/ lxi_outside(t)
    BY <1>2 DEF Next
  <2>2. CASE Call(t)
    BY <2>2, Inv_lxi_init, Inv_lxi_connect, Inv_lxi_call DEF Call
  <2>3. CASE Step(t)
    BY <2>3, Inv_lxi_init_allocated, Inv_lxi_init_connected,
       Inv_lxi_init_return, Inv_lxi_connect_refused, Inv_lxi_connect_setup,
       Inv_lxi_connect_ok, Inv_lxi_connect_error, Inv_is_valid_session_no,
       Inv_is_valid_session_yes, Inv_lxi_io_dispatch, Inv_lxi_io_load,
       Inv_lxi_io_return, Inv_lxi_disconnect_lock, Inv_lxi_disconnect_backend,
       Inv_lxi_disconnect_free DEF Step
  <2>4. CASE lxi_outside(t)
    BY <2>4, Inv_lxi_outside
  <2> QED
    BY <2>1, <2>2, <2>3, <2>4
<1> QED
  BY <1>1, <1>2

LEMMA Invariance == Spec => []Inv
<1>1. Init => Inv
  BY InitInv
<1>2. Inv /\ [Next]_vars => Inv'
  BY NextInv
<1> QED
  BY <1>1, <1>2, PTL DEF Spec

-----------------------------------------------------------------------------
(* The variables keep their types, whatever the program does: what a call  *)
(* reads from the table to work with was stored there by lxi_connect.      *)
THEOREM TypeCorrect == Spec => []TypeOK
<1>1. Inv => TypeOK
  BY DEF Inv
<1> QED
  BY <1>1, Invariance, PTL

(* What SoundInv says of the calls in progress.                            *)
LEMMA SoundMemory ==
    ASSUME Inv, SoundInv
    PROVE  /\ NoUseAfterFree
           /\ NoDoubleFree
           /\ \A t \in Threads :
                 pc[t] \in {"load", "running", "disconnecting"} =>
                     data[device[t]] \in open
<1> USE SessionAssumption DEF Inv, TypeOK, SoundInv, Backends, Validated
<1>1. ASSUME NEW t \in Threads, pc[t] \in {"load", "running", "disconnecting"}
      PROVE  data[device[t]] \in open
  <2>1. device[t] \in Slots /\ allocated[device[t]] /\ Uses(t, device[t])
    BY <1>1 DEF ValidHandles, Uses
  <2>2. \A u \in Threads : ~FreedBy(device[t], u)
    BY <1>1, <2>1 DEF FreedBy
  <2> QED
    BY <2>1, <2>2 DEF SlotInv
<1>2. NoUseAfterFree
  BY <1>1 DEF NoUseAfterFree, ValidHandles, LoadInv, SlotInv
<1>3. NoDoubleFree
  BY DEF NoDoubleFree, ValidHandles, SlotInv, ConnectInv, EntryInv
<1> QED
  BY <1>1, <1>2, <1>3

(* For every program: no backend function runs on a block that is freed or *)
(* not the session's, free() is given live blocks only, no two sessions    *)
(* share one and no call works on an entry that is void, until             *)
(* is_valid_session lets the handle SESSIONS_MAX through or an entry is    *)
(* taken away from a call of another thread.                               *)
THEOREM MemorySafe == Spec => []MemorySafety
<1>1. SoundInv => SessionsDisjoint /\ ValidHandles
  BY DEF SoundInv, SessionsDisjoint, ClaimInv, Claimed
<1>2. Inv => MemorySafety
  BY <1>1, SoundMemory DEF Inv, MemorySafety
<1> QED
  BY <1>2, Invariance, PTL

(* No sequence of connects, failed connects and disconnects loses a block, *)
(* and a block is freed only after its connection was closed, unless an    *)
(* open session was reset by lxi_init or taken away from a call.           *)
THEOREM LeakFree == Spec => []NothingLost
<1>1. Inv => NothingLost
  BY DEF Inv, CleanInv, NothingLost
<1> QED
  BY <1>1, Invariance, PTL

-----------------------------------------------------------------------------
(* The refinement: which steps of lxi.c are which steps of SessionApi.     *)

(* What the mapping needs of a state.                                      *)
RefInv ==
    /\ TypeOK
    /\ EntryInv
    /\ SoundInv
    /\ \A t \in Threads :
          pc[t] \in {"load", "running", "disconnecting"} =>
              data[device[t]] \in open

LEMMA RefineInit == Init => Api!Init
BY DEF Init, Api!Init, handles, user

(* The connection becomes reachable when the backend's connect returns.    *)
LEMMA RefineConnect ==
    ASSUME RefInv, NEW t \in Threads, lxi_connect_ok(t) PROVE Api!Next
<1> USE SessionAssumption DEF RefInv, TypeOK, SoundInv
<1> DEFINE i == device[t]
<1>1. i \in Slots /\ ~allocated[i] /\ data[i] \in Blocks
  BY DEF lxi_connect_ok, ConnectInv, EntryInv
<1>2. \A k \in Slots : allocated[k] => data[k] # data[i]
  BY <1>1 DEF ClaimInv, Claimed, lxi_connect_ok
<1>3. handles' = [handles EXCEPT ![i] = data[i]]
  <2>1. /\ allocated' = [allocated EXCEPT ![i] = TRUE]
        /\ open' = open \cup {data[i]}
        /\ data' = data
    BY DEF lxi_connect_ok
  <2> QED
    BY <1>1, <1>2, <2>1 DEF handles
<1>4. user' = user
  BY DEF user, lxi_connect_ok, Return, Goto
<1>5. handles[i] = NULL /\ \A k \in Slots : handles[k] # data[i]
  BY <1>1, <1>2 DEF handles
<1>6. \A u \in Threads : user[u] # data[i]
  BY <1>1, <1>2 DEF user, ValidHandles, LoadInv, Validated
<1>7. Api!Connect(i, data[i])
  BY <1>3, <1>4, <1>5, <1>6 DEF Api!Connect
<1> QED
  BY <1>1, <1>7 DEF Api!Next

(* The unlocked load of the data pointer begins the use of a connection.   *)
LEMMA RefineEnter ==
    ASSUME RefInv, NEW t \in Threads, lxi_io_load(t) PROVE Api!Next
<1> USE SessionAssumption DEF RefInv, TypeOK, SoundInv
<1> DEFINE i == device[t]
<1>1. i \in Slots /\ allocated[i] /\ data[i] \in open
  BY DEF lxi_io_load, ValidHandles, Validated
<1>2. handles[i] = data[i] /\ data[i] # NULL
  BY <1>1 DEF handles
<1>3. handles' = handles
  BY DEF handles, lxi_io_load, table, memory
<1>4. user' = [user EXCEPT ![t] = data[i]]
  BY DEF user, lxi_io_load, Goto
<1>5. user[t] = NULL
  BY DEF user, lxi_io_load
<1>6. Api!Enter(t, i)
  BY <1>2, <1>3, <1>4, <1>5 DEF Api!Enter
<1> QED
  BY <1>1, <1>6 DEF Api!Next

LEMMA RefineLeave ==
    ASSUME RefInv, NEW t \in Threads, lxi_io_return(t) PROVE Api!Next
<1> USE SessionAssumption DEF RefInv, TypeOK, SoundInv
<1>1. user[t] # NULL
  BY DEF user, lxi_io_return, LoadInv
<1>2. user' = [user EXCEPT ![t] = NULL]
  BY DEF user, lxi_io_return, Return, Goto
<1>3. handles' = handles
  BY DEF handles, lxi_io_return, table, memory
<1>4. Api!Leave(t)
  BY <1>1, <1>2, <1>3 DEF Api!Leave
<1> QED
  BY <1>4 DEF Api!Next

(* A handle that no other call uses may be taken back.                     *)
LEMMA RefineTakeBack ==
    ASSUME RefInv, NEW t \in Threads, pc[t] # "running", NEW i \in Slots,
           \A u \in Threads \ {t} : ~Uses(u, i),
           handles' = [handles EXCEPT ![i] = NULL], user' = user
    PROVE  Api!Next \/ UNCHANGED <<handles, user>>
<1> USE SessionAssumption DEF RefInv, TypeOK, SoundInv
<1>1. CASE handles[i] = NULL
  <2>1. handles = [k \in Slots |-> handles[k]]
    BY DEF handles
  <2> QED
    BY <1>1, <2>1
<1>2. CASE handles[i] # NULL
  <2>1. allocated[i] /\ handles[i] = data[i]
    BY <1>2 DEF handles
  <2>2. \A u \in Threads : user[u] # handles[i]
    <3> SUFFICES ASSUME NEW u \in Threads, pc[u] = "running"
                 PROVE  ptr[u] # data[i]
      BY <1>2, <2>1 DEF user
    <3>1. /\ device[u] \in Slots /\ allocated[device[u]]
          /\ device[u] # i /\ ptr[u] = data[device[u]]
      BY DEF ValidHandles, LoadInv, Validated, Uses
    <3> QED
      BY <2>1, <3>1 DEF ClaimInv, Claimed
  <2>3. Api!Disconnect(i)
    BY <1>2, <2>2 DEF Api!Disconnect
  <2> QED
    BY <2>3 DEF Api!Next
<1> QED
  BY <1>1, <1>2

(* lxi_disconnect closes the connection, lxi_init takes it from its        *)
(* handle, and a session lxi_init has marked as not connected is freed     *)
(* without being closed.                                                   *)
LEMMA RefineDisconnect ==
    ASSUME RefInv, Unharmed', NEW t \in Threads,
           \/ lxi_disconnect_backend(t)
           \/ lxi_disconnect_free(t)
           \/ lxi_init_allocated(t)
    PROVE  Api!Next \/ UNCHANGED <<handles, user>>
<1> USE SessionAssumption DEF RefInv, TypeOK, SoundInv
<1> DEFINE i == device[t]
<1>1. i \in Slots /\ pc[t] # "running"
  BY DEF lxi_disconnect_backend, lxi_disconnect_free, lxi_init_allocated,
         EntryInv, Validated
<1>2. \A u \in Threads \ {t} : ~Uses(u, i)
  BY DEF lxi_disconnect_backend, lxi_disconnect_free, lxi_init_allocated,
         Taken, Unharmed
<1>3. user' = user
  BY <1>1 DEF user, lxi_disconnect_backend, lxi_disconnect_free,
         lxi_init_allocated, Goto, Return, locals
<1>4. handles' = [handles EXCEPT ![i] = NULL]
  <2>1. CASE lxi_disconnect_backend(t)
    <3>1. open' = open \ {data[i]} /\ UNCHANGED <<allocated, data>>
      BY <2>1 DEF lxi_disconnect_backend, table
    <3>2. allocated[i]
      BY <2>1 DEF lxi_disconnect_backend, ValidHandles, Validated
    <3>3. \A k \in Slots \ {i} : allocated[k] => data[k] # data[i]
      BY <1>1, <3>2 DEF ClaimInv, Claimed
    <3> QED
      BY <1>1, <3>1, <3>3 DEF handles
  <2>2. CASE lxi_disconnect_free(t) \/ lxi_init_allocated(t)
    BY <1>1, <2>2 DEF lxi_disconnect_free, lxi_init_allocated, handles, memory
  <2> QED
    BY <2>1, <2>2
<1> QED
  BY <1>1, <1>2, <1>3, <1>4, RefineTakeBack

(* Every other step leaves handles and connections alone.                  *)
Silent(t) ==
    \/ lxi_init(t)                \/ lxi_init_connected(t)
    \/ lxi_init_return(t)         \/ lxi_outside(t)
    \/ lxi_connect(t)             \/ lxi_connect_refused(t)
    \/ lxi_connect_setup(t)       \/ lxi_connect_error(t)
    \/ lxi_call(t)                \/ is_valid_session_no(t)
    \/ is_valid_session_yes(t)    \/ lxi_io_dispatch(t)
    \/ lxi_disconnect_lock(t)

LEMMA RefineSilent ==
    ASSUME RefInv, NEW t \in Threads, Silent(t)
    PROVE  UNCHANGED <<handles, user>>
<1>1. user' = user
  <2>1. pc[t] # "running"
    BY Zenon
       DEF Silent, lxi_init, lxi_init_connected, lxi_init_return, lxi_outside,
           lxi_connect, lxi_connect_refused, lxi_connect_setup,
           lxi_connect_error, lxi_call, is_valid_session_no,
           is_valid_session_yes, lxi_io_dispatch, lxi_disconnect_lock
  <2>2. \E l : l # "running" /\ pc' = [pc EXCEPT ![t] = l]
    <3>1. CASE is_valid_session_yes(t)
      BY <3>1 DEF is_valid_session_yes, Goto
    <3>2. CASE lxi_disconnect_lock(t)
      BY <3>2 DEF lxi_disconnect_lock, Goto
    <3> QED
      BY Zenon, <3>1, <3>2
         DEF Silent, Goto, Return, lxi_init, lxi_init_connected,
             lxi_init_return, lxi_outside, lxi_connect, lxi_connect_refused,
             lxi_connect_setup, lxi_connect_error, lxi_call,
             is_valid_session_no, lxi_io_dispatch
  <2>3. ptr' = ptr \/ ptr' = [ptr EXCEPT ![t] = NULL]
    BY Zenon
       DEF Silent, Return, locals, lxi_init, lxi_init_connected,
           lxi_init_return, lxi_outside, lxi_connect, lxi_connect_refused,
           lxi_connect_setup, lxi_connect_error, lxi_call,
           is_valid_session_no, is_valid_session_yes, lxi_io_dispatch,
           lxi_disconnect_lock
  <2> QED
    BY <2>1, <2>2, <2>3 DEF RefInv, TypeOK, user
<1> USE SessionAssumption DEF RefInv, TypeOK
<1>2. CASE lxi_connect_setup(t)
  <2>1. handles' = handles
    BY <1>2 DEF lxi_connect_setup, IsFirst, FreeSlots, handles
  <2> QED
    BY <1>1, <2>1
<1>3. CASE UNCHANGED <<allocated, data, open>>
  BY <1>1, <1>3 DEF handles
<1>4. lxi_connect_setup(t) \/ UNCHANGED <<allocated, data, open>>
  BY DEF Silent, table, memory, lxi_init, lxi_init_connected, lxi_init_return,
         lxi_outside, lxi_connect, lxi_connect_refused, lxi_connect_error,
         lxi_call, is_valid_session_no, is_valid_session_yes, lxi_io_dispatch,
         lxi_disconnect_lock
<1> QED
  BY <1>2, <1>3, <1>4

(* Every step of lxi.c is a step of the handle interface, or none.         *)
LEMMA RefineNext ==
    ASSUME RefInv, [Next]_vars, Unharmed'
    PROVE  [Api!Next]_<<handles, user>>
<1>1. CASE UNCHANGED vars
  BY <1>1 DEF vars, table, memory, locals, handles, user
<1>2. ASSUME NEW t \in Threads, Call(t) \/ Step(t) \/ lxi_outside(t)
      PROVE  Api!Next \/ UNCHANGED <<handles, user>>
  <2>1. \/ lxi_connect_ok(t) \/ lxi_io_load(t) \/ lxi_io_return(t)
        \/ lxi_disconnect_backend(t) \/ lxi_disconnect_free(t)
        \/ lxi_init_allocated(t) \/ Silent(t)
    BY <1>2 DEF Call, Step, Silent
  <2> QED
    BY <2>1, RefineConnect, RefineEnter, RefineLeave, RefineDisconnect,
       RefineSilent
<1> QED
  BY <1>1, <1>2 DEF Next

(* What was got round stays got round.                                     *)
LEMMA Grows == ASSUME [Next]_vars, Unharmed' PROVE Unharmed
<1>1. misuse \subseteq misuse'
  BY DEF Next, Call, Step, vars, lxi_init, lxi_init_allocated,
         lxi_init_connected, lxi_init_return, lxi_outside, lxi_connect,
         lxi_connect_refused, lxi_connect_setup, lxi_connect_ok,
         lxi_connect_error, lxi_call, is_valid_session_no,
         is_valid_session_yes, lxi_io_dispatch, lxi_io_load, lxi_io_return,
         lxi_disconnect_lock, lxi_disconnect_backend, lxi_disconnect_free
<1> QED
  BY <1>1 DEF Unharmed

(* For every program: the session table implements the handle interface of *)
(* SessionApi.  Every handle names one connection from lxi_connect to      *)
(* lxi_disconnect or lxi_init, and no connection is closed while a send or *)
(* receive uses it, until the checks of the library are got round.         *)
THEOREM Refinement == Spec => ApiSpec
<1>1. Inv /\ [Next]_vars =>
        [Unharmed' => [Api!Next]_<<handles, user>>]_vars
  <2> SUFFICES ASSUME Inv, [Next]_vars, Unharmed'
               PROVE  [Api!Next]_<<handles, user>>
    OBVIOUS
  <2>1. Unharmed
    BY Grows
  <2>2. SoundInv
    BY <2>1 DEF Inv
  <2>3. RefInv
    BY <2>2, SoundMemory DEF Inv, RefInv
  <2> QED
    BY <2>3, RefineNext
<1> QED
  BY <1>1, RefineInit, Invariance, PTL DEF Spec, ApiSpec
=============================================================================
