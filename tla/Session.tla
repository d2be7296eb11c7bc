------------------------------ MODULE Session ------------------------------
(***************************************************************************)
(* The session table of lxi.c: the table of open sessions, the mutex that  *)
(* guards part of it, the heap blocks that hold the backends' state, and   *)
(* the threads of a program that call lxi_init, lxi_connect,               *)
(* lxi_disconnect, lxi_send and lxi_receive.                               *)
(*                                                                         *)
(* The fields of struct session_t are kept as one function per field:      *)
(* allocated[i] stands for session[i].allocated, and so on; backend[i]     *)
(* stands for the four function pointers, which are always assigned        *)
(* together.  The protocol backends are abstract here: a call of a backend *)
(* takes any time and succeeds or fails.                                   *)
(***************************************************************************)
EXTENDS Integers, FiniteSets

CONSTANTS
    Threads,        \* threads of the calling program
    SESSIONS_MAX,   \* entries of the session table
    Blocks,         \* addresses malloc can return (bounds the heap)
    Devices,        \* values the program passes as a session handle
    MaxInits,       \* bound on the number of calls of lxi_init
    NoThread,       \* nobody
    NULL            \* the null pointer

ASSUME SessionAssumption ==
    /\ SESSIONS_MAX \in Nat \ {0}
    /\ Devices \subseteq Int
    /\ MaxInits \in Nat
    /\ NoThread \notin Threads
    /\ NULL \notin Blocks

Slots == 0 .. SESSIONS_MAX - 1

(* lxi_protocol_t.  HISLIP stands for every value lxi_connect rejects.     *)
Backends == {"VXI11", "RAW"}
Protocols == Backends \cup {"HISLIP"}

(* "io" stands for lxi_send and lxi_receive, which treat the table alike.  *)
Operations == {"io", "disconnect"}

(* What the checks of the library do not stop: a call that is let into the *)
(* entry behind the table; an entry that is taken away while a call of     *)
(* another thread uses it; an lxi_init that resets an open session.        *)
Misuses == {"outside", "taken", "reset"}

VARIABLES
    allocated, connected, data, backend,   \* session[i].*
    mutex,          \* holder of session_mutex
    heap,           \* heap[b]: "free", or the backend whose state b holds
    open,           \* blocks that hold an open connection
    pc,             \* where each thread is
    op,             \* the operation or protocol of the call it makes
    device,         \* its argument "device", or the table index it works on
    fn,             \* function pointer it has read from the table
    ptr,            \* data pointer it has read from the table
    inits,          \* calls of lxi_init so far
    misuse          \* history: the ways in which the program got round
                    \* the checks of the library

table  == <<allocated, connected, data, backend>>
memory == <<heap, open>>
locals == <<op, device, fn, ptr>>
vars   == <<table, mutex, memory, pc, locals, inits, misuse>>

(* The states in which a thread holds session_mutex.                       *)
Locked == {"connecting", "disconnecting", "freeing"}

(* The states of a call whose handle has passed is_valid_session.          *)
Validated == {"dispatch", "load", "running", "disconnect_lock",
              "disconnecting", "freeing", "outside"}

PCs == {"idle", "init", "init_connected", "connect_lock", "validate"}
          \cup Locked \cup Validated

TypeOK ==
    /\ allocated \in [Slots -> BOOLEAN]
    /\ connected \in [Slots -> BOOLEAN]
    /\ data      \in [Slots -> Blocks \cup {NULL}]
    /\ backend   \in [Slots -> Backends \cup {NULL}]
    /\ mutex     \in Threads \cup {NoThread}
    /\ heap      \in [Blocks -> Backends \cup {"free"}]
    /\ open      \subseteq Blocks
    /\ pc        \in [Threads -> PCs]
    /\ op        \in [Threads -> Operations \cup Protocols \cup {"none"}]
    /\ device    \in [Threads -> Int]
    /\ fn        \in [Threads -> Backends \cup {NULL}]
    /\ ptr       \in [Threads -> Blocks \cup {NULL}]
    /\ inits     \in 0 .. MaxInits
    /\ misuse    \subseteq Misuses

(* Static storage is zeroed before main() runs.                            *)
Init ==
    /\ allocated = [i \in Slots |-> FALSE]
    /\ connected = [i \in Slots |-> FALSE]
    /\ data      = [i \in Slots |-> NULL]
    /\ backend   = [i \in Slots |-> NULL]
    /\ mutex     = NoThread
    /\ heap      = [b \in Blocks |-> "free"]
    /\ open      = {}
    /\ pc        = [t \in Threads |-> "idle"]
    /\ op        = [t \in Threads |-> "none"]
    /\ device    = [t \in Threads |-> 0]
    /\ fn        = [t \in Threads |-> NULL]
    /\ ptr       = [t \in Threads |-> NULL]
    /\ inits     = 0
    /\ misuse    = {}

Goto(t, l) == pc' = [pc EXCEPT ![t] = l]

(* A call returns to the program: the callee's locals cease to exist.      *)
Return(t) ==
    /\ Goto(t, "idle")
    /\ op'     = [op EXCEPT ![t] = "none"]
    /\ device' = [device EXCEPT ![t] = 0]
    /\ fn'     = [fn EXCEPT ![t] = NULL]
    /\ ptr'    = [ptr EXCEPT ![t] = NULL]

(* A call that has passed is_valid_session and still uses entry i.         *)
Uses(u, i) == pc[u] \in Validated /\ device[u] = i

(* What goes wrong if thread t takes entry i away from its users.          *)
Taken(t, i) ==
    IF \E u \in Threads \ {t} : Uses(u, i) THEN {"taken"} ELSE {}

(* What goes wrong if lxi_init resets a flag of entry i.                   *)
Voided(i) == IF allocated[i] THEN {"reset"} ELSE {}

-----------------------------------------------------------------------------
(* lxi_init: resets the flags of every entry, one after the other, without *)
(* taking session_mutex.                                                   *)

lxi_init(t) ==
    /\ pc[t] = "idle"
    /\ inits < MaxInits
    /\ inits' = inits + 1
    /\ device' = [device EXCEPT ![t] = 0]
    /\ Goto(t, "init")
    /\ UNCHANGED <<table, mutex, memory, op, fn, ptr, misuse>>

(* Handles given out before are void once the flags are reset.             *)
lxi_init_allocated(t) ==
    LET i == device[t] IN
    /\ pc[t] = "init"
    /\ i \in Slots
    /\ allocated' = [allocated EXCEPT ![i] = FALSE]
    /\ misuse'    = misuse \cup Taken(t, i) \cup Voided(i)
    /\ Goto(t, "init_connected")
    /\ UNCHANGED <<connected, data, backend, mutex, memory, locals, inits>>

(* By now another thread may have connected the entry again.               *)
lxi_init_connected(t) ==
    LET i == device[t] IN
    /\ pc[t] = "init_connected"
    /\ connected' = [connected EXCEPT ![i] = FALSE]
    /\ device'    = [device EXCEPT ![t] = i + 1]
    /\ misuse'    = misuse \cup Voided(i)
    /\ Goto(t, "init")
    /\ UNCHANGED <<allocated, data, backend, mutex, memory, op, fn, ptr>>
    /\ UNCHANGED inits

lxi_init_return(t) ==
    /\ pc[t] = "init"
    /\ device[t] \notin Slots
    /\ Return(t)
    /\ UNCHANGED <<table, mutex, memory, inits, misuse>>

-----------------------------------------------------------------------------
(* lxi_connect: holds session_mutex from the search for a free entry until *)
(* the backend's connect has returned.                                     *)

lxi_connect(t) ==
    /\ pc[t] = "idle"
    /\ \E p \in Protocols : op' = [op EXCEPT ![t] = p]
    /\ Goto(t, "connect_lock")
    /\ UNCHANGED <<table, mutex, memory, device, fn, ptr, inits, misuse>>

(* Mutant: the search does not look at session[i].allocated.               *)
FreeSlots_Any == Slots

FreeSlots == {i \in Slots : ~allocated[i]}

IsFirst(i, S) == i \in S /\ \A j \in S : i <= j

(* Mutant: the switch has no default case.                                 *)
ConnectRefused_NoDefault(t) == FreeSlots = {}

(* "Too many active sessions!", or a protocol the switch does not support. *)
ConnectRefused(t) == FreeSlots = {} \/ op[t] \notin Backends

lxi_connect_refused(t) ==
    /\ pc[t] = "connect_lock"
    /\ mutex = NoThread
    /\ ConnectRefused(t)
    /\ Return(t)
    /\ UNCHANGED <<table, mutex, memory, inits, misuse>>

(* malloc returns any address that is not in use.                          *)
lxi_connect_setup(t) ==
    /\ pc[t] = "connect_lock"
    /\ mutex = NoThread
    /\ ~ConnectRefused(t)
    /\ mutex' = t
    /\ \E i \in Slots, b \in Blocks :
          /\ IsFirst(i, FreeSlots)
          /\ heap[b] = "free"
          /\ heap'    = [heap EXCEPT ![b] = op[t]]
          /\ data'    = [data EXCEPT ![i] = b]
          /\ backend' = [backend EXCEPT ![i] = op[t]]
          /\ device'  = [device EXCEPT ![t] = i]
    /\ Goto(t, "connecting")
    /\ UNCHANGED <<allocated, connected, open, op, fn, ptr, inits, misuse>>

(* The backend's connect returned 0: i is the handle the caller gets.      *)
lxi_connect_ok(t) ==
    LET i == device[t] IN
    /\ pc[t] = "connecting"
    /\ open'      = open \cup {data[i]}
    /\ allocated' = [allocated EXCEPT ![i] = TRUE]
    /\ connected' = [connected EXCEPT ![i] = TRUE]
    /\ mutex'     = NoThread
    /\ Return(t)
    /\ UNCHANGED <<data, backend, heap, inits, misuse>>

(* Mutant: the error path does not free the backend's block.               *)
lxi_connect_error_NoFree(t) ==
    /\ pc[t] = "connecting"
    /\ mutex' = NoThread
    /\ Return(t)
    /\ UNCHANGED <<table, memory, inits, misuse>>

(* Mutant: a connect that fails is tried again.                            *)
lxi_connect_error_Retry(t) ==
    /\ pc[t] = "connecting"
    /\ heap'  = [heap EXCEPT ![data[device[t]]] = "free"]
    /\ mutex' = NoThread
    /\ Goto(t, "connect_lock")
    /\ UNCHANGED <<table, open, locals, inits, misuse>>

(* error_connect: the block is freed, the entry keeps the stale pointers.  *)
lxi_connect_error(t) ==
    /\ pc[t] = "connecting"
    /\ heap'  = [heap EXCEPT ![data[device[t]]] = "free"]
    /\ mutex' = NoThread
    /\ Return(t)
    /\ UNCHANGED <<table, open, inits, misuse>>

-----------------------------------------------------------------------------
(* lxi_send, lxi_receive and lxi_disconnect begin with is_valid_session,   *)
(* which takes the mutex for the check alone.                              *)

lxi_call(t) ==
    /\ pc[t] = "idle"
    /\ \E d \in Devices, o \in Operations :
          /\ device' = [device EXCEPT ![t] = d]
          /\ op'     = [op EXCEPT ![t] = o]
    /\ Goto(t, "validate")
    /\ UNCHANGED <<table, mutex, memory, fn, ptr, inits, misuse>>

(* The bounds test: device == SESSIONS_MAX passes it.                      *)
OutOfRange(d) == d < 0 \/ d > SESSIONS_MAX

(* What the read of session[d].allocated may give: past the end of the     *)
(* table, whatever is stored there.                                        *)
AllocatedReads(d) == IF d \in Slots THEN {allocated[d]} ELSE BOOLEAN

is_valid_session_no(t) ==
    /\ pc[t] = "validate"
    /\ \/ OutOfRange(device[t])
       \/ /\ mutex = NoThread
          /\ FALSE \in AllocatedReads(device[t])
    /\ Return(t)
    /\ UNCHANGED <<table, mutex, memory, inits, misuse>>

(* Past the end of the table nothing is known of what follows ("outside"). *)
is_valid_session_yes(t) ==
    /\ pc[t] = "validate"
    /\ ~OutOfRange(device[t])
    /\ mutex = NoThread
    /\ TRUE \in AllocatedReads(device[t])
    /\ Goto(t, IF device[t] \notin Slots THEN "outside"
               ELSE IF op[t] = "disconnect" THEN "disconnect_lock"
               ELSE "dispatch")
    /\ misuse' = misuse \cup
                    (IF device[t] = SESSIONS_MAX THEN {"outside"} ELSE {})
    /\ UNCHANGED <<table, mutex, memory, locals, inits>>

(* The call on what follows the table may return, and may not.             *)
lxi_outside(t) ==
    /\ pc[t] = "outside"
    /\ Return(t)
    /\ UNCHANGED <<table, mutex, memory, inits, misuse>>

(* lxi_send and lxi_receive read the table without the mutex: first the    *)
(* function pointer, then its first argument.                              *)
lxi_io_dispatch(t) ==
    /\ pc[t] = "dispatch"
    /\ fn' = [fn EXCEPT ![t] = backend[device[t]]]
    /\ Goto(t, "load")
    /\ UNCHANGED <<table, mutex, memory, op, device, ptr, inits, misuse>>

lxi_io_load(t) ==
    /\ pc[t] = "load"
    /\ ptr' = [ptr EXCEPT ![t] = data[device[t]]]
    /\ Goto(t, "running")
    /\ UNCHANGED <<table, mutex, memory, op, device, fn, inits, misuse>>

(* The backend's send or receive returns a count or an error.              *)
lxi_io_return(t) ==
    /\ pc[t] = "running"
    /\ Return(t)
    /\ UNCHANGED <<table, mutex, memory, inits, misuse>>

(* lxi_disconnect takes the mutex again and does not repeat the check.     *)
lxi_disconnect_lock(t) ==
    /\ pc[t] = "disconnect_lock"
    /\ mutex = NoThread
    /\ mutex' = t
    /\ Goto(t, IF connected[device[t]] THEN "disconnecting" ELSE "freeing")
    /\ UNCHANGED <<table, memory, locals, inits, misuse>>

lxi_disconnect_backend(t) ==
    /\ pc[t] = "disconnecting"
    /\ open'   = open \ {data[device[t]]}
    /\ misuse' = misuse \cup Taken(t, device[t])
    /\ Goto(t, "freeing")
    /\ UNCHANGED <<table, mutex, heap, locals, inits>>

(* Mutant: the entry stays marked as allocated.                            *)
lxi_disconnect_free_NoReset(t) ==
    LET i == device[t] IN
    /\ pc[t] = "freeing"
    /\ heap'      = [heap EXCEPT ![data[i]] = "free"]
    /\ connected' = [connected EXCEPT ![i] = FALSE]
    /\ misuse'    = misuse \cup Taken(t, i)
    /\ mutex'     = NoThread
    /\ Return(t)
    /\ UNCHANGED <<allocated, data, backend, open, inits>>

lxi_disconnect_free(t) ==
    LET i == device[t] IN
    /\ pc[t] = "freeing"
    /\ heap'      = [heap EXCEPT ![data[i]] = "free"]
    /\ connected' = [connected EXCEPT ![i] = FALSE]
    /\ allocated' = [allocated EXCEPT ![i] = FALSE]
    /\ misuse'    = misuse \cup Taken(t, i)
    /\ mutex'     = NoThread
    /\ Return(t)
    /\ UNCHANGED <<data, backend, open, inits>>

-----------------------------------------------------------------------------
Step(t) ==
    \/ lxi_init_allocated(t)     \/ lxi_init_connected(t)
    \/ lxi_init_return(t)
    \/ lxi_connect_refused(t)    \/ lxi_connect_setup(t)
    \/ lxi_connect_ok(t)         \/ lxi_connect_error(t)
    \/ is_valid_session_no(t)    \/ is_valid_session_yes(t)
    \/ lxi_io_dispatch(t)        \/ lxi_io_load(t)
    \/ lxi_io_return(t)          \/ lxi_disconnect_lock(t)
    \/ lxi_disconnect_backend(t) \/ lxi_disconnect_free(t)

Call(t) == lxi_init(t) \/ lxi_connect(t) \/ lxi_call(t)

(* Bound: a program that got round the checks makes no further calls; its  *)
(* calls in progress go on.                                                *)
Unharmed == misuse \cap {"outside", "taken"} = {}

Next ==
    \E t \in Threads : (Unharmed /\ Call(t)) \/ Step(t) \/ lxi_outside(t)

Spec == Init /\ [][Next]_vars

(* A thread inside a call keeps running, and a backend returns (see        *)
(* TcpIo, Vxi11Connect and Vxi11Io for when it does not); nobody has to    *)
(* make a call, and a call behind the table need not return.               *)
FairSpec == Spec /\ \A t \in Threads : WF_vars(Step(t))

-----------------------------------------------------------------------------
(* A backend function only ever runs on a live block of its own protocol,  *)
(* and send, receive and disconnect on one whose connection is open: the   *)
(* unlocked reads of session[device] in lxi_send and lxi_receive (lxi.c    *)
(* 199, 215) and the second locked section of lxi_disconnect (lxi.c 178)   *)
(* never meet a block that was freed or handed to another session.         *)
NoUseAfterFree ==
    \A t \in Threads :
        /\ pc[t] = "running" =>
              /\ ptr[t] \in open
              /\ heap[ptr[t]] = fn[t]
        /\ pc[t] = "disconnecting" =>
              /\ data[device[t]] \in open
              /\ heap[data[device[t]]] = backend[device[t]]

(* free() in lxi_disconnect (lxi.c 181) and on lxi_connect's error path    *)
(* (lxi.c 162) is given a block that is allocated.                         *)
NoDoubleFree ==
    \A t \in Threads :
        pc[t] \in {"connecting", "freeing"} =>
            data[device[t]] \in {b \in Blocks : heap[b] # "free"}

(* Two live sessions never share their backend state, so that nothing done *)
(* through one handle reaches the instrument of another.                   *)
SessionsDisjoint ==
    \A i, j \in Slots :
        allocated[i] /\ allocated[j] /\ data[i] = data[j] => i = j

(* A call that has passed is_valid_session works on an entry of the table  *)
(* that is allocated, until it returns: lxi_send, lxi_receive and          *)
(* lxi_disconnect do not repeat the check (lxi.c 178, 199, 215).           *)
ValidHandles ==
    \A t \in Threads : pc[t] \in Validated =>
        /\ device[t] \in Slots
        /\ allocated[device[t]]

(* Whatever the threads do, whichever handles they pass and however often  *)
(* they call lxi_init: before a call touches memory that is not its own,   *)
(* or goes on with a session that is gone, either the handle SESSIONS_MAX  *)
(* was let through, or an entry was taken away, by lxi_disconnect or       *)
(* lxi_init, from another thread that was inside a call on it.             *)
MemorySafety ==
    Unharmed =>
        NoUseAfterFree /\ NoDoubleFree /\ SessionsDisjoint /\ ValidHandles

(* Every block malloc gave out belongs to an allocated session, or to the  *)
(* connect in progress: no sequence of failed connects and disconnects     *)
(* leaks a backend's state.                                                *)
NoLeak ==
    \A b \in Blocks : heap[b] # "free" =>
        \/ \E i \in Slots : allocated[i] /\ data[i] = b
        \/ \E t \in Threads : pc[t] = "connecting" /\ data[device[t]] = b

(* A connection is closed before the memory that describes it is freed     *)
(* (lxi_disconnect calls the backend's disconnect first): afterwards its   *)
(* socket or link could not be closed any more.                            *)
ClosedBeforeFreed == \A b \in open : heap[b] # "free"

(* Neither a session's memory nor its connection is ever lost, not on the *)
(* error path of lxi_connect and not in lxi_disconnect, unless lxi_init    *)
(* reset an open session or the program broke the rules of MemorySafety.   *)
NothingLost == misuse = {} => NoLeak /\ ClosedBeforeFreed

(* The bound on the heap is reached: malloc cannot go on in the model.     *)
HeapFull == \A b \in Blocks : heap[b] # "free"

(* A call returns once the other threads leave the library alone, or has   *)
(* gone astray behind the table.  (With others calling for ever it may     *)
(* not: a mutex is not a queue.)                                           *)
SoloCallReturns ==
    \A t \in Threads :
        <>[](\A u \in Threads \ {t} : pc[u] = "idle") =>
            ((pc[t] # "idle") ~> \/ pc[t] \in {"idle", "outside"}
                                 \/ [](pc[t] = "connect_lock" /\ HeapFull))

-----------------------------------------------------------------------------
(* The refinement mapping: a handle names a connection while its session   *)
(* is allocated and its connection is open.                                *)
handles ==
    [i \in Slots |->
        IF allocated[i] /\ data[i] \in open THEN data[i] ELSE NULL]

user == [t \in Threads |-> IF pc[t] = "running" THEN ptr[t] ELSE NULL]

Api == INSTANCE SessionApi
           WITH Handles <- Slots, Connections <- Blocks, None <- NULL

(* The session table of lxi.c implements the handle interface, as long as  *)
(* no handle behind the table was let through and no entry was taken from  *)
(* a thread that was using it; an lxi_init that resets an open session     *)
(* takes the handle back, like lxi_disconnect.                             *)
ApiSpec ==
    /\ Api!Init
    /\ [][Unharmed' => [Api!Next]_<<handles, user>>]_vars
=============================================================================
