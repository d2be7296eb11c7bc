----------------------------- MODULE RpcProofs -----------------------------
(***************************************************************************)
(* Proofs about remote procedure calls.  After any crash, what is left in  *)
(* the portmapper can refuse a restart only where pmap_unset failed; the   *)
(* server holds no memory between requests that could be decoded; neither  *)
(* depends on what Encode and Decode give.  A call that succeeds is a call *)
(* of the function that the client named: for this, a record survives      *)
(* encoding and decoding if the copies of its field order agree, those of  *)
(* all sixteen routines do, and so do the tables of the stubs and of the   *)
(* server.                                                                 *)
(***************************************************************************)
EXTENDS Rpc, SequenceTheorems, TLAPS

(* What the portmapper has for a program and a protocol.                   *)
States == {"none", "own", "stale", "kept"}

(* The registrations of a program are free, or pmap_unset has kept them.   *)
Tried(prog) ==
    \A q \in Protocols : portmap[<<prog, q>>] \in {"none", "kept"}

(* Before svc_run the registrations up to step are made, and pmap_unset    *)
(* was tried on the others; while it runs all are the process's own.       *)
PortmapInv ==
    /\ portmap \in [Programs \X Protocols -> States]
    /\ step \in 0 .. 3
    /\ server # "main" => step = 0
    /\ server = "main" =>
          \A i \in 1 .. 4 :
              IF i <= step THEN portmap[Registrations[i]] = "own"
              ELSE portmap[Registrations[i]] \in {"none", "kept"}
    /\ server = "unset" => Tried(DEVICE_ASYNC)
    /\ server \notin Starting =>
          \A p \in Programs \X Protocols : portmap[p] = "own"

(* When the decoded arguments are freed.                                   *)
MemoryInv ==
    /\ server \in {"down", "unset", "main", "freeresult"} => blocks = {}
    /\ ServerMemory

IInv == PortmapInv /\ MemoryInv

(* A step inside svc_run, and a step that is not the server's.             *)
Running ==
    /\ server \notin Starting /\ server' \notin Starting
    /\ UNCHANGED <<portmap, step>>

Aside == UNCHANGED <<portmap, step, server>>

-----------------------------------------------------------------------------
(* The four registrations are the pairs of a program and a protocol, each  *)
(* once.                                                                   *)
LEMMA RegistrationsCover ==
    /\ \A i \in 1 .. 4 : Registrations[i] \in Programs \X Protocols
    /\ \A i, j \in 1 .. 4 : Registrations[i] = Registrations[j] => i = j
    /\ \A p \in Programs \X Protocols : \E i \in 1 .. 4 : p = Registrations[i]
    /\ Len(Registrations) = 4
<1>1. /\ Registrations[1] = <<"DEVICE_ASYNC", "udp">>
      /\ Registrations[2] = <<"DEVICE_CORE", "udp">>
      /\ Registrations[3] = <<"DEVICE_ASYNC", "tcp">>
      /\ Registrations[4] = <<"DEVICE_CORE", "tcp">>
      /\ Len(Registrations) = 4
  BY SMT DEF Registrations, DEVICE_ASYNC, DEVICE_CORE
<1>2. \A i \in 1 .. 4 : i = 1 \/ i = 2 \/ i = 3 \/ i = 4
  BY SMT
<1>3. \A i \in 1 .. 4 : Registrations[i] \in Programs \X Protocols
  BY SMT, <1>1, <1>2 DEF Programs, Protocols, DEVICE_ASYNC, DEVICE_CORE
<1>4. \A i, j \in 1 .. 4 : Registrations[i] = Registrations[j] => i = j
  BY SMT, <1>1, <1>2
<1>5. \A p \in Programs \X Protocols : \E i \in 1 .. 4 : p = Registrations[i]
  BY SMT, <1>1 DEF Programs, Protocols, DEVICE_ASYNC, DEVICE_CORE
<1> QED
  BY SMT, <1>1, <1>3, <1>4, <1>5

(* The process ends, wherever it is: its registrations become stale.      *)
LEMMA ExitInv ==
    ASSUME IInv, Exit
    PROVE  IInv'
<1>1. portmap' \in [Programs \X Protocols -> States]
  BY SMT DEF IInv, PortmapInv, Exit, States
<1>2. PortmapInv'
  BY SMT, <1>1 DEF PortmapInv, Exit, Starting
<1> QED
  BY SMT, <1>2 DEF IInv, MemoryInv, ServerMemory, Exit

(* What pmap_unset makes of the registrations.                             *)
LEMMA UnsetValue ==
    ASSUME portmap \in [Programs \X Protocols -> States],
           NEW prog \in Programs, NEW removed \in BOOLEAN
    PROVE  /\ Unset(prog, removed) \in [Programs \X Protocols -> States]
           /\ \A q \in Protocols :
                 Unset(prog, removed)[<<prog, q>>] \in {"none", "kept"}
           /\ \A p \in Programs \X Protocols :
                 p[1] # prog => Unset(prog, removed)[p] = portmap[p]
<1>1. \A p \in Programs \X Protocols :
         Unset(prog, removed)[p] =
             IF p[1] # prog \/ portmap[p] = "none" THEN portmap[p]
             ELSE IF removed THEN "none" ELSE "kept"
  BY SMT DEF Unset
<1>2. Unset(prog, removed) \in [Programs \X Protocols -> States]
  BY SMT DEF Unset, States
<1>3. \A q \in Protocols :
         Unset(prog, removed)[<<prog, q>>] \in {"none", "kept"}
  BY SMT, <1>1
<1>4. \A p \in Programs \X Protocols :
         p[1] # prog => Unset(prog, removed)[p] = portmap[p]
  BY SMT, <1>1
<1> QED
  BY Zenon, <1>2, <1>3, <1>4

(* pmap_unset is tried on one program, and then on the other.              *)
LEMMA PmapUnsetInv ==
    ASSUME IInv, NEW prog \in Programs, NEW removed \in BOOLEAN,
           pmap_unset(prog, removed)
    PROVE  IInv'
<1>1. /\ portmap' \in [Programs \X Protocols -> States]
      /\ \A q \in Protocols : portmap'[<<prog, q>>] \in {"none", "kept"}
      /\ \A p \in Programs \X Protocols :
            p[1] # prog => portmap'[p] = portmap[p]
  BY SMT, UnsetValue DEF IInv, PortmapInv, pmap_unset
<1>2. /\ server = IF prog = DEVICE_ASYNC THEN "down" ELSE "unset"
      /\ server' = IF prog = DEVICE_ASYNC THEN "unset" ELSE "main"
      /\ step' = 0 /\ blocks' = {} /\ outcome' = outcome
  BY SMT DEF IInv, PortmapInv, MemoryInv, pmap_unset, dispatch
<1>3. CASE prog = DEVICE_ASYNC
  BY SMT, <1>1, <1>2, <1>3
     DEF IInv, PortmapInv, MemoryInv, ServerMemory, Tried, Starting
<1>4. CASE prog = DEVICE_CORE
  <2>1. server = "unset" /\ server' = "main" /\ DEVICE_ASYNC # prog
    BY SMT, <1>2, <1>4 DEF DEVICE_ASYNC, DEVICE_CORE
  <2>2. \A q \in Protocols :
           portmap'[<<DEVICE_ASYNC, q>>] \in {"none", "kept"}
    BY SMT, <1>1, <2>1 DEF IInv, PortmapInv, Tried, Programs
  <2>3. \A p \in Programs \X Protocols : portmap'[p] \in {"none", "kept"}
    BY SMT, <1>1, <1>4, <2>2 DEF Programs
  <2>4. \A i \in 1 .. 4 : portmap'[Registrations[i]] \in {"none", "kept"}
    BY SMT, <2>3, RegistrationsCover
  <2>5. PortmapInv'
    BY SMT, <1>1, <1>2, <2>1, <2>4 DEF PortmapInv, Starting
  <2> QED
    BY SMT, <1>2, <2>1, <2>5 DEF IInv, MemoryInv, ServerMemory
<1> QED
  BY Zenon, <1>3, <1>4 DEF Programs

(* svc_register makes the next registration.                               *)
LEMMA SvcRegisterInv ==
    ASSUME IInv, svc_register
    PROVE  IInv'
<1> DEFINE r == Registrations[step + 1]
<1>1. /\ step \in 0 .. 3 /\ step + 1 \in 1 .. 4
      /\ portmap \in [Programs \X Protocols -> States]
      /\ \A i \in 1 .. 4 :
            IF i <= step THEN portmap[Registrations[i]] = "own"
            ELSE portmap[Registrations[i]] \in {"none", "kept"}
      /\ server = "main" /\ blocks = {}
  BY SMT DEF IInv, PortmapInv, MemoryInv, svc_register
<1>2. r \in Programs \X Protocols
  BY SMT, <1>1, RegistrationsCover
<1>3. /\ portmap' = [portmap EXCEPT ![r] = "own"]
      /\ blocks' = blocks
      /\ IF step + 1 = 4 THEN server' = "serving" /\ step' = 0
                         ELSE step' = step + 1 /\ server' = server
  BY SMT, RegistrationsCover DEF svc_register, dispatch
<1>4. portmap' \in [Programs \X Protocols -> States]
  BY SMT, <1>1, <1>2, <1>3 DEF States
<1>5. \A i \in 1 .. 4 :
         IF i <= step + 1 THEN portmap'[Registrations[i]] = "own"
         ELSE portmap'[Registrations[i]] \in {"none", "kept"}
  <2> SUFFICES ASSUME NEW i \in 1 .. 4
               PROVE  IF i <= step + 1 THEN portmap'[Registrations[i]] = "own"
                      ELSE portmap'[Registrations[i]] \in {"none", "kept"}
    OBVIOUS
  <2>1. CASE i = step + 1
    BY SMT, <1>1, <1>2, <1>3, <2>1
  <2>2. CASE i # step + 1
    <3>1. Registrations[i] # r /\ Registrations[i] \in Programs \X Protocols
      BY SMT, <2>2, <1>1, RegistrationsCover
    <3>2. portmap'[Registrations[i]] = portmap[Registrations[i]]
      BY SMT, <3>1, <1>1, <1>2, <1>3
    <3> QED
      BY SMT, <3>2, <2>2, <1>1
  <2> QED
    BY <2>1, <2>2
<1>6. CASE step + 1 = 4
  <2>1. \A p \in Programs \X Protocols : portmap'[p] = "own"
    BY SMT, <1>5, <1>6, RegistrationsCover
  <2> QED
    BY SMT, <2>1, <1>1, <1>3, <1>4, <1>6
       DEF IInv, PortmapInv, MemoryInv, ServerMemory
<1>7. CASE step + 1 # 4
  <2>1. step' \in 0 .. 3 /\ step' = step + 1 /\ server' = "main"
    BY SMT, <1>1, <1>3, <1>7
  <2>2. PortmapInv'
    BY SMT, <2>1, <1>4, <1>5 DEF PortmapInv, Starting
  <2> QED
    BY SMT, <2>1, <2>2, <1>1, <1>3 DEF IInv, MemoryInv, ServerMemory
<1> QED
  BY <1>6, <1>7

(* A step inside svc_run, or aside, leaves the registrations alone.        *)
LEMMA PortmapKept ==
    ASSUME PortmapInv, Running \/ Aside
    PROVE  PortmapInv'
BY SMT DEF PortmapInv, Running, Aside, Starting, Tried

(* A transport is created: nothing else changes.                           *)
LEMMA SvcCreateInv ==
    ASSUME IInv, svc_create
    PROVE  IInv'
<1>1. Aside /\ UNCHANGED <<blocks, outcome>>
  BY SMT DEF svc_create, Aside, dispatch
<1> QED
  BY SMT, <1>1, PortmapKept DEF IInv, MemoryInv, ServerMemory, Aside

(* The dispatch of a request and its answer.                               *)
LEMMA ServerInv ==
    ASSUME IInv, Server
    PROVE  IInv'
<1> USE DEF process, dispatch, call
<1>1. CASE svc_null \/ svc_noproc
  <2>1. Aside /\ blocks' = {}
    BY SMT, <1>1 DEF svc_null, svc_noproc, Answered, Aside
  <2> QED
    BY SMT, <2>1, PortmapKept DEF IInv, MemoryInv, ServerMemory
<1>2. CASE \E room \in BOOLEAN : svc_decode_error(room)
  <2>1. Aside /\ server = "serving" /\ outcome' = "GARBAGE_ARGS"
    BY SMT, <1>2 DEF svc_decode_error, Answered, Aside
  <2> QED
    BY SMT, <2>1, PortmapKept DEF IInv, MemoryInv, ServerMemory, Aside
<1>3. CASE \E room \in BOOLEAN : svc_getargs(room)
  <2>1. Running /\ server' = "local"
    BY SMT, <1>3 DEF svc_getargs, Running, Starting
  <2> QED
    BY SMT, <2>1, PortmapKept DEF IInv, MemoryInv, ServerMemory
<1>4. CASE \/ \E res \in rq.res.type, sent \in BOOLEAN : local_true(res, sent)
           \/ local_false
  <2>1. Running /\ server' = "freeargs"
    <3>1. server = "local" /\ Returned
      BY Zenon, <1>4 DEF local_true, local_false
    <3> QED
      BY SMT, <3>1 DEF Returned, Running, Starting
  <2> QED
    BY SMT, <2>1, PortmapKept DEF IInv, MemoryInv, ServerMemory
<1>5. CASE svc_freeargs
  <2>1. Running /\ server' = "freeresult" /\ blocks' = {}
    BY SMT, <1>5 DEF svc_freeargs, Running, Starting
  <2> QED
    BY SMT, <2>1, PortmapKept DEF IInv, MemoryInv, ServerMemory
<1>6. CASE svc_freeresult
  <2>1. Running /\ server = "freeresult" /\ blocks' = blocks
    BY SMT, <1>6 DEF svc_freeresult, Running, Starting
  <2> QED
    BY SMT, <2>1, PortmapKept DEF IInv, MemoryInv, ServerMemory
<1>7. CASE svc_freeargs_failed \/ svc_freeresult_wild
  BY Zenon, <1>7, ExitInv DEF svc_freeargs_failed, svc_freeresult_wild
<1> QED
  BY Zenon, <1>1, <1>2, <1>3, <1>4, <1>5, <1>6, <1>7 DEF Server

(* The clients do not touch the server's state.                            *)
LEMMA ClientInv ==
    ASSUME IInv, Client \/ other_call \/ UNCHANGED vars
    PROVE  IInv'
<1> DEFINE Frame == UNCHANGED <<process, dispatch, outcome>>
<1>1. ASSUME NEW st \in Stubs, NEW room \in BOOLEAN, NEW a \in st.arg.type,
             clnt_call(st, a, room)
      PROVE  Frame
  BY Zenon, <1>1 DEF clnt_call
<1>2. clnt_answer \/ clnt_timeout \/ clnt_return \/ other_call => Frame
  BY Zenon DEF clnt_answer, clnt_timeout, clnt_return, other_call
<1>3. UNCHANGED vars => Frame
  BY Zenon DEF vars
<1>4. Frame
  BY Zenon, <1>1, <1>2, <1>3 DEF Client
<1>5. Aside /\ UNCHANGED <<blocks, outcome>>
  BY SMT, <1>4 DEF Aside, process, dispatch
<1> QED
  BY SMT, <1>5, PortmapKept DEF IInv, MemoryInv, ServerMemory, Aside

(* The invariant holds throughout.                                         *)
LEMMA Invariance == Spec => []IInv
<1>1. Init => IInv
  <2> SUFFICES ASSUME Init PROVE IInv
    OBVIOUS
  <2>1. portmap \in [Programs \X Protocols -> States]
    BY SMT DEF Init, States
  <2>2. step = 0 /\ server = "down" /\ blocks = {}
    BY SMT DEF Init
  <2> QED
    BY SMT, <2>1, <2>2 DEF IInv, PortmapInv, MemoryInv, ServerMemory, Starting
<1>2. IInv /\ [Next]_vars => IInv'
  <2> SUFFICES ASSUME IInv, [Next]_vars PROVE IInv'
    OBVIOUS
  <2>1. CASE Main
    BY Zenon, <2>1, PmapUnsetInv, SvcCreateInv, SvcRegisterInv, ExitInv
       DEF Main, main_failed, killed
  <2> QED
    BY Zenon, <2>1, ServerInv, ClientInv DEF Next
<1> QED
  BY <1>1, <1>2, PTL DEF Spec

(* The server frees the arguments of every request it could decode, in     *)
(* whatever order requests, timeouts and crashes come.                     *)
THEOREM MemorySafe == Spec => []ServerMemory
<1>1. IInv => ServerMemory
  BY DEF IInv, MemoryInv
<1> QED
  BY Invariance, <1>1, PTL

(* After any crash, and whatever pmap_unset removes, a restart is refused  *)
(* a registration only if pmap_unset has just failed to remove it, and     *)
(* makes all four before svc_run.                                          *)
THEOREM RestartSafe == Spec => []RestartServes
<1>1. IInv => RestartServes
  <2> SUFFICES ASSUME IInv PROVE RestartServes
    OBVIOUS
  <2>1. server = "main" =>
           portmap[Registrations[step + 1]] \in {"none", "kept"}
    BY SMT DEF IInv, PortmapInv
  <2>2. DOMAIN portmap = Programs \X Protocols
    BY SMT DEF IInv, PortmapInv
  <2> QED
    BY SMT, <2>1, <2>2 DEF IInv, PortmapInv, RestartServes
<1> QED
  BY Invariance, <1>1, PTL

-----------------------------------------------------------------------------
(* What is proved of the routines of vxi11core_xdr.c.                      *)

Codecs == {"int", "bool", "u_int", "u_short", "char", "u_char", "enum",
           "string", "bytes", "handle"}

(* The routines that may move a field: its own, or its part of a block.    *)
Ways(codec) ==
    {codec, IF codec = "int" THEN "LONG" ELSE
            IF codec = "bool" THEN "BOOL" ELSE
            IF codec = "u_int" THEN "U_LONG" ELSE codec}

(* The values of the C type that a routine is called for.                  *)
Fits(codec, v) ==
    /\ codec \in {"int", "bool"} =>
          v \in -(IntSize \div 2) .. IntSize \div 2 - 1
    /\ codec = "u_int" => v \in 0 .. IntSize - 1
    /\ codec = "u_short" => v \in 0 .. ShortSize - 1
    /\ codec = "char" => v \in -(CharSize \div 2) .. CharSize \div 2 - 1
    /\ codec = "u_char" => v \in 0 .. CharSize - 1
    /\ codec = "enum" => v \in {0, 1}
    /\ codec \in Arrays => v \in Seq(0 .. CharSize - 1)

(* A bool_t arrives as a truth value, anything else as it is.              *)
Arrives(codec, v, w) == IF codec = "bool" THEN v = 0 <=> w = 0 ELSE v = w

(* There is a unit for each field, and then the bytes of the array.        *)
Encoded(xdr, obj, units) ==
    LET n == Len(xdr.fields)
        a == obj[xdr.fields[n][1]]
    IN  /\ \A i \in 1 .. n : \E c \in Ways(xdr.fields[i][2]) :
              units[i] = Put(c, obj[xdr.fields[i][1]])
        /\ EndsInArray(xdr.fields) =>
              /\ Len(units) = n + Len(a) /\ Len(a) \in Nat /\ n > 0
              /\ units[n] = Len(a)
              /\ SubSeq(units, n + 1, n + units[n]) = a
        /\ ~EndsInArray(xdr.fields) => Len(units) = n

(* There are units for all fields and bytes, and no name is used twice.    *)
Decodable(f, units) ==
    /\ Len(f) <= Len(units)
    /\ EndsInArray(f) => /\ ~TooLong(f[Len(f)][2], units[Len(f)])
                         /\ units[Len(f)] <= Len(units) - Len(f)
    /\ \A i, j \in 1 .. Len(f) : f[i][1] = f[j][1] => i = j

(* Every field got its value.                                              *)
Decoded(stream, f, units) ==
    /\ stream.ok
    /\ stream.obj = [name \in DOMAIN stream.obj |-> stream.obj[name]]
    /\ DOMAIN stream.obj = {f[i][1] : i \in 1 .. Len(f)}
    /\ \A i \in 1 .. Len(f) : stream.obj[f[i][1]] = ValueOf(f, units, i)

(* A stream has been decoded to what obj is to C.                          *)
Transferred(xdr, obj, stream) ==
    /\ stream.ok
    /\ stream.obj = [name \in DOMAIN stream.obj |-> stream.obj[name]]
    /\ DOMAIN stream.obj = DOMAIN obj
    /\ \A i \in 1 .. Len(xdr.fields) :
          Arrives(xdr.fields[i][2], obj[xdr.fields[i][1]],
                  stream.obj[xdr.fields[i][1]])

(* A block moves the fields that it replaces, in their order.              *)
BlockFits(xdr, block) ==
    \A i \in 1 .. Len(xdr.fields) :
        i - xdr.from + 1 \in 1 .. Len(block) =>
            /\ block[i - xdr.from + 1][1] = xdr.fields[i][1]
            /\ block[i - xdr.from + 1][2] \in Ways(xdr.fields[i][2])

FieldsFit(xdr) ==
    /\ Len(xdr.fields) \in Nat
    /\ DOMAIN xdr.fields = 1 .. Len(xdr.fields)
    /\ \A i \in 1 .. Len(xdr.fields) :
          /\ xdr.fields[i] = <<xdr.fields[i][1], xdr.fields[i][2]>>
          /\ xdr.fields[i][2] \in Codecs
          /\ xdr.fields[i][2] \in Arrays => i = Len(xdr.fields)
    /\ \A i, j \in 1 .. Len(xdr.fields) :
          xdr.fields[i][1] = xdr.fields[j][1] => i = j

TypeFits(xdr) ==
    \A obj \in xdr.type :
        /\ DOMAIN obj = {xdr.fields[i][1] : i \in 1 .. Len(xdr.fields)}
        /\ \A i \in 1 .. Len(xdr.fields) :
              Fits(xdr.fields[i][2], obj[xdr.fields[i][1]])

(* A routine whose copies of the field order agree with each other and     *)
(* with the record.                                                        *)
WellFormed(xdr) ==
    /\ FieldsFit(xdr) /\ TypeFits(xdr)
    /\ BlockFits(xdr, xdr.put) /\ BlockFits(xdr, xdr.get)

(* One that can always encode, and decodes to the same object.             *)
Exact(xdr) ==
    /\ WellFormed(xdr)
    /\ \A i \in 1 .. Len(xdr.fields) :
          xdr.fields[i][2] \notin {"bool", "handle"}
    /\ \A obj \in xdr.type : obj = [f \in DOMAIN obj |-> obj[f]]

-----------------------------------------------------------------------------
(* The client's call, from the request to the answer.  The parts are over  *)
(* the values of the variables.                                            *)

IsCall(st, a) == st \in Stubs /\ a \in st.arg.type

SameArg(st, a, b) == \A f \in DOMAIN a : Same(st.arg, f, a[f], b[f])

(* The request is the call, encoded.                                       *)
Requested(req, st, a) ==
    \E room \in BOOLEAN :
        /\ Encode(st.arg, a, room).ok
        /\ req = [prog |-> st.prog, proc |-> st.proc,
                  units |-> Encode(st.arg, a, room).units]

(* The stub's service function is called, with its argument.               *)
Called(c, b, st, a) ==
    c.local = st.name /\ c.res = st.res /\ SameArg(st, a, b)

(* It was called, and has given a result.                                  *)
Given(g, st, a) ==
    /\ g # None /\ g.local = st.name /\ SameArg(st, a, g.arg)
    /\ g.res \in st.res.type

(* The answer carries that result, or none.                                *)
Replied(r, g, st, a) ==
    r.ok => Given(g, st, a) /\ r.units = Encode(st.res, g.res, FALSE).units

(* The caller has it.                                                      *)
Correct(res, g, st, a) ==
    /\ g # None /\ g.local = st.name /\ SameArg(st, a, g.arg)
    /\ res = g.res

CallInv ==
    /\ mine \in BOOLEAN
    /\ stat = "wait" => IsCall(stub, arg)
    /\ mine => /\ stat = "wait" /\ reply = None
               /\ \/ server = "serving" /\ Requested(request, stub, arg)
                  \/ server = "local" /\ Called(rq, argument, stub, arg)
    /\ reply # None => /\ stat = "wait" /\ ~mine
                       /\ Replied(reply, given, stub, arg)
    /\ stat = "RPC_SUCCESS" => Correct(clnt_res, given, stub, arg)

-----------------------------------------------------------------------------
(* What % does to a value of a C type.                                     *)
LEMMA ModSmall ==
    ASSUME NEW S \in Nat \ {0}, NEW v \in -S .. S - 1
    PROVE  v % S = IF v < 0 THEN v + S ELSE v
<1>1. CASE v < 0
  BY SMT, <1>1
<1>2. CASE ~(v < 0)
  BY SMT, <1>2
<1> QED
  BY <1>1, <1>2

(* A signed value survives its unit.                                       *)
LEMMA SignedMod ==
    ASSUME NEW S \in Nat \ {0}, NEW v \in -(S \div 2) .. S \div 2 - 1
    PROVE  /\ Signed(v % S, S) = v /\ Signed(v, S) = v
           /\ v % S = 0 <=> v = 0
<1>1. S \div 2 \in Nat /\ 2 * (S \div 2) <= S
  BY SMT
<1>2. v \in -S .. S - 1
  BY SMT, <1>1
<1>3. v % S = IF v < 0 THEN v + S ELSE v
  BY Zenon, <1>2, ModSmall
<1>4. v % S \in 0 .. S - 1
  BY SMT, <1>1, <1>3
<1>5. (v % S) % S = v % S
  <2>1. v % S \in -S .. S - 1 /\ ~(v % S < 0)
    BY SMT, <1>4
  <2> QED
    BY Zenon, <2>1, ModSmall
<1> QED
  BY SMT, <1>1, <1>3, <1>5 DEF Signed

(* The routines of a field agree on what is an array.                      *)
LEMMA WaysOfArrays ==
    ASSUME NEW codec \in Codecs, NEW c \in Ways(codec)
    PROVE  /\ c \in Arrays <=> codec \in Arrays
           /\ codec \in Arrays => c = codec
           /\ c = "handle" <=> codec = "handle"
BY SMT DEF Codecs, Ways, Arrays

(* A value that is not an array arrives, by whichever routines its unit    *)
(* is put and got.                                                         *)
LEMMA UnitArrives ==
    ASSUME NEW codec \in Codecs \ Arrays, NEW c1 \in Ways(codec),
           NEW c2 \in Ways(codec), NEW v, Fits(codec, v)
    PROVE  Arrives(codec, v, Get(c2, Put(c1, v)))
<1>1. /\ IntSize \in Nat \ {0} /\ CharSize \in Nat \ {0} /\ 4 <= IntSize
      /\ ShortSize \in Nat \ {0} /\ ShortSize <= IntSize /\ CharSize <= IntSize
  BY SMT, SizeAssumption
<1>2. CASE codec = "int"
  <2>1. /\ Signed(v % IntSize, IntSize) = v
    BY SMT, <1>1, <1>2, SignedMod DEF Fits
  <2>2. c1 \in {"int", "LONG"} /\ c2 \in {"int", "LONG"}
    BY SMT, <1>2 DEF Ways
  <2> QED
    BY SMT, <2>1, <2>2, <1>2 DEF Put, Get, Arrives, Arrays
<1>3. CASE codec = "bool"
  <2>1. /\ Signed(v % IntSize, IntSize) = v
        /\ v % IntSize = 0 <=> v = 0
    BY SMT, <1>1, <1>3, SignedMod DEF Fits
  <2>2. c1 \in {"bool", "BOOL"} /\ c2 \in {"bool", "BOOL"}
    BY SMT, <1>3 DEF Ways
  <2>3. Signed(0, IntSize) = 0 /\ Signed(1, IntSize) = 1
    BY SMT, <1>1 DEF Signed
  <2>4. Put(c1, v) = (IF v = 0 THEN 0 ELSE 1) \/ Put(c1, v) = v % IntSize
    BY SMT, <2>2 DEF Put, Arrays
  <2>5. \/ Get(c2, Put(c1, v)) = IF Put(c1, v) = 0 THEN 0 ELSE 1
        \/ Get(c2, Put(c1, v)) = Signed(Put(c1, v), IntSize)
    BY SMT, <2>2 DEF Get
  <2> QED
    BY SMT, <2>1, <2>3, <2>4, <2>5, <1>3 DEF Arrives
<1>4. CASE codec = "u_int"
  <2>1. v % IntSize = v
    BY SMT, <1>1, <1>4 DEF Fits
  <2>2. c1 \in {"u_int", "U_LONG"} /\ c2 \in {"u_int", "U_LONG"}
    BY SMT, <1>4 DEF Ways
  <2> QED
    BY SMT, <2>1, <2>2, <1>4 DEF Put, Get, Arrives, Arrays
<1>5. CASE codec = "u_short"
  <2>1. v % IntSize = v /\ v % ShortSize = v
    BY SMT, <1>1, <1>5 DEF Fits
  <2>2. c1 = "u_short" /\ c2 = "u_short"
    BY SMT, <1>5 DEF Ways
  <2> QED
    BY SMT, <2>1, <2>2, <1>5 DEF Put, Get, Arrives, Arrays
<1>6. CASE codec = "char"
  <2>1. v \in -(CharSize \div 2) .. CharSize \div 2 - 1
    BY SMT, <1>6 DEF Fits
  <2>2. CharSize \div 2 <= IntSize \div 2
    BY SMT, <1>1
  <2>3. v \in -(IntSize \div 2) .. IntSize \div 2 - 1
    BY SMT, <1>1, <2>1, <2>2
  <2>4. Signed(v % IntSize, IntSize) = v /\ Signed(v, CharSize) = v
    BY SMT, <1>1, <2>1, <2>3, SignedMod
  <2>5. c1 = "char" /\ c2 = "char"
    BY SMT, <1>6 DEF Ways
  <2> QED
    BY SMT, <2>4, <2>5, <1>6 DEF Put, Get, Arrives, Arrays
<1>7. CASE codec = "u_char"
  <2>1. v % IntSize = v /\ v % CharSize = v
    BY SMT, <1>1, <1>7 DEF Fits
  <2>2. c1 = "u_char" /\ c2 = "u_char"
    BY SMT, <1>7 DEF Ways
  <2> QED
    BY SMT, <2>1, <2>2, <1>7 DEF Put, Get, Arrives, Arrays
<1>8. CASE codec = "enum"
  <2>1. v \in {0, 1}
    BY SMT, <1>8 DEF Fits
  <2>2. v \in -(IntSize \div 2) .. IntSize \div 2 - 1
    BY SMT, <2>1, <1>1
  <2>3. Signed(v % IntSize, IntSize) = v
    BY SMT, <1>1, <2>2, SignedMod
  <2>4. c1 = "enum" /\ c2 = "enum"
    BY SMT, <1>8 DEF Ways
  <2> QED
    BY SMT, <2>3, <2>4, <1>8 DEF Put, Get, Arrives, Arrays
<1> QED
  BY SMT, <1>2, <1>3, <1>4, <1>5, <1>6, <1>7, <1>8 DEF Codecs, Arrays

(* Whether or not a block is used, field i is moved by one of its routines. *)
LEMMA FieldsMatch ==
    ASSUME NEW xdr, WellFormed(xdr), NEW block \in {xdr.put, xdr.get},
           NEW room \in BOOLEAN
    PROVE  LET f == Fields(xdr, block, room)
           IN  /\ Len(f) = Len(xdr.fields)
               /\ \A i \in 1 .. Len(xdr.fields) :
                     /\ f[i][1] = xdr.fields[i][1]
                     /\ f[i][2] \in Ways(xdr.fields[i][2])
<1> DEFINE f == Fields(xdr, block, room)
<1>1. Len(xdr.fields) \in Nat /\ BlockFits(xdr, block)
  BY SMT DEF WellFormed, FieldsFit
<1>2. Len(f) = Len(xdr.fields)
  BY SMT, <1>1 DEF Fields
<1>3. ASSUME NEW i \in 1 .. Len(xdr.fields)
      PROVE  /\ f[i][1] = xdr.fields[i][1]
             /\ f[i][2] \in Ways(xdr.fields[i][2])
  <2>1. f[i] = IF room /\ i - xdr.from + 1 \in 1 .. Len(block)
                 THEN block[i - xdr.from + 1] ELSE xdr.fields[i]
    BY SMT DEF Fields
  <2>2. xdr.fields[i][2] \in Ways(xdr.fields[i][2])
    BY SMT DEF Ways
  <2> QED
    BY Zenon, <2>1, <2>2, <1>1 DEF BlockFits
<1> QED
  BY SMT, <1>2, <1>3

(* A function on 1 .. n is a sequence.                                     *)
LEMMA FunctionIsSeq ==
    ASSUME NEW n \in Nat, NEW S, NEW h \in [1 .. n -> S]
    PROVE  h \in Seq(S)
BY SMT, SeqDef

(* What Decode gives if there are enough units: for each field its value.  *)
LEMMA DecodeGives ==
    ASSUME NEW xdr, NEW u, NEW room, Decodable(Fields(xdr, xdr.get, room), u)
    PROVE  Decoded(Decode(xdr, u, room), Fields(xdr, xdr.get, room), u)
<1> DEFINE d == Decode(xdr, u, room)
<1> SUFFICES ASSUME NEW f, f = Fields(xdr, xdr.get, room), Decodable(f, u)
             PROVE  Decoded(d, f, u)
  OBVIOUS
<1> DEFINE index(name) == CHOOSE i \in 1 .. Len(f) : f[i][1] = name
<1>1. d.ok
  BY Zenon DEF Decode, Decodable
<1>2. d.obj = [name \in {f[i][1] : i \in 1 .. Len(f)} |->
                 ValueOf(f, u, index(name))]
  BY SMT DEF Decode, Decodable
<1>3. \A i \in 1 .. Len(f) : index(f[i][1]) = i
  BY Zenon DEF Decodable
<1> HIDE DEF index, d
<1>4. ASSUME NEW i \in 1 .. Len(f) PROVE d.obj[f[i][1]] = ValueOf(f, u, i)
  <2>1. f[i][1] \in {f[j][1] : j \in 1 .. Len(f)}
    OBVIOUS
  <2>2. d.obj[f[i][1]] = ValueOf(f, u, index(f[i][1]))
    BY SMT, <1>2, <2>1
  <2> QED
    BY Zenon, <1>3, <2>2
<1>5. DOMAIN d.obj = {f[i][1] : i \in 1 .. Len(f)}
  BY Zenon, <1>2
<1>6. d.obj = [name \in DOMAIN d.obj |-> d.obj[name]]
  BY SMT, <1>2
<1> QED
  BY Zenon, <1>1, <1>4, <1>5, <1>6 DEF Decoded

(* No array of a stream that could be encoded is too long.                 *)
LEMMA EncodeOk ==
    ASSUME NEW xdr, NEW obj, NEW room, NEW f,
           f = Fields(xdr, xdr.put, room), Encode(xdr, obj, room).ok
    PROVE  \A i \in 1 .. Len(f) : ~TooLong(f[i][2], Put(f[i][2], obj[f[i][1]]))
<1>1. \A i \in 1 .. Len(f) :
         ~TooLong(f[i][2],
                  [j \in 1 .. Len(f) |-> Put(f[j][2], obj[f[j][1]])][i])
  BY SMT DEF Encode
<1> QED
  BY Zenon, <1>1

(* The unit of an array is its length.                                     *)
LEMMA PutArray ==
    ASSUME NEW c \in Arrays, NEW v
    PROVE  Put(c, v) = Len(v)
BY SMT DEF Put, Arrays

(* Whether a record ends in an array does not depend on the block.         *)
LEMMA EndsMatch ==
    ASSUME NEW xdr, WellFormed(xdr), NEW block \in {xdr.put, xdr.get},
           NEW room \in BOOLEAN
    PROVE  EndsInArray(Fields(xdr, block, room)) <=> EndsInArray(xdr.fields)
<1> DEFINE f == Fields(xdr, block, room)
           n == Len(xdr.fields)
<1>1. Len(f) = n
  BY Zenon, FieldsMatch
<1>2. CASE n > 0
  <2>1. n \in 1 .. n
    BY SMT, <1>2 DEF WellFormed, FieldsFit
  <2>2. xdr.fields[n][2] \in Codecs /\ f[n][2] \in Ways(xdr.fields[n][2])
    BY Zenon, <2>1, FieldsMatch DEF WellFormed, FieldsFit
  <2>3. f[n][2] \in Arrays <=> xdr.fields[n][2] \in Arrays
    BY Zenon, <2>2, WaysOfArrays
  <2> QED
    BY Zenon, <1>1, <2>3 DEF EndsInArray
<1>3. CASE ~(n > 0)
  BY Zenon, <1>1, <1>3 DEF EndsInArray
<1> QED
  BY <1>2, <1>3

(* What Encode gives: a unit for each field, and then the array's bytes.   *)
LEMMA EncodeUnits ==
    ASSUME NEW xdr, WellFormed(xdr), NEW obj \in xdr.type, NEW room \in BOOLEAN
    PROVE  Encoded(xdr, obj, Encode(xdr, obj, room).units)
<1> DEFINE n == Len(xdr.fields)
           f == Fields(xdr, xdr.put, room)
           h == [i \in 1 .. Len(f) |-> Put(f[i][2], obj[f[i][1]])]
           u == Encode(xdr, obj, room).units
           a == obj[xdr.fields[n][1]]
<1>1. n \in Nat
  BY SMT DEF WellFormed, FieldsFit
<1>2. /\ Len(f) = n
      /\ \A i \in 1 .. n : /\ f[i][1] = xdr.fields[i][1]
                           /\ f[i][2] \in Ways(xdr.fields[i][2])
  BY Zenon, FieldsMatch
<1>3. u = h \o IF EndsInArray(f) THEN obj[f[Len(f)][1]] ELSE <<>>
  BY Zenon DEF Encode
<1>4. /\ Len(h) = n /\ DOMAIN h = 1 .. n
      /\ \A i \in 1 .. n : h[i] = Put(f[i][2], obj[xdr.fields[i][1]])
  BY SMT, <1>1, <1>2
<1> DEFINE S == {Put(f[i][2], obj[f[i][1]]) : i \in 1 .. n}
<1>5. h \in Seq(S)
  <2>1. h \in [1 .. n -> S]
    BY Zenon, <1>2
  <2> QED
    BY Zenon, <2>1, <1>1, FunctionIsSeq
<1> HIDE DEF h, f, u, S
<1>6. EndsInArray(f) <=> EndsInArray(xdr.fields)
  BY Zenon, EndsMatch DEF f
<1>7. CASE EndsInArray(xdr.fields)
  <2>1. n > 0 /\ n \in 1 .. n /\ xdr.fields[n][2] \in Arrays
    BY SMT, <1>1, <1>7 DEF EndsInArray
  <2>2. a \in Seq(0 .. CharSize - 1)
    <3>1. Fits(xdr.fields[n][2], a)
      BY Zenon, <2>1 DEF WellFormed, TypeFits
    <3> QED
      BY Zenon, <3>1, <2>1 DEF Fits
  <2>3. u = h \o a
    <3>1. obj[f[Len(f)][1]] = a
      BY Zenon, <1>2, <2>1
    <3> QED
      BY Zenon, <1>3, <1>6, <1>7, <3>1
  <2>4. f[n][2] \in Arrays
    BY SMT, <1>2, <2>1, WaysOfArrays DEF WellFormed, FieldsFit
  <2>5. h[n] = Len(a)
    <3>1. h[n] = Put(f[n][2], a)
      BY Zenon, <1>4, <2>1
    <3> QED
      BY Zenon, <3>1, <2>4, PutArray
  <2> HIDE DEF n, a
  <2>6. Len(u) = n + Len(a) /\ Len(a) \in Nat
    BY SMT, <1>1, <1>4, <2>2, <2>3, <1>5
  <2>7. \A i \in 1 .. n : u[i] = h[i]
    BY SMT, <1>1, <1>4, <2>2, <2>3, <1>5
  <2>8. \A i \in 1 .. Len(a) : u[n + i] = a[i]
    BY SMT, <1>1, <1>4, <2>2, <2>3, <1>5
  <2>9. u[n] = Len(a)
    BY SMT, <2>1, <2>5, <2>7
  <2>10. SubSeq(u, n + 1, n + u[n]) = a
    BY SMT, <1>1, <2>2, <2>6, <2>8, <2>9
  <2>11. \A i \in 1 .. n : u[i] = Put(f[i][2], obj[xdr.fields[i][1]])
    BY Zenon, <1>4, <2>7
  <2>12. \A i \in 1 .. n : \E c \in Ways(xdr.fields[i][2]) :
            u[i] = Put(c, obj[xdr.fields[i][1]])
    BY Zenon, <2>11, <1>2
  <2> QED
    BY Zenon, <1>7, <2>1, <2>2, <2>6, <2>9, <2>10, <2>12 DEF n, a, u, Encoded
<1>8. CASE ~EndsInArray(xdr.fields)
  <2>1. u = h \o <<>>
    BY Zenon, <1>3, <1>6, <1>8
  <2>2. Len(u) = n /\ \A i \in 1 .. n : u[i] = h[i]
    BY SMT, <1>5, <2>1, <1>4
  <2>3. \A i \in 1 .. n : \E c \in Ways(xdr.fields[i][2]) :
            u[i] = Put(c, obj[xdr.fields[i][1]])
    BY Zenon, <2>2, <1>4, <1>2
  <2> QED
    BY Zenon, <1>8, <2>2, <2>3 DEF u, Encoded
<1> QED
  BY <1>7, <1>8

(* What was encoded is decoded: every field arrives, whichever of the      *)
(* code's copies of the field order either side uses.                      *)
LEMMA RoundTrip ==
    ASSUME NEW xdr, WellFormed(xdr), NEW obj \in xdr.type,
           NEW room1 \in BOOLEAN, NEW room2 \in BOOLEAN,
           Encode(xdr, obj, room1).ok
    PROVE  Transferred(xdr, obj,
                       Decode(xdr, Encode(xdr, obj, room1).units, room2))
<1> DEFINE n == Len(xdr.fields)
           e == Fields(xdr, xdr.put, room1)
           f == Fields(xdr, xdr.get, room2)
           u == Encode(xdr, obj, room1).units
           a == obj[xdr.fields[n][1]]
           ends == EndsInArray(xdr.fields)
           d == Decode(xdr, u, room2)
<1>1. /\ n \in Nat
      /\ \A i \in 1 .. n : /\ xdr.fields[i][2] \in Codecs
                           /\ xdr.fields[i][2] \in Arrays => i = n
      /\ \A i, j \in 1 .. n : xdr.fields[i][1] = xdr.fields[j][1] => i = j
  BY Zenon DEF WellFormed, FieldsFit
<1>2. /\ Len(f) = n
      /\ \A i \in 1 .. n : /\ f[i][1] = xdr.fields[i][1]
                           /\ f[i][2] \in Ways(xdr.fields[i][2])
  BY Zenon, FieldsMatch
<1>3. EndsInArray(f) <=> ends
  BY Zenon, EndsMatch
<1>4. /\ \A i \in 1 .. n : \E c \in Ways(xdr.fields[i][2]) :
            u[i] = Put(c, obj[xdr.fields[i][1]])
      /\ ends => /\ Len(u) = n + Len(a) /\ Len(a) \in Nat /\ n > 0
                 /\ u[n] = Len(a)
                 /\ SubSeq(u, n + 1, n + u[n]) = a
      /\ ~ends => Len(u) = n
  <2>1. Encoded(xdr, obj, u)
    BY Zenon, EncodeUnits
  <2> HIDE DEF u
  <2> QED
    BY Zenon, <2>1 DEF Encoded
<1>5. Len(e) = n /\ \A i \in 1 .. n : /\ e[i][1] = xdr.fields[i][1]
                                      /\ e[i][2] \in Ways(xdr.fields[i][2])
  BY Zenon, FieldsMatch
<1>6. \A i \in 1 .. n : ~TooLong(e[i][2], Put(e[i][2], obj[e[i][1]]))
  BY Zenon, <1>5, EncodeOk
<1>7. DOMAIN obj = {xdr.fields[i][1] : i \in 1 .. n}
  BY Zenon DEF WellFormed, TypeFits
<1>8. \A i \in 1 .. n : Fits(xdr.fields[i][2], obj[xdr.fields[i][1]])
  BY Zenon DEF WellFormed, TypeFits
<1>9. ends => n > 0 /\ xdr.fields[n][2] \in Arrays
  BY Zenon DEF EndsInArray
<1>10. n > 0 /\ xdr.fields[n][2] \in Arrays => ends
  BY Zenon DEF EndsInArray
<1>11. f = Fields(xdr, xdr.get, room2) /\ d = Decode(xdr, u, room2)
  OBVIOUS
<1> HIDE DEF n, e, f, u, a, ends, d
<1>12. ends => ~TooLong(f[n][2], u[n])
  <2> SUFFICES ASSUME ends, f[n][2] = "handle", u[n] > HandleMax PROVE FALSE
    BY Zenon DEF TooLong
  <2>1. n \in 1 .. n
    BY SMT, <1>1, <1>9
  <2>2. xdr.fields[n][2] = "handle"
    <3>1. xdr.fields[n][2] \in Codecs /\ f[n][2] \in Ways(xdr.fields[n][2])
      BY Zenon, <2>1, <1>1, <1>2
    <3> QED
      BY SMT, <3>1 DEF Ways
  <2>3. e[n][1] = xdr.fields[n][1] /\ e[n][2] = "handle"
    <3>1. e[n][1] = xdr.fields[n][1] /\ e[n][2] \in Ways(xdr.fields[n][2])
      BY Zenon, <2>1, <1>5
    <3> QED
      BY SMT, <3>1, <2>2 DEF Ways
  <2>4. Put("handle", a) = Len(a)
    BY Zenon, PutArray DEF Arrays
  <2>5. ~TooLong("handle", Len(a))
    BY Zenon, <2>1, <2>3, <2>4, <1>6 DEF a
  <2> QED
    BY Zenon, <2>5, <1>4 DEF TooLong
<1>13. /\ d.ok /\ d.obj = [name \in DOMAIN d.obj |-> d.obj[name]]
      /\ DOMAIN d.obj = {f[i][1] : i \in 1 .. n}
      /\ \A i \in 1 .. n : d.obj[f[i][1]] = ValueOf(f, u, i)
  <2>1. /\ n <= Len(u)
        /\ ends => u[n] <= Len(u) - n
    <3>1. /\ ends => Len(u) = n + Len(a) /\ Len(a) \in Nat /\ u[n] = Len(a)
          /\ ~ends => Len(u) = n
      BY Zenon, <1>4
    <3>2. CASE ends
      BY SMT, <3>1, <3>2, <1>1
    <3>3. CASE ~ends
      BY SMT, <3>1, <3>3, <1>1
    <3> QED
      BY <3>2, <3>3
  <2>2. EndsInArray(f) => ~TooLong(f[n][2], u[n]) /\ u[n] <= Len(u) - n
    BY Zenon, <2>1, <1>3, <1>12
  <2>3. n = Len(f)
    BY Zenon, <1>2
  <2>4. \A i, j \in 1 .. n : f[i][1] = f[j][1] => i = j
    BY Zenon, <1>1, <1>2
  <2> QED
    <3>1. Decodable(f, u)
      BY Zenon, <2>1, <2>2, <2>3, <2>4 DEF Decodable
    <3>2. Len(f) = n
      BY Zenon, <1>2
    <3>3. /\ d.ok /\ d.obj = [name \in DOMAIN d.obj |-> d.obj[name]]
          /\ DOMAIN d.obj = {f[i][1] : i \in 1 .. Len(f)}
          /\ \A i \in 1 .. Len(f) : d.obj[f[i][1]] = ValueOf(f, u, i)
      <4>1. Decoded(d, f, u)
        BY Zenon, <3>1, DecodeGives DEF d, f
      <4> QED
        BY Zenon, <4>1 DEF Decoded
    <3> QED
      BY Zenon, <3>2, <3>3
<1>14. DOMAIN d.obj = DOMAIN obj
  <2>1. {f[i][1] : i \in 1 .. n} = {xdr.fields[i][1] : i \in 1 .. n}
    BY Zenon, <1>2
  <2> QED
    BY Zenon, <2>1, <1>13, <1>7
<1>15. ASSUME NEW i \in 1 .. n
      PROVE  Arrives(xdr.fields[i][2], obj[xdr.fields[i][1]],
                     d.obj[xdr.fields[i][1]])
  <2> DEFINE name == xdr.fields[i][1]
  <2>1. d.obj[name] = ValueOf(f, u, i)
    BY Zenon, <1>2, <1>13
  <2>2. CASE xdr.fields[i][2] \in Arrays
    <3>1. i = n /\ f[i][2] \in Arrays /\ n > 0
      BY SMT, <2>2, <1>1, <1>2, WaysOfArrays
    <3>2. ValueOf(f, u, i) = a
      BY Zenon, <3>1, <2>2, <1>2, <1>4, <1>10 DEF ValueOf
    <3>3. xdr.fields[i][2] # "bool"
      BY SMT, <2>2 DEF Arrays
    <3> QED
      BY Zenon, <2>1, <3>1, <3>2, <3>3 DEF Arrives, a
  <2>3. CASE xdr.fields[i][2] \notin Arrays
    <3>1. ValueOf(f, u, i) = Get(f[i][2], u[i])
      <4>1. xdr.fields[i][2] \in Codecs /\ f[i][2] \in Ways(xdr.fields[i][2])
        BY Zenon, <1>1, <1>2
      <4>2. f[i][2] \notin Arrays
        BY Zenon, <4>1, <2>3, WaysOfArrays
      <4> QED
        BY Zenon, <4>2 DEF ValueOf
    <3>2. PICK c \in Ways(xdr.fields[i][2]) : u[i] = Put(c, obj[name])
      BY Zenon, <1>4
    <3>3. Fits(xdr.fields[i][2], obj[name])
      BY Zenon, <1>8
    <3>4. /\ xdr.fields[i][2] \in Codecs \ Arrays
          /\ f[i][2] \in Ways(xdr.fields[i][2])
      BY Zenon, <2>3, <1>1, <1>2
    <3>5. Arrives(xdr.fields[i][2], obj[name], Get(f[i][2], Put(c, obj[name])))
      BY Zenon, <3>3, <3>4, UnitArrives
    <3> QED
      BY Zenon, <2>1, <3>1, <3>2, <3>5
  <2> QED
    BY <2>2, <2>3
<1> QED
  BY Zenon, <1>13, <1>14, <1>15 DEF n, u, d, Transferred

(* The object that arrives is the same to C.                               *)
LEMMA ArgumentArrives ==
    ASSUME NEW xdr, WellFormed(xdr), NEW obj \in xdr.type,
           NEW room1 \in BOOLEAN, NEW room2 \in BOOLEAN,
           Encode(xdr, obj, room1).ok, NEW name \in DOMAIN obj
    PROVE  Same(xdr, name, obj[name],
                Decode(xdr, Encode(xdr, obj, room1).units, room2).obj[name])
<1> DEFINE w == Decode(xdr, Encode(xdr, obj, room1).units, room2).obj[name]
<1>1. PICK i \in 1 .. Len(xdr.fields) : name = xdr.fields[i][1]
  BY Zenon DEF WellFormed, TypeFits
<1>2. Arrives(xdr.fields[i][2], obj[name], w)
  BY Zenon, <1>1, RoundTrip DEF Transferred
<1>3. xdr.fields[i] = <<name, xdr.fields[i][2]>>
  BY Zenon, <1>1 DEF WellFormed, FieldsFit
<1>4. ToSet(xdr.fields) = {xdr.fields[j] : j \in 1 .. Len(xdr.fields)}
  BY Zenon DEF WellFormed, FieldsFit, ToSet
<1>5. xdr.fields[i][2] = "bool" => <<name, "bool">> \in ToSet(xdr.fields)
  BY Zenon, <1>3, <1>4
<1>6. <<name, "bool">> \in ToSet(xdr.fields) => xdr.fields[i][2] = "bool"
  <2> SUFFICES ASSUME NEW j \in 1 .. Len(xdr.fields),
                      <<name, "bool">> = xdr.fields[j]
               PROVE  xdr.fields[i][2] = "bool"
    BY Zenon, <1>4
  <2>1. xdr.fields[j][1] = name /\ xdr.fields[j][2] = "bool"
    BY SMT
  <2>2. i = j
    BY Zenon, <1>1, <2>1 DEF WellFormed, FieldsFit
  <2> QED
    BY Zenon, <2>1, <2>2
<1> HIDE DEF w
<1>7. Same(xdr, name, obj[name], w)
  BY Zenon, <1>2, <1>5, <1>6 DEF Arrives, Same
<1> QED
  BY Zenon, <1>7 DEF w

(* An object without bool_t and handle arrives as it is.                   *)
LEMMA ResultArrives ==
    ASSUME NEW xdr, Exact(xdr), NEW obj \in xdr.type,
           NEW room1 \in BOOLEAN, NEW room2 \in BOOLEAN
    PROVE  Decode(xdr, Encode(xdr, obj, room1).units, room2).obj = obj
<1> DEFINE f == Fields(xdr, xdr.put, room1)
           d == Decode(xdr, Encode(xdr, obj, room1).units, room2)
<1>1. WellFormed(xdr)
  BY Zenon DEF Exact
<1>2. Encode(xdr, obj, room1).ok
  <2>1. \A i \in 1 .. Len(f) : f[i][2] # "handle"
    <3> SUFFICES ASSUME NEW i \in 1 .. Len(f) PROVE f[i][2] # "handle"
      OBVIOUS
    <3>1. i \in 1 .. Len(xdr.fields) /\ f[i][2] \in Ways(xdr.fields[i][2])
      BY Zenon, <1>1, FieldsMatch
    <3>2. xdr.fields[i][2] # "handle"
      BY Zenon, <3>1 DEF Exact
    <3> QED
      BY SMT, <3>1, <3>2 DEF Ways
  <2>2. \A v : \A i \in 1 .. Len(f) : ~TooLong(f[i][2], v)
    BY Zenon, <2>1 DEF TooLong
  <2> QED
    BY Zenon, <2>2 DEF Encode
<1>3. Transferred(xdr, obj, d)
  BY Zenon, <1>1, <1>2, RoundTrip
<1> HIDE DEF d
<1>4. ASSUME NEW name \in DOMAIN obj PROVE d.obj[name] = obj[name]
  <2>1. DOMAIN obj = {xdr.fields[i][1] : i \in 1 .. Len(xdr.fields)}
    BY Zenon, <1>1 DEF WellFormed, TypeFits
  <2>2. PICK i \in 1 .. Len(xdr.fields) : name = xdr.fields[i][1]
    BY Zenon, <2>1
  <2>3. xdr.fields[i][2] # "bool"
    BY Zenon DEF Exact
  <2> QED
    BY Zenon, <1>3, <2>2, <2>3 DEF Arrives, Transferred
<1>5. obj = [name \in DOMAIN obj |-> obj[name]]
  BY Zenon DEF Exact
<1>6. d.obj = [name \in DOMAIN obj |-> d.obj[name]]
  BY Zenon, <1>3 DEF Transferred
<1>7. [name \in DOMAIN obj |-> d.obj[name]] =
          [name \in DOMAIN obj |-> obj[name]]
  BY Zenon, <1>4
<1> QED
  BY Zenon, <1>5, <1>6, <1>7 DEF d

(* The values of the C types fit their routines.                           *)
LEMMA ValuesFit ==
    /\ \A v \in int : Fits("int", v)
    /\ \A v \in bool_t : Fits("bool", v)
    /\ \A v \in u_int : Fits("u_int", v)
    /\ \A v \in u_short : Fits("u_short", v)
    /\ \A v \in char : Fits("char", v)
    /\ \A v \in u_char : Fits("u_char", v)
    /\ \A v \in Device_AddrFamily : Fits("enum", v)
    /\ \A v \in bytes : Fits("string", v) /\ Fits("bytes", v)
    /\ \A v \in handle : Fits("handle", v)
BY SMT, ValueAssumption DEF Fits, Arrays, Device_AddrFamily

(* xdr_void: its copies of the field order agree.                          *)
LEMMA voidFits == WellFormed(xdr_void)
<1> DEFINE xdr == xdr_void
<1>1. FieldsFit(xdr) /\ BlockFits(xdr, xdr.put) /\ BlockFits(xdr, xdr.get)
  BY SMT DEF xdr_void, Routine, FieldsFit, BlockFits, Ways, Codecs, Arrays
<1>2. TypeFits(xdr)
  BY SMT DEF xdr_void, Routine, TypeFits, Void
<1> QED
  BY Zenon, <1>1, <1>2 DEF WellFormed

(* xdr_Device_Link: its copies of the field order agree.                   *)
LEMMA Device_LinkFits == WellFormed(xdr_Device_Link)
<1> DEFINE xdr == xdr_Device_Link
<1>1. FieldsFit(xdr) /\ BlockFits(xdr, xdr.put) /\ BlockFits(xdr, xdr.get)
  BY SMT
     DEF xdr_Device_Link, Routine, FieldsFit, BlockFits, Ways, Codecs, Arrays
<1>2. ASSUME NEW obj \in Device_Link
      PROVE  /\ DOMAIN obj = {"lid"}
             /\ Fits("int", obj["lid"])
  BY SMT, ValuesFit DEF Device_Link
<1>3. TypeFits(xdr)
  BY SMT, <1>2 DEF xdr_Device_Link, Routine, TypeFits
<1> QED
  BY Zenon, <1>1, <1>3 DEF WellFormed

(* xdr_Device_Error: its copies of the field order agree.                  *)
LEMMA Device_ErrorExact == Exact(xdr_Device_Error)
<1> DEFINE xdr == xdr_Device_Error
<1>1. FieldsFit(xdr) /\ BlockFits(xdr, xdr.put) /\ BlockFits(xdr, xdr.get)
  BY SMT
     DEF xdr_Device_Error, Routine, FieldsFit, BlockFits, Ways, Codecs,
         Arrays
<1>2. ASSUME NEW obj \in Device_Error
      PROVE  /\ DOMAIN obj = {"error"}
             /\ Fits("int", obj["error"])
  BY SMT, ValuesFit DEF Device_Error
<1>3. TypeFits(xdr)
  BY SMT, <1>2 DEF xdr_Device_Error, Routine, TypeFits
<1>4. /\ \A i \in 1 .. Len(xdr.fields) :
            xdr.fields[i][2] \notin {"bool", "handle"}
      /\ \A obj \in xdr.type : obj = [f \in DOMAIN obj |-> obj[f]]
  BY SMT DEF xdr_Device_Error, Routine, Device_Error
<1> QED
  BY Zenon, <1>1, <1>3, <1>4 DEF WellFormed, Exact

(* xdr_Create_LinkParms: its copies of the field order agree.              *)
LEMMA Create_LinkParmsFits == WellFormed(xdr_Create_LinkParms)
<1> DEFINE xdr == xdr_Create_LinkParms
<1>1. FieldsFit(xdr) /\ BlockFits(xdr, xdr.put) /\ BlockFits(xdr, xdr.get)
  BY SMT
     DEF xdr_Create_LinkParms, Inlined, FieldsFit, BlockFits, Ways, Codecs,
         Arrays
<1>2. ASSUME NEW obj \in Create_LinkParms
      PROVE  /\ DOMAIN obj = {"clientId", "lockDevice", "lock_timeout",
                              "device"}
             /\ Fits("int", obj["clientId"])
             /\ Fits("bool", obj["lockDevice"])
             /\ Fits("u_int", obj["lock_timeout"])
             /\ Fits("string", obj["device"])
  BY SMT, ValuesFit DEF Create_LinkParms
<1>3. TypeFits(xdr)
  BY SMT, <1>2 DEF xdr_Create_LinkParms, Inlined, TypeFits
<1> QED
  BY Zenon, <1>1, <1>3 DEF WellFormed

(* xdr_Create_LinkResp: its copies of the field order agree.               *)
LEMMA Create_LinkRespExact == Exact(xdr_Create_LinkResp)
<1> DEFINE xdr == xdr_Create_LinkResp
<1>1. FieldsFit(xdr) /\ BlockFits(xdr, xdr.put) /\ BlockFits(xdr, xdr.get)
  BY SMT
     DEF xdr_Create_LinkResp, Routine, FieldsFit, BlockFits, Ways, Codecs,
         Arrays
<1>2. ASSUME NEW obj \in Create_LinkResp
      PROVE  /\ DOMAIN obj = {"error", "lid", "abortPort", "maxRecvSize"}
             /\ Fits("int", obj["error"])
             /\ Fits("int", obj["lid"])
             /\ Fits("u_short", obj["abortPort"])
             /\ Fits("u_int", obj["maxRecvSize"])
  BY SMT, ValuesFit DEF Create_LinkResp
<1>3. TypeFits(xdr)
  BY SMT, <1>2 DEF xdr_Create_LinkResp, Routine, TypeFits
<1>4. /\ \A i \in 1 .. Len(xdr.fields) :
            xdr.fields[i][2] \notin {"bool", "handle"}
      /\ \A obj \in xdr.type : obj = [f \in DOMAIN obj |-> obj[f]]
  BY SMT DEF xdr_Create_LinkResp, Routine, Create_LinkResp
<1> QED
  BY Zenon, <1>1, <1>3, <1>4 DEF WellFormed, Exact

(* xdr_Device_WriteParms: its copies of the field order agree.             *)
LEMMA Device_WriteParmsFits == WellFormed(xdr_Device_WriteParms)
<1> DEFINE xdr == xdr_Device_WriteParms
<1>1. FieldsFit(xdr) /\ BlockFits(xdr, xdr.put) /\ BlockFits(xdr, xdr.get)
  BY SMT
     DEF xdr_Device_WriteParms, Routine, FieldsFit, BlockFits, Ways, Codecs,
         Arrays
<1>2. ASSUME NEW obj \in Device_WriteParms
      PROVE  /\ DOMAIN obj = {"lid", "io_timeout", "lock_timeout", "flags",
                              "data"}
             /\ Fits("int", obj["lid"])
             /\ Fits("u_int", obj["io_timeout"])
             /\ Fits("u_int", obj["lock_timeout"])
             /\ Fits("int", obj["flags"])
             /\ Fits("bytes", obj["data"])
  BY SMT, ValuesFit DEF Device_WriteParms
<1>3. TypeFits(xdr)
  BY SMT, <1>2 DEF xdr_Device_WriteParms, Routine, TypeFits
<1> QED
  BY Zenon, <1>1, <1>3 DEF WellFormed

(* xdr_Device_WriteResp: its copies of the field order agree.              *)
LEMMA Device_WriteRespExact == Exact(xdr_Device_WriteResp)
<1> DEFINE xdr == xdr_Device_WriteResp
<1>1. FieldsFit(xdr) /\ BlockFits(xdr, xdr.put) /\ BlockFits(xdr, xdr.get)
  BY SMT
     DEF xdr_Device_WriteResp, Routine, FieldsFit, BlockFits, Ways, Codecs,
         Arrays
<1>2. ASSUME NEW obj \in Device_WriteResp
      PROVE  /\ DOMAIN obj = {"error", "size"}
             /\ Fits("int", obj["error"])
             /\ Fits("u_int", obj["size"])
  BY SMT, ValuesFit DEF Device_WriteResp
<1>3. TypeFits(xdr)
  BY SMT, <1>2 DEF xdr_Device_WriteResp, Routine, TypeFits
<1>4. /\ \A i \in 1 .. Len(xdr.fields) :
            xdr.fields[i][2] \notin {"bool", "handle"}
      /\ \A obj \in xdr.type : obj = [f \in DOMAIN obj |-> obj[f]]
  BY SMT DEF xdr_Device_WriteResp, Routine, Device_WriteResp
<1> QED
  BY Zenon, <1>1, <1>3, <1>4 DEF WellFormed, Exact

(* xdr_Device_ReadParms: its copies of the field order agree.              *)
LEMMA Device_ReadParmsFits == WellFormed(xdr_Device_ReadParms)
<1> DEFINE xdr == xdr_Device_ReadParms
<1>1. FieldsFit(xdr) /\ BlockFits(xdr, xdr.put) /\ BlockFits(xdr, xdr.get)
  BY SMT
     DEF xdr_Device_ReadParms, Inlined, FieldsFit, BlockFits, Ways, Codecs,
         Arrays
<1>2. ASSUME NEW obj \in Device_ReadParms
      PROVE  /\ DOMAIN obj = {"lid", "requestSize", "io_timeout",
                              "lock_timeout", "flags", "termChar"}
             /\ Fits("int", obj["lid"])
             /\ Fits("u_int", obj["requestSize"])
             /\ Fits("u_int", obj["io_timeout"])
             /\ Fits("u_int", obj["lock_timeout"])
             /\ Fits("int", obj["flags"])
             /\ Fits("char", obj["termChar"])
  BY SMT, ValuesFit DEF Device_ReadParms
<1>3. TypeFits(xdr)
  BY SMT, <1>2 DEF xdr_Device_ReadParms, Inlined, TypeFits
<1> QED
  BY Zenon, <1>1, <1>3 DEF WellFormed

(* xdr_Device_ReadResp: its copies of the field order agree.               *)
LEMMA Device_ReadRespExact == Exact(xdr_Device_ReadResp)
<1> DEFINE xdr == xdr_Device_ReadResp
<1>1. FieldsFit(xdr) /\ BlockFits(xdr, xdr.put) /\ BlockFits(xdr, xdr.get)
  BY SMT
     DEF xdr_Device_ReadResp, Routine, FieldsFit, BlockFits, Ways, Codecs,
         Arrays
<1>2. ASSUME NEW obj \in Device_ReadResp
      PROVE  /\ DOMAIN obj = {"error", "reason", "data"}
             /\ Fits("int", obj["error"])
             /\ Fits("int", obj["reason"])
             /\ Fits("bytes", obj["data"])
  BY SMT, ValuesFit DEF Device_ReadResp
<1>3. TypeFits(xdr)
  BY SMT, <1>2 DEF xdr_Device_ReadResp, Routine, TypeFits
<1>4. /\ \A i \in 1 .. Len(xdr.fields) :
            xdr.fields[i][2] \notin {"bool", "handle"}
      /\ \A obj \in xdr.type : obj = [f \in DOMAIN obj |-> obj[f]]
  BY SMT DEF xdr_Device_ReadResp, Routine, Device_ReadResp
<1> QED
  BY Zenon, <1>1, <1>3, <1>4 DEF WellFormed, Exact

(* xdr_Device_ReadStbResp: its copies of the field order agree.            *)
LEMMA Device_ReadStbRespExact == Exact(xdr_Device_ReadStbResp)
<1> DEFINE xdr == xdr_Device_ReadStbResp
<1>1. FieldsFit(xdr) /\ BlockFits(xdr, xdr.put) /\ BlockFits(xdr, xdr.get)
  BY SMT
     DEF xdr_Device_ReadStbResp, Routine, FieldsFit, BlockFits, Ways, Codecs,
         Arrays
<1>2. ASSUME NEW obj \in Device_ReadStbResp
      PROVE  /\ DOMAIN obj = {"error", "stb"}
             /\ Fits("int", obj["error"])
             /\ Fits("u_char", obj["stb"])
  BY SMT, ValuesFit DEF Device_ReadStbResp
<1>3. TypeFits(xdr)
  BY SMT, <1>2 DEF xdr_Device_ReadStbResp, Routine, TypeFits
<1>4. /\ \A i \in 1 .. Len(xdr.fields) :
            xdr.fields[i][2] \notin {"bool", "handle"}
      /\ \A obj \in xdr.type : obj = [f \in DOMAIN obj |-> obj[f]]
  BY SMT DEF xdr_Device_ReadStbResp, Routine, Device_ReadStbResp
<1> QED
  BY Zenon, <1>1, <1>3, <1>4 DEF WellFormed, Exact

(* xdr_Device_GenericParms: its copies of the field order agree.           *)
LEMMA Device_GenericParmsFits == WellFormed(xdr_Device_GenericParms)
<1> DEFINE xdr == xdr_Device_GenericParms
<1>1. FieldsFit(xdr) /\ BlockFits(xdr, xdr.put) /\ BlockFits(xdr, xdr.get)
  BY SMT
     DEF xdr_Device_GenericParms, Routine, FieldsFit, BlockFits, Ways,
         Codecs, Arrays
<1>2. ASSUME NEW obj \in Device_GenericParms
      PROVE  /\ DOMAIN obj = {"lid", "flags", "lock_timeout", "io_timeout"}
             /\ Fits("int", obj["lid"])
             /\ Fits("int", obj["flags"])
             /\ Fits("u_int", obj["lock_timeout"])
             /\ Fits("u_int", obj["io_timeout"])
  BY SMT, ValuesFit DEF Device_GenericParms
<1>3. TypeFits(xdr)
  BY SMT, <1>2 DEF xdr_Device_GenericParms, Routine, TypeFits
<1> QED
  BY Zenon, <1>1, <1>3 DEF WellFormed

(* xdr_Device_RemoteFunc: its copies of the field order agree.             *)
LEMMA Device_RemoteFuncFits == WellFormed(xdr_Device_RemoteFunc)
<1> DEFINE xdr == xdr_Device_RemoteFunc
<1>1. FieldsFit(xdr) /\ BlockFits(xdr, xdr.put) /\ BlockFits(xdr, xdr.get)
  BY SMT
     DEF xdr_Device_RemoteFunc, Inlined, FieldsFit, BlockFits, Ways, Codecs,
         Arrays
<1>2. ASSUME NEW obj \in Device_RemoteFunc
      PROVE  /\ DOMAIN obj = {"hostAddr", "hostPort", "progNum",
                              "progVers", "progFamily"}
             /\ Fits("u_int", obj["hostAddr"])
             /\ Fits("u_int", obj["hostPort"])
             /\ Fits("u_int", obj["progNum"])
             /\ Fits("u_int", obj["progVers"])
             /\ Fits("enum", obj["progFamily"])
  BY SMT, ValuesFit DEF Device_RemoteFunc
<1>3. TypeFits(xdr)
  BY SMT, <1>2 DEF xdr_Device_RemoteFunc, Inlined, TypeFits
<1> QED
  BY Zenon, <1>1, <1>3 DEF WellFormed

(* xdr_Device_EnableSrqParms: its copies of the field order agree.         *)
LEMMA Device_EnableSrqParmsFits == WellFormed(xdr_Device_EnableSrqParms)
<1> DEFINE xdr == xdr_Device_EnableSrqParms
<1>1. FieldsFit(xdr) /\ BlockFits(xdr, xdr.put) /\ BlockFits(xdr, xdr.get)
  BY SMT
     DEF xdr_Device_EnableSrqParms, Routine, FieldsFit, BlockFits, Ways,
         Codecs, Arrays
<1>2. ASSUME NEW obj \in Device_EnableSrqParms
      PROVE  /\ DOMAIN obj = {"lid", "enable", "handle"}
             /\ Fits("int", obj["lid"])
             /\ Fits("bool", obj["enable"])
             /\ Fits("handle", obj["handle"])
  BY SMT, ValuesFit DEF Device_EnableSrqParms
<1>3. TypeFits(xdr)
  BY SMT, <1>2 DEF xdr_Device_EnableSrqParms, Routine, TypeFits
<1> QED
  BY Zenon, <1>1, <1>3 DEF WellFormed

(* xdr_Device_LockParms: its copies of the field order agree.              *)
LEMMA Device_LockParmsFits == WellFormed(xdr_Device_LockParms)
<1> DEFINE xdr == xdr_Device_LockParms
<1>1. FieldsFit(xdr) /\ BlockFits(xdr, xdr.put) /\ BlockFits(xdr, xdr.get)
  BY SMT
     DEF xdr_Device_LockParms, Routine, FieldsFit, BlockFits, Ways, Codecs,
         Arrays
<1>2. ASSUME NEW obj \in Device_LockParms
      PROVE  /\ DOMAIN obj = {"lid", "flags", "lock_timeout"}
             /\ Fits("int", obj["lid"])
             /\ Fits("int", obj["flags"])
             /\ Fits("u_int", obj["lock_timeout"])
  BY SMT, ValuesFit DEF Device_LockParms
<1>3. TypeFits(xdr)
  BY SMT, <1>2 DEF xdr_Device_LockParms, Routine, TypeFits
<1> QED
  BY Zenon, <1>1, <1>3 DEF WellFormed

(* xdr_Device_DocmdParms: its copies of the field order agree.             *)
LEMMA Device_DocmdParmsFits == WellFormed(xdr_Device_DocmdParms)
<1> DEFINE xdr == xdr_Device_DocmdParms
<1>1. FieldsFit(xdr) /\ BlockFits(xdr, xdr.put) /\ BlockFits(xdr, xdr.get)
  BY SMT
     DEF xdr_Device_DocmdParms, Inlined, FieldsFit, BlockFits, Ways, Codecs,
         Arrays
<1>2. ASSUME NEW obj \in Device_DocmdParms
      PROVE  /\ DOMAIN obj = {"lid", "flags", "io_timeout", "lock_timeout",
                              "cmd", "network_order", "datasize", "data_in"}
             /\ Fits("int", obj["lid"])
             /\ Fits("int", obj["flags"])
             /\ Fits("u_int", obj["io_timeout"])
             /\ Fits("u_int", obj["lock_timeout"])
             /\ Fits("int", obj["cmd"])
             /\ Fits("bool", obj["network_order"])
             /\ Fits("int", obj["datasize"])
             /\ Fits("bytes", obj["data_in"])
  BY SMT, ValuesFit DEF Device_DocmdParms
<1>3. TypeFits(xdr)
  BY SMT, <1>2 DEF xdr_Device_DocmdParms, Inlined, TypeFits
<1> QED
  BY Zenon, <1>1, <1>3 DEF WellFormed

(* xdr_Device_DocmdResp: its copies of the field order agree.              *)
LEMMA Device_DocmdRespExact == Exact(xdr_Device_DocmdResp)
<1> DEFINE xdr == xdr_Device_DocmdResp
<1>1. FieldsFit(xdr) /\ BlockFits(xdr, xdr.put) /\ BlockFits(xdr, xdr.get)
  BY SMT
     DEF xdr_Device_DocmdResp, Routine, FieldsFit, BlockFits, Ways, Codecs,
         Arrays
<1>2. ASSUME NEW obj \in Device_DocmdResp
      PROVE  /\ DOMAIN obj = {"error", "data_out"}
             /\ Fits("int", obj["error"])
             /\ Fits("bytes", obj["data_out"])
  BY SMT, ValuesFit DEF Device_DocmdResp
<1>3. TypeFits(xdr)
  BY SMT, <1>2 DEF xdr_Device_DocmdResp, Routine, TypeFits
<1>4. /\ \A i \in 1 .. Len(xdr.fields) :
            xdr.fields[i][2] \notin {"bool", "handle"}
      /\ \A obj \in xdr.type : obj = [f \in DOMAIN obj |-> obj[f]]
  BY SMT DEF xdr_Device_DocmdResp, Routine, Device_DocmdResp
<1> QED
  BY Zenon, <1>1, <1>3, <1>4 DEF WellFormed, Exact

(* The numbers of the procedures (vxi11core.h).                            *)
LEMMA ProcedureNumbers ==
    /\ Procedure["device_abort"] = 1
    /\ Procedure["create_link"] = 10
    /\ Procedure["device_write"] = 11
    /\ Procedure["device_read"] = 12
    /\ Procedure["device_readstb"] = 13
    /\ Procedure["device_trigger"] = 14
    /\ Procedure["device_clear"] = 15
    /\ Procedure["device_remote"] = 16
    /\ Procedure["device_local"] = 17
    /\ Procedure["device_lock"] = 18
    /\ Procedure["device_unlock"] = 19
    /\ Procedure["device_enable_srq"] = 20
    /\ Procedure["device_docmd"] = 22
    /\ Procedure["destroy_link"] = 23
    /\ Procedure["create_intr_chan"] = 25
    /\ Procedure["destroy_intr_chan"] = 26
BY SMT DEF Procedure

(* Every stub encodes its argument and decodes its result with routines    *)
(* that keep them.                                                         *)
LEMMA StubsFit ==
    ASSUME NEW st \in Stubs
    PROVE  WellFormed(st.arg) /\ Exact(st.res) /\ st.proc # 0
<1>1. \A xdr1, xdr2, prog, name :
         LET s == clnt(prog, name, xdr1, xdr2)
         IN  /\ s.arg = xdr1 /\ s.res = xdr2 /\ s.prog = prog
             /\ s.name = name /\ s.proc = Procedure[name]
  BY SMT DEF clnt
<1>2. CASE st = device_abort_1
  BY SMT, <1>2, <1>1, ProcedureNumbers, Device_LinkFits, Device_ErrorExact
     DEF device_abort_1
<1>3. CASE st = create_link_1
  BY SMT, <1>3, <1>1, ProcedureNumbers, Create_LinkParmsFits,
     Create_LinkRespExact
     DEF create_link_1
<1>4. CASE st = device_write_1
  BY SMT, <1>4, <1>1, ProcedureNumbers, Device_WriteParmsFits,
     Device_WriteRespExact
     DEF device_write_1
<1>5. CASE st = device_read_1
  BY SMT, <1>5, <1>1, ProcedureNumbers, Device_ReadParmsFits,
     Device_ReadRespExact
     DEF device_read_1
<1>6. CASE st = device_readstb_1
  BY SMT, <1>6, <1>1, ProcedureNumbers, Device_GenericParmsFits,
     Device_ReadStbRespExact
     DEF device_readstb_1
<1>7. CASE st = device_trigger_1
  BY SMT, <1>7, <1>1, ProcedureNumbers, Device_GenericParmsFits,
     Device_ErrorExact
     DEF device_trigger_1
<1>8. CASE st = device_clear_1
  BY SMT, <1>8, <1>1, ProcedureNumbers, Device_GenericParmsFits,
     Device_ErrorExact
     DEF device_clear_1
<1>9. CASE st = device_remote_1
  BY SMT, <1>9, <1>1, ProcedureNumbers, Device_GenericParmsFits,
     Device_ErrorExact
     DEF device_remote_1
<1>10. CASE st = device_local_1
  BY SMT, <1>10, <1>1, ProcedureNumbers, Device_GenericParmsFits,
     Device_ErrorExact
     DEF device_local_1
<1>11. CASE st = device_lock_1
  BY SMT, <1>11, <1>1, ProcedureNumbers, Device_LockParmsFits,
     Device_ErrorExact
     DEF device_lock_1
<1>12. CASE st = device_unlock_1
  BY SMT, <1>12, <1>1, ProcedureNumbers, Device_LinkFits, Device_ErrorExact
     DEF device_unlock_1
<1>13. CASE st = device_enable_srq_1
  BY SMT, <1>13, <1>1, ProcedureNumbers, Device_EnableSrqParmsFits,
     Device_ErrorExact
     DEF device_enable_srq_1
<1>14. CASE st = device_docmd_1
  BY SMT, <1>14, <1>1, ProcedureNumbers, Device_DocmdParmsFits,
     Device_DocmdRespExact
     DEF device_docmd_1
<1>15. CASE st = destroy_link_1
  BY SMT, <1>15, <1>1, ProcedureNumbers, Device_LinkFits, Device_ErrorExact
     DEF destroy_link_1
<1>16. CASE st = create_intr_chan_1
  BY SMT, <1>16, <1>1, ProcedureNumbers, Device_RemoteFuncFits,
     Device_ErrorExact
     DEF create_intr_chan_1
<1>17. CASE st = destroy_intr_chan_1
  BY SMT, <1>17, <1>1, ProcedureNumbers, voidFits, Device_ErrorExact
     DEF destroy_intr_chan_1
<1> QED
  BY Zenon, <1>2, <1>3, <1>4, <1>5, <1>6, <1>7, <1>8, <1>9, <1>10, <1>11,
     <1>12, <1>13, <1>14, <1>15, <1>16, <1>17
     DEF Stubs

(* The server's case for a stub's procedure is made with the same routines *)
(* and calls the function of that name.                                    *)
LEMMA CasesAgree ==
    ASSUME NEW st \in Stubs, NEW c \in Case(st.prog, st.proc)
    PROVE  c.arg = st.arg /\ c.res = st.res /\ c.local = st.name
<1> USE DEF svc, clnt, Case, Cases, device_async_1, device_core_1,
            DEVICE_ASYNC, DEVICE_CORE
<1>1. CASE st = device_abort_1
  BY SMT, <1>1, ProcedureNumbers DEF device_abort_1
<1>2. CASE st = create_link_1
  BY SMT, <1>2, ProcedureNumbers DEF create_link_1
<1>3. CASE st = device_write_1
  BY SMT, <1>3, ProcedureNumbers DEF device_write_1
<1>4. CASE st = device_read_1
  BY SMT, <1>4, ProcedureNumbers DEF device_read_1
<1>5. CASE st = device_readstb_1
  BY SMT, <1>5, ProcedureNumbers DEF device_readstb_1
<1>6. CASE st = device_trigger_1
  BY SMT, <1>6, ProcedureNumbers DEF device_trigger_1
<1>7. CASE st = device_clear_1
  BY SMT, <1>7, ProcedureNumbers DEF device_clear_1
<1>8. CASE st = device_remote_1
  BY SMT, <1>8, ProcedureNumbers DEF device_remote_1
<1>9. CASE st = device_local_1
  BY SMT, <1>9, ProcedureNumbers DEF device_local_1
<1>10. CASE st = device_lock_1
  BY SMT, <1>10, ProcedureNumbers DEF device_lock_1
<1>11. CASE st = device_unlock_1
  BY SMT, <1>11, ProcedureNumbers DEF device_unlock_1
<1>12. CASE st = device_enable_srq_1
  BY SMT, <1>12, ProcedureNumbers DEF device_enable_srq_1
<1>13. CASE st = device_docmd_1
  BY SMT, <1>13, ProcedureNumbers DEF device_docmd_1
<1>14. CASE st = destroy_link_1
  BY SMT, <1>14, ProcedureNumbers DEF destroy_link_1
<1>15. CASE st = create_intr_chan_1
  BY SMT, <1>15, ProcedureNumbers DEF create_intr_chan_1
<1>16. CASE st = destroy_intr_chan_1
  BY SMT, <1>16, ProcedureNumbers DEF destroy_intr_chan_1
<1> QED
  BY Zenon, <1>1, <1>2, <1>3, <1>4, <1>5, <1>6, <1>7, <1>8, <1>9, <1>10,
     <1>11, <1>12, <1>13, <1>14, <1>15, <1>16
     DEF Stubs

-----------------------------------------------------------------------------
(* An answer, and what the service function gave, are not None.            *)
LEMMA NotNone ==
    /\ \A a, b, c : [local |-> a, arg |-> b, res |-> c] # None
    /\ \A a, b : [ok |-> a, units |-> b] # None
BY SMT DEF None

(* A step that leaves the call where it is: if it is with the server, that *)
(* does not go on with it.                                                 *)
LEMMA CallUnchanged ==
    ASSUME CallInv,
           UNCHANGED <<mine, reply, stub, arg, stat, clnt_res, given>>,
           mine => UNCHANGED <<server, request, rq, argument>>
    PROVE  CallInv'
BY Zenon DEF CallInv

(* The process ends, and the call with it.                                 *)
LEMMA CallExit ==
    ASSUME CallInv, Exit
    PROVE  CallInv'
<1>1. /\ mine' = FALSE /\ reply' = None
      /\ UNCHANGED <<stub, arg, stat, clnt_res, given>>
  BY SMT DEF Exit, call
<1> QED
  BY Zenon, <1>1 DEF CallInv

(* The server answers at once.                                             *)
LEMMA CallAnswered ==
    ASSUME CallInv, NEW how, Answered(how), mine => how # "SUCCESS"
    PROVE  CallInv'
<1>1. /\ mine' = FALSE /\ UNCHANGED <<stub, arg, stat, clnt_res, given>>
      /\ reply' = IF mine THEN [ok |-> how = "SUCCESS", units |-> <<>>]
                          ELSE reply
  BY Zenon DEF Answered, Answer, call
<1>2. CASE mine
  <2>1. Replied(reply', given, stub, arg)
    <3>1. reply' = [ok |-> how = "SUCCESS", units |-> <<>>]
      BY Zenon, <1>1, <1>2
    <3>2. reply'.ok = (how = "SUCCESS")
      BY Zenon, <3>1
    <3> QED
      BY Zenon, <3>2, <1>2 DEF Replied
  <2> QED
    BY Zenon, <1>1, <1>2, <2>1 DEF CallInv
<1>3. CASE ~mine
  BY Zenon, <1>1, <1>3 DEF CallInv
<1> QED
  BY <1>2, <1>3

(* The arguments of the call are decoded: the function gets what was sent. *)
LEMMA CallGetargs ==
    ASSUME CallInv, NEW room \in BOOLEAN, svc_getargs(room)
    PROVE  CallInv'
<1>1. /\ UNCHANGED <<mine, reply, stub, arg, stat, clnt_res, given>>
      /\ server = "serving" /\ server' = "local"
  BY Zenon DEF svc_getargs, call
<1>2. CASE ~mine
  BY Zenon, <1>1, <1>2, CallUnchanged
<1>3. CASE mine
  <2>1. /\ stat = "wait" /\ reply = None /\ Requested(request, stub, arg)
        /\ stub \in Stubs /\ arg \in stub.arg.type
    BY SMT, <1>1, <1>3 DEF CallInv, IsCall
  <2>2. PICK room1 \in BOOLEAN :
            /\ Encode(stub.arg, arg, room1).ok
            /\ request = [prog |-> stub.prog, proc |-> stub.proc,
                          units |-> Encode(stub.arg, arg, room1).units]
    BY Zenon, <2>1 DEF Requested
  <2>3. /\ request.prog = stub.prog /\ request.proc = stub.proc
        /\ request.units = Encode(stub.arg, arg, room1).units
    BY SMT, <2>2
  <2>4. PICK c \in Case(request.prog, request.proc) :
            /\ rq' = c
            /\ argument' = Decode(c.arg, request.units, room).obj
    BY Zenon DEF svc_getargs
  <2>5. c.arg = stub.arg /\ c.res = stub.res /\ c.local = stub.name
    BY Zenon, <2>1, <2>3, <2>4, CasesAgree
  <2>6. argument' =
            Decode(stub.arg, Encode(stub.arg, arg, room1).units, room).obj
    BY Zenon, <2>3, <2>4, <2>5
  <2>7. WellFormed(stub.arg)
    BY Zenon, <2>1, StubsFit
  <2>8. \A f \in DOMAIN arg : Same(stub.arg, f, arg[f], argument'[f])
    BY Zenon, <2>1, <2>2, <2>6, <2>7, ArgumentArrives
  <2>9. Called(rq', argument', stub, arg)
    BY Zenon, <2>4, <2>5, <2>8 DEF Called, SameArg
  <2> QED
    BY Zenon, <1>1, <1>3, <2>1, <2>9 DEF CallInv
<1> QED
  BY Zenon, <1>2, <1>3

(* The service function has returned a result, which is sent or not.       *)
LEMMA CallLocalTrue ==
    ASSUME CallInv, NEW res \in rq.res.type, NEW sent \in BOOLEAN,
           local_true(res, sent)
    PROVE  CallInv'
<1> DEFINE g == [local |-> rq.local, arg |-> argument, res |-> res]
           r == [ok |-> sent, units |-> Encode(rq.res, res, FALSE).units]
<1>1. /\ server = "local" /\ mine' = FALSE
      /\ UNCHANGED <<stub, arg, stat, clnt_res>>
      /\ given' = IF mine THEN g ELSE given
      /\ reply' = IF mine THEN r ELSE reply
  BY Zenon DEF local_true, Returned, Answer, call
<1>2. CASE mine
  <2>1. Called(rq, argument, stub, arg) /\ stat = "wait" /\ IsCall(stub, arg)
    BY Zenon, <1>1, <1>2 DEF CallInv
  <2>2. g.local = rq.local /\ g.arg = argument /\ g.res = res /\ g # None
    BY SMT, NotNone
  <2>3. r.units = Encode(rq.res, res, FALSE).units
    BY SMT
  <2>4. given' = g /\ reply' = r
    BY Zenon, <1>1, <1>2
  <2> HIDE DEF g, r
  <2>5. Given(g, stub, arg)
    BY Zenon, <2>1, <2>2 DEF Given, Called
  <2>6. r.units = Encode(stub.res, g.res, FALSE).units
    BY Zenon, <2>1, <2>2, <2>3 DEF Called
  <2>7. Replied(reply', given', stub, arg)
    BY Zenon, <2>4, <2>5, <2>6 DEF Replied
  <2>8. stat # "RPC_SUCCESS"
    BY SMT, <2>1
  <2> QED
    BY Zenon, <1>1, <2>1, <2>7, <2>8 DEF CallInv
<1>3. CASE ~mine
  <2>1. given' = given /\ reply' = reply
    BY Zenon, <1>1, <1>3
  <2> HIDE DEF g, r
  <2> QED
    BY Zenon, <1>1, <1>3, <2>1 DEF CallInv
<1> QED
  BY Zenon, <1>2, <1>3

(* main() runs before there can be a call.                                 *)
LEMMA CallMain ==
    ASSUME CallInv, Main
    PROVE  CallInv'
<1> DEFINE Kept == UNCHANGED <<mine, reply, stub, arg, stat, clnt_res, given>>
<1>1. CASE \/ \E prog \in Programs, removed \in BOOLEAN :
                 pmap_unset(prog, removed)
           \/ svc_create \/ svc_register
  <2>1. Kept /\ server \in Starting
    BY SMT, <1>1 DEF pmap_unset, svc_create, svc_register, call, Starting
  <2>2. ~mine
    BY SMT, <2>1 DEF CallInv, Starting
  <2> QED
    BY Zenon, <2>1, <2>2, CallUnchanged
<1>2. CASE main_failed \/ killed
  BY Zenon, <1>2, CallExit DEF main_failed, killed
<1> QED
  BY Zenon, <1>1, <1>2 DEF Main

(* The server: a call is never taken for NULLPROC, its function is the one *)
(* that the stub names, and its answer is made from that function's        *)
(* result.                                                                 *)
LEMMA CallServer ==
    ASSUME CallInv, Server
    PROVE  CallInv'
<1> DEFINE Kept == UNCHANGED <<mine, reply, stub, arg, stat, clnt_res, given>>
<1>1. CASE svc_null
  <2>1. Answered("SUCCESS") /\ server = "serving" /\ request.proc = 0
    BY Zenon, <1>1 DEF svc_null
  <2>2. ASSUME mine PROVE FALSE
    <3>1. Requested(request, stub, arg) /\ stub \in Stubs
      BY SMT, <2>1, <2>2 DEF CallInv, IsCall
    <3>2. request.proc = stub.proc
      BY SMT, <3>1 DEF Requested
    <3> QED
      BY Zenon, <2>1, <3>1, <3>2, StubsFit
  <2> QED
    BY Zenon, <2>1, <2>2, CallAnswered
<1>2. CASE svc_noproc \/ \E room \in BOOLEAN : svc_decode_error(room)
  <2>1. Answered("PROC_UNAVAIL") \/ Answered("GARBAGE_ARGS")
    BY Zenon, <1>2 DEF svc_noproc, svc_decode_error
  <2>2. "PROC_UNAVAIL" # "SUCCESS" /\ "GARBAGE_ARGS" # "SUCCESS"
    BY SMT
  <2> QED
    BY Zenon, <2>1, <2>2, CallAnswered
<1>3. CASE \E room \in BOOLEAN : svc_getargs(room)
  BY Zenon, <1>3, CallGetargs
<1>4. CASE \E res \in rq.res.type, sent \in BOOLEAN : local_true(res, sent)
  BY Zenon, <1>4, CallLocalTrue
<1>5. CASE local_false
  <2>1. mine' = FALSE /\ UNCHANGED <<reply, stub, arg, stat, clnt_res, given>>
    BY Zenon, <1>5 DEF local_false, Returned, call
  <2> QED
    BY Zenon, <2>1 DEF CallInv
<1>6. CASE svc_freeargs \/ svc_freeresult
  <2>1. Kept /\ server \in {"freeargs", "freeresult"}
    BY SMT, <1>6 DEF svc_freeargs, svc_freeresult, call
  <2>2. ~mine
    BY SMT, <2>1 DEF CallInv, Starting
  <2> QED
    BY Zenon, <2>1, <2>2, CallUnchanged
<1>7. CASE svc_freeargs_failed \/ svc_freeresult_wild
  BY Zenon, <1>7, CallExit DEF svc_freeargs_failed, svc_freeresult_wild
<1> QED
  BY Zenon, <1>1, <1>2, <1>3, <1>4, <1>5, <1>6, <1>7 DEF Server

(* A call starts: its request is the encoded argument.                     *)
LEMMA CallClntCall ==
    ASSUME CallInv, NEW st \in Stubs, NEW room \in BOOLEAN,
           NEW a \in st.arg.type, clnt_call(st, a, room)
    PROVE  CallInv'
<1> DEFINE e == Encode(st.arg, a, room)
<1>1. /\ server = "serving" /\ stat = "idle" /\ stub' = st /\ arg' = a
      /\ UNCHANGED <<server, reply, clnt_res, given>>
  BY Zenon DEF clnt_call, process
<1>2. ~mine /\ reply = None
  BY SMT, <1>1 DEF CallInv
<1>3. CASE e.ok
  <2>1. /\ request' = [prog |-> st.prog, proc |-> st.proc, units |-> e.units]
        /\ mine' = TRUE /\ stat' = "wait"
    BY Zenon, <1>3 DEF clnt_call
  <2>2. Requested(request', st, a)
    BY Zenon, <1>3, <2>1 DEF Requested
  <2>3. stat' # "RPC_SUCCESS"
    BY SMT, <2>1
  <2> QED
    BY Zenon, <1>1, <1>2, <2>1, <2>2, <2>3 DEF CallInv, IsCall
<1>4. CASE ~e.ok
  <2>1. stat' = "RPC_CANTENCODEARGS" /\ mine' = mine
    BY Zenon, <1>4 DEF clnt_call
  <2>2. stat' # "wait" /\ stat' # "RPC_SUCCESS"
    BY SMT, <2>1
  <2> QED
    BY Zenon, <1>1, <1>2, <2>1, <2>2 DEF CallInv
<1> QED
  BY Zenon, <1>3, <1>4

(* The answer is decoded: the caller gets what the function gave.          *)
LEMMA CallClntAnswer ==
    ASSUME CallInv, clnt_answer
    PROVE  CallInv'
<1> DEFINE d == Decode(stub.res, reply.units, FALSE)
<1>1. /\ stat = "wait" /\ reply # None /\ reply' = None
      /\ UNCHANGED <<mine, stub, arg, given>>
  BY Zenon DEF clnt_answer, call
<1>2. ~mine /\ Replied(reply, given, stub, arg) /\ stub \in Stubs
  BY Zenon, <1>1 DEF CallInv, IsCall
<1>3. CASE reply.ok /\ d.ok
  <2>1. stat' = "RPC_SUCCESS" /\ clnt_res' = d.obj
    BY Zenon, <1>3 DEF clnt_answer
  <2>2. /\ Given(given, stub, arg)
        /\ reply.units = Encode(stub.res, given.res, FALSE).units
    BY Zenon, <1>2, <1>3 DEF Replied
  <2>3. Exact(stub.res) /\ given.res \in stub.res.type
    BY Zenon, <1>2, <2>2, StubsFit DEF Given
  <2>4. Decode(stub.res, Encode(stub.res, given.res, FALSE).units, FALSE).obj
            = given.res
    BY Zenon, <2>3, ResultArrives
  <2>5. clnt_res' = given.res
    BY Zenon, <2>1, <2>2, <2>4
  <2>6. Correct(clnt_res', given, stub, arg)
    BY Zenon, <2>2, <2>5 DEF Correct, Given
  <2>7. stat' # "wait"
    BY SMT, <2>1
  <2> QED
    BY Zenon, <1>1, <1>2, <2>6, <2>7 DEF CallInv
<1>4. CASE ~(reply.ok /\ d.ok)
  <2>1. stat' = "RPC_FAILED"
    BY Zenon, <1>4 DEF clnt_answer
  <2>2. stat' # "wait" /\ stat' # "RPC_SUCCESS"
    BY SMT, <2>1
  <2> QED
    BY Zenon, <1>1, <1>2, <2>2 DEF CallInv
<1> QED
  BY Zenon, <1>3, <1>4

(* The other steps of the clients.                                         *)
LEMMA CallClient ==
    ASSUME CallInv, Client \/ other_call \/ UNCHANGED vars
    PROVE  CallInv'
<1>1. CASE clnt_timeout
  <2>1. /\ mine' = FALSE /\ reply' = None /\ stat' = "RPC_TIMEDOUT"
    BY Zenon, <1>1 DEF clnt_timeout
  <2>2. stat' # "wait" /\ stat' # "RPC_SUCCESS"
    BY SMT, <2>1
  <2> QED
    BY Zenon, <2>1, <2>2 DEF CallInv
<1>2. CASE clnt_return
  <2>1. /\ stat \notin {"idle", "wait"} /\ stat' = "idle"
        /\ UNCHANGED <<mine, reply>>
    BY Zenon, <1>2 DEF clnt_return
  <2>2. stat # "wait" /\ stat' # "wait" /\ stat' # "RPC_SUCCESS"
    BY SMT, <2>1
  <2> QED
    BY Zenon, <2>1, <2>2 DEF CallInv
<1>3. CASE other_call
  <2>1. /\ stat = "idle" /\ mine' = FALSE
        /\ UNCHANGED <<reply, stub, arg, stat, clnt_res, given>>
    BY Zenon, <1>3 DEF other_call, call
  <2> QED
    BY Zenon, <2>1 DEF CallInv
<1>4. CASE UNCHANGED vars
  BY Zenon, <1>4, CallUnchanged DEF vars, process, dispatch, call
<1> QED
  BY Zenon, <1>1, <1>2, <1>3, <1>4, CallClntCall, CallClntAnswer DEF Client

(* A call that succeeds has called the function that its stub names, with  *)
(* its argument, and returns what that function gave, for every value of   *)
(* the C types and both ways to move a run of fields.                      *)
THEOREM CallsCorrect == Spec => []AnswerCorrect
<1>1. Init => CallInv
  <2> SUFFICES ASSUME Init PROVE CallInv
    OBVIOUS
  <2>1. stat = "idle" /\ mine = FALSE /\ reply = None
    BY Zenon DEF Init
  <2>2. stat # "wait" /\ stat # "RPC_SUCCESS"
    BY SMT, <2>1
  <2> QED
    BY Zenon, <2>1, <2>2 DEF CallInv
<1>2. CallInv /\ [Next]_vars => CallInv'
  BY Zenon, CallMain, CallServer, CallClient DEF Next
<1>3. CallInv => AnswerCorrect
  BY Zenon DEF CallInv, AnswerCorrect, Correct, SameArg
<1> QED
  BY <1>1, <1>2, <1>3, PTL DEF Spec
=============================================================================
