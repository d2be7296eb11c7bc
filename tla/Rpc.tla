--------------------------------- MODULE Rpc ---------------------------------
(***************************************************************************)
(* Remote procedure calls of VXI-11: the client stubs (vxi11core_clnt.c)   *)
(* and the server that rpcgen makes from the same description              *)
(* (vxi11core_svc.c; the library does not contain it, it is the skeleton   *)
(* of an instrument).  The service functions, the RPC library and the      *)
(* portmapper are external.                                                *)
(*                                                                         *)
(* One client makes one call after the other.  Other clients may ask for   *)
(* what is not there, or send arguments that cannot be decoded.  Any       *)
(* process of the server may die, and is started again.                    *)
(***************************************************************************)
EXTENDS Xdr

VARIABLES
    portmap,    \* (program, protocol) -> "none", "own" (the process that
                \* runs), "stale" (another, or one that has died), or "kept"
                \* (stale, and this start's pmap_unset did not remove it)
    server,     \* "down"; where main() is: "unset", "main"; or where svc_run
                \* is: "serving" (waits for a request), "local", "freeargs",
                \* "freeresult"
    step,       \* how many of its registrations main() has made
    transp,     \* protocols whose transport exists
    request,    \* the request on its way, or None
    mine,       \* the request that is served is the client's call
    rq,         \* the case of the dispatch function, or None
    argument,   \* the union "argument", decoded
    blocks,     \* the fields of it that point to allocated memory (of the
                \* last request's, when the server waits for the next)
    refused,    \* the service function returned FALSE, result is not set
    outcome,    \* how the last request was answered
    reply,      \* the answer on its way, or None
    stub, arg,  \* the client's call, or None
    stat,       \* "idle", "wait", or what clnt_call returned
    clnt_res,   \* the result of the client's call, or None
    given       \* history: what the service function got and gave, or None

process  == <<portmap, server, step, transp>>
dispatch == <<rq, argument, blocks, refused>>
call     == <<stub, arg>>
vars == <<process, request, mine, dispatch, outcome, reply, call, stat,
          clnt_res, given>>

None == [none |-> TRUE]

-----------------------------------------------------------------------------
(* Programs and procedures (vxi11core.h).                                  *)
DEVICE_ASYNC == "DEVICE_ASYNC"
DEVICE_CORE == "DEVICE_CORE"

Procedure ==
    [device_abort |-> 1, create_link |-> 10, device_write |-> 11,
     device_read |-> 12, device_readstb |-> 13, device_trigger |-> 14,
     device_clear |-> 15, device_remote |-> 16, device_local |-> 17,
     device_lock |-> 18, device_unlock |-> 19, device_enable_srq |-> 20,
     device_docmd |-> 22, destroy_link |-> 23, create_intr_chan |-> 25,
     destroy_intr_chan |-> 26]

(* A stub of the client: what it gives to clnt_call.                       *)
clnt(prog, name, xdr_argument, xdr_result) ==
    [prog |-> prog, name |-> name, proc |-> Procedure[name],
     arg |-> xdr_argument, res |-> xdr_result]

device_abort_1 == clnt(DEVICE_ASYNC, "device_abort", xdr_Device_Link, xdr_Device_Error)
create_link_1 ==
    clnt(DEVICE_CORE, "create_link", xdr_Create_LinkParms, xdr_Create_LinkResp)
device_write_1 ==
    clnt(DEVICE_CORE, "device_write", xdr_Device_WriteParms, xdr_Device_WriteResp)
device_read_1 ==
    clnt(DEVICE_CORE, "device_read", xdr_Device_ReadParms, xdr_Device_ReadResp)
device_readstb_1 ==
    clnt(DEVICE_CORE, "device_readstb", xdr_Device_GenericParms, xdr_Device_ReadStbResp)
device_trigger_1 ==
    clnt(DEVICE_CORE, "device_trigger", xdr_Device_GenericParms, xdr_Device_Error)
device_clear_1 ==
    clnt(DEVICE_CORE, "device_clear", xdr_Device_GenericParms, xdr_Device_Error)
device_remote_1 ==
    clnt(DEVICE_CORE, "device_remote", xdr_Device_GenericParms, xdr_Device_Error)
device_local_1 ==
    clnt(DEVICE_CORE, "device_local", xdr_Device_GenericParms, xdr_Device_Error)
device_lock_1 ==
    clnt(DEVICE_CORE, "device_lock", xdr_Device_LockParms, xdr_Device_Error)
device_unlock_1 ==
    clnt(DEVICE_CORE, "device_unlock", xdr_Device_Link, xdr_Device_Error)
device_enable_srq_1 ==
    clnt(DEVICE_CORE, "device_enable_srq", xdr_Device_EnableSrqParms, xdr_Device_Error)
device_docmd_1 ==
    clnt(DEVICE_CORE, "device_docmd", xdr_Device_DocmdParms, xdr_Device_DocmdResp)
destroy_link_1 ==
    clnt(DEVICE_CORE, "destroy_link", xdr_Device_Link, xdr_Device_Error)
create_intr_chan_1 ==
    clnt(DEVICE_CORE, "create_intr_chan", xdr_Device_RemoteFunc, xdr_Device_Error)
destroy_intr_chan_1 ==
    clnt(DEVICE_CORE, "destroy_intr_chan", xdr_void, xdr_Device_Error)

Stubs == {device_abort_1, create_link_1, device_write_1, device_read_1,
          device_readstb_1, device_trigger_1, device_clear_1, device_remote_1,
          device_local_1, device_lock_1, device_unlock_1, device_enable_srq_1,
          device_docmd_1, destroy_link_1, create_intr_chan_1,
          destroy_intr_chan_1}

(* The cases of the dispatch functions of the server: local is the service *)
(* function, without its ending _1_svc.                                    *)
svc(local, xdr_argument, xdr_result) ==
    [proc |-> Procedure[local], arg |-> xdr_argument, res |-> xdr_result,
     local |-> local]

device_async_1 ==
    {svc("device_abort", xdr_Device_Link, xdr_Device_Error)}

device_core_1 ==
    {svc("create_link", xdr_Create_LinkParms, xdr_Create_LinkResp),
     svc("device_write", xdr_Device_WriteParms, xdr_Device_WriteResp),
     svc("device_read", xdr_Device_ReadParms, xdr_Device_ReadResp),
     svc("device_readstb", xdr_Device_GenericParms, xdr_Device_ReadStbResp),
     svc("device_trigger", xdr_Device_GenericParms, xdr_Device_Error),
     svc("device_clear", xdr_Device_GenericParms, xdr_Device_Error),
     svc("device_remote", xdr_Device_GenericParms, xdr_Device_Error),
     svc("device_local", xdr_Device_GenericParms, xdr_Device_Error),
     svc("device_lock", xdr_Device_LockParms, xdr_Device_Error),
     svc("device_unlock", xdr_Device_Link, xdr_Device_Error),
     svc("device_enable_srq", xdr_Device_EnableSrqParms, xdr_Device_Error),
     svc("device_docmd", xdr_Device_DocmdParms, xdr_Device_DocmdResp),
     svc("destroy_link", xdr_Device_Link, xdr_Device_Error),
     svc("create_intr_chan", xdr_Device_RemoteFunc, xdr_Device_Error),
     svc("destroy_intr_chan", xdr_void, xdr_Device_Error)}

Cases(prog) == IF prog = DEVICE_ASYNC THEN device_async_1 ELSE device_core_1

Case(prog, proc) == {c \in Cases(prog) : c.proc = proc}

-----------------------------------------------------------------------------
Programs == {DEVICE_ASYNC, DEVICE_CORE}
Protocols == {"udp", "tcp"}

Init ==
    /\ portmap = [p \in Programs \X Protocols |-> "none"]
    /\ server = "down" /\ step = 0 /\ transp = {}
    /\ request = None /\ mine = FALSE /\ reply = None
    /\ rq = None /\ argument = None /\ blocks = {} /\ refused = FALSE
    /\ outcome = "none"
    /\ stub = None /\ arg = None /\ stat = "idle" /\ clnt_res = None
    /\ given = None

-----------------------------------------------------------------------------
(* main() *)

Registrations == << <<DEVICE_ASYNC, "udp">>, <<DEVICE_CORE, "udp">>,
                    <<DEVICE_ASYNC, "tcp">>, <<DEVICE_CORE, "tcp">> >>

(* Before svc_run.                                                         *)
Starting == {"down", "unset", "main"}

(* The process ends: its memory and its transports go with it, what it has *)
(* registered stays in the portmapper.                                     *)
Exit ==
    /\ server' = "down" /\ step' = 0 /\ transp' = {}
    /\ portmap' = [p \in DOMAIN portmap |->
                      IF portmap[p] = "none" THEN "none" ELSE "stale"]
    /\ rq' = None /\ argument' = None /\ blocks' = {} /\ refused' = FALSE
    /\ request' = None /\ reply' = None /\ outcome' = "none" /\ mine' = FALSE
    /\ UNCHANGED <<call, stat, clnt_res, given>>

(* What pmap_unset(prog), for all protocols, makes of the registrations.   *)
Unset(prog, removed) ==
    [p \in DOMAIN portmap |->
        IF p[1] # prog \/ portmap[p] = "none" THEN portmap[p]
        ELSE IF removed THEN "none" ELSE "kept"]

(* Mutant: both calls name the asynchronous program.                       *)
pmap_unset_AsyncTwice(prog, removed) ==
    /\ server = IF prog = DEVICE_ASYNC THEN "down" ELSE "unset"
    /\ server' = IF prog = DEVICE_ASYNC THEN "unset" ELSE "main"
    /\ portmap' = Unset(DEVICE_ASYNC, removed)
    /\ UNCHANGED <<step, transp, request, mine, dispatch, outcome, reply, call,
                   stat, clnt_res, given>>

(* First DEVICE_ASYNC, then DEVICE_CORE.  The portmapper need not remove   *)
(* what another user has registered, and need not answer; main() does not  *)
(* look at the result.                                                     *)
pmap_unset(prog, removed) ==
    /\ server = IF prog = DEVICE_ASYNC THEN "down" ELSE "unset"
    /\ server' = IF prog = DEVICE_ASYNC THEN "unset" ELSE "main"
    /\ portmap' = Unset(prog, removed)
    /\ UNCHANGED <<step, transp, request, mine, dispatch, outcome, reply, call,
                   stat, clnt_res, given>>

(* svcudp_create before the first registration, svctcp_create before the   *)
(* third.                                                                  *)
svc_create ==
    /\ server = "main" /\ Registrations[step + 1][2] \notin transp
    /\ transp' = transp \cup {Registrations[step + 1][2]}
    /\ UNCHANGED <<portmap, server, step, request, mine, dispatch, outcome,
                   reply, call, stat, clnt_res, given>>

(* The portmapper takes a registration only if there is none yet.          *)
svc_register ==
    /\ server = "main" /\ Registrations[step + 1][2] \in transp
    /\ portmap[Registrations[step + 1]] = "none"
    /\ portmap' = [portmap EXCEPT ![Registrations[step + 1]] = "own"]
    /\ IF step + 1 = Len(Registrations)
         THEN server' = "serving" /\ step' = 0
         ELSE step' = step + 1 /\ UNCHANGED server
    /\ UNCHANGED <<transp, request, mine, dispatch, outcome, reply, call, stat,
                   clnt_res, given>>

(* svcudp_create, svctcp_create or svc_register fails, the last because    *)
(* the portmapper refuses or does not answer: exit(1).                     *)
main_failed == server = "main" /\ Exit

(* The process is killed, or svc_run returns.                              *)
killed == server \notin {"down", "main"} /\ Exit

-----------------------------------------------------------------------------
(* device_async_1 and device_core_1: the dispatch of a request.            *)

(* The answer to the client's own call; the others' are not looked at.     *)
Answer(a) == reply' = IF mine THEN a ELSE reply

(* svc_sendreply for NULLPROC, svcerr_noproc, svcerr_decode: the function  *)
(* returns at once.                                                        *)
Answered(how) ==
    /\ outcome' = how
    /\ Answer([ok |-> how = "SUCCESS", units |-> <<>>])
    /\ mine' = FALSE
    /\ request' = None
    /\ UNCHANGED <<process, rq, argument, refused, call, stat, clnt_res, given>>

svc_null ==
    /\ server = "serving" /\ request # None /\ request.proc = 0
    /\ Answered("SUCCESS")
    /\ blocks' = {}

svc_noproc ==
    /\ server = "serving" /\ request # None /\ request.proc # 0
    /\ Case(request.prog, request.proc) = {}
    /\ Answered("PROC_UNAVAIL")
    /\ blocks' = {}

(* What could be decoded of the arguments is not freed.                    *)
svc_decode_error(room) ==
    /\ server = "serving" /\ request # None
    /\ \E c \in Case(request.prog, request.proc) :
          LET stream == Decode(c.arg, request.units, room)
          IN  ~stream.ok /\ blocks' = stream.blocks
    /\ Answered("GARBAGE_ARGS")

svc_getargs(room) ==
    /\ server = "serving" /\ request # None
    /\ \E c \in Case(request.prog, request.proc) :
          LET stream == Decode(c.arg, request.units, room)
          IN  /\ stream.ok
              /\ rq' = c
              /\ argument' = stream.obj
              /\ blocks' = stream.blocks
    /\ server' = "local"
    /\ request' = None /\ outcome' = "none"
    /\ UNCHANGED <<portmap, step, transp, mine, refused, reply, call, stat,
                   clnt_res, given>>

(* The service function has returned; the argument is only freed now.      *)
Returned ==
    /\ server' = "freeargs"
    /\ argument' = None
    /\ mine' = FALSE
    /\ UNCHANGED <<portmap, step, transp, request, rq, blocks, call, stat,
                   clnt_res>>

(* It has stored a result, which is sent.  If that fails,                  *)
(* svcerr_systemerr answers.                                               *)
local_true(res, sent) ==
    /\ server = "local"
    /\ refused' = FALSE
    /\ given' = IF mine THEN [local |-> rq.local, arg |-> argument, res |-> res]
                        ELSE given
    /\ outcome' = IF sent THEN "SUCCESS" ELSE "SYSTEM_ERR"
    /\ Answer([ok |-> sent, units |-> Encode(rq.res, res, FALSE).units])
    /\ Returned

(* It returns FALSE: nobody answers.                                       *)
local_false ==
    /\ server = "local"
    /\ refused' = TRUE
    /\ outcome' = "none"
    /\ Returned
    /\ UNCHANGED <<reply, given>>

(* Mutant: the arguments are not freed.                                    *)
svc_freeargs_None ==
    /\ server = "freeargs"
    /\ server' = "freeresult"
    /\ UNCHANGED <<portmap, step, transp, request, mine, rq, argument, refused,
                   blocks, outcome, reply, call, stat, clnt_res, given>>

svc_freeargs ==
    /\ server = "freeargs"
    /\ blocks' = {}
    /\ server' = "freeresult"
    /\ UNCHANGED <<portmap, step, transp, request, mine, rq, argument, refused,
                   outcome, reply, call, stat, clnt_res, given>>

(* "unable to free arguments": exit(1).                                    *)
svc_freeargs_failed == server = "freeargs" /\ Exit

svc_freeresult ==
    /\ server = "freeresult"
    /\ server' = "serving"
    /\ rq' = None /\ refused' = FALSE
    /\ UNCHANGED <<portmap, step, transp, request, mine, argument, blocks,
                   outcome, reply, call, stat, clnt_res, given>>

(* The result was not set and its pointer is freed.                        *)
svc_freeresult_wild ==
    /\ server = "freeresult" /\ refused /\ PointerFields(rq.res) # {}
    /\ Exit

-----------------------------------------------------------------------------
(* The client: clnt_call.                                                  *)

clnt_call(st, a, room) ==
    /\ server = "serving" /\ request = None
    /\ stat = "idle"
    /\ LET stream == Encode(st.arg, a, room)
       IN  IF stream.ok
             THEN /\ request' = [prog |-> st.prog, proc |-> st.proc,
                                 units |-> stream.units]
                  /\ mine' = TRUE
                  /\ stat' = "wait"
             ELSE /\ stat' = "RPC_CANTENCODEARGS"
                  /\ UNCHANGED <<request, mine>>
    /\ stub' = st /\ arg' = a
    /\ UNCHANGED <<process, dispatch, outcome, reply, clnt_res, given>>

clnt_answer ==
    /\ stat = "wait" /\ reply # None
    /\ LET stream == Decode(stub.res, reply.units, FALSE)
       IN  IF reply.ok /\ stream.ok
             THEN stat' = "RPC_SUCCESS" /\ clnt_res' = stream.obj
             ELSE stat' = "RPC_FAILED" /\ UNCHANGED clnt_res
    /\ reply' = None
    /\ UNCHANGED <<process, request, mine, dispatch, outcome, call, given>>

(* 25 seconds; a late answer is dropped.                                   *)
clnt_timeout ==
    /\ stat = "wait"
    /\ stat' = "RPC_TIMEDOUT"
    /\ reply' = None /\ mine' = FALSE
    /\ UNCHANGED <<process, request, dispatch, outcome, call, clnt_res, given>>

(* The caller has used the result.                                         *)
clnt_return ==
    /\ stat \notin {"idle", "wait"}
    /\ stat' = "idle"
    /\ stub' = None /\ arg' = None /\ clnt_res' = None /\ given' = None
    /\ UNCHANGED <<process, request, mine, dispatch, outcome, reply>>

(* Another client: NULLPROC, a procedure that is not there, or arguments   *)
(* that end too early.                                                     *)
OtherRequests ==
    {[prog |-> p, proc |-> n, units |-> <<>>] : p \in Programs, n \in {0, 2}}
    \cup UNION {{[prog |-> st.prog, proc |-> st.proc,
                  units |-> Front(Encode(st.arg, a, FALSE).units)] :
                    a \in {b \in st.arg.type : Encode(st.arg, b, FALSE).ok}} :
                st \in Stubs \ {destroy_intr_chan_1}}

other_call ==
    /\ server = "serving" /\ request = None /\ stat = "idle"
    /\ request' \in OtherRequests
    /\ mine' = FALSE
    /\ UNCHANGED <<process, dispatch, outcome, reply, call, stat, clnt_res,
                   given>>

-----------------------------------------------------------------------------
Main ==
    \/ \E prog \in Programs, removed \in BOOLEAN :
          pmap_unset(prog, removed)
    \/ svc_create \/ svc_register \/ main_failed \/ killed

Server ==
    \/ svc_null \/ svc_noproc
    \/ \E room \in BOOLEAN : svc_decode_error(room) \/ svc_getargs(room)
    \/ server = "local" /\ \E res \in rq.res.type, sent \in BOOLEAN : local_true(res, sent)
    \/ local_false
    \/ svc_freeargs \/ svc_freeargs_failed \/ svc_freeresult \/ svc_freeresult_wild

Client ==
    \/ \E st \in Stubs, room \in BOOLEAN : \E a \in st.arg.type : clnt_call(st, a, room)
    \/ clnt_answer \/ clnt_timeout \/ clnt_return

Next == Main \/ Server \/ Client \/ other_call

Spec == Init /\ [][Next]_vars

-----------------------------------------------------------------------------
(* The same value for C: equal, or both true if it is a bool_t.            *)
Same(xdr, f, v, w) ==
    IF <<f, "bool">> \in ToSet(xdr.fields) THEN v = 0 <=> w = 0 ELSE v = w

(* A call that succeeds has called the service function of its stub with   *)
(* its argument and returned that function's result, field for field,      *)
(* whichever of the code's copies of the field order encoded and decoded   *)
(* them: the tables of vxi11core_clnt.c and vxi11core_svc.c agree.         *)
AnswerCorrect ==
    stat = "RPC_SUCCESS" =>
        /\ given # None
        /\ given.local = stub.name
        /\ \A f \in DOMAIN arg : Same(stub.arg, f, arg[f], given.arg[f])
        /\ clnt_res = given.res

(* Between requests the server holds no memory of decoded arguments, of    *)
(* whatever the function made of them; the exception is a request that     *)
(* could not be decoded (svcerr_decode returns without svc_freeargs).      *)
ServerMemory == server = "serving" /\ blocks # {} => outcome = "GARBAGE_ARGS"

(* A server that was killed, or gave up in main(), can be started again.   *)
(* What its predecessor left in the portmapper refuses a registration only *)
(* if this start's pmap_unset of that program could not remove it, and     *)
(* however much of it stayed, a server that serves is reached through all  *)
(* four: it never runs with a part of its registrations.                   *)
RestartServes ==
    /\ server = "main" => portmap[Registrations[step + 1]] \in {"none", "kept"}
    /\ server \notin Starting => \A p \in DOMAIN portmap : portmap[p] = "own"
=============================================================================
