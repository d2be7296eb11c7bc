---------------------------- MODULE Vxi11Connect ----------------------------
(***************************************************************************)
(* One call of vxi11_connect (vxi11.c).  The RPC library cannot bound the  *)
(* time of a connect, so the call starts a thread that connects (the       *)
(* worker) and joins it with a timed join, which starts a thread of its    *)
(* own (the waiter) that does the join and reports to a condition          *)
(* variable.  At the deadline the calling thread cancels the others.       *)
(*                                                                         *)
(* Cancellation is deferred, the default: a thread ends at a cancellation  *)
(* point, of which pthread_join and the RPC calls are some and             *)
(* pthread_mutex_lock, pthread_cond_signal and malloc are none.            *)
(***************************************************************************)
EXTENDS Deadline

CONSTANT
    CreateMayFail   \* TRUE: clock_gettime and pthread_create can fail

ASSUME CreateAssumption == CreateMayFail \in BOOLEAN

VARIABLES
    timeout,               \* the argument, in milliseconds
    now,                   \* what clock_gettime returns
    timeout_tv,            \* the deadline
    main, waiter, worker,  \* where each thread is
    cancelled,             \* threads with a cancellation request pending
    mtx,                   \* holder of args.mtx
    joined,                \* args.joined
    waitret,               \* what pthread_cond_timedwait returned last
    expired,               \* the deadline has passed
    status,                \* *status, written by the worker
    thread_status,         \* what thread_status points to
    reaped,                \* how often the worker was joined
    rpc_client,            \* data->rpc_client is set
    link,                  \* the instrument's answer to create_link
    held,                  \* resources allocated and not released
    ret                    \* return value of vxi11_connect

clock   == <<timeout, now, timeout_tv>>
threads == <<main, waiter, worker, cancelled>>
sync    == <<mtx, joined, waitret, expired>>
result  == <<status, thread_status, reaped>>
conn    == <<rpc_client, link, held>>
vars    == <<clock, threads, sync, result, conn, ret>>

MainPCs   == {"start", "timedjoin", "waiting", "relock", "cancel_waiter",
              "join_waiter", "cancel_worker", "join_worker", "read_status",
              "returned", "crashed"}
WaiterPCs == {"none", "join", "lock", "signal", "ended"}
WorkerPCs == {"none", "start", "clnt_create", "create_link", "exit", "ended"}

TypeOK ==
    /\ timeout \in Int
    /\ now \in [sec : Nat, nsec : Nat] /\ now.nsec < 1000000000
    /\ timeout_tv \in [sec : Int, nsec : Int]
    /\ main \in MainPCs
    /\ waiter \in WaiterPCs
    /\ worker \in WorkerPCs
    /\ cancelled \subseteq {"waiter", "worker"}
    /\ mtx \in {"none", "main"}
    /\ joined \in BOOLEAN
    /\ waitret \in {"none", "0", "ETIMEDOUT", "EINVAL"}
    /\ expired \in BOOLEAN
    /\ status \in {"none", "0", "-1"}
    /\ thread_status \in {"none", "status", "PTHREAD_CANCELED"}
    /\ reaped \in 0 .. 1
    /\ rpc_client \in BOOLEAN
    /\ link \in {"none", "granted", "refused"}
    /\ held \subseteq {"status", "client"}
    /\ ret \in {"none", "0", "-1"}

Init ==
    /\ timeout \in Timeouts
    /\ now \in [sec : Seconds, nsec : Nanos]
    /\ timeout_tv = now
    /\ main = "start" /\ waiter = "none" /\ worker = "none"
    /\ cancelled = {}
    /\ mtx = "none" /\ joined = FALSE /\ waitret = "none" /\ expired = FALSE
    /\ status = "none" /\ thread_status = "none" /\ reaped = 0
    /\ rpc_client = FALSE /\ link = "none" /\ held = {}
    /\ ret = "none"

-----------------------------------------------------------------------------
(* vxi11_connect and _pthread_timedjoin, in the calling thread.            *)

(* clock_gettime or the first pthread_create fails.                        *)
vxi11_connect_refused ==
    /\ CreateMayFail
    /\ main = "start"
    /\ main' = "returned"
    /\ ret' = "-1"
    /\ UNCHANGED <<clock, waiter, worker, cancelled, sync, result, conn>>

(* The deadline is computed and the worker started.                        *)
vxi11_connect_start ==
    /\ main = "start"
    /\ timeout_tv' = Deadline(now, timeout)
    /\ main' = "timedjoin"
    /\ worker' = "start"
    /\ UNCHANGED <<timeout, now, waiter, cancelled, sync, result, conn, ret>>

(* The waiter is created with args.mtx held; the first call of             *)
(* pthread_cond_timedwait releases it, if it accepts the deadline.         *)
timedjoin_create ==
    /\ main = "timedjoin"
    /\ main' = "waiting"
    /\ waiter' = "join"
    /\ mtx' = IF ValidTimespec(timeout_tv) THEN "none" ELSE "main"
    /\ UNCHANGED <<clock, worker, cancelled, joined, waitret, expired, result,
                   conn, ret>>

(* EINVAL at once, with args.mtx held: the waiter cannot report, and the   *)
(* loop goes on.                                                           *)
cond_timedwait_einval ==
    /\ main = "waiting"
    /\ ~ValidTimespec(timeout_tv)
    /\ waitret' = "EINVAL"
    /\ UNCHANGED <<clock, threads, mtx, joined, expired, result, conn, ret>>

(* pthread_create fails and leaves tmp uninitialised: pthread_cancel(tmp)  *)
(* and pthread_join(tmp) crash, or fail without effect.                    *)
timedjoin_no_waiter ==
    /\ CreateMayFail
    /\ main = "timedjoin"
    /\ main' \in {"crashed", "cancel_worker"}
    /\ mtx' = "main"
    /\ UNCHANGED <<clock, waiter, worker, cancelled, joined, waitret, expired,
                   result, conn, ret>>

(* pthread_cond_timedwait stops waiting; it returns with args.mtx held.    *)
cond_timedwait_timeout ==
    /\ main = "waiting"
    /\ ValidTimespec(timeout_tv)
    /\ expired
    /\ main' = "relock"
    /\ waitret' = "ETIMEDOUT"
    /\ UNCHANGED <<clock, waiter, worker, cancelled, mtx, joined, expired, result,
                   conn, ret>>

cond_timedwait_spurious ==
    /\ main = "waiting"
    /\ ValidTimespec(timeout_tv)
    /\ ~expired
    /\ main' = "relock"
    /\ waitret' = "0"
    /\ UNCHANGED <<clock, waiter, worker, cancelled, mtx, joined, expired, result,
                   conn, ret>>

(* Mutant: a wakeup is taken for the end of the thread.                    *)
WaitOver_AnyWakeup == TRUE

(* Mutant: the loop goes on after a timeout.                               *)
WaitOver_JoinedOnly == joined

(* The loop condition of _pthread_timedjoin.                               *)
WaitOver == joined \/ waitret = "ETIMEDOUT"

(* The loop ends with args.mtx held, and nothing after it unlocks.         *)
cond_timedwait_return ==
    /\ main = "relock"
    /\ mtx = "none"
    /\ IF WaitOver THEN main' = "cancel_waiter" /\ mtx' = "main"
                   ELSE main' = "waiting" /\ UNCHANGED mtx
    /\ UNCHANGED <<clock, waiter, worker, cancelled, joined, waitret, expired,
                   result, conn, ret>>

timedjoin_cancel ==
    /\ main = "cancel_waiter"
    /\ cancelled' = cancelled \cup {"waiter"}
    /\ main' = "join_waiter"
    /\ UNCHANGED <<clock, waiter, worker, sync, result, conn, ret>>

(* Mutant: a report that arrives with the timeout is dropped.              *)
timedjoin_join_RetOnly ==
    /\ main = "join_waiter"
    /\ waiter = "ended"
    /\ main' = IF waitret # "ETIMEDOUT" THEN "read_status" ELSE "cancel_worker"
    /\ UNCHANGED <<clock, waiter, worker, cancelled, sync, result, conn, ret>>

(* _pthread_timedjoin returns 0 if the waiter reported, ETIMEDOUT if not.  *)
timedjoin_join ==
    /\ main = "join_waiter"
    /\ waiter = "ended"
    /\ main' = IF joined THEN "read_status" ELSE "cancel_worker"
    /\ UNCHANGED <<clock, waiter, worker, cancelled, sync, result, conn, ret>>

vxi11_connect_cancel ==
    /\ main = "cancel_worker"
    /\ cancelled' = cancelled \cup {"worker"}
    /\ main' = "join_worker"
    /\ UNCHANGED <<clock, waiter, worker, sync, result, conn, ret>>

(* Mutant: the call returns while the cancelled worker may still run.      *)
vxi11_connect_join_NoWait ==
    /\ main = "join_worker"
    /\ main' = "returned"
    /\ ret' = "-1"
    /\ UNCHANGED <<clock, waiter, worker, cancelled, sync, result, conn>>

(* "Wait for child thread to end before returning".                        *)
vxi11_connect_join ==
    /\ main = "join_worker"
    /\ worker = "ended"
    /\ reaped' = reaped + 1
    /\ main' = "returned"
    /\ ret' = "-1"
    /\ UNCHANGED <<clock, waiter, worker, cancelled, sync, status, thread_status,
                   conn>>

(* return *thread_status                                                   *)
vxi11_connect_status ==
    /\ main = "read_status"
    /\ main' = "returned"
    /\ ret' = status
    /\ UNCHANGED <<clock, waiter, worker, cancelled, sync, result, conn>>

-----------------------------------------------------------------------------
(* _pthread_waiter.                                                        *)

(* The worker's result is stored through args->res.                        *)
waiter_join ==
    /\ waiter = "join"
    /\ worker = "ended"
    /\ waiter' = "lock"
    /\ reaped' = reaped + 1
    /\ thread_status' = IF status = "none" THEN "PTHREAD_CANCELED"
                                           ELSE "status"
    /\ UNCHANGED <<clock, main, worker, cancelled, sync, status, conn, ret>>

(* If the worker has ended too, pthread_join may do either.                *)
waiter_cancelled ==
    /\ waiter = "join"
    /\ "waiter" \in cancelled
    /\ waiter' = "ended"
    /\ UNCHANGED <<clock, main, worker, cancelled, sync, result, conn, ret>>

(* Lock, set joined, unlock.                                               *)
waiter_report ==
    /\ waiter = "lock"
    /\ mtx = "none"
    /\ joined' = TRUE
    /\ waiter' = "signal"
    /\ UNCHANGED <<clock, main, worker, cancelled, mtx, waitret, expired, result,
                   conn, ret>>

waiter_signal ==
    /\ waiter = "signal"
    /\ waiter' = "ended"
    /\ IF main = "waiting" THEN main' = "relock" /\ waitret' = "0"
                           ELSE UNCHANGED <<main, waitret>>
    /\ UNCHANGED <<clock, worker, cancelled, mtx, joined, expired, result, conn, ret>>

-----------------------------------------------------------------------------
(* thread_vxi11_connect and _vxi11_connect.                                *)

worker_start ==
    /\ worker = "start"
    /\ held' = held \cup {"status"}
    /\ worker' = "clnt_create"
    /\ UNCHANGED <<clock, main, waiter, cancelled, sync, result, rpc_client, link, ret>>

clnt_create_ok ==
    /\ worker = "clnt_create"
    /\ rpc_client' = TRUE
    /\ held' = held \cup {"client"}
    /\ worker' = "create_link"
    /\ UNCHANGED <<clock, main, waiter, cancelled, sync, result, link, ret>>

clnt_create_failed ==
    /\ worker = "clnt_create"
    /\ status' = "-1"
    /\ worker' = "exit"
    /\ UNCHANGED <<clock, main, waiter, cancelled, sync, thread_status, reaped, conn,
                   ret>>

(* The call succeeded; link_resp.error, in which the instrument refuses a  *)
(* link, is not looked at.                                                 *)
create_link_ok ==
    /\ worker = "create_link"
    /\ link' \in {"granted", "refused"}
    /\ status' = "0"
    /\ worker' = "exit"
    /\ UNCHANGED <<clock, main, waiter, cancelled, sync, thread_status, reaped,
                   rpc_client, held, ret>>

(* Mutant: error_link does not destroy the client.                         *)
create_link_failed_NoDestroy ==
    /\ worker = "create_link"
    /\ status' = "-1"
    /\ worker' = "exit"
    /\ UNCHANGED <<clock, main, waiter, cancelled, sync, thread_status, reaped, conn,
                   ret>>

(* error_link: clnt_destroy leaves the stale pointer in data.              *)
create_link_failed ==
    /\ worker = "create_link"
    /\ held' = held \ {"client"}
    /\ status' = "-1"
    /\ worker' = "exit"
    /\ UNCHANGED <<clock, main, waiter, cancelled, sync, thread_status, reaped,
                   rpc_client, link, ret>>

worker_exit ==
    /\ worker = "exit"
    /\ worker' = "ended"
    /\ UNCHANGED <<clock, main, waiter, cancelled, sync, result, conn, ret>>

(* No cleanup handlers: what the calls hold stays held.  clnt_create may   *)
(* or may not have opened its socket by then.                              *)
worker_cancelled ==
    /\ worker \in {"clnt_create", "create_link"}
    /\ "worker" \in cancelled
    /\ worker' = "ended"
    /\ \/ UNCHANGED held
       \/ worker = "clnt_create" /\ held' = held \cup {"client"}
    /\ UNCHANGED <<clock, main, waiter, cancelled, sync, result, rpc_client, link, ret>>

-----------------------------------------------------------------------------
(* The deadline passes.                                                    *)
Expire ==
    /\ ~expired
    /\ expired' = TRUE
    /\ UNCHANGED <<clock, threads, mtx, joined, waitret, result, conn, ret>>

Main ==
    \/ vxi11_connect_refused \/ vxi11_connect_start
    \/ timedjoin_create      \/ timedjoin_no_waiter
    \/ cond_timedwait_einval
    \/ cond_timedwait_timeout \/ cond_timedwait_return
    \/ timedjoin_cancel      \/ timedjoin_join
    \/ vxi11_connect_cancel  \/ vxi11_connect_join
    \/ vxi11_connect_status

Waiter == waiter_join \/ waiter_cancelled \/ waiter_report \/ waiter_signal

(* What the worker does without the network.                               *)
Worker == worker_start \/ worker_exit \/ worker_cancelled

(* The answers, and failures, of the instrument and of the network.        *)
Network ==
    \/ clnt_create_ok \/ clnt_create_failed
    \/ create_link_ok \/ create_link_failed

Next == Main \/ Waiter \/ Worker \/ Network \/ Expire \/ cond_timedwait_spurious

Spec == Init /\ [][Next]_vars

(* Every thread is scheduled and time passes; an instrument need not ever  *)
(* answer, which is what the timeout is for.                               *)
FairSpec ==
    /\ Spec
    /\ WF_vars(Main) /\ WF_vars(Waiter) /\ WF_vars(Worker)
    /\ WF_vars(Expire)

-----------------------------------------------------------------------------
(* The waiter uses args of _pthread_timedjoin's frame, the worker args of  *)
(* vxi11_connect's frame and the data block that lxi_connect frees when    *)
(* the call fails: each has ended before what it uses disappears.          *)
ThreadsOutlived ==
    /\ main \in {"cancel_worker", "join_worker", "read_status", "returned"} =>
          waiter \in {"none", "ended"}
    /\ main \in {"read_status", "returned"} => worker \in {"none", "ended"}

(* The worker is joined once, by the waiter or, after a timeout, by the    *)
(* calling thread: joining it again would be undefined.  And vxi11_connect *)
(* dereferences thread_status only when the worker ended by itself: a      *)
(* cancelled thread's result is no pointer.                                *)
JoinedOnce ==
    /\ main \in {"cancel_worker", "join_worker"} => reaped = 0
    /\ main = "read_status" => thread_status = "status" /\ "status" \in held

(* A successful connect leaves an RPC client that lxi_send can use, and    *)
(* the instrument has answered create_link (with a link or a refusal: the  *)
(* code does not tell).  A failed one leaves no client behind, as          *)
(* lxi_connect frees the only pointer to it: the exception is a connect    *)
(* cut off by the deadline (or by a failed pthread_create), whose worker   *)
(* had its client already.                                                 *)
ClientAccountedFor ==
    /\ ret = "0" => rpc_client /\ "client" \in held /\ link # "none"
    /\ ret = "-1" /\ "client" \in held => "worker" \in cancelled

(* The call can hang when the worker ended just before the deadline, so    *)
(* that the waiter waits for args.mtx, past its last cancellation point,   *)
(* while the calling thread joins it, holding it.                          *)
LockCycle ==
    /\ main = "join_waiter" /\ mtx = "main"
    /\ waiter = "lock"

(* And it spins for ever on a deadline that pthread_cond_timedwait rejects *)
(* (vxi11.c:118), which only a negative timeout gives: see DeadlineCorrect.*)
Spin == main = "waiting" /\ mtx = "main"

(* Every call returns, crashes on the uninitialised tmp, runs into the     *)
(* cycle or spins, even if the instrument never answers.                   *)
ReturnsOrHangs == <>(main \in {"returned", "crashed"} \/ LockCycle \/ Spin)

(* The cycle takes a deadline that passes while the worker ends: a connect *)
(* that is answered or refused in time never hangs.  Spinning takes an     *)
(* invalid deadline.                                                       *)
HangCauses ==
    /\ LockCycle => expired /\ waitret = "ETIMEDOUT"
    /\ Spin => ~ValidTimespec(timeout_tv)

(* A timeout that is not negative gives a deadline that                    *)
(* pthread_cond_timedwait accepts, and a timeval that select accepts.      *)
ValidForNonNegative ==
    main # "start" /\ timeout >= 0 /\ ret = "none" =>
        ValidTimespec(timeout_tv) /\ ValidTimeval(Duration(timeout))

(* The deadline is the given number of milliseconds from now: the whole    *)
(* seconds, a carry of at most one, and the rest in the nanoseconds.       *)
DeadlineIsTimeoutFromNow ==
    main # "start" /\ timeout >= 0 /\ ret = "none" =>
        LET carried == timeout_tv.sec - now.sec - timeout \div 1000 IN
        /\ carried \in {0, 1}
        /\ timeout_tv.nsec + carried * 1000000000 =
              now.nsec + (timeout % 1000) * 1000000

(* A negative timeout whose fraction of a second exceeds the one of the    *)
(* clock gives an invalid deadline, and no other does.                     *)
InvalidOnlyForNegative ==
    main # "start" /\ ret = "none" =>
        (~ValidTimespec(timeout_tv) <=>
            timeout < 0 /\ now.nsec < ((-timeout) % 1000) * 1000000)

(* The conversion of timeouts, at the lines 198-204 of vxi11.c and where   *)
(* tcp.c and the others make a timeval.                                    *)
DeadlineCorrect ==
    ValidForNonNegative /\ DeadlineIsTimeoutFromNow /\ InvalidOnlyForNegative

-----------------------------------------------------------------------------
(* NEWS: "This new implementation will respect the timeout for all cases." *)
(* Whatever the instrument does, the call returns (after the deadline).    *)
ConnectReturns == <>(main = "returned")
=============================================================================
