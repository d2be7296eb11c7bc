------------------------- MODULE Vxi11ConnectProofs -------------------------
(***************************************************************************)
(* Proofs about vxi11_connect: the conversion of its timeout for every     *)
(* timeout and clock, and its three threads in every interleaving.         *)
(***************************************************************************)
EXTENDS Vxi11Connect, TLAPS

(* Which threads exist, by where the calling thread is.                    *)
ThreadInv ==
    /\ main \in {"start", "timedjoin"} => waiter = "none"
    /\ main = "start" => worker = "none"
    /\ worker = "none" => main \in {"start", "returned"} /\ waiter = "none"
    /\ waiter \in {"join", "lock", "signal"} =>
          main \in {"waiting", "relock", "cancel_waiter", "join_waiter"}
    /\ main \in {"waiting", "relock", "cancel_waiter", "join_waiter"} =>
          waiter # "none"
    /\ main \in {"read_status", "returned"} => worker \in {"none", "ended"}
    /\ "waiter" \in cancelled =>
          main \in {"join_waiter", "cancel_worker", "join_worker",
                    "read_status", "returned"}
    /\ "worker" \in cancelled => main \in {"join_worker", "returned"}
    /\ main = "join_worker" => "worker" \in cancelled

(* What the waiter has reported, and who has joined the worker.            *)
JoinInv ==
    /\ thread_status \in {"none", "status"}
    /\ thread_status = "status" => worker = "ended" /\ status # "none"
    /\ waiter \in {"none", "join"} => thread_status = "none"
    /\ waiter \in {"lock", "signal"} => thread_status = "status"
    /\ joined <=> \/ waiter = "signal"
                  \/ waiter = "ended" /\ thread_status = "status"
    /\ main # "returned" => (reaped = 0 <=> thread_status = "none")
    /\ main \in {"cancel_worker", "join_worker"} => thread_status = "none"
    /\ main = "read_status" => thread_status = "status"

(* What the worker has stored and what it holds.                           *)
WorkerInv ==
    /\ status # "none" => worker \in {"exit", "ended"}
    /\ worker = "exit" => status # "none"
    /\ worker = "ended" /\ status = "none" => "worker" \in cancelled
    /\ worker \notin {"none", "start"} => "status" \in held
    /\ worker \in {"none", "start", "clnt_create"} => "client" \notin held
    /\ worker = "create_link" => rpc_client /\ "client" \in held
    /\ status = "0" => rpc_client /\ "client" \in held /\ link # "none"
    /\ status = "-1" => "client" \notin held

(* What the call returns.                                                  *)
ReturnInv ==
    /\ ret = "none" <=> main # "returned"
    /\ ret = "0" => status = "0"
    /\ ret = "-1" => status = "-1" \/ "worker" \in cancelled \/ worker = "none"

(* The private mutex, and why the loop around the condition variable ends. *)
MutexInv ==
    /\ main \in {"start", "timedjoin", "relock"} => mtx = "none"
    /\ main = "waiting" /\ mtx = "main" =>
          waiter \in {"join", "lock"} /\ ~ValidTimespec(timeout_tv)
    /\ waitret = "ETIMEDOUT" => expired
    /\ main \in {"cancel_waiter", "join_waiter"} =>
          joined \/ waitret = "ETIMEDOUT"

ControlTypes ==
    /\ main \in MainPCs /\ waiter \in WaiterPCs /\ worker \in WorkerPCs
    /\ cancelled \subseteq {"waiter", "worker"}
    /\ mtx \in {"none", "main"}
    /\ joined \in BOOLEAN
    /\ waitret \in {"none", "0", "ETIMEDOUT", "EINVAL"}
    /\ expired \in BOOLEAN
    /\ status \in {"none", "0", "-1"}
    /\ thread_status \in {"none", "status", "PTHREAD_CANCELED"}
    /\ reaped \in 0 .. 1
    /\ rpc_client \in BOOLEAN
    /\ link \in {"none", "granted", "refused"}
    /\ held \subseteq {"status", "client"}
    /\ ret \in {"none", "0", "-1"}

Control ==
    ControlTypes /\ ThreadInv /\ JoinInv /\ WorkerInv /\ ReturnInv /\ MutexInv

(* The clock, and what the deadline is once it is computed.                *)
ClockInv ==
    /\ timeout \in Int
    /\ now \in [sec : Nat, nsec : Nat] /\ now.nsec < 1000000000
    /\ timeout_tv \in [sec : Int, nsec : Int]
    /\ main # "start" /\ ret = "none" => timeout_tv = Deadline(now, timeout)

IInv == Control /\ ClockInv

-----------------------------------------------------------------------------
(* Quotient and remainder of a timeout by 1000.                            *)
LEMMA CDivMod ==
    ASSUME NEW a \in Int
    PROVE  /\ CDiv(a, 1000) \in Int
           /\ CMod(a, 1000) \in Int
           /\ CMod(a, 1000) < 1000
           /\ a >= 0 => /\ CDiv(a, 1000) = a \div 1000 /\ CDiv(a, 1000) >= 0
                        /\ CMod(a, 1000) = a % 1000 /\ CMod(a, 1000) >= 0
           /\ a < 0 => CMod(a, 1000) = -((-a) % 1000) /\ CMod(a, 1000) <= 0
BY SMT DEF CDiv, CMod

(* The deadline, without and with the carry: the sum of the nanoseconds is *)
(* below two seconds, so that one carry is enough.                         *)
LEMMA DeadlineValue ==
    ASSUME NEW n \in [sec : Nat, nsec : Nat], n.nsec < 1000000000,
           NEW t \in Int
    PROVE  /\ Deadline(n, t) \in [sec : Int, nsec : Int]
           /\ Deadline(n, t).nsec < 1000000000
           /\ \/ /\ Deadline(n, t).sec = n.sec + CDiv(t, 1000)
                 /\ Deadline(n, t).nsec = n.nsec + CMod(t, 1000) * 1000000
              \/ /\ Deadline(n, t).sec = n.sec + CDiv(t, 1000) + 1
                 /\ Deadline(n, t).nsec = n.nsec + CMod(t, 1000) * 1000000
                                          - 1000000000
                 /\ Deadline(n, t).nsec >= 0
<1> DEFINE q == CDiv(t, 1000)
           r == CMod(t, 1000)
           sum == n.nsec + r * 1000000
<1>1. q \in Int /\ r \in Int /\ r < 1000 /\ n.sec \in Nat /\ n.nsec \in Nat
  BY SMT, CDivMod
<1>2. sum \in Int /\ sum < 2000000000
  BY SMT, <1>1
<1>3. CarryNeeded(sum) => /\ CMod(sum, 1000000000) = sum - 1000000000
                          /\ sum - 1000000000 >= 0
  BY SMT, <1>2 DEF CarryNeeded, CMod
<1>4. Deadline(n, t) = IF CarryNeeded(sum)
                         THEN [sec |-> n.sec + q + 1,
                               nsec |-> CMod(sum, 1000000000)]
                         ELSE [sec |-> n.sec + q, nsec |-> sum]
  BY SMT DEF Deadline
<1>5. CASE CarryNeeded(sum)
  <2>1. Deadline(n, t) = [sec |-> n.sec + q + 1, nsec |-> sum - 1000000000]
    BY SMT, <1>3, <1>4, <1>5
  <2> HIDE DEF q, sum
  <2>2. /\ n.sec + q + 1 \in Int
        /\ sum - 1000000000 \in Int /\ sum - 1000000000 < 1000000000
    BY SMT, <1>1, <1>2
  <2>3. /\ Deadline(n, t).sec = n.sec + q + 1
        /\ Deadline(n, t).nsec = sum - 1000000000
    BY SMT, <2>1
  <2>4. Deadline(n, t) \in [sec : Int, nsec : Int]
    BY SMT, <2>1, <2>2
  <2>5. Deadline(n, t).nsec >= 0
    BY SMT, <2>3, <1>3, <1>5
  <2> QED
    <3>1. Deadline(n, t).nsec < 1000000000
      BY SMT, <2>2, <2>3
    <3>2. Deadline(n, t).nsec = n.nsec + CMod(t, 1000) * 1000000 - 1000000000
      BY SMT, <1>1, <2>3 DEF sum
    <3>3. Deadline(n, t).sec = n.sec + CDiv(t, 1000) + 1
      BY SMT, <2>3 DEF q
    <3> QED
      BY SMT, <3>1, <3>2, <3>3, <2>4, <2>5
<1>6. CASE ~CarryNeeded(sum)
  <2>1. Deadline(n, t) = [sec |-> n.sec + q, nsec |-> sum]
    BY SMT, <1>4, <1>6
  <2>2. sum < 1000000000
    BY SMT, <1>2, <1>6 DEF CarryNeeded
  <2> HIDE DEF q, sum
  <2>3. n.sec + q \in Int
    BY SMT, <1>1
  <2>4. /\ Deadline(n, t).sec = n.sec + q
        /\ Deadline(n, t).nsec = sum
        /\ Deadline(n, t) \in [sec : Int, nsec : Int]
    BY SMT, <2>1, <2>3, <1>2
  <2> QED
    BY SMT, <2>2, <2>4 DEF q, sum
<1> QED
  BY SMT, <1>5, <1>6

-----------------------------------------------------------------------------
(* One lemma per action, for the control part of the invariant.        *)

(* vxi11_connect fails before it has started a thread.                     *)
LEMMA Vxi11ConnectRefusedInv ==
    ASSUME Control, vxi11_connect_refused
    PROVE  Control'
BY SMT DEF vxi11_connect_refused, clock, sync, result, conn,
          Control, ControlTypes, ThreadInv, JoinInv,
          WorkerInv, ReturnInv, MutexInv, MainPCs, WaiterPCs, WorkerPCs

(* The worker is started and the deadline fixed.                           *)
LEMMA Vxi11ConnectStartInv ==
    ASSUME Control, vxi11_connect_start
    PROVE  Control'
BY SMT DEF vxi11_connect_start, sync, result, conn,
          Control, ControlTypes, ThreadInv, JoinInv,
          WorkerInv, ReturnInv, MutexInv, MainPCs, WaiterPCs, WorkerPCs

(* The waiter is started.                                                  *)
LEMMA TimedjoinCreateInv ==
    ASSUME Control, timedjoin_create
    PROVE  Control'
BY SMT DEF timedjoin_create, clock, result, conn,
          Control, ControlTypes, ThreadInv, JoinInv,
          WorkerInv, ReturnInv, MutexInv, MainPCs, WaiterPCs, WorkerPCs

(* The waiter cannot be started.                                           *)
LEMMA TimedjoinNoWaiterInv ==
    ASSUME Control, timedjoin_no_waiter
    PROVE  Control'
BY SMT DEF timedjoin_no_waiter, clock, result, conn,
          Control, ControlTypes, ThreadInv, JoinInv,
          WorkerInv, ReturnInv, MutexInv, MainPCs, WaiterPCs, WorkerPCs

(* The deadline is rejected.                                               *)
LEMMA CondTimedwaitEinvalInv ==
    ASSUME Control, cond_timedwait_einval
    PROVE  Control'
BY SMT DEF cond_timedwait_einval, clock, threads, result, conn,
          Control, ControlTypes, ThreadInv, JoinInv,
          WorkerInv, ReturnInv, MutexInv, MainPCs, WaiterPCs, WorkerPCs

(* The deadline passes.                                                    *)
LEMMA CondTimedwaitTimeoutInv ==
    ASSUME Control, cond_timedwait_timeout
    PROVE  Control'
BY SMT DEF cond_timedwait_timeout, clock, result, conn,
          Control, ControlTypes, ThreadInv, JoinInv,
          WorkerInv, ReturnInv, MutexInv, MainPCs, WaiterPCs, WorkerPCs

(* A spurious wakeup.                                                      *)
LEMMA CondTimedwaitSpuriousInv ==
    ASSUME Control, cond_timedwait_spurious
    PROVE  Control'
BY SMT DEF cond_timedwait_spurious, clock, result, conn,
          Control, ControlTypes, ThreadInv, JoinInv,
          WorkerInv, ReturnInv, MutexInv, MainPCs, WaiterPCs, WorkerPCs

(* The loop condition is tested.                                           *)
LEMMA CondTimedwaitReturnInv ==
    ASSUME Control, cond_timedwait_return
    PROVE  Control'
BY SMT DEF cond_timedwait_return, clock, result, conn, WaitOver,
          Control, ControlTypes, ThreadInv, JoinInv,
          WorkerInv, ReturnInv, MutexInv, MainPCs, WaiterPCs, WorkerPCs

(* The waiter is cancelled.                                                *)
LEMMA TimedjoinCancelInv ==
    ASSUME Control, timedjoin_cancel
    PROVE  Control'
BY SMT DEF timedjoin_cancel, clock, sync, result, conn,
          Control, ControlTypes, ThreadInv, JoinInv,
          WorkerInv, ReturnInv, MutexInv, MainPCs, WaiterPCs, WorkerPCs

(* The waiter is joined.                                                   *)
LEMMA TimedjoinJoinInv ==
    ASSUME Control, timedjoin_join
    PROVE  Control'
BY SMT DEF timedjoin_join, clock, sync, result, conn,
          Control, ControlTypes, ThreadInv, JoinInv,
          WorkerInv, ReturnInv, MutexInv, MainPCs, WaiterPCs, WorkerPCs

(* The worker is cancelled.                                                *)
LEMMA Vxi11ConnectCancelInv ==
    ASSUME Control, vxi11_connect_cancel
    PROVE  Control'
BY SMT DEF vxi11_connect_cancel, clock, sync, result, conn,
          Control, ControlTypes, ThreadInv, JoinInv,
          WorkerInv, ReturnInv, MutexInv, MainPCs, WaiterPCs, WorkerPCs

(* The worker is joined by the calling thread.                             *)
LEMMA Vxi11ConnectJoinInv ==
    ASSUME Control, vxi11_connect_join
    PROVE  Control'
BY SMT DEF vxi11_connect_join, clock, sync, conn,
          Control, ControlTypes, ThreadInv, JoinInv,
          WorkerInv, ReturnInv, MutexInv, MainPCs, WaiterPCs, WorkerPCs

(* The worker's result is read.                                            *)
LEMMA Vxi11ConnectStatusInv ==
    ASSUME Control, vxi11_connect_status
    PROVE  Control'
BY SMT DEF vxi11_connect_status, clock, sync, result, conn,
          Control, ControlTypes, ThreadInv, JoinInv,
          WorkerInv, ReturnInv, MutexInv, MainPCs, WaiterPCs, WorkerPCs

(* The worker is joined by the waiter.                                     *)
LEMMA WaiterJoinInv ==
    ASSUME Control, waiter_join
    PROVE  Control'
BY SMT DEF waiter_join, clock, sync, conn,
          Control, ControlTypes, ThreadInv, JoinInv,
          WorkerInv, ReturnInv, MutexInv, MainPCs, WaiterPCs, WorkerPCs

(* The waiter ends at its cancellation point.                              *)
LEMMA WaiterCancelledInv ==
    ASSUME Control, waiter_cancelled
    PROVE  Control'
BY SMT DEF waiter_cancelled, clock, sync, result, conn,
          Control, ControlTypes, ThreadInv, JoinInv,
          WorkerInv, ReturnInv, MutexInv, MainPCs, WaiterPCs, WorkerPCs

(* The waiter reports under the mutex.                                     *)
LEMMA WaiterReportInv ==
    ASSUME Control, waiter_report
    PROVE  Control'
BY SMT DEF waiter_report, clock, result, conn,
          Control, ControlTypes, ThreadInv, JoinInv,
          WorkerInv, ReturnInv, MutexInv, MainPCs, WaiterPCs, WorkerPCs

(* The waiter wakes up the calling thread.                                 *)
LEMMA WaiterSignalInv ==
    ASSUME Control, waiter_signal
    PROVE  Control'
BY SMT DEF waiter_signal, clock, result, conn,
          Control, ControlTypes, ThreadInv, JoinInv,
          WorkerInv, ReturnInv, MutexInv, MainPCs, WaiterPCs, WorkerPCs

(* The worker allocates its result.                                        *)
LEMMA WorkerStartInv ==
    ASSUME Control, worker_start
    PROVE  Control'
BY SMT DEF worker_start, clock, sync, result,
          Control, ControlTypes, ThreadInv, JoinInv,
          WorkerInv, ReturnInv, MutexInv, MainPCs, WaiterPCs, WorkerPCs

(* The client is created.                                                  *)
LEMMA ClntCreateOkInv ==
    ASSUME Control, clnt_create_ok
    PROVE  Control'
BY SMT DEF clnt_create_ok, clock, sync, result,
          Control, ControlTypes, ThreadInv, JoinInv,
          WorkerInv, ReturnInv, MutexInv, MainPCs, WaiterPCs, WorkerPCs

(* The client cannot be created.                                           *)
LEMMA ClntCreateFailedInv ==
    ASSUME Control, clnt_create_failed
    PROVE  Control'
BY SMT DEF clnt_create_failed, clock, sync, conn,
          Control, ControlTypes, ThreadInv, JoinInv,
          WorkerInv, ReturnInv, MutexInv, MainPCs, WaiterPCs, WorkerPCs

(* The instrument answers create_link.                                     *)
LEMMA CreateLinkOkInv ==
    ASSUME Control, create_link_ok
    PROVE  Control'
BY SMT DEF create_link_ok, clock, sync,
          Control, ControlTypes, ThreadInv, JoinInv,
          WorkerInv, ReturnInv, MutexInv, MainPCs, WaiterPCs, WorkerPCs

(* create_link fails.                                                      *)
LEMMA CreateLinkFailedInv ==
    ASSUME Control, create_link_failed
    PROVE  Control'
BY SMT DEF create_link_failed, clock, sync,
          Control, ControlTypes, ThreadInv, JoinInv,
          WorkerInv, ReturnInv, MutexInv, MainPCs, WaiterPCs, WorkerPCs

(* The worker ends.                                                        *)
LEMMA WorkerExitInv ==
    ASSUME Control, worker_exit
    PROVE  Control'
BY SMT DEF worker_exit, clock, sync, result, conn,
          Control, ControlTypes, ThreadInv, JoinInv,
          WorkerInv, ReturnInv, MutexInv, MainPCs, WaiterPCs, WorkerPCs

(* The worker ends at a cancellation point.                                *)
LEMMA WorkerCancelledInv ==
    ASSUME Control, worker_cancelled
    PROVE  Control'
<1> USE DEF worker_cancelled, clock, sync, result, ControlTypes
<1>1. held' \subseteq {"status", "client"}
  <2>1. held \subseteq {"status", "client"}
    BY SMT DEF Control
  <2>2. CASE held' = held
    BY SMT, <2>1, <2>2
  <2>3. CASE held' = held \cup {"client"}
    BY SMT, <2>1, <2>3
  <2> QED
    BY SMT, <2>2, <2>3
<1>2. ControlTypes'
  BY SMT, <1>1 DEF Control, WorkerPCs
<1> QED
  BY SMT, <1>2 DEF Control, ThreadInv, JoinInv, WorkerInv, ReturnInv, MutexInv,
                   MainPCs, WaiterPCs, WorkerPCs

(* The deadline passes.                                                    *)
LEMMA ExpireInv ==
    ASSUME Control, Expire
    PROVE  Control'
BY SMT DEF Expire, clock, threads, result, conn,
          Control, ControlTypes, ThreadInv, JoinInv,
          WorkerInv, ReturnInv, MutexInv, MainPCs, WaiterPCs, WorkerPCs

(* A step that changes nothing.                                            *)
LEMMA StutterInv ==
    ASSUME Control, UNCHANGED vars
    PROVE  Control'
BY SMT DEF vars, threads, sync, result, conn, clock,
          Control, ControlTypes, ThreadInv, JoinInv,
          WorkerInv, ReturnInv, MutexInv, MainPCs, WaiterPCs, WorkerPCs

(* Every step keeps the control part.                                      *)
LEMMA ControlStep ==
    ASSUME Control, [Next]_vars
    PROVE  Control'
<1>1. CASE Main
  BY Zenon, <1>1, Vxi11ConnectRefusedInv, Vxi11ConnectStartInv,
     TimedjoinCreateInv, TimedjoinNoWaiterInv, CondTimedwaitEinvalInv,
     CondTimedwaitTimeoutInv,
     CondTimedwaitReturnInv, TimedjoinCancelInv, TimedjoinJoinInv,
     Vxi11ConnectCancelInv, Vxi11ConnectJoinInv, Vxi11ConnectStatusInv
     DEF Main
<1>2. CASE Waiter
  BY Zenon, <1>2, WaiterJoinInv, WaiterCancelledInv, WaiterReportInv,
     WaiterSignalInv DEF Waiter
<1>3. CASE Worker
  BY Zenon, <1>3, WorkerStartInv, WorkerExitInv, WorkerCancelledInv DEF Worker
<1>4. CASE Network
  BY Zenon, <1>4, ClntCreateOkInv, ClntCreateFailedInv, CreateLinkOkInv,
     CreateLinkFailedInv DEF Network
<1>5. CASE Expire
  BY Zenon, <1>5, ExpireInv
<1>6. CASE cond_timedwait_spurious
  BY Zenon, <1>6, CondTimedwaitSpuriousInv
<1>7. CASE UNCHANGED vars
  BY Zenon, <1>7, StutterInv
<1> QED
  BY Zenon, <1>1, <1>2, <1>3, <1>4, <1>5, <1>6, <1>7 DEF Next

(* The deadline is computed from the clock by the first step and kept.     *)
LEMMA ClockStep ==
    ASSUME Control, ClockInv, [Next]_vars
    PROVE  ClockInv'
<1> DEFINE Later == /\ main # "start" /\ main' # "start"
                    /\ UNCHANGED clock
                    /\ ret' = "none" => ret = "none"
<1>1. CASE vxi11_connect_start
  <2>1. /\ timeout' = timeout /\ now' = now
        /\ timeout_tv' = Deadline(now, timeout)
    BY SMT, <1>1 DEF vxi11_connect_start
  <2>2. /\ timeout \in Int /\ now \in [sec : Nat, nsec : Nat]
        /\ now.nsec < 1000000000
    BY SMT DEF ClockInv
  <2>3. Deadline(now, timeout) \in [sec : Int, nsec : Int]
    BY SMT, <2>2, DeadlineValue
  <2> QED
    BY SMT, <2>1, <2>2, <2>3 DEF ClockInv
<1>2. CASE vxi11_connect_refused
  BY SMT, <1>2 DEF vxi11_connect_refused, ClockInv, clock
<1>3. CASE Later
  BY SMT, <1>3 DEF ClockInv, clock
<1>4. CASE UNCHANGED <<clock, main, ret>>
  BY SMT, <1>4 DEF ClockInv, clock
<1>5. Next => \/ vxi11_connect_start \/ vxi11_connect_refused
              \/ Later \/ UNCHANGED <<clock, main, ret>>
  <2>1. ASSUME Main
        PROVE  \/ vxi11_connect_start \/ vxi11_connect_refused
               \/ Later \/ UNCHANGED <<clock, main, ret>>
    BY SMT, <2>1 DEF Main, timedjoin_create, timedjoin_no_waiter,
       cond_timedwait_einval, cond_timedwait_timeout, cond_timedwait_return,
       timedjoin_cancel, timedjoin_join, vxi11_connect_cancel,
       vxi11_connect_join, vxi11_connect_status, threads, Control, ReturnInv
  <2>2. ASSUME Waiter
        PROVE  \/ Later
               \/ UNCHANGED <<clock, main, ret>>
    BY SMT, <2>2 DEF Waiter, waiter_join, waiter_cancelled, waiter_report,
       waiter_signal
  <2>3. ASSUME Worker \/ Network \/ Expire
        PROVE  UNCHANGED <<clock, main, ret>>
    BY SMT, <2>3 DEF Worker, Network, Expire, worker_start, worker_exit,
       worker_cancelled, clnt_create_ok, clnt_create_failed, create_link_ok,
       create_link_failed, threads
  <2>4. ASSUME cond_timedwait_spurious
        PROVE  Later
    BY SMT, <2>4 DEF cond_timedwait_spurious
  <2> QED
    BY Zenon, <2>1, <2>2, <2>3, <2>4 DEF Next
<1> QED
  BY SMT, <1>1, <1>2, <1>3, <1>4, <1>5 DEF vars, threads

-----------------------------------------------------------------------------
(* The invariant holds before the call.                                    *)
LEMMA InitInv ==
    ASSUME Init
    PROVE  IInv
<1>1. /\ main = "start" /\ waiter = "none" /\ worker = "none"
      /\ cancelled = {} /\ held = {}
      /\ mtx = "none" /\ joined = FALSE /\ waitret = "none" /\ expired = FALSE
      /\ status = "none" /\ thread_status = "none" /\ reaped = 0
      /\ rpc_client = FALSE /\ link = "none" /\ ret = "none"
  BY Zenon DEF Init
<1>2. ControlTypes
  <2>1. reaped \in 0 .. 1
    BY SMT, <1>1
  <2> QED
    BY Zenon, <1>1, <2>1 DEF ControlTypes, MainPCs, WaiterPCs, WorkerPCs
<1>3. Control
  BY SMT, <1>1, <1>2 DEF Control, ThreadInv, JoinInv, WorkerInv, ReturnInv,
                         MutexInv
<1>4. /\ timeout \in Int
      /\ now \in [sec : Nat, nsec : Nat] /\ now.nsec < 1000000000
      /\ timeout_tv = now
  <2>1. timeout \in Timeouts /\ timeout_tv = now
        /\ now \in [sec : Seconds, nsec : Nanos]
    BY Zenon DEF Init
  <2>2. now = [sec |-> now.sec, nsec |-> now.nsec]
        /\ now.sec \in Seconds /\ now.nsec \in Nanos
    BY SMT, <2>1
  <2>3. Timeouts \subseteq Int /\ Seconds \subseteq Nat
    BY SMT, DeadlineAssumption
  <2>4. timeout \in Int /\ now.sec \in Nat
    BY Zenon, <2>1, <2>2, <2>3
  <2>5. \A n \in Nanos : n \in Nat /\ n < 1000000000
    BY SMT, DeadlineAssumption
  <2> QED
    BY SMT, <2>1, <2>2, <2>4, <2>5
<1>5. ClockInv
  BY SMT, <1>1, <1>4 DEF ClockInv
<1> QED
  BY SMT, <1>3, <1>5 DEF IInv

(* The invariant holds throughout.                                         *)
LEMMA Invariance == Spec => []IInv
<1>1. IInv /\ [Next]_vars => IInv'
  BY Zenon, ControlStep, ClockStep DEF IInv
<1> QED
  BY InitInv, <1>1, PTL DEF Spec

(* The variables keep their types: the threads only reach the places the   *)
(* code has, and the worker is joined at most once.                        *)
THEOREM TypeCorrect == Spec => []TypeOK
<1>1. IInv => TypeOK
  BY SMT DEF IInv, Control, ControlTypes, ClockInv, TypeOK
<1> QED
  BY Invariance, <1>1, PTL

(* No thread outlives what it uses: when vxi11_connect leaves the frame    *)
(* of _pthread_timedjoin, or returns, the threads it started have ended.   *)
THEOREM ThreadsSafe == Spec => []ThreadsOutlived
<1>1. IInv => ThreadsOutlived
  BY SMT DEF IInv, Control, ControlTypes, WaiterPCs, ThreadInv, ThreadsOutlived
<1> QED
  BY Invariance, <1>1, PTL

(* The worker is joined once, and the status that vxi11_connect            *)
(* dereferences is the one the worker allocated, never PTHREAD_CANCELED.   *)
THEOREM JoinSafe == Spec => []JoinedOnce
<1>1. IInv => JoinedOnce
  BY SMT DEF IInv, Control, JoinInv, WorkerInv, JoinedOnce
<1> QED
  BY Invariance, <1>1, PTL

(* Success comes with a client and an answered create_link; failure leaves *)
(* no client unless the worker was cancelled.                              *)
THEOREM ClientSafe == Spec => []ClientAccountedFor
<1>1. IInv => ClientAccountedFor
  BY SMT DEF IInv, Control, WorkerInv, ReturnInv, ClientAccountedFor
<1> QED
  BY Invariance, <1>1, PTL

(* A deadlock takes a deadline that passed, spinning an invalid one.       *)
THEOREM HangsExplained == Spec => []HangCauses
<1>1. IInv => HangCauses
  BY SMT DEF IInv, Control, JoinInv, MutexInv, HangCauses, LockCycle, Spin
<1> QED
  BY Invariance, <1>1, PTL

-----------------------------------------------------------------------------
(* The timeval of a timeout that is not negative.                          *)
LEMMA DurationValid ==
    ASSUME NEW t \in Int, t >= 0
    PROVE  ValidTimeval(Duration(t))
<1>1. /\ CDiv(t, 1000) \in Int /\ CDiv(t, 1000) >= 0
      /\ CMod(t, 1000) \in Int /\ CMod(t, 1000) >= 0 /\ CMod(t, 1000) < 1000
  BY SMT, CDivMod
<1>2. /\ Duration(t).sec = CDiv(t, 1000)
      /\ Duration(t).usec = CMod(t, 1000) * 1000
  BY SMT DEF Duration
<1> QED
  BY SMT, <1>1, <1>2 DEF ValidTimeval

(* For every timeout and every clock, the deadline is the timeout from     *)
(* now, and it is rejected only for a negative timeout that borrows from   *)
(* the seconds.                                                            *)
THEOREM ConversionCorrect == Spec => []DeadlineCorrect
<1>1. IInv => DeadlineCorrect
  <2> SUFFICES ASSUME IInv, main # "start", ret = "none"
               PROVE  DeadlineCorrect
    BY SMT DEF DeadlineCorrect, ValidForNonNegative, DeadlineIsTimeoutFromNow,
               InvalidOnlyForNegative
  <2> DEFINE q == CDiv(timeout, 1000)
             r == CMod(timeout, 1000)
  <2>1. /\ timeout \in Int /\ now \in [sec : Nat, nsec : Nat]
        /\ now.nsec < 1000000000
        /\ timeout_tv = Deadline(now, timeout)
    BY SMT DEF IInv, ClockInv
  <2>2. /\ timeout_tv.sec \in Int /\ timeout_tv.nsec \in Int
        /\ timeout_tv.nsec < 1000000000
        /\ \/ /\ timeout_tv.sec = now.sec + q
              /\ timeout_tv.nsec = now.nsec + r * 1000000
           \/ /\ timeout_tv.sec = now.sec + q + 1
              /\ timeout_tv.nsec = now.nsec + r * 1000000 - 1000000000
              /\ timeout_tv.nsec >= 0
    BY SMT, <2>1, DeadlineValue
  <2>3. now.sec \in Nat /\ now.nsec \in Nat
    BY SMT, <2>1
  <2>4. /\ q \in Int /\ r \in Int /\ r < 1000
        /\ timeout >= 0 => /\ q = timeout \div 1000 /\ q >= 0
                           /\ r = timeout % 1000 /\ r >= 0
        /\ timeout < 0 => r = -((-timeout) % 1000) /\ r <= 0
    BY SMT, <2>1, CDivMod
  <2> HIDE DEF q, r
  <2>5. ValidForNonNegative
    BY SMT, <2>1, <2>2, <2>3, <2>4, DurationValid
       DEF ValidForNonNegative, ValidTimespec
  <2>6. DeadlineIsTimeoutFromNow
    BY SMT, <2>2, <2>3, <2>4 DEF DeadlineIsTimeoutFromNow
  <2>7. InvalidOnlyForNegative
    <3> DEFINE m == (-timeout) % 1000
    <3>1. m \in Int
      BY SMT, <2>1
    <3>2. timeout < 0 => r = -m /\ r <= 0
      BY SMT, <2>4
    <3> HIDE DEF m
    <3>3. ~ValidTimespec(timeout_tv) <=> timeout < 0 /\ now.nsec < m * 1000000
      BY SMT, <2>1, <2>2, <2>3, <2>4, <3>1, <3>2 DEF ValidTimespec
    <3> QED
      BY SMT, <3>3 DEF InvalidOnlyForNegative, m
  <2> QED
    BY SMT, <2>5, <2>6, <2>7 DEF DeadlineCorrect
<1> QED
  BY Invariance, <1>1, PTL
=============================================================================
