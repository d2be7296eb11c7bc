-------------------------- MODULE TcpConnectProofs --------------------------
(***************************************************************************)
(* Proofs about the descriptors of tcp.c, for any number of sessions,      *)
(* discoveries and descriptors.                                            *)
(***************************************************************************)
EXTENDS TcpConnect, TLAPS

(* The caller is inside tcp_connect with a socket, or has connected.       *)
Connected(c) == pc[c] = "using" /\ ret[c] = 0
Holds(c) == pc[c] \in Early \cup Late \/ Connected(c)

(* The number it then has is the one of a descriptor.                      *)
Opened == \A c \in Callers : Holds(c) => fd[c] \in Fds

(* Only a discovery goes on after a failed tcp_connect.                    *)
Trusting == \A c \in Sessions : pc[c] = "using" => ret[c] = 0

(* Until somebody closes a foreign descriptor, it is the caller's own, and *)
(* blocking once the flags are reset.  The strengthening over              *)
(* SuccessIsUsable is that this holds all the way through tcp_connect: a   *)
(* descriptor is safe from the others' close() and fcntl() because no      *)
(* other caller holds the same number.                                     *)
Owned == ~misclosed => \A c \in Callers : Holds(c) => file[fd[c]] = c

Blocking ==
    ~misclosed => \A c \in Callers :
        pc[c] \in {"check", "so_error"} \/ Connected(c) => fd[c] \notin nonblock

IInv == TypeOK /\ Opened /\ Trusting /\ Owned /\ Blocking

-----------------------------------------------------------------------------
(* One lemma per action.                                                   *)

(* No socket: a session is over, a discovery goes on.                      *)
LEMMA SocketFailedInv ==
    ASSUME IInv, NEW c \in Callers, socket_failed(c)
    PROVE  IInv'
<1>1. TypeOK'
  BY SMT DEF IInv, TypeOK, socket_failed, Fail, Leave, Use, Goto,
             Early, Late
<1> QED
  BY SMT, <1>1, CallersAssumption
     DEF IInv, TypeOK, Opened, Trusting, Owned, Blocking, Holds, Connected,
         Callers, socket_failed, Fail, Leave, Use, Goto, Early, Late

(* A descriptor that nobody has is taken.                                  *)
LEMMA SocketOkInv ==
    ASSUME IInv, NEW c \in Callers, socket_ok(c)
    PROVE  IInv'
<1>1. TypeOK'
  BY SMT DEF IInv, TypeOK, socket_ok, Goto,
             Early, Late
<1> QED
  BY SMT, <1>1, CallersAssumption
     DEF IInv, TypeOK, Opened, Trusting, Owned, Blocking, Holds, Connected,
         Callers, socket_ok, Goto, Early, Late

(* The flags are read.                                                     *)
LEMMA FcntlGetFlagsInv ==
    ASSUME IInv, NEW c \in Callers, fcntl_get_flags(c)
    PROVE  IInv'
<1>1. TypeOK'
  BY SMT DEF IInv, TypeOK, fcntl_get_flags, Goto,
             Early, Late
<1> QED
  BY SMT, <1>1, CallersAssumption
     DEF IInv, TypeOK, Opened, Trusting, Owned, Blocking, Holds, Connected,
         Callers, fcntl_get_flags, Goto, Early, Late

(* The caller's own descriptor becomes non-blocking.                       *)
LEMMA FcntlSetNonblockInv ==
    ASSUME IInv, NEW c \in Callers, fcntl_set_nonblock(c)
    PROVE  IInv'
<1>1. TypeOK'
  BY SMT DEF IInv, TypeOK, fcntl_set_nonblock, Goto, Valid,
             Early, Late
<1> QED
  BY SMT, <1>1, CallersAssumption
     DEF IInv, TypeOK, Opened, Trusting, Owned, Blocking, Holds, Connected,
         Callers, fcntl_set_nonblock, Goto, Valid, Early, Late

(* The address is known.                                                   *)
LEMMA ResolveInv ==
    ASSUME IInv, NEW c \in Callers, resolve(c)
    PROVE  IInv'
<1>1. TypeOK'
  BY SMT DEF IInv, TypeOK, resolve, Goto,
             Early, Late
<1> QED
  BY SMT, <1>1, CallersAssumption
     DEF IInv, TypeOK, Opened, Trusting, Owned, Blocking, Holds, Connected,
         Callers, resolve, Goto, Early, Late

(* An error before connect(): the descriptor stays open.                   *)
LEMMA EarlyErrorInv ==
    ASSUME IInv, NEW c \in Callers, early_error(c)
    PROVE  IInv'
<1>1. TypeOK'
  BY SMT DEF IInv, TypeOK, early_error, Fail, Leave, Use, Goto,
             Early, Late
<1> QED
  BY SMT, <1>1, CallersAssumption
     DEF IInv, TypeOK, Opened, Trusting, Owned, Blocking, Holds, Connected,
         Callers, early_error, Fail, Leave, Use, Goto, Early, Late

(* connect() succeeds at once.                                             *)
LEMMA ConnectDoneInv ==
    ASSUME IInv, NEW c \in Callers, connect_done(c)
    PROVE  IInv'
<1>1. TypeOK'
  BY SMT DEF IInv, TypeOK, connect_done, Goto,
             Early, Late
<1> QED
  BY SMT, <1>1, CallersAssumption
     DEF IInv, TypeOK, Opened, Trusting, Owned, Blocking, Holds, Connected,
         Callers, connect_done, Goto, Early, Late

(* connect() fails at once.                                                *)
LEMMA ConnectFailedInv ==
    ASSUME IInv, NEW c \in Callers, connect_failed(c)
    PROVE  IInv'
<1>1. TypeOK'
  BY SMT DEF IInv, TypeOK, connect_failed, Goto,
             Early, Late
<1> QED
  BY SMT, <1>1, CallersAssumption
     DEF IInv, TypeOK, Opened, Trusting, Owned, Blocking, Holds, Connected,
         Callers, connect_failed, Goto, Early, Late

(* connect() is in progress.                                               *)
LEMMA ConnectInProgressInv ==
    ASSUME IInv, NEW c \in Callers, connect_in_progress(c)
    PROVE  IInv'
<1>1. TypeOK'
  BY SMT DEF IInv, TypeOK, connect_in_progress, Goto,
             Early, Late
<1> QED
  BY SMT, <1>1, CallersAssumption
     DEF IInv, TypeOK, Opened, Trusting, Owned, Blocking, Holds, Connected,
         Callers, connect_in_progress, Goto, Early, Late

(* The handshake ends.                                                     *)
LEMMA HandshakeInv ==
    ASSUME IInv, NEW c \in Callers, handshake(c)
    PROVE  IInv'
<1>1. TypeOK'
  BY SMT DEF IInv, TypeOK, handshake,
             Early, Late
<1> QED
  BY SMT, <1>1, CallersAssumption
     DEF IInv, TypeOK, Opened, Trusting, Owned, Blocking, Holds, Connected,
         Callers, handshake, Early, Late

(* The socket is writable.                                                 *)
LEMMA SelectWritableInv ==
    ASSUME IInv, NEW c \in Callers, select_writable(c)
    PROVE  IInv'
<1>1. TypeOK'
  BY SMT DEF IInv, TypeOK, select_writable, Goto,
             Early, Late
<1> QED
  BY SMT, <1>1, CallersAssumption
     DEF IInv, TypeOK, Opened, Trusting, Owned, Blocking, Holds, Connected,
         Callers, select_writable, Goto, Early, Late

(* Timeout, or an error of select().                                       *)
LEMMA SelectGivesUpInv ==
    ASSUME IInv, NEW c \in Callers, select_gives_up(c)
    PROVE  IInv'
<1>1. TypeOK'
  BY SMT DEF IInv, TypeOK, select_gives_up, Goto,
             Early, Late
<1> QED
  BY SMT, <1>1, CallersAssumption
     DEF IInv, TypeOK, Opened, Trusting, Owned, Blocking, Holds, Connected,
         Callers, select_gives_up, Goto, Early, Late

(* The caller's own descriptor becomes blocking again.                     *)
LEMMA FcntlResetFlagsInv ==
    ASSUME IInv, NEW c \in Callers, fcntl_reset_flags(c)
    PROVE  IInv'
<1>1. TypeOK'
  BY SMT DEF IInv, TypeOK, fcntl_reset_flags, Goto,
             Early, Late
<1> QED
  BY SMT, <1>1, CallersAssumption
     DEF IInv, TypeOK, Opened, Trusting, Owned, Blocking, Holds, Connected,
         Callers, fcntl_reset_flags, Goto, Early, Late

(* An error after connect(): the descriptor is closed.                     *)
LEMMA FcntlResetFailedInv ==
    ASSUME IInv, NEW c \in Callers, fcntl_reset_failed(c)
    PROVE  IInv'
<1>1. TypeOK'
  BY SMT DEF IInv, TypeOK, fcntl_reset_failed, Close, Fail, Leave, Use, Goto,
             Early, Late
<1> QED
  BY SMT, <1>1, CallersAssumption
     DEF IInv, TypeOK, Opened, Trusting, Owned, Blocking, Holds, Connected,
         Callers, fcntl_reset_failed, Close, Fail, Leave, Use, Goto, Early, Late

(* The connect failed or timed out: the descriptor is closed.              *)
LEMMA CheckFailedInv ==
    ASSUME IInv, NEW c \in Callers, check_failed(c)
    PROVE  IInv'
<1>1. TypeOK'
  BY SMT DEF IInv, TypeOK, check_failed, Close, Fail, Leave, Use, Goto,
             Early, Late
<1> QED
  BY SMT, <1>1, CallersAssumption
     DEF IInv, TypeOK, Opened, Trusting, Owned, Blocking, Holds, Connected,
         Callers, check_failed, Close, Fail, Leave, Use, Goto, Early, Late

(* The connect has ended in time.                                          *)
LEMMA CheckOkInv ==
    ASSUME IInv, NEW c \in Callers, check_ok(c)
    PROVE  IInv'
<1>1. TypeOK'
  BY SMT DEF IInv, TypeOK, check_ok, Goto,
             Early, Late
<1> QED
  BY SMT, <1>1, CallersAssumption
     DEF IInv, TypeOK, Opened, Trusting, Owned, Blocking, Holds, Connected,
         Callers, check_ok, Goto, Early, Late

(* getsockopt() fails: the descriptor is closed.                           *)
LEMMA GetsockoptFailedInv ==
    ASSUME IInv, NEW c \in Callers, getsockopt_failed(c)
    PROVE  IInv'
<1>1. TypeOK'
  BY SMT DEF IInv, TypeOK, getsockopt_failed, Close, Fail, Leave, Use, Goto,
             Early, Late
<1> QED
  BY SMT, <1>1, CallersAssumption
     DEF IInv, TypeOK, Opened, Trusting, Owned, Blocking, Holds, Connected,
         Callers, getsockopt_failed, Close, Fail, Leave, Use, Goto, Early, Late

(* tcp_connect returns 0.                                                  *)
LEMMA GetsockoptOkInv ==
    ASSUME IInv, NEW c \in Callers, getsockopt_ok(c)
    PROVE  IInv'
<1>1. TypeOK'
  BY SMT DEF IInv, TypeOK, getsockopt_ok, Use, Goto,
             Early, Late
<1> QED
  BY SMT, <1>1, CallersAssumption
     DEF IInv, TypeOK, Opened, Trusting, Owned, Blocking, Holds, Connected,
         Callers, getsockopt_ok, Use, Goto, Early, Late

(* tcp_disconnect closes whatever has the caller's number: another caller  *)
(* keeps its descriptor, or misclosed is set.                              *)
LEMMA TcpDisconnectInv ==
    ASSUME IInv, NEW c \in Callers, tcp_disconnect(c)
    PROVE  IInv'
<1> USE DEF Early, Late
<1>1. TypeOK'
  BY SMT DEF IInv, TypeOK, tcp_disconnect, Close, Leave, Goto
<1>2. Opened' /\ Trusting'
  BY SMT, CallersAssumption
     DEF IInv, TypeOK, Opened, Trusting, Holds, Connected, Callers,
         tcp_disconnect, Close, Leave, Goto
<1>3. ASSUME ~misclosed', NEW d \in Callers, Holds(d)'
      PROVE  /\ ~misclosed /\ d # c /\ Holds(d)
             /\ fd'[d] = fd[d] /\ file'[fd[d]] = d
  <2>1. /\ ~misclosed
        /\ \A f \in Fds : f = fd[c] => file[f] \in {c, Nobody}
    BY Zenon, <1>3 DEF tcp_disconnect, Close
  <2>2. d # c /\ Holds(d) /\ fd'[d] = fd[d]
    BY SMT, <1>3 DEF IInv, TypeOK, Holds, Connected, tcp_disconnect, Leave,
                     Goto
  <2>3. fd[d] \in Fds /\ file[fd[d]] = d
    BY Zenon, <2>1, <2>2 DEF IInv, Opened, Owned
  <2>4. fd[d] # fd[c]
    BY Zenon, <2>1, <2>2, <2>3, CallersAssumption
  <2> QED
    BY SMT, <2>1, <2>2, <2>3, <2>4 DEF tcp_disconnect, Close
<1>4. Owned'
  BY SMT, <1>3 DEF Owned
<1>5. Blocking'
  <2> SUFFICES ASSUME ~misclosed', NEW d \in Callers,
                      pc'[d] \in {"check", "so_error"} \/ Connected(d)'
               PROVE  fd'[d] \notin nonblock'
    BY Zenon DEF Blocking
  <2>1. Holds(d)'
    BY SMT DEF Holds
  <2>2. ~misclosed /\ d # c /\ fd'[d] = fd[d]
    BY Zenon, <2>1, <1>3
  <2>3. pc'[d] = pc[d] /\ ret'[d] = ret[d]
    BY SMT, <2>2 DEF IInv, TypeOK, tcp_disconnect, Leave, Goto
  <2> QED
    BY SMT, <2>2, <2>3 DEF IInv, Blocking, Connected, tcp_disconnect, Close
<1> QED
  BY Zenon, <1>1, <1>2, <1>4, <1>5 DEF IInv

(* The invariant holds throughout.                                         *)
LEMMA Invariance == Spec => []IInv
<1>1. Init => IInv
  <2> SUFFICES ASSUME Init PROVE IInv
    OBVIOUS
  <2>1. misclosed \in BOOLEAN /\ nonblock \subseteq Fds
    BY Zenon DEF Init
  <2>2. TypeOK
    BY SMT, <2>1 DEF Init, TypeOK
  <2>3. \A c \in Callers : pc[c] = "idle"
    BY SMT DEF Init
  <2> QED
    BY SMT, <2>2, <2>3 DEF IInv, Opened, Trusting, Owned, Blocking, Holds,
                           Connected, Callers, Early, Late
<1>2. IInv /\ [Next]_vars => IInv'
  <2> SUFFICES ASSUME IInv, [Next]_vars PROVE IInv'
    OBVIOUS
  <2>1. CASE UNCHANGED vars
    BY SMT, <2>1 DEF vars, IInv, TypeOK, Opened, Trusting, Owned, Blocking,
                     Holds, Connected
  <2>2. ASSUME NEW c \in Callers, Call(c) \/ Step(c) \/ handshake(c)
        PROVE  IInv'
    BY Zenon, <2>2, SocketFailedInv, SocketOkInv, TcpDisconnectInv,
       FcntlGetFlagsInv, FcntlSetNonblockInv, ResolveInv, EarlyErrorInv,
       ConnectDoneInv, ConnectFailedInv, ConnectInProgressInv,
       SelectWritableInv, SelectGivesUpInv, FcntlResetFlagsInv,
       FcntlResetFailedInv, CheckFailedInv, CheckOkInv, GetsockoptFailedInv,
       GetsockoptOkInv, HandshakeInv
       DEF Call, Step
  <2> QED
    BY Zenon, <2>1, <2>2 DEF Next
<1> QED
  BY <1>1, <1>2, PTL DEF Spec

-----------------------------------------------------------------------------
(* The variables keep their types.                                         *)
THEOREM TypeCorrect == Spec => []TypeOK
<1>1. IInv => TypeOK
  BY Zenon DEF IInv
<1> QED
  BY Invariance, <1>1, PTL

(* A tcp_connect that returned 0 has left an open, blocking descriptor of  *)
(* the caller's own, whatever the others do with theirs.                   *)
THEOREM UsableSockets == Spec => []SuccessIsUsable
<1>1. IInv => SuccessIsUsable
  BY Zenon DEF IInv, Owned, Blocking, Holds, Connected, SuccessIsUsable
<1> QED
  BY Invariance, <1>1, PTL

(* A failure after connect() closes the socket.                            *)
THEOREM LateFailuresClose == Spec => LateFailureCloses
<1> DEFINE P == \A c \in Callers :
                   pc[c] \in Late /\ pc'[c] \notin Late /\ ret'[c] = -1 =>
                       file'[fd[c]] # c
<1>1. IInv /\ [Next]_vars => [P]_vars
  <2> SUFFICES ASSUME IInv, Next, NEW c \in Callers, pc[c] \in Late,
                      pc'[c] \notin Late, ret'[c] = -1
               PROVE  file'[fd[c]] # c
    BY Zenon
  <2>1. PICK d \in Callers : Call(d) \/ Step(d) \/ handshake(d)
    BY Zenon DEF Next
  <2>2. d = c
    BY SMT, <2>1
       DEF IInv, TypeOK, Call, Step, handshake, socket_failed, socket_ok,
           tcp_disconnect, fcntl_get_flags, fcntl_set_nonblock, resolve,
           early_error, connect_done, connect_failed, connect_in_progress,
           select_writable, select_gives_up, fcntl_reset_flags,
           fcntl_reset_failed, check_failed, check_ok, getsockopt_failed,
           getsockopt_ok, Fail, Leave, Use, Goto
  <2>3. Close(c)
    BY SMT, <2>1, <2>2
       DEF IInv, TypeOK, Call, Step, handshake, socket_failed, socket_ok,
           tcp_disconnect, fcntl_get_flags, fcntl_set_nonblock, resolve,
           early_error, connect_done, connect_failed, connect_in_progress,
           select_writable, select_gives_up, fcntl_reset_flags,
           fcntl_reset_failed, check_failed, check_ok, getsockopt_failed,
           getsockopt_ok, Use, Goto, Early, Late
  <2>4. fd[c] \in Fds
    BY Zenon DEF IInv, Opened, Holds
  <2> QED
    BY SMT, <2>3, <2>4, CallersAssumption DEF Close
<1> QED
  BY Invariance, <1>1, PTL DEF Spec, LateFailureCloses

(* The first close() of a foreign descriptor is the tcp_disconnect of a    *)
(* discovery whose tcp_connect had failed.                                 *)
THEOREM StrayCloses == Spec => ForeignCloseByStray
<1> DEFINE P == ~misclosed /\ misclosed' =>
                   \E d \in Discoveries :
                       pc[d] = "using" /\ ret[d] = -1 /\ pc'[d] = "idle"
<1>1. IInv /\ [Next]_vars => [P]_vars
  <2> SUFFICES ASSUME IInv, Next, ~misclosed, misclosed'
               PROVE  \E d \in Discoveries :
                          pc[d] = "using" /\ ret[d] = -1 /\ pc'[d] = "idle"
    BY Zenon
  <2>1. PICK d \in Callers : Call(d) \/ Step(d) \/ handshake(d)
    BY Zenon DEF Next
  <2>2. Close(d) /\ (pc[d] \in Late \/ tcp_disconnect(d))
    BY Zenon, <2>1
       DEF Call, Step, handshake, socket_failed, socket_ok,
           tcp_disconnect, fcntl_get_flags, fcntl_set_nonblock, resolve,
           early_error, connect_done, connect_failed, connect_in_progress,
           select_writable, select_gives_up, fcntl_reset_flags,
           fcntl_reset_failed, check_failed, check_ok, getsockopt_failed,
           getsockopt_ok, Late
  <2>3. ~Holds(d)
    BY Zenon, <2>2 DEF IInv, Owned, Close
  <2>4. pc[d] = "using" /\ ret[d] # 0 /\ pc'[d] = "idle"
    BY SMT, <2>2, <2>3 DEF IInv, TypeOK, Holds, Connected, tcp_disconnect,
                           Leave, Goto
  <2>5. d \in Discoveries /\ ret[d] = -1
    BY SMT, <2>4 DEF IInv, TypeOK, Trusting, Callers
  <2> QED
    BY Zenon, <2>4, <2>5
<1> QED
  BY Invariance, <1>1, PTL DEF Spec, ForeignCloseByStray
=============================================================================
