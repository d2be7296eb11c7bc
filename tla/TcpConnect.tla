----------------------------- MODULE TcpConnect -----------------------------
(***************************************************************************)
(* The life of a socket in tcp.c: tcp_connect step by step, the use of the *)
(* socket, and tcp_disconnect.                                             *)
(*                                                                         *)
(* Two kinds of callers share the descriptors of the process: sessions,    *)
(* where lxi_connect looks at the result of tcp_connect, and VXI-11        *)
(* discovery, where get_device_id does not and goes on with tcp_send,      *)
(* tcp_receive_wait and tcp_disconnect whatever happened.                  *)
(***************************************************************************)
EXTENDS Integers

CONSTANTS
    Sessions,       \* sessions, each with its tcp_data_t
    Discoveries,    \* calls of get_device_id
    Fds,            \* descriptors of the process
    Nobody          \* owner of a descriptor that is not open

Callers == Sessions \cup Discoveries

ASSUME CallersAssumption ==
    /\ Sessions \cap Discoveries = {}
    /\ Nobody \notin Callers

VARIABLES
    pc,         \* where each caller is
    fd,         \* tcp_data->server_socket of each caller
    file,       \* who opened each descriptor, or Nobody
    nonblock,   \* descriptors in non-blocking mode
    peer,       \* the handshake of the caller's socket
    selected,   \* the variable "result" of tcp_connect
    ret,        \* what tcp_connect returned
    misclosed   \* history: somebody has closed a descriptor of another

vars == <<pc, fd, file, nonblock, peer, selected, ret, misclosed>>

(* Up to the connect() call, and from there on.                            *)
Early == {"get_flags", "set_flags", "resolve"}
Late  == {"connect", "select", "reset_flags", "check", "so_error"}

TypeOK ==
    /\ pc \in [Callers -> {"idle", "using"} \cup Early \cup Late]
    /\ fd \in [Callers -> Fds \cup {-1}]
    /\ file \in [Fds -> Callers \cup {Nobody}]
    /\ nonblock \subseteq Fds
    /\ peer \in [Callers -> {"none", "pending", "established", "failed"}]
    /\ selected \in [Callers -> -1 .. 1]
    /\ ret \in [Callers -> {-1, 0}]
    /\ misclosed \in BOOLEAN

Init ==
    /\ pc = [c \in Callers |-> "idle"]
    /\ fd = [c \in Callers |-> -1]
    /\ file = [f \in Fds |-> Nobody]
    /\ nonblock = {}
    /\ peer = [c \in Callers |-> "none"]
    /\ selected = [c \in Callers |-> 0]
    /\ ret = [c \in Callers |-> -1]
    /\ misclosed = FALSE

Goto(c, l) == pc' = [pc EXCEPT ![c] = l]

(* lxi_connect and lxi_disconnect hold session_mutex, discovery does not.  *)
MayEnter(c) ==
    c \in Discoveries \/ \A s \in Sessions : pc[s] \notin Early \cup Late

(* A system call on the caller's descriptor finds an open file, not        *)
(* necessarily its own.                                                    *)
Valid(c) == \E f \in Fds : f = fd[c] /\ file[f] # Nobody

(* close(server_socket): whoever opened it.                                *)
Close(c) ==
    /\ file' = [f \in Fds |-> IF f = fd[c] THEN Nobody ELSE file[f]]
    /\ nonblock' = nonblock \ {fd[c]}
    /\ misclosed' = (misclosed \/ \E f \in Fds :
                        f = fd[c] /\ file[f] \notin {c, Nobody})

(* The tcp_data_t ceases to exist: lxi_connect or lxi_disconnect frees it, *)
(* or get_device_id, which has it on its stack, returns.                   *)
Leave(c) ==
    /\ Goto(c, "idle")
    /\ fd' = [fd EXCEPT ![c] = -1]
    /\ peer' = [peer EXCEPT ![c] = "none"]
    /\ ret' = [ret EXCEPT ![c] = -1]
    /\ selected' = [selected EXCEPT ![c] = 0]

(* The caller goes on with the socket.                                     *)
Use(c, r) ==
    /\ Goto(c, "using")
    /\ ret' = [ret EXCEPT ![c] = r]
    /\ selected' = [selected EXCEPT ![c] = 0]
    /\ UNCHANGED <<fd, peer>>

(* tcp_connect returns -1, which only lxi_connect looks at.                *)
Fail(c) == IF c \in Sessions THEN Leave(c) ELSE Use(c, -1)

-----------------------------------------------------------------------------
(* tcp_connect, for a caller that has no connection yet.                   *)

socket_failed(c) ==
    /\ pc[c] = "idle"
    /\ MayEnter(c)
    /\ Fail(c)
    /\ UNCHANGED <<file, nonblock, misclosed>>

socket_ok(c) ==
    /\ pc[c] = "idle"
    /\ MayEnter(c)
    /\ \E f \in Fds :
          /\ file[f] = Nobody
          /\ file' = [file EXCEPT ![f] = c]
          /\ fd' = [fd EXCEPT ![c] = f]
    /\ Goto(c, "get_flags")
    /\ UNCHANGED <<nonblock, peer, selected, ret, misclosed>>

fcntl_get_flags(c) ==
    /\ pc[c] = "get_flags"
    /\ Valid(c)
    /\ Goto(c, "set_flags")
    /\ UNCHANGED <<fd, file, nonblock, peer, selected, ret, misclosed>>

fcntl_set_nonblock(c) ==
    /\ pc[c] = "set_flags"
    /\ Valid(c)
    /\ nonblock' = nonblock \cup {fd[c]}
    /\ Goto(c, "resolve")
    /\ UNCHANGED <<fd, file, peer, selected, ret, misclosed>>

(* inet_addr or getaddrinfo found an IPv4 address.                         *)
resolve(c) ==
    /\ pc[c] = "resolve"
    /\ Goto(c, "connect")
    /\ UNCHANGED <<fd, file, nonblock, peer, selected, ret, misclosed>>

(* fcntl failed, or no IPv4 address: these paths do not close the socket.  *)
early_error(c) ==
    /\ pc[c] \in Early
    /\ Fail(c)
    /\ UNCHANGED <<file, nonblock, misclosed>>

(* connect() succeeds at once, fails at once, or is in progress.           *)
connect_done(c) ==
    /\ pc[c] = "connect"
    /\ Valid(c)
    /\ peer' = [peer EXCEPT ![c] = "established"]
    /\ selected' = [selected EXCEPT ![c] = 1]
    /\ Goto(c, "reset_flags")
    /\ UNCHANGED <<fd, file, nonblock, ret, misclosed>>

connect_failed(c) ==
    /\ pc[c] = "connect"
    /\ peer' = [peer EXCEPT ![c] = "failed"]
    /\ selected' = [selected EXCEPT ![c] = -1]
    /\ Goto(c, "reset_flags")
    /\ UNCHANGED <<fd, file, nonblock, ret, misclosed>>

connect_in_progress(c) ==
    /\ pc[c] = "connect"
    /\ Valid(c)
    /\ peer' = [peer EXCEPT ![c] = "pending"]
    /\ Goto(c, "select")
    /\ UNCHANGED <<fd, file, nonblock, selected, ret, misclosed>>

(* The network: the handshake of a pending connect ends either way.        *)
handshake(c) ==
    /\ peer[c] = "pending"
    /\ \E p \in {"established", "failed"} : peer' = [peer EXCEPT ![c] = p]
    /\ UNCHANGED <<pc, fd, file, nonblock, selected, ret, misclosed>>

(* A socket is writable once its handshake has ended, successfully or not. *)
select_writable(c) ==
    /\ pc[c] = "select"
    /\ Valid(c)
    /\ peer[c] # "pending"
    /\ selected' = [selected EXCEPT ![c] = 1]
    /\ Goto(c, "reset_flags")
    /\ UNCHANGED <<fd, file, nonblock, peer, ret, misclosed>>

(* Mutant: select() is called without a timeout.                           *)
select_gives_up_NoTimeout(c) ==
    /\ pc[c] = "select"
    /\ selected' = [selected EXCEPT ![c] = -1]
    /\ FALSE
    /\ Goto(c, "reset_flags")
    /\ UNCHANGED <<fd, file, nonblock, peer, ret, misclosed>>

(* The timeout (0), or an error of select (-1).                            *)
select_gives_up(c) ==
    /\ pc[c] = "select"
    /\ \E r \in {-1, 0} : selected' = [selected EXCEPT ![c] = r]
    /\ Goto(c, "reset_flags")
    /\ UNCHANGED <<fd, file, nonblock, peer, ret, misclosed>>

(* Mutant: the socket stays non-blocking.                                  *)
fcntl_reset_flags_Skipped(c) ==
    /\ pc[c] = "reset_flags"
    /\ Valid(c)
    /\ Goto(c, "check")
    /\ UNCHANGED <<fd, file, nonblock, peer, selected, ret, misclosed>>

fcntl_reset_flags(c) ==
    /\ pc[c] = "reset_flags"
    /\ Valid(c)
    /\ nonblock' = nonblock \ {fd[c]}
    /\ Goto(c, "check")
    /\ UNCHANGED <<fd, file, peer, selected, ret, misclosed>>

fcntl_reset_failed(c) ==
    /\ pc[c] = "reset_flags"
    /\ Close(c)
    /\ Fail(c)

(* Mutant: the error path leaves the socket open.                          *)
check_failed_NoClose(c) ==
    /\ pc[c] = "check"
    /\ selected[c] <= 0
    /\ Fail(c)
    /\ UNCHANGED <<file, nonblock, misclosed>>

(* "connect() call failed" or "connect() call timed out".                  *)
check_failed(c) ==
    /\ pc[c] = "check"
    /\ selected[c] <= 0
    /\ Close(c)
    /\ Fail(c)

check_ok(c) ==
    /\ pc[c] = "check"
    /\ selected[c] > 0
    /\ Goto(c, "so_error")
    /\ UNCHANGED <<fd, file, nonblock, peer, selected, ret, misclosed>>

(* getsockopt(SO_ERROR) itself fails.                                      *)
getsockopt_failed(c) ==
    /\ pc[c] = "so_error"
    /\ Close(c)
    /\ Fail(c)

(* Mutant: the socket is closed on the way out.                            *)
getsockopt_ok_Close(c) ==
    /\ pc[c] = "so_error"
    /\ Valid(c)
    /\ Close(c)
    /\ Use(c, 0)

(* The error it reports, in opt, is not looked at.                         *)
getsockopt_ok(c) ==
    /\ pc[c] = "so_error"
    /\ Valid(c)
    /\ Use(c, 0)
    /\ UNCHANGED <<file, nonblock, misclosed>>

(* tcp_disconnect, when the caller is done sending and receiving.          *)
tcp_disconnect(c) ==
    /\ pc[c] = "using"
    /\ MayEnter(c)
    /\ Close(c)
    /\ Leave(c)

-----------------------------------------------------------------------------
(* What tcp_connect does once it is called.                                *)
Step(c) ==
    \/ fcntl_get_flags(c)   \/ fcntl_set_nonblock(c)
    \/ resolve(c)           \/ early_error(c)
    \/ connect_done(c)      \/ connect_failed(c)
    \/ connect_in_progress(c)
    \/ select_writable(c)   \/ select_gives_up(c)
    \/ fcntl_reset_flags(c) \/ fcntl_reset_failed(c)
    \/ check_failed(c)      \/ check_ok(c)
    \/ getsockopt_failed(c) \/ getsockopt_ok(c)

Call(c) == socket_failed(c) \/ socket_ok(c) \/ tcp_disconnect(c)

Next == \E c \in Callers : Call(c) \/ Step(c) \/ handshake(c)

Spec == Init /\ [][Next]_vars

(* A call keeps running and select ends at its timeout at the latest; the  *)
(* peer need not answer, nobody needs to call.                             *)
FairSpec == Spec /\ \A c \in Callers : WF_vars(Step(c))

-----------------------------------------------------------------------------
(* A caller whose tcp_connect succeeds gets a socket in blocking mode, on  *)
(* which the send loop and tcp_receive_wait rely, open and its own; as     *)
(* long as nobody has closed a foreign descriptor, it keeps it.            *)
SuccessIsUsable ==
    \A c \in Callers : pc[c] = "using" /\ ret[c] = 0 /\ ~misclosed =>
        file[fd[c]] = c /\ fd[c] \notin nonblock

(* Once connect() has been called, every failure closes the socket: none   *)
(* is left behind in a tcp_data_t that lxi_connect is about to free.       *)
LateFailureCloses ==
    [][\A c \in Callers :
          pc[c] \in Late /\ pc'[c] \notin Late /\ ret'[c] = -1 =>
              file'[fd[c]] # c]_vars

(* Sessions never close each other's sockets, although descriptors are     *)
(* reused; the first foreign descriptor to be closed is closed by a        *)
(* get_device_id that went on after its tcp_connect had failed and closed  *)
(* the socket: the number has been given to a session in between.          *)
ForeignCloseByStray ==
    [][~misclosed /\ misclosed' =>
          \E d \in Discoveries :
              pc[d] = "using" /\ ret[d] = -1 /\ pc'[d] = "idle"]_vars

(* A call of tcp_connect returns, whatever the peer does.                  *)
ConnectReturns ==
    \A c \in Callers :
        (pc[c] \in Early \cup Late) ~> (pc[c] \in {"idle", "using"})

(* man/lxi_connect.3: "returns a new connection handle, or LXI_ERROR if an *)
(* error occurred": tcp_connect succeeds only with a connection.           *)
SuccessIsConnected ==
    \A c \in Sessions : pc[c] = "using" => peer[c] # "failed"
=============================================================================
