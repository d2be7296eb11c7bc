-------------------------------- MODULE TcpIo --------------------------------
(***************************************************************************)
(* The calls of tcp_send, tcp_receive and tcp_receive_wait (tcp.c) on one  *)
(* connection, and the kernel that takes and delivers bytes in pieces of   *)
(* any size.                                                               *)
(*                                                                         *)
(* The message of a send is the sequence 1, 2, ... size, and the peer's    *)
(* bytes are numbered in the order they arrive, so that wire and buffer    *)
(* show which byte went where.                                             *)
(***************************************************************************)
EXTENDS Integers, Sequences

CONSTANTS
    Sizes,      \* values of the argument "length" of a call
    MaxArrive,  \* bound on the bytes the peer sends
    MaxCalls    \* bound on the calls made

ASSUME IoAssumption ==
    /\ Sizes \subseteq Nat
    /\ MaxArrive \in Nat
    /\ MaxCalls \in Nat

VARIABLES
    pc,         \* where the call is
    flag,       \* MSG_DONTWAIT or 0
    size,       \* the argument "length"
    length,     \* the variable "length", what is left
    n,          \* what the last send or recv returned
    count,      \* bytes_sent or bytes_received
    pieces,     \* history: sends or recvs of this call that moved bytes
    wire,       \* history: what this call has given to the kernel
    buffer,     \* what is in the caller's buffer
    arrived,    \* bytes the peer has sent
    taken,      \* bytes recv has delivered
    first,      \* history: taken when the call began
    peer,       \* "open", "closed" (end of stream) or "reset"
    full,       \* the kernel has no room for bytes to send
    ret,        \* return value of the last call, -1 for an error
    calls       \* calls made

call == <<flag, size, length, n, count, pieces, wire, first>>
net  == <<arrived, taken, peer, full>>
vars == <<pc, call, buffer, net, ret, calls>>

PCs == {"idle", "select_w", "send", "select_r", "recv", "killed"}

TypeOK ==
    /\ pc \in PCs
    /\ flag \in {"MSG_DONTWAIT", "0"}
    /\ size \in Nat
    /\ length \in Nat
    /\ n \in Nat
    /\ count \in Nat
    /\ pieces \in Nat
    /\ wire \in Seq(Nat)
    /\ buffer \in [1 .. size -> Nat]
    /\ arrived \in 0 .. MaxArrive
    /\ taken \in 0 .. arrived
    /\ first \in 0 .. taken
    /\ peer \in {"open", "closed", "reset"}
    /\ full \in BOOLEAN
    /\ ret \in Int
    /\ calls \in 0 .. MaxCalls

Init ==
    /\ pc = "idle"
    /\ flag = "0"
    /\ size = 0 /\ length = 0 /\ n = 0 /\ count = 0 /\ pieces = 0
    /\ wire = <<>>
    /\ buffer = [i \in 1 .. 0 |-> 0]
    /\ arrived = 0 /\ taken = 0 /\ first = 0
    /\ peer = "open"
    /\ full \in BOOLEAN
    /\ ret = 0
    /\ calls = 0

(* A call with an argument of l bytes begins with a select().              *)
Begin(l, label) ==
    /\ pc = "idle"
    /\ calls < MaxCalls
    /\ calls' = calls + 1
    /\ size' = l
    /\ length' = l
    /\ n' = 0
    /\ count' = 0
    /\ pieces' = 0
    /\ wire' = <<>>
    /\ buffer' = [i \in 1 .. l |-> 0]
    /\ first' = taken
    /\ pc' = label
    /\ UNCHANGED <<net, ret>>

Return(r) ==
    /\ pc' = "idle"
    /\ ret' = r

-----------------------------------------------------------------------------
tcp_send ==
    /\ \E l \in Sizes : Begin(l, "select_w")
    /\ UNCHANGED flag

tcp_receive ==
    /\ \E l \in Sizes : Begin(l, "select_r")
    /\ flag' = "MSG_DONTWAIT"

tcp_receive_wait ==
    /\ \E l \in Sizes : Begin(l, "select_r")
    /\ flag' = "0"

(* select() fails or times out.                                            *)
select_gives_up ==
    /\ pc \in {"select_w", "select_r"}
    /\ Return(-1)
    /\ UNCHANGED <<call, buffer, net, calls>>

(* A socket is writable when there is room, or an error to report.         *)
select_writable ==
    /\ pc = "select_w"
    /\ ~full \/ peer = "reset"
    /\ pc' = "send"
    /\ UNCHANGED <<call, buffer, net, ret, calls>>

(* A socket is readable when bytes, an end of stream or an error is there. *)
select_readable ==
    /\ pc = "select_r"
    /\ taken < arrived \/ peer # "open"
    /\ pc' = "recv"
    /\ UNCHANGED <<call, buffer, net, ret, calls>>

-----------------------------------------------------------------------------
(* The loop of tcp_send.                                                   *)

(* What send() may accept of length bytes: it is cut short by a signal.    *)
Accepted == IF length = 0 THEN {0} ELSE 1 .. length

(* Mutant: there is no loop.                                               *)
SendDone_OnePiece(k) == TRUE

(* while (length > 0), after length -= n                                   *)
SendDone(k) == length - k = 0

(* Mutant: length is reduced by the total.                                 *)
Remaining_ByTotal(k) == length - (count + k)

(* length -= n                                                             *)
Remaining(k) == length - k

(* send(message + n, length): the bytes that follow the last piece's size, *)
(* not the ones that follow what has been sent.  The socket is a blocking  *)
(* one: without room, send() waits, and no timeout ends that.              *)
send(k) ==
    /\ pc = "send"
    /\ peer # "reset"
    /\ ~full \/ length = 0
    /\ k \in Accepted
    /\ full' \in BOOLEAN
    /\ wire' = wire \o [i \in 1 .. k |-> n + i]
    /\ n' = k
    /\ length' = Remaining(k)
    /\ count' = count + k
    /\ pieces' = pieces + 1
    /\ IF SendDone(k) THEN Return(count + k) ELSE UNCHANGED <<pc, ret>>
    /\ UNCHANGED <<flag, size, first, buffer, arrived, taken, peer, calls>>

(* send() reports an error of its own, which need not happen.              *)
send_failed ==
    /\ pc = "send"
    /\ Return(-1)
    /\ UNCHANGED <<call, buffer, net, calls>>

(* Without MSG_NOSIGNAL, a send to a peer that is gone raises SIGPIPE,     *)
(* whose default action ends the program.                                  *)
send_sigpipe ==
    /\ pc = "send"
    /\ peer = "reset"
    /\ pc' = "killed"
    /\ UNCHANGED <<call, buffer, net, ret, calls>>

-----------------------------------------------------------------------------
(* The loop of tcp_receive_.                                               *)

(* What recv() may deliver when bytes are there.                           *)
Delivered == {k \in 1 .. length : k <= arrived - taken}

(* Mutant: every piece is stored at the start of the buffer.               *)
StoreAt_Start(k) == 0

(* message + n                                                             *)
StoreAt(k) == n

(* A piece is stored behind the last piece's size.                         *)
recv(k) ==
    /\ pc = "recv"
    /\ k \in Delivered
    /\ buffer' = [i \in DOMAIN buffer |->
                    IF i - StoreAt(k) \in 1 .. k THEN taken + (i - StoreAt(k))
                                                 ELSE buffer[i]]
    /\ taken' = taken + k
    /\ n' = k
    /\ length' = Remaining(k)
    /\ count' = count + k
    /\ pieces' = pieces + 1
    /\ UNCHANGED <<pc, flag, size, wire, first, arrived, peer, full, ret,
                   calls>>

(* recv() returns 0: the buffer is full, or the stream has ended (after a  *)
(* reset that an earlier call was told of, too).                           *)
recv_zero ==
    /\ pc = "recv"
    /\ length = 0 \/ (taken = arrived /\ peer # "open")
    /\ Return(count)
    /\ n' = 0
    /\ UNCHANGED <<flag, size, length, count, pieces, wire, first, buffer,
                   net, calls>>

(* Mutant: recv() is tried again until there is something.                 *)
recv_again_Retry ==
    /\ pc = "recv"
    /\ flag = "MSG_DONTWAIT"
    /\ length > 0 /\ taken = arrived /\ peer = "open"
    /\ UNCHANGED vars

(* Nothing there: with MSG_DONTWAIT recv() fails with EAGAIN, and that is  *)
(* how a message that does not fill the buffer ends.                       *)
recv_again ==
    /\ pc = "recv"
    /\ flag = "MSG_DONTWAIT"
    /\ length > 0 /\ taken = arrived /\ peer = "open"
    /\ Return(count)
    /\ UNCHANGED <<call, buffer, net, calls>>

(* Any other error breaks the loop in the same way, and is not reported.   *)
recv_failed ==
    /\ pc = "recv"
    /\ peer = "reset"
    /\ Return(count)
    /\ UNCHANGED <<call, buffer, net, calls>>

-----------------------------------------------------------------------------
(* The peer sends a byte, closes its side or breaks the connection.        *)
Arrive ==
    /\ peer = "open"
    /\ arrived < MaxArrive
    /\ arrived' = arrived + 1
    /\ UNCHANGED <<pc, call, buffer, taken, peer, full, ret, calls>>

Hangup ==
    /\ peer # "reset"
    /\ peer' \in {"closed", "reset"} \ {peer}
    /\ UNCHANGED <<pc, call, buffer, arrived, taken, full, ret, calls>>

(* The peer reads, and makes room.                                         *)
Drain ==
    /\ full
    /\ peer # "reset"
    /\ full' = FALSE
    /\ UNCHANGED <<pc, call, buffer, arrived, taken, peer, ret, calls>>

Call == tcp_send \/ tcp_receive \/ tcp_receive_wait

Step ==
    \/ select_gives_up \/ select_writable \/ select_readable
    \/ (\E k \in Accepted : send(k)) \/ send_sigpipe
    \/ (\E k \in Delivered : recv(k))
    \/ recv_zero \/ recv_again \/ recv_failed

Next == Call \/ Step \/ send_failed \/ Arrive \/ Hangup \/ Drain

Spec == Init /\ [][Next]_vars

(* The library runs and select() times out; the peer does as it likes and  *)
(* need not send, read or hang up.                                         *)
FairSpec == Spec /\ WF_vars(Step)

-----------------------------------------------------------------------------
(* send() reads and recv() writes inside the caller's buffer: with the     *)
(* offset taken from the last piece and the length from the total, the     *)
(* two could well disagree.                                                *)
InBuffer == pc \in {"send", "recv"} => n + length <= size

(* The counts add up: what is reported is what was moved, and the rest is  *)
(* what the loop still asks for.                                           *)
Counts ==
    /\ count + length = size
    /\ Len(wire) + taken = first + count

(* Only as much of the caller's buffer as the call reports is written.     *)
TailUntouched == \A i \in count + 1 .. size : buffer[i] = 0

(* A transfer stays inside the caller's buffer and counts right, however   *)
(* the kernel cuts it into pieces.                                         *)
ExactTransfer == InBuffer /\ Counts /\ TailUntouched

(* man/lxi_send.3 ("sends length bytes from the message buffer") and       *)
(* man/lxi_receive.3, as far as they are true: bytes that move in one or   *)
(* two pieces keep their order.                                            *)
TwoPiecesInOrder ==
    pieces <= 2 =>
        /\ \A i \in 1 .. Len(wire) : wire[i] = i
        /\ \A i \in 1 .. taken - first : buffer[i] = first + i

(* A successful send has given the kernel as many bytes as it says.        *)
SentAll ==
    [][pc = "send" /\ pc' = "idle" /\ ret' >= 0 =>
          ret' = size /\ Len(wire') = size]_vars

(* What has no timeout in tcp.c: send() on the blocking socket, for a peer *)
(* that does not read, and tcp_receive_wait after its first byte.          *)
Blocked ==
    \/ pc = "send" /\ full /\ length > 0 /\ peer # "reset"
    \/ pc = "recv" /\ flag = "0" /\ peer = "open" /\ taken = arrived

(* A call returns, or ends with the program, or is blocked from some point *)
(* on in one of the two waits without a timeout.                           *)
CallReturns == (pc # "idle") ~> (pc \in {"idle", "killed"} \/ []Blocked)

-----------------------------------------------------------------------------
(* man/lxi_receive.3: "receives up to length bytes in the message buffer": *)
(* what the peer sent, in its order.                                       *)
ReceivesMessage == \A i \in 1 .. taken - first : buffer[i] = first + i
=============================================================================
