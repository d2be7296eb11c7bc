---------------------------- MODULE TcpIoProofs ----------------------------
(***************************************************************************)
(* Proofs about tcp_send and tcp_receive_: for every length of a call and  *)
(* every way the kernel cuts the bytes into pieces.                        *)
(***************************************************************************)
EXTENDS TcpIo, SequenceTheorems, TLAPS

-----------------------------------------------------------------------------
(* The inductive invariant.                                                *)

(* The last piece is part of the total, and is all of it in the first      *)
(* round: why the offset never leaves the buffer, and why two pieces are   *)
(* still stored one behind the other.                                      *)
PieceInv ==
    /\ n <= count
    /\ pieces = 0 => count = 0
    /\ pieces <= 1 /\ pc # "idle" => n = count

(* A call that sends does not receive, and the other way round.            *)
DirectionInv ==
    /\ pc \in {"select_w", "send"} => taken = first
    /\ pc \in {"select_r", "recv"} => wire = <<>>

IInv ==
    /\ TypeOK
    /\ PieceInv
    /\ DirectionInv
    /\ Counts
    /\ TwoPiecesInOrder
    /\ TailUntouched

-----------------------------------------------------------------------------
LEMMA InitInv == Init => IInv
<1> SUFFICES ASSUME Init PROVE IInv
  OBVIOUS
<1> USE IoAssumption DEF Init
<1>1. wire \in Seq(Nat) /\ Len(wire) = 0
  OBVIOUS
<1>2. buffer \in [1 .. size -> Nat]
  OBVIOUS
<1>3. TypeOK
  <2>1. /\ pc = "idle" /\ flag = "0"
        /\ size \in Nat /\ length \in Nat /\ n \in Nat /\ count \in Nat
        /\ pieces \in Nat /\ calls \in 0 .. MaxCalls /\ ret \in Int
        /\ arrived \in 0 .. MaxArrive /\ taken = arrived /\ first = taken
        /\ peer = "open" /\ full \in BOOLEAN
    OBVIOUS
  <2> HIDE DEF Init
  <2> QED
    BY <1>1, <1>2, <2>1 DEF TypeOK, PCs
<1>4. PieceInv /\ DirectionInv /\ Counts /\ TwoPiecesInOrder /\ TailUntouched
  BY <1>1 DEF PieceInv, DirectionInv, Counts, TwoPiecesInOrder, TailUntouched
<1> QED
  BY <1>3, <1>4 DEF IInv

(* A call begins with nothing moved.                                       *)
LEMMA BeginInv ==
    ASSUME IInv, NEW l \in Sizes, NEW label \in {"select_w", "select_r"},
           Begin(l, label), flag' \in {"MSG_DONTWAIT", "0"}
    PROVE  IInv'
<1> USE IoAssumption DEF IInv, TypeOK, Begin, net
<1>1. TypeOK'
  <2>1. wire' \in Seq(Nat) /\ buffer' \in [1 .. size' -> Nat]
    OBVIOUS
  <2>2. /\ pc' \in PCs
        /\ size' \in Nat /\ length' \in Nat /\ n' \in Nat /\ count' \in Nat
        /\ pieces' \in Nat /\ calls' \in 0 .. MaxCalls
        /\ UNCHANGED <<arrived, taken, peer, full, ret>> /\ first' = taken
    BY DEF PCs
  <2> HIDE DEF Begin
  <2> QED
    BY <2>1, <2>2
<1>2. PieceInv' /\ DirectionInv' /\ Counts'
  BY DEF PieceInv, DirectionInv, Counts
<1>3. TwoPiecesInOrder' /\ TailUntouched'
  BY DEF TwoPiecesInOrder, TailUntouched
<1> QED
  BY <1>1, <1>2, <1>3

(* The piece that send() takes.                                            *)
LEMMA SendInv ==
    ASSUME IInv, NEW k \in Accepted, send(k) PROVE IInv'
<1> USE IoAssumption DEF IInv, TypeOK
<1> DEFINE piece == [i \in 1 .. k |-> n + i]
<1>0. wire' = wire \o piece
  BY DEF send
<1>1. k \in Nat /\ k <= length /\ Len(wire) \in Nat
  BY DEF Accepted
<1>2. /\ n' = k
      /\ length' = length - k
      /\ count' = count + k
      /\ pieces' = pieces + 1
      /\ UNCHANGED <<flag, size, first, buffer, arrived, taken, peer, calls>>
      /\ pc = "send" /\ full' \in BOOLEAN
      /\ \/ pc' = "idle" /\ ret' = count + k
         \/ UNCHANGED <<pc, ret>>
  BY DEF send, Remaining, SendDone, Return, net
<1>3. piece \in Seq(Nat) /\ Len(piece) = k /\ \A i \in 1 .. k : piece[i] = n + i
  BY <1>1
<1> HIDE DEF piece
<1>4. wire' \in Seq(Nat) /\ Len(wire') = Len(wire) + k
  BY <1>0, <1>3, ConcatProperties
<1>5. \A i \in 1 .. Len(wire) + k : wire'[i] =
          IF i <= Len(wire) THEN wire[i] ELSE piece[i - Len(wire)]
  BY <1>0, <1>3, ConcatProperties
<1>6. TypeOK'
  BY <1>1, <1>2, <1>4 DEF PCs
<1>7. PieceInv'
  BY <1>1, <1>2 DEF PieceInv
<1>8. DirectionInv'
  BY <1>2 DEF DirectionInv
<1>9. Counts'
  <2>1. count' + length' = size'
    BY <1>1, <1>2 DEF Counts
  <2>2. /\ count' = count + k /\ taken' = taken /\ first' = first
        /\ Len(wire) + taken = first + count
    BY <1>2 DEF Counts
  <2>3. Len(wire') + taken' = first' + count'
    <3>1. taken \in Int /\ first \in Int /\ count \in Int
      OBVIOUS
    <3>2. Len(wire') = Len(wire) + k /\ Len(wire) \in Int /\ k \in Int
      BY <1>1, <1>4
    <3> HIDE DEF IInv, TypeOK
    <3> QED
      BY <2>2, <3>1, <3>2
  <2> QED
    BY <2>1, <2>3 DEF Counts
<1>10. TailUntouched'
  BY <1>1, <1>2 DEF TailUntouched
<1>11. TwoPiecesInOrder'
  <2> SUFFICES ASSUME pieces <= 1
               PROVE  \A i \in 1 .. Len(wire) + k : wire'[i] = i
    BY <1>2, <1>4 DEF TwoPiecesInOrder, DirectionInv
  <2>1. n = Len(wire)
    BY <1>2 DEF PieceInv, Counts, DirectionInv
  <2>2. \A i \in 1 .. Len(wire) : wire[i] = i
    BY DEF TwoPiecesInOrder
  <2> TAKE i \in 1 .. Len(wire) + k
  <2>3. CASE i <= Len(wire)
    BY <1>1, <1>5, <2>2, <2>3
  <2>4. CASE i > Len(wire)
    <3>1. i - Len(wire) \in 1 .. k
      BY <1>1, <2>4
    <3>2. wire'[i] = n + (i - Len(wire))
      BY <1>1, <1>3, <1>5, <2>4, <3>1
    <3> QED
      BY <1>1, <2>1, <3>2
  <2> QED
    BY <1>1, <2>3, <2>4
<1> QED
  BY <1>6, <1>7, <1>8, <1>9, <1>10, <1>11

(* The piece that recv() delivers.                                         *)
LEMMA RecvInv ==
    ASSUME IInv, NEW k \in Delivered, recv(k) PROVE IInv'
<1> USE IoAssumption DEF IInv, TypeOK, recv, Remaining, StoreAt, net
<1>1. k \in Nat \ {0} /\ k <= length /\ taken + k <= arrived
  BY DEF Delivered
<1>2. TypeOK'
  BY <1>1 DEF PCs
<1>3. PieceInv' /\ DirectionInv' /\ Counts'
  BY <1>1 DEF PieceInv, DirectionInv, Counts
<1>4. TailUntouched'
  BY <1>1 DEF PieceInv, TailUntouched
<1>5. TwoPiecesInOrder'
  BY <1>1 DEF TwoPiecesInOrder, PieceInv, DirectionInv, Counts
<1> QED
  BY <1>2, <1>3, <1>4, <1>5

(* The other steps move no bytes.                                          *)
Still ==
    \/ select_gives_up \/ select_writable \/ select_readable
    \/ send_failed \/ send_sigpipe
    \/ recv_zero \/ recv_again \/ recv_failed
    \/ Arrive \/ Hangup \/ Drain

LEMMA StillInv == ASSUME IInv, Still PROVE IInv'
<1> USE IoAssumption DEF IInv, TypeOK, PCs, PieceInv, DirectionInv, Counts,
        TwoPiecesInOrder, TailUntouched, Return, call, net
<1>1. CASE select_gives_up
  BY <1>1 DEF select_gives_up
<1>2. CASE select_writable
  BY <1>2 DEF select_writable
<1>3. CASE select_readable
  BY <1>3 DEF select_readable
<1>4. CASE send_failed
  BY <1>4 DEF send_failed
<1>5. CASE send_sigpipe
  BY <1>5 DEF send_sigpipe
<1>6. CASE recv_zero
  BY <1>6 DEF recv_zero
<1>7. CASE recv_again
  BY <1>7 DEF recv_again
<1>8. CASE recv_failed
  BY <1>8 DEF recv_failed
<1>9. CASE Arrive
  BY <1>9 DEF Arrive
<1>10. CASE Hangup
  BY <1>10 DEF Hangup
<1>11. CASE Drain
  BY <1>11 DEF Drain
<1> QED
  BY <1>1, <1>2, <1>3, <1>4, <1>5, <1>6, <1>7, <1>8, <1>9, <1>10, <1>11
     DEF Still

LEMMA StutterInv == ASSUME IInv, UNCHANGED vars PROVE IInv'
BY DEF vars, call, net, IInv, TypeOK, PieceInv, DirectionInv, Counts,
       TwoPiecesInOrder, TailUntouched

LEMMA NextInv == ASSUME IInv, [Next]_vars PROVE IInv'
<1>1. CASE UNCHANGED vars
  BY <1>1, StutterInv
<1>2. CASE Call
  BY <1>2, BeginInv DEF Call, tcp_send, tcp_receive, tcp_receive_wait, IInv,
       TypeOK
<1>3. CASE Still
  BY <1>3, StillInv
<1>4. CASE (\E k \in Accepted : send(k)) \/ (\E k \in Delivered : recv(k))
  BY <1>4, SendInv, RecvInv
<1> QED
  BY <1>1, <1>2, <1>3, <1>4 DEF Next, Step, Still

LEMMA Invariance == Spec => []IInv
BY InitInv, NextInv, PTL DEF Spec

-----------------------------------------------------------------------------
(* The variables keep their types; the lengths never become negative.      *)
THEOREM TypeCorrect == Spec => []TypeOK
<1>1. IInv => TypeOK
  BY DEF IInv
<1> QED
  BY <1>1, Invariance, PTL

(* For every length and every way the bytes are cut into pieces, send()    *)
(* and recv() stay inside the caller's buffer, the call counts the bytes   *)
(* it moves, and writes no other part of the buffer.                       *)
THEOREM TransfersExactly == Spec => []ExactTransfer
<1>1. IInv => InBuffer
  BY DEF IInv, TypeOK, InBuffer, PieceInv, Counts
<1>2. IInv => Counts /\ TailUntouched
  BY DEF IInv
<1> QED
  BY <1>1, <1>2, Invariance, PTL DEF ExactTransfer

(* Bytes that move in at most two pieces keep their order.                 *)
THEOREM TwoPieces == Spec => []TwoPiecesInOrder
<1>1. IInv => TwoPiecesInOrder
  BY DEF IInv
<1> QED
  BY <1>1, Invariance, PTL

(* A send that reports success has handed over the whole length.           *)
THEOREM SendsAll == Spec => SentAll
<1>1. IInv /\ [Next]_vars =>
        [pc = "send" /\ pc' = "idle" /\ ret' >= 0 =>
            ret' = size /\ Len(wire') = size]_vars
  <2> SUFFICES ASSUME IInv, Next, pc = "send", pc' = "idle", ret' >= 0
               PROVE  ret' = size /\ Len(wire') = size
    OBVIOUS
  <2>1. PICK k \in Accepted : send(k)
    BY DEF Next, Call, Step, tcp_send, tcp_receive, tcp_receive_wait, Begin,
         select_gives_up, select_writable, select_readable, send_failed,
         send_sigpipe, recv, recv_zero, recv_again, recv_failed, Arrive,
         Hangup, Drain, Return
  <2>2. count + k = size /\ ret' = count + k /\ size' = size
    BY <2>1 DEF send, SendDone, Return, IInv, TypeOK, Counts, Accepted
  <2>3. Counts' /\ DirectionInv /\ taken' = taken /\ first' = first
        /\ count' = count + k
    BY <2>1, SendInv DEF IInv, send, net
  <2> QED
    BY <2>1, <2>2, <2>3, SendInv DEF Counts, DirectionInv, IInv, TypeOK
<1> QED
  BY <1>1, Invariance, PTL DEF Spec, SentAll
=============================================================================
