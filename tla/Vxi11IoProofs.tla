---------------------------- MODULE Vxi11IoProofs ----------------------------
(***************************************************************************)
(* Proofs about Vxi11Io, for buffers and messages of any length and any    *)
(* number of answers.                                                      *)
(***************************************************************************)
EXTENDS Vxi11Io, TLAPS

(* While a receive runs, offset and response_length agree and count what   *)
(* the instrument has said since the call began.                           *)
LoopInv ==
    pc \in {"read", "answer"} =>
        /\ offset = response_length
        /\ spoken = first + response_length
        /\ first = delivered + lost

(* Between receives every byte the instrument has given away was either    *)
(* delivered or lost by a receive that failed.                             *)
IdleInv == pc \notin {"read", "answer"} => spoken = delivered + lost

(* A send leaves the buffer of a receive empty.                            *)
EmptyInv ==
    pc = "write" =>
        response_length = 0 /\ \A i \in 1 .. length : buffer[i] = 0

IInv ==
    /\ TypeOK
    /\ LoopInv
    /\ IdleInv
    /\ EmptyInv
    /\ RequestInBuffer
    /\ AnswersInOrder

LEMMA InitInv == Init => IInv
<1> SUFFICES ASSUME Init PROVE IInv
  OBVIOUS
<1>1. TypeOK
  BY IoAssumption DEF Init, TypeOK, PCs, Reasons
<1>2. LoopInv /\ IdleInv /\ EmptyInv /\ RequestInBuffer /\ AnswersInOrder
  BY DEF Init, LoopInv, IdleInv, EmptyInv, RequestInBuffer, AnswersInOrder
<1> QED
  BY <1>1, <1>2 DEF IInv

(* A call begins with an empty buffer.                                     *)
LEMMA BeginInv ==
    ASSUME IInv, NEW l \in Sizes, NEW label \in {"write", "read"},
           Begin(l, label)
    PROVE  IInv'
<1>1. l \in Nat
  BY IoAssumption
<1>2. TypeOK'
  BY <1>1 DEF IInv, TypeOK, Begin, PCs, Reasons
<1>3. LoopInv' /\ IdleInv' /\ EmptyInv'
  BY <1>1 DEF IInv, TypeOK, Begin, LoopInv, IdleInv, EmptyInv
<1>4. RequestInBuffer' /\ AnswersInOrder'
  BY <1>1 DEF IInv, TypeOK, Begin, RequestInBuffer, AnswersInOrder
<1> QED
  BY <1>2, <1>3, <1>4 DEF IInv

(* The end of a send changes nothing that a receive depends on.            *)
LEMMA WriteInv ==
    ASSUME IInv, NEW k \in 0 .. length,
           device_write_ok(k) \/ device_write_failed
    PROVE  IInv'
<1> USE DEF device_write_ok, device_write_failed, call
<1>1. k \in Nat
  BY DEF IInv, TypeOK
<1>2. TypeOK'
  BY <1>1 DEF IInv, TypeOK, PCs, Reasons
<1>3. LoopInv' /\ IdleInv' /\ EmptyInv' /\ RequestInBuffer'
  BY DEF IInv, LoopInv, IdleInv, EmptyInv, RequestInBuffer
<1>4. AnswersInOrder'
  BY <1>1 DEF IInv, TypeOK, EmptyInv, AnswersInOrder
<1> QED
  BY <1>2, <1>3, <1>4 DEF IInv

(* A turn of the loop, and the end of the call by vxi11_disconnect.        *)
LEMMA PcInv ==
    ASSUME IInv, device_read \/ vxi11_disconnect \/ clnt_destroy
    PROVE  IInv'
<1> USE DEF device_read, vxi11_disconnect, clnt_destroy, call
<1>1. TypeOK'
  BY DEF IInv, TypeOK, PCs, Reasons
<1>2. LoopInv' /\ IdleInv' /\ EmptyInv' /\ RequestInBuffer'
  BY DEF IInv, LoopInv, IdleInv, EmptyInv, RequestInBuffer
<1>3. AnswersInOrder'
  BY DEF IInv, AnswersInOrder
<1> QED
  BY <1>1, <1>2, <1>3 DEF IInv

(* What every receive that fails preserves.                                *)
LEMMA FailInv ==
    ASSUME IInv, pc = "answer", NEW k \in Nat,
           spoken + k <= MaxBytes, spoken' = spoken + k, Fail,
           response_length' \in Nat, buffer' \in [1 .. length -> Nat]
    PROVE  IInv'
<1>1. TypeOK'
  BY IoAssumption DEF IInv, TypeOK, Fail, PCs
<1>2. LoopInv' /\ IdleInv' /\ EmptyInv' /\ RequestInBuffer' /\ AnswersInOrder'
  BY DEF IInv, TypeOK, Fail, LoopInv, IdleInv, EmptyInv, RequestInBuffer,
         AnswersInOrder
<1> QED
  BY <1>1, <1>2 DEF IInv

(* An answer goes behind the ones before it.                               *)
LEMMA AnswerInv ==
    ASSUME IInv, NEW k \in 0 .. requestSize,
           NEW r \in Reasons, device_read_ok(k, r)
    PROVE  IInv'
<1>1. /\ pc = "answer"
      /\ k \in Nat /\ k <= length - offset /\ spoken + k <= MaxBytes
  BY DEF IInv, TypeOK, device_read_ok, requestSize
<1>2. /\ offset = response_length /\ spoken = first + response_length
      /\ first = delivered + lost
  BY <1>1 DEF IInv, LoopInv
<1>3. /\ spoken' = spoken + k
      /\ response_length' = response_length + k
      /\ offset' = offset + k
      /\ reason' \in Reasons
      /\ UNCHANGED <<length, first, client>>
  BY DEF device_read_ok, ReadResult, NextOffset
<1>4. \/ /\ pc' = "idle"
         /\ ret' = response_length + k
         /\ delivered' = spoken + k
         /\ lost' = 0
      \/ /\ pc' = "read"
         /\ UNCHANGED <<ret, delivered, lost>>
  BY DEF device_read_ok, ReadResult, Ended
<1>5. buffer' = [i \in 1 .. length |->
                   IF i - offset \in 1 .. k THEN spoken + (i - offset)
                                            ELSE buffer[i]]
  BY DEF device_read_ok, Stored
<1>6. TypeOK'
  BY <1>1, <1>3, <1>4, <1>5 DEF IInv, TypeOK, PCs, Reasons
<1>7. LoopInv' /\ IdleInv' /\ EmptyInv' /\ RequestInBuffer'
  BY <1>1, <1>2, <1>3, <1>4 DEF IInv, TypeOK, LoopInv, IdleInv, EmptyInv,
     RequestInBuffer
<1>8. AnswersInOrder'
  <2>1. response_length' <= length'
    BY <1>1, <1>2, <1>3 DEF IInv, TypeOK
  <2>2. ASSUME NEW i \in 1 .. length
        PROVE  buffer'[i] =
                  IF i <= response_length' THEN first' + i ELSE 0
    <3>1. buffer[i] = IF i <= response_length THEN first + i ELSE 0
      BY <1>1 DEF IInv, AnswersInOrder
    <3>2. buffer'[i] = IF i - offset \in 1 .. k THEN spoken + (i - offset)
                                                ELSE buffer[i]
      BY <1>5
    <3> QED
      BY <1>1, <1>2, <1>3, <3>1, <3>2 DEF IInv, TypeOK
  <2> QED
    BY <1>3, <2>1, <2>2 DEF AnswersInOrder
<1> QED
  BY <1>6, <1>7, <1>8 DEF IInv

LEMMA NextInv == ASSUME IInv, [Next]_vars PROVE IInv'
<1>1. CASE vxi11_send
  BY <1>1, BeginInv DEF vxi11_send
<1>2. CASE vxi11_receive
  BY <1>2, BeginInv DEF vxi11_receive, IInv, TypeOK
<1>3. CASE device_read \/ vxi11_disconnect \/ clnt_destroy
  BY <1>3, PcInv
<1>4. ASSUME NEW k \in 0 .. length, device_write_ok(k)
      PROVE  IInv'
  BY <1>4, WriteInv
<1>5. CASE device_write_failed
  <2>1. 0 \in 0 .. length
    BY DEF IInv, TypeOK
  <2> QED
    BY <1>5, <2>1, WriteInv
<1>6. ASSUME NEW k \in 0 .. requestSize + 1, device_read_failed(k)
      PROVE  IInv'
  <2>1. k \in Nat
    BY DEF IInv, TypeOK, requestSize
  <2> QED
    BY <1>6, <2>1, FailInv DEF device_read_failed, IInv, TypeOK
<1>7. ASSUME NEW k \in 0 .. requestSize + 1, device_read_too_long(k)
      PROVE  IInv'
  <2>1. k \in Nat
    BY DEF IInv, TypeOK, requestSize
  <2>2. response_length' \in Nat /\ buffer' \in [1 .. length -> Nat]
    BY <1>7, <2>1 DEF device_read_too_long, Stored, IInv, TypeOK
  <2> QED
    BY <1>7, <2>1, <2>2, FailInv DEF device_read_too_long
<1>8. ASSUME NEW k \in 0 .. requestSize,
             NEW r \in Reasons, device_read_ok(k, r)
      PROVE  IInv'
  BY <1>8, AnswerInv
<1>9. CASE UNCHANGED vars
  BY <1>9 DEF IInv, TypeOK, LoopInv, IdleInv, EmptyInv, RequestInBuffer,
     AnswersInOrder, vars, call
<1> QED
  BY <1>1, <1>2, <1>3, <1>4, <1>5, <1>6, <1>7, <1>8,
     <1>9 DEF Next, Call, Step

LEMMA Invariance == Spec => []IInv
BY InitInv, NextInv, PTL DEF Spec

-----------------------------------------------------------------------------
(* The types of Vxi11Io.                                                   *)
THEOREM TypeCorrect == Spec => []TypeOK
BY Invariance, PTL DEF IInv

(* Reads stay inside the buffer and the answers make up the message,       *)
(* whatever the sizes of buffer and answers and the reasons given.         *)
THEOREM ReceivesInOrder == Spec => []ReceiveCorrect
BY Invariance, PTL DEF IInv, ReceiveCorrect

(* Receives continue where the last one stopped.                           *)
THEOREM NothingLost == Spec => Gapless
<1>1. ASSUME IInv, Next, delivered' # delivered
      PROVE  first = delivered + lost /\ delivered' = first + ret'
  <2>1. PICK k \in 0 .. requestSize, r \in Reasons : device_read_ok(k, r)
    BY <1>1 DEF Next, Call, Step, vxi11_send, vxi11_receive, vxi11_disconnect,
         Begin, device_write_ok, device_write_failed, device_read,
         device_read_failed, device_read_too_long, Fail, clnt_destroy
  <2>2. /\ delivered' = spoken + k /\ ret' = response_length + k
        /\ pc = "answer"
    BY <1>1, <2>1 DEF device_read_ok, ReadResult
  <2>3. k \in Int
    BY <1>1 DEF IInv, TypeOK, requestSize
  <2> QED
    BY <1>1, <2>2, <2>3 DEF IInv, TypeOK, LoopInv
<1> QED
  BY <1>1, Invariance, PTL DEF Spec, Gapless
=============================================================================
