------------------------------- MODULE Vxi11Io -------------------------------
(***************************************************************************)
(* The calls of vxi11_send, vxi11_receive and vxi11_disconnect (vxi11.c)   *)
(* on one link, each a sequence of remote procedure calls, and the         *)
(* instrument at the other end.                                            *)
(*                                                                         *)
(* The bytes that the instrument has to say are numbered 1, 2, ...; each   *)
(* answer to device_read carries as many of them as the instrument likes,  *)
(* up to the size that was asked for.                                      *)
(***************************************************************************)
EXTENDS Integers

CONSTANTS
    Sizes,      \* values of the argument "length" of a call
    MaxBytes    \* bound on the bytes the instrument has to say

ASSUME IoAssumption ==
    /\ Sizes \subseteq Nat
    /\ MaxBytes \in Nat

VARIABLES
    pc,         \* where the caller is
    length,     \* the argument "length"
    offset,     \* where in the buffer the next answer goes
    response_length,
    reason,     \* read_resp.reason
    buffer,     \* the caller's buffer
    spoken,     \* bytes the instrument has given away
    first,      \* history: spoken when the call began
    delivered,  \* history: the last byte a receive has returned
    lost,       \* history: bytes that failed receives have used up since
    ret,        \* return value of the last call
    client      \* data->rpc_client: "open" or "destroyed"

call == <<length, offset, response_length, buffer, first>>
vars == <<pc, call, reason, spoken, delivered, lost, ret, client>>

PCs == {"idle", "write", "read", "answer", "destroy_link", "closed"}

(* The reasons an answer can give: none at all (0), the request is met, a  *)
(* termination character, the end of the message.                          *)
Reasons == {"none", "REQCNT", "CHR", "END"}

TypeOK ==
    /\ pc \in PCs
    /\ length \in Nat /\ offset \in Nat /\ response_length \in Nat
    /\ buffer \in [1 .. length -> Nat]
    /\ reason \in Reasons
    /\ spoken \in 0 .. MaxBytes
    /\ first \in 0 .. spoken
    /\ delivered \in 0 .. spoken
    /\ lost \in Nat
    /\ ret \in Int
    /\ client \in {"open", "destroyed"}

(* vxi11_connect has returned 0.                                           *)
Init ==
    /\ pc = "idle"
    /\ length = 0 /\ offset = 0 /\ response_length = 0
    /\ reason = "none"
    /\ buffer = [i \in 1 .. 0 |-> 0]
    /\ spoken = 0 /\ first = 0 /\ delivered = 0
    /\ lost = 0
    /\ ret = 0
    /\ client = "open"

-----------------------------------------------------------------------------
(* A call with an argument of l bytes.                                     *)
Begin(l, label) ==
    /\ pc = "idle"
    /\ length' = l
    /\ offset' = 0 /\ response_length' = 0
    /\ reason' = "none"
    /\ buffer' = [i \in 1 .. l |-> 0]
    /\ first' = spoken
    /\ pc' = label
    /\ UNCHANGED <<spoken, delivered, lost, ret, client>>

(* The whole message is one device_write, whatever maxRecvSize the         *)
(* instrument named in its answer to create_link.                          *)
vxi11_send == \E l \in Sizes : Begin(l, "write")

(* The instrument answers that it took k bytes, with or without an error:  *)
(* write_resp.error is not looked at.                                      *)
device_write_ok(k) ==
    /\ pc = "write"
    /\ ret' = k
    /\ pc' = "idle"
    /\ UNCHANGED <<call, reason, spoken, delivered, lost, client>>

(* No answer within the 25 seconds of the RPC client: the instrument may   *)
(* have got the message nevertheless.                                      *)
device_write_failed ==
    /\ pc = "write"
    /\ ret' = -1
    /\ pc' = "idle"
    /\ UNCHANGED <<call, reason, spoken, delivered, lost, client>>

-----------------------------------------------------------------------------
vxi11_receive == \E l \in Sizes : Begin(l, "read")

requestSize == length - offset

(* The buffer after an answer of k bytes to message + offset.              *)
Stored(k) ==
    [i \in 1 .. length |->
        IF i - offset \in 1 .. k THEN spoken + (i - offset) ELSE buffer[i]]

(* The next turn of the loop clears read_resp and asks for the rest of the *)
(* buffer.                                                                 *)
device_read ==
    /\ pc = "read"
    /\ reason' = "none"
    /\ pc' = "answer"
    /\ UNCHANGED <<call, spoken, delivered, lost, ret, client>>

Fail ==
    /\ lost' = lost + (spoken' - first)
    /\ ret' = -1
    /\ pc' = "idle"
    /\ UNCHANGED <<length, offset, reason, first, delivered, client>>

(* No answer within the 25 seconds of the RPC client, or one with an error *)
(* code: k bytes have left the instrument and never reach the caller.      *)
device_read_failed(k) ==
    /\ pc = "answer"
    /\ spoken + k <= MaxBytes
    /\ spoken' = spoken + k
    /\ Fail
    /\ UNCHANGED <<response_length, buffer>>

(* An answer with more bytes than were asked for: the test comes after the *)
(* RPC library has stored them.  (What lies behind the buffer is not       *)
(* modelled.)                                                              *)
device_read_too_long(k) ==
    /\ pc = "answer"
    /\ k > requestSize
    /\ spoken + k <= MaxBytes
    /\ spoken' = spoken + k
    /\ buffer' = Stored(k)
    /\ response_length' = response_length + k
    /\ Fail

(* Mutant: the answer goes behind the last answer only.                    *)
NextOffset_Last(k) == k

NextOffset(k) == offset + k

(* Mutant: the size of the last answer is returned.                        *)
ReadResult_Last(k) == k

ReadResult(k) == response_length + k

(* Mutant: only END and the termination character end the loop.            *)
Ended_NoReqCnt(r) == r \in {"CHR", "END"}

(* Both tests at the bottom of the loop: any reason ends it.               *)
Ended(r) == r # "none"

(* An answer of k bytes, as many as were asked for at most.  Nothing is    *)
(* assumed of its reason: it may be missing although the buffer is full,   *)
(* and then the next request is for no bytes.                              *)
device_read_ok(k, r) ==
    /\ pc = "answer"
    /\ k <= requestSize
    /\ spoken + k <= MaxBytes
    /\ reason' = r
    /\ buffer' = Stored(k)
    /\ spoken' = spoken + k
    /\ response_length' = ReadResult(k)
    /\ offset' = NextOffset(k)
    /\ IF Ended(r)
         THEN /\ pc' = "idle"
              /\ ret' = ReadResult(k)
              /\ delivered' = spoken + k
              /\ lost' = 0
         ELSE /\ pc' = "read"
              /\ UNCHANGED <<ret, delivered, lost>>
    /\ UNCHANGED <<length, first, client>>

-----------------------------------------------------------------------------
vxi11_disconnect ==
    /\ pc = "idle"
    /\ pc' = "destroy_link"
    /\ UNCHANGED <<call, reason, spoken, delivered, lost, ret, client>>

(* The result of destroy_link_1 is ignored, the client destroyed.          *)
clnt_destroy ==
    /\ pc = "destroy_link"
    /\ client' = "destroyed"
    /\ ret' = 0
    /\ pc' = "closed"
    /\ UNCHANGED <<call, reason, spoken, delivered, lost>>

-----------------------------------------------------------------------------
Call == vxi11_send \/ vxi11_receive \/ vxi11_disconnect

Step ==
    \/ (\E k \in 0 .. length : device_write_ok(k)) \/ device_write_failed
    \/ device_read
    \/ \E k \in 0 .. requestSize + 1 :
          device_read_failed(k) \/ device_read_too_long(k)
    \/ \E k \in 0 .. requestSize, r \in Reasons : device_read_ok(k, r)
    \/ clnt_destroy

Next == Call \/ Step

Spec == Init /\ [][Next]_vars

(* A remote procedure call ends, by its own timeout at the latest.         *)
FairSpec == Spec /\ WF_vars(Step)

-----------------------------------------------------------------------------
(* Every read asks for the rest of the buffer, and stores at its beginning *)
(* (the sum of offset and requestSize is length, and neither is negative). *)
RequestInBuffer == pc \in {"read", "answer"} => offset <= length

(* Of however many answers it is made up, the message in the buffer of a   *)
(* receive that has not failed is what the instrument said since the call  *)
(* began, in its order, and the rest of the buffer is untouched.           *)
AnswersInOrder ==
    pc \in {"read", "answer"} \/ (pc = "idle" /\ ret = response_length) =>
        /\ response_length <= length
        /\ \A i \in 1 .. length :
              buffer[i] = IF i <= response_length THEN first + i ELSE 0

(* A receive puts the answers together in the buffer, and never asks for   *)
(* more than the rest of it.                                               *)
ReceiveCorrect == RequestInBuffer /\ AnswersInOrder

(* Consecutive receives continue where the last one stopped, behind the    *)
(* bytes of the receives that failed in between: none is lost at a full    *)
(* buffer, and none is given to the caller twice.                          *)
Gapless ==
    [][delivered' # delivered =>
          /\ first = delivered + lost
          /\ delivered' = first + ret']_vars

(* A call returns, unless the instrument answers for ever without a        *)
(* reason, be it with nothing or, once the buffer is full, to requests for *)
(* no bytes.                                                               *)
CallReturns ==
    (pc # "idle") ~>
        \/ pc \in {"idle", "closed"}
        \/ [](pc \in {"read", "answer"} /\ reason = "none")
=============================================================================
