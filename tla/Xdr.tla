--------------------------------- MODULE Xdr ---------------------------------
(***************************************************************************)
(* The records of VXI-11 (vxi11core.h) and their external representation   *)
(* (vxi11core_xdr.c).  A record is a TLA+ record; on the wire it is a      *)
(* sequence of XDR units.  An array of bytes takes a unit for its length   *)
(* and, here, one for each byte.                                           *)
(*                                                                         *)
(* The generated code has the order of the fields up to five times: one    *)
(* routine for each field, and for a run of integers a block that puts or  *)
(* gets them at once when the stream's buffer has room.  The two ways      *)
(* differ for a bool_t: xdr_bool turns any value but 0 into 1,             *)
(* IXDR_PUT_BOOL and IXDR_GET_BOOL do not.                                 *)
(***************************************************************************)
EXTENDS Integers, Sequences, SequencesExt

CONSTANTS
    IntSize,    \* number of values of an XDR unit and of an int: 2^32
    ShortSize,  \* number of values of a u_short: 2^16
    CharSize,   \* number of values of a char: 2^8
    HandleMax,  \* largest handle of Device_EnableSrqParms: 40 bytes
    int, u_int, u_short, char, u_char, bool_t,  \* values of the C types
    bytes,      \* arrays; a null pointer with length 0 is the empty one
    handle      \* arrays that are passed as a handle, also too long ones

ASSUME SizeAssumption ==
    /\ IntSize \in Nat /\ 4 <= IntSize
    /\ ShortSize \in 1 .. IntSize /\ CharSize \in 1 .. IntSize
    /\ HandleMax \in Nat

ASSUME ValueAssumption ==
    /\ int \subseteq -(IntSize \div 2) .. IntSize \div 2 - 1
    /\ u_int \subseteq 0 .. IntSize - 1
    /\ u_short \subseteq 0 .. ShortSize - 1
    /\ char \subseteq -(CharSize \div 2) .. CharSize \div 2 - 1
    /\ u_char \subseteq 0 .. CharSize - 1
    /\ bool_t \subseteq -(IntSize \div 2) .. IntSize \div 2 - 1
    /\ bytes \subseteq Seq(0 .. CharSize - 1)
    /\ handle \subseteq Seq(0 .. CharSize - 1)

(* Device_AddrFamily: DEVICE_TCP, DEVICE_UDP.                              *)
Device_AddrFamily == {0, 1}

Device_Error == [error : int]

Create_LinkParms ==
    [clientId : int, lockDevice : bool_t, lock_timeout : u_int, device : bytes]

Create_LinkResp ==
    [error : int, lid : int, abortPort : u_short, maxRecvSize : u_int]

Device_WriteParms ==
    [lid : int, io_timeout : u_int, lock_timeout : u_int, flags : int,
     data : bytes]

Device_WriteResp == [error : int, size : u_int]

Device_ReadParms ==
    [lid : int, requestSize : u_int, io_timeout : u_int, lock_timeout : u_int,
     flags : int, termChar : char]

Device_ReadResp == [error : int, reason : int, data : bytes]

Device_ReadStbResp == [error : int, stb : u_char]

Device_GenericParms ==
    [lid : int, flags : int, lock_timeout : u_int, io_timeout : u_int]

Device_RemoteFunc ==
    [hostAddr : u_int, hostPort : u_int, progNum : u_int, progVers : u_int,
     progFamily : Device_AddrFamily]

Device_EnableSrqParms ==
    [lid : int, enable : bool_t, handle : handle]

Device_LockParms == [lid : int, flags : int, lock_timeout : u_int]

Device_DocmdParms ==
    [lid : int, flags : int, io_timeout : u_int, lock_timeout : u_int,
     cmd : int, network_order : bool_t, datasize : int, data_in : bytes]

Device_DocmdResp == [error : int, data_out : bytes]

(* A Device_Link is passed as it is, and xdr_void has no argument.         *)
Device_Link == [lid : int]
Void == {<<>>}

-----------------------------------------------------------------------------
(* The XDR routine of a record of the given type: the routine called for   *)
(* each field, in the order of the code.                                   *)
Routine(type, fields) ==
    [type |-> type, fields |-> fields, put |-> <<>>, get |-> <<>>, from |-> 0]

(* A routine that moves the fields from number "from" on in one piece if   *)
(* there is room: what it puts when it encodes and gets when it decodes.   *)
Inlined(type, fields, from, put, get) ==
    [type |-> type, fields |-> fields, put |-> put, get |-> get, from |-> from]

xdr_void == Routine(Void, <<>>)

xdr_Device_Link == Routine(Device_Link, << <<"lid", "int">> >>)

xdr_Device_Error == Routine(Device_Error, << <<"error", "int">> >>)

xdr_Create_LinkParms ==
    Inlined(Create_LinkParms,
        << <<"clientId", "int">>, <<"lockDevice", "bool">>,
           <<"lock_timeout", "u_int">>, <<"device", "string">> >>,
        1, << <<"clientId", "LONG">>, <<"lockDevice", "BOOL">>,
              <<"lock_timeout", "U_LONG">> >>,
           << <<"clientId", "LONG">>, <<"lockDevice", "BOOL">>,
              <<"lock_timeout", "U_LONG">> >>)

xdr_Create_LinkResp ==
    Routine(Create_LinkResp,
        << <<"error", "int">>, <<"lid", "int">>, <<"abortPort", "u_short">>,
           <<"maxRecvSize", "u_int">> >>)

xdr_Device_WriteParms ==
    Routine(Device_WriteParms,
        << <<"lid", "int">>, <<"io_timeout", "u_int">>,
           <<"lock_timeout", "u_int">>, <<"flags", "int">>, <<"data", "bytes">> >>)

xdr_Device_WriteResp ==
    Routine(Device_WriteResp, << <<"error", "int">>, <<"size", "u_int">> >>)

(* Mutant: two timeouts are swapped where the decoder gets them at once.   *)
xdr_Device_ReadParms_Swapped ==
    Inlined(Device_ReadParms,
        << <<"lid", "int">>, <<"requestSize", "u_int">>,
           <<"io_timeout", "u_int">>, <<"lock_timeout", "u_int">>,
           <<"flags", "int">>, <<"termChar", "char">> >>,
        2, << <<"requestSize", "U_LONG">>, <<"io_timeout", "U_LONG">>,
              <<"lock_timeout", "U_LONG">> >>,
           << <<"requestSize", "U_LONG">>, <<"lock_timeout", "U_LONG">>,
              <<"io_timeout", "U_LONG">> >>)

xdr_Device_ReadParms ==
    Inlined(Device_ReadParms,
        << <<"lid", "int">>, <<"requestSize", "u_int">>,
           <<"io_timeout", "u_int">>, <<"lock_timeout", "u_int">>,
           <<"flags", "int">>, <<"termChar", "char">> >>,
        2, << <<"requestSize", "U_LONG">>, <<"io_timeout", "U_LONG">>,
              <<"lock_timeout", "U_LONG">> >>,
           << <<"requestSize", "U_LONG">>, <<"io_timeout", "U_LONG">>,
              <<"lock_timeout", "U_LONG">> >>)

xdr_Device_ReadResp ==
    Routine(Device_ReadResp,
        << <<"error", "int">>, <<"reason", "int">>, <<"data", "bytes">> >>)

xdr_Device_ReadStbResp ==
    Routine(Device_ReadStbResp, << <<"error", "int">>, <<"stb", "u_char">> >>)

xdr_Device_GenericParms ==
    Routine(Device_GenericParms,
        << <<"lid", "int">>, <<"flags", "int">>, <<"lock_timeout", "u_int">>,
           <<"io_timeout", "u_int">> >>)

xdr_Device_RemoteFunc ==
    Inlined(Device_RemoteFunc,
        << <<"hostAddr", "u_int">>, <<"hostPort", "u_int">>,
           <<"progNum", "u_int">>, <<"progVers", "u_int">>,
           <<"progFamily", "enum">> >>,
        1, << <<"hostAddr", "U_LONG">>, <<"hostPort", "U_LONG">>,
              <<"progNum", "U_LONG">>, <<"progVers", "U_LONG">> >>,
           << <<"hostAddr", "U_LONG">>, <<"hostPort", "U_LONG">>,
              <<"progNum", "U_LONG">>, <<"progVers", "U_LONG">> >>)

xdr_Device_EnableSrqParms ==
    Routine(Device_EnableSrqParms,
        << <<"lid", "int">>, <<"enable", "bool">>, <<"handle", "handle">> >>)

xdr_Device_LockParms ==
    Routine(Device_LockParms,
        << <<"lid", "int">>, <<"flags", "int">>, <<"lock_timeout", "u_int">> >>)

xdr_Device_DocmdParms ==
    Inlined(Device_DocmdParms,
        << <<"lid", "int">>, <<"flags", "int">>, <<"io_timeout", "u_int">>,
           <<"lock_timeout", "u_int">>, <<"cmd", "int">>,
           <<"network_order", "bool">>, <<"datasize", "int">>,
           <<"data_in", "bytes">> >>,
        3, << <<"io_timeout", "U_LONG">>, <<"lock_timeout", "U_LONG">>,
              <<"cmd", "LONG">>, <<"network_order", "BOOL">>,
              <<"datasize", "LONG">> >>,
           << <<"io_timeout", "U_LONG">>, <<"lock_timeout", "U_LONG">>,
              <<"cmd", "LONG">>, <<"network_order", "BOOL">>,
              <<"datasize", "LONG">> >>)

xdr_Device_DocmdResp ==
    Routine(Device_DocmdResp, << <<"error", "int">>, <<"data_out", "bytes">> >>)

-----------------------------------------------------------------------------
(* The routines of the RPC library (external).                             *)

Arrays == {"string", "bytes", "handle"}

(* maxsize: ~0 but for a handle.                                           *)
TooLong(codec, n) == codec = "handle" /\ n > HandleMax

Signed(u, size) ==
    IF u % size < size \div 2 THEN u % size ELSE (u % size) - size

(* The unit of a value: xdr_bool and the others, IXDR_PUT_LONG and so on.  *)
(* The unit of an array is its length; its bytes follow.                   *)
Put(codec, v) ==
    CASE codec \in Arrays -> Len(v)
      [] codec = "bool" -> IF v = 0 THEN 0 ELSE 1
      [] OTHER -> v % IntSize

(* The value of a unit.  xdr_char gets an int first.                       *)
Get(codec, u) ==
    CASE codec = "bool" -> IF u = 0 THEN 0 ELSE 1
      [] codec \in {"int", "enum", "LONG", "BOOL"} -> Signed(u, IntSize)
      [] codec = "u_short" -> u % ShortSize
      [] codec = "char" -> Signed(Signed(u, IntSize), CharSize)
      [] codec = "u_char" -> u % CharSize
      [] codec \in {"u_int", "U_LONG"} -> u

-----------------------------------------------------------------------------
(* The fields and their routines, the block of them in the middle replaced *)
(* if there is room (XDR_INLINE returns a buffer).                         *)
Fields(xdr, block, room) ==
    [i \in 1 .. Len(xdr.fields) |->
        IF room /\ i - xdr.from + 1 \in 1 .. Len(block)
          THEN block[i - xdr.from + 1] ELSE xdr.fields[i]]

(* An array is the last field of every record that has one.                *)
EndsInArray(f) == Len(f) > 0 /\ f[Len(f)][2] \in Arrays

(* x_op XDR_ENCODE.  A stream that could not be encoded is not sent.       *)
Encode(xdr, obj, room) ==
    LET f     == Fields(xdr, xdr.put, room)
        units == [i \in 1 .. Len(f) |-> Put(f[i][2], obj[f[i][1]])]
    IN  [ok    |-> \A i \in 1 .. Len(f) : ~TooLong(f[i][2], units[i]),
         units |-> units \o IF EndsInArray(f) THEN obj[f[Len(f)][1]] ELSE <<>>]

(* What XDR_FREE frees of an object.                                       *)
PointerFields(xdr) ==
    {f[1] : f \in {g \in ToSet(xdr.fields) : g[2] \in Arrays}}

(* The value of field i: an array is the bytes that follow the units.      *)
ValueOf(f, units, i) ==
    IF f[i][2] \in Arrays
      THEN SubSeq(units, Len(f) + 1, Len(f) + units[Len(f)])
      ELSE Get(f[i][2], units[i])

(* x_op XDR_DECODE, into an object of zeros: there must be a unit for each *)
(* field, and the bytes of the array.  Its memory is allocated before they *)
(* are read, for a string even if there are none.  An object that could    *)
(* not be decoded is not used.                                             *)
Decode(xdr, units, room) ==
    LET f     == Fields(xdr, xdr.get, room)
        n     == Len(f)
        alloc == EndsInArray(f) /\ n <= Len(units) /\ ~TooLong(f[n][2], units[n])
        ok    == /\ n <= Len(units)
                 /\ EndsInArray(f) => alloc /\ units[n] <= Len(units) - n
    IN  [ok     |-> ok,
         obj    |-> IF ok THEN [name \in {f[i][1] : i \in 1 .. n} |->
                                   ValueOf(f, units,
                                       CHOOSE i \in 1 .. n : f[i][1] = name)]
                          ELSE <<>>,
         blocks |-> IF alloc /\ (units[n] > 0 \/ f[n][2] = "string")
                      THEN {f[n][1]} ELSE {}]
=============================================================================
