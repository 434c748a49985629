---------------------------- MODULE LengthPrefix ----------------------------
(***************************************************************************)
(* The length fields the request encoders write, for data too large for   *)
(* them.  Vec<T>::write_to writes `self.len() as i32` and                  *)
(* to_len_prefixed_buf writes `len as i32`, where len is the Cursor's u64  *)
(* position less the 4 bytes reserved for it.  A SetData request is        *)
(* framed; its data is abstracted to its length, a usize (U64 of Jute).    *)
(***************************************************************************)
EXTENDS Jute

CONSTANTS
    PathLen,  \* bytes of the request's path (a String, never near 2^31)
    DataLens  \* lengths of the request's data buffer

ASSUME PathLen \in 0..255 /\ DataLens \subseteq U64

VARIABLES
    dataLen, \* the length of the data being written
    frame    \* <<>>, then the length fields the frame carries

vars == <<dataLen, frame>>

\* u + k for 0 <= k < 65536, as u64 arithmetic (wrapping at 2^64).
U64Plus(u, k) ==
    LET d4 == u[4] + k
        d3 == u[3] + d4 \div 65536
        d2 == u[2] + d3 \div 65536
        d1 == u[1] + d2 \div 65536
    IN  <<d1 % 65536, d2 % 65536, d3 % 65536, d4 % 65536>>

\* The bytes RequestHeader::write_to (xid, opcode) and
\* SetDataRequest::write_to (path, data, version) put after the reserved 4.
SetDataBodyLen(n) == U64Plus(n, 8 + (4 + PathLen) + 4 + 4)

\* impl WriteTo for Vec<T>: the element count, `self.len() as i32`.
VecLenField(n) == U64AsI32(n)

\* to_len_prefixed_buf: `len = buf.position() - 4`, written `len as i32`.
FrameLenField(bodyLen) == U64AsI32(bodyLen)

\* The caller hands in a request whose data has one of the lengths.
Init == /\ dataLen \in DataLens
        /\ frame = <<>>

\* to_len_prefixed_buf(header, SetDataRequest) writes the frame.
Encode == /\ frame = <<>>
          /\ frame' = [len |-> FrameLenField(SetDataBodyLen(dataLen)),
                       data_len |-> VecLenField(dataLen)]
          /\ UNCHANGED dataLen

Next == Encode

Spec == Init /\ [][Next]_vars

-----------------------------------------------------------------------------
\* spec.md 4.1 and 5: a frame's i32 length is the byte size of its body and
\* a buffer's i32 length is the number of bytes that follow.  The frame
\* assembler's `len as i32` and Vec::write_to's `self.len() as i32` must
\* then never write a length other than the one they measured: read back
\* as an i32 and widened, each field gives the length again.
PrefixesStateLengths ==
    frame # <<>> =>
        /\ I32AsU64(frame.len) = SetDataBodyLen(dataLen)
        /\ I32AsU64(frame.data_len) = dataLen

=============================================================================
