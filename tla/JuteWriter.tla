----------------------------- MODULE JuteWriter -----------------------------
(***************************************************************************)
(* The request encoders of src/proto.rs (the WriteTo impls), the           *)
(* transaction encoder, and the frame assembly of to_len_prefixed_buf,     *)
(* which writes through a std::io::Cursor<Vec<u8>>.                        *)
(*                                                                         *)
(* Request values are records named after the structs' fields; an         *)
(* Option<i32> version of multi::Op is a sequence of at most one value.    *)
(***************************************************************************)
EXTENDS Jute

\* enum OpCode.
OpCode == [ auth |-> 100, create |-> 1, delete |-> 2, exists |-> 3,
            getAcl |-> 6, setAcl |-> 7, getChildren |-> 8, getData |-> 4,
            setData |-> 5, ping |-> 11, check |-> 13, multi |-> 14,
            closeSession |-> -11 ]

\* enum multi::Op over the given field values: Check and Delete carry a
\* path and an optional version, Create a path, data, ACL and mode,
\* SetData a path, data and an optional version.
Op(Paths, Datas, AclVecs, Modes, OptVersions) ==
    { [op |-> o, path |-> p, version |-> v] :
          o \in {"check", "delete"}, p \in Paths, v \in OptVersions }
    \cup { [op |-> "create", path |-> p, data |-> d, acl |-> a, mode |-> m] :
          p \in Paths, d \in Datas, a \in AclVecs, m \in Modes }
    \cup { [op |-> "setData", path |-> p, data |-> d, version |-> v] :
          p \in Paths, d \in Datas, v \in OptVersions }

AclVecBytes(acl) == VecBytes([i \in DOMAIN acl |-> AclBytes(acl[i])])

BoolByte(b) == IF b THEN 1 ELSE 0

\* impl WriteTo for ConnectRequest.
ConnectRequestBytes(r) ==
    I32Bytes(r.protocol_version) \o I64Bytes(r.last_zxid_seen)
    \o I32Bytes(r.timeout) \o I64Bytes(r.session_id)
    \o BufferBytes(r.passwd) \o U8Bytes(BoolByte(r.read_only))

\* impl WriteTo for RequestHeader.
RequestHeaderBytes(xid, opcode) == I32Bytes(xid) \o I32Bytes(opcode)

\* impl WriteTo for CreateRequest.
CreateRequestBytes(r) ==
    StringBytes(r.path) \o BufferBytes(r.data) \o AclVecBytes(r.acl)
    \o I32Bytes(r.flags)

\* impl WriteTo for DeleteRequest.
DeleteRequestBytes(r) == StringBytes(r.path) \o I32Bytes(r.version)

\* impl WriteTo for StringAndBoolRequest (Exists, GetData, GetChildren).
StringAndBoolRequestBytes(r) == StringBytes(r.path) \o U8Bytes(BoolByte(r.watch))

\* impl WriteTo for GetAclRequest.
GetAclRequestBytes(r) == StringBytes(r.path)

\* impl WriteTo for SetAclRequest.
SetAclRequestBytes(r) ==
    StringBytes(r.path) \o AclVecBytes(r.acl) \o I32Bytes(r.version)

\* impl WriteTo for SetDataRequest.
SetDataRequestBytes(r) ==
    StringBytes(r.path) \o BufferBytes(r.data) \o I32Bytes(r.version)

\* impl WriteTo for AuthRequest.
AuthRequestBytes(r) ==
    I32Bytes(r.typ) \o StringBytes(r.scheme) \o BufferBytes(r.auth)

\* impl WriteTo for EmptyRequest (Ping, CloseSession).
EmptyRequestBytes(r) == <<>>

(***************************************************************************)
(* impl WriteTo for TransactionRequest: per op a header {type_code, done = *)
(* 0, err = -1} and its payload, each absent version written as -1; then  *)
(* the closing header {-1, 1, -1}.                                         *)
(***************************************************************************)
UnwrapOr(v, d) == IF v = <<>> THEN d ELSE v[1]

TxnHeaderBytes(type_code, done, err) ==
    I32Bytes(type_code) \o U8Bytes(done) \o I32Bytes(err)

TxnOpBytes(op) ==
    TxnHeaderBytes(OpCode[op.op], 0, -1) \o
    CASE op.op = "check"   -> StringBytes(op.path) \o I32Bytes(UnwrapOr(op.version, -1))
      [] op.op = "create"  -> StringBytes(op.path) \o BufferBytes(op.data)
                              \o AclVecBytes(op.acl) \o I32Bytes(op.mode)
      [] op.op = "delete"  -> StringBytes(op.path) \o I32Bytes(UnwrapOr(op.version, -1))
      [] op.op = "setData" -> StringBytes(op.path) \o BufferBytes(op.data)
                              \o I32Bytes(UnwrapOr(op.version, -1))

\* Mutation: the closing header left out.
TransactionRequestBytesNoTerminal(r) ==
    FlattenSeq([i \in DOMAIN r.ops |-> TxnOpBytes(r.ops[i])])

TransactionRequestBytes(r) ==
    FlattenSeq([i \in DOMAIN r.ops |-> TxnOpBytes(r.ops[i])])
    \o TxnHeaderBytes(-1, 1, -1)

(***************************************************************************)
(* Frame assembly.  A Cursor<Vec<u8>> write at a position past the end     *)
(* zero-fills up to it; a write inside the vector overwrites.              *)
(***************************************************************************)
NewCursor == [buf |-> <<>>, pos |-> 0]

SetPosition(c, p) == [c EXCEPT !.pos = p]

CursorWrite(c, bs) ==
    LET filled == c.buf \o [i \in 1..(c.pos - Len(c.buf)) |-> 0]
    IN  [buf |-> Take(filled, c.pos) \o bs \o Drop(filled, c.pos + Len(bs)),
         pos |-> c.pos + Len(bs)]

\* Back-patch the i32 length of what follows the first four bytes, and
\* rewind for the caller.
PatchLength(c) ==
    SetPosition(CursorWrite(SetPosition(c, 0), I32Bytes(c.pos - 4)), 0)

\* WriteTo::to_len_prefixed_buf (the connect request).
SelfLenPrefixedBuf(body) ==
    PatchLength(CursorWrite(SetPosition(NewCursor, 4), body))

\* to_len_prefixed_buf(rh, req).
LenPrefixedBuf(header, body) ==
    PatchLength(CursorWrite(CursorWrite(SetPosition(NewCursor, 4), header), body))

\* What the connection manager writes out: the bytes from the position on.
Remaining(c) == Drop(c.buf, c.pos)

=============================================================================
