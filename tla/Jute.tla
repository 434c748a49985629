-------------------------------- MODULE Jute --------------------------------
(***************************************************************************)
(* The primitive layer of src/proto.rs: big-endian fixed-width integers    *)
(* (the byteorder calls of every ReadFrom/WriteTo impl), the UTF-8 check   *)
(* that String::from_utf8 applies in read_string, the field layout of      *)
(* Stat::read_from, and the primitive encoders (u8, String, Vec<T>, Acl).  *)
(*                                                                         *)
(* A byte stream is a sequence of integers in 0..255.  Decoded fields are  *)
(* tokens [t |-> kind, v |-> <<integers>>]: an i32 is <<v>>, an i64 is its *)
(* two 32-bit halves <<hi, lo>> (TLC integers are 32 bits wide), a buffer  *)
(* or string is its bytes.  Every model value of an i64 field lies in the  *)
(* i32 range, so the encoders below only need to sign-extend.              *)
(***************************************************************************)
EXTENDS Integers, Sequences, SequencesExt

Byte == 0..255

Tok(kind, val) == [t |-> kind, v |-> val]

Take(bs, n) == SubSeq(bs, 1, n)
Drop(bs, n) == SubSeq(bs, n + 1, Len(bs))

\* Byte k (0 = least significant) of the two's complement form of v.
ByteOf(v, k) ==
    IF v >= 0 THEN (v \div 256^k) % 256
    ELSE 255 - (((-(v + 1)) \div 256^k) % 256)

\* A u64 (or usize) is four 16-bit digits, most significant first.
U64 == [1..4 -> 0..65535]

\* `v as u64` of an i32: sign extension.
I32AsU64(v) == LET w == IF v < 0 THEN 65535 ELSE 0
               IN  <<w, w, (v \div 65536) % 65536, v % 65536>>

\* `u as i32` of a u64: its low 32 bits as two's complement.
U64AsI32(u) == IF u[3] >= 32768 THEN (u[3] - 65536) * 65536 + u[4]
                                ELSE u[3] * 65536 + u[4]

\* write_i32::<BigEndian>; u32 fields (Acl perms) use the same four bytes.
I32Bytes(v) == <<ByteOf(v, 3), ByteOf(v, 2), ByteOf(v, 1), ByteOf(v, 0)>>

\* write_i64::<BigEndian> of a value in the i32 range: sign, then low word.
I64Bytes(v) == I32Bytes(IF v < 0 THEN -1 ELSE 0) \o I32Bytes(v)

\* read_i32::<BigEndian> of four bytes.
I32Of(b) ==
    IF b[1] < 128
    THEN ((b[1] * 256 + b[2]) * 256 + b[3]) * 256 + b[4]
    ELSE -1 - (((255 - b[1]) * 256 + (255 - b[2])) * 256 + (255 - b[3])) * 256
              - (255 - b[4])

\* Stat::read_from reads eleven fields in this order.
StatLayout == <<"i64", "i64", "i64", "i64", "i32", "i32", "i32", "i64",
                "i32", "i32", "i64">>

\* Byte width of each fixed-width read; "bool" is read_u8() != 0.
Width == [i32 |-> 4, u32 |-> 4, i64 |-> 8, u8 |-> 1, bool |-> 1, stat |-> 68]

FixedKinds == DOMAIN Width

(***************************************************************************)
(* A decoder's shape: the sequence of reads it makes.  Vec(elem) is an i32 *)
(* count followed by that many reads of the item sequence elem.            *)
(***************************************************************************)
Field(kind) == [kind |-> kind]
Vec(elem)   == [kind |-> "vec", elem |-> elem]

\* enum Completion (EnumConvertFromInt): the type code of a transaction
\* reply entry.  Error is -1, the same value as the terminal entry's type.
Completion == (-1 :> "Error") @@ (0 :> "Empty") @@ (1 :> "Stat") @@ (6 :> "String")

\* enum multi::OpResult: each variant's fields, as the reads that decode them.
OpResult == [Empty |-> <<>>, Create |-> <<Field("string")>>,
             SetData |-> <<Field("stat")>>]

StatOffset(i) == IF i = 1 THEN 0
                 ELSE FoldLeft(LAMBDA acc, k : acc + Width[k], 0,
                               SubSeq(StatLayout, 1, i - 1))

\* The value read by a fixed-width read of `kind` from exactly its bytes.
RECURSIVE FixedValue(_, _)
FixedValue(kind, b) ==
    CASE kind \in {"i32", "u32"} -> <<I32Of(b)>>
      [] kind = "i64"  -> <<I32Of(Take(b, 4)), I32Of(Drop(b, 4))>>
      [] kind = "u8"   -> <<b[1]>>
      [] kind = "bool" -> <<IF b[1] # 0 THEN 1 ELSE 0>>
      [] kind = "stat" ->
           FlattenSeq([i \in 1..11 |->
               FixedValue(StatLayout[i],
                          SubSeq(b, StatOffset(i) + 1,
                                 StatOffset(i) + Width[StatLayout[i]]))])

(***************************************************************************)
(* String::from_utf8: the well-formed byte sequences of Unicode Table 3-7, *)
(* each a sequence of byte ranges.                                         *)
(***************************************************************************)
Cont == 128..191
Utf8Forms ==
    { <<0..127>>, <<194..223, Cont>>,
      <<{224}, 160..191, Cont>>, <<225..236, Cont, Cont>>,
      <<{237}, 128..159, Cont>>, <<238..239, Cont, Cont>>,
      <<{240}, 144..191, Cont, Cont>>, <<241..243, Cont, Cont, Cont>>,
      <<{244}, 128..143, Cont, Cont>> }

RECURSIVE IsUtf8(_)
IsUtf8(s) ==
    \/ s = <<>>
    \/ \E f \in Utf8Forms :
          /\ Len(f) <= Len(s)
          /\ \A i \in 1..Len(f) : s[i] \in f[i]
          /\ IsUtf8(Drop(s, Len(f)))

(***************************************************************************)
(* Encoders of the WriteTo impls.                                          *)
(***************************************************************************)
\* impl WriteTo for u8.
U8Bytes(b) == <<b>>

\* impl WriteTo for String: i32 byte length, then the bytes.
StringBytes(s) == I32Bytes(Len(s)) \o s

\* impl WriteTo for Vec<T>: i32 element count, then each element's bytes,
\* given here as the sequence of the elements' encodings.
VecBytes(elems) == I32Bytes(Len(elems)) \o FlattenSeq(elems)

\* Vec<u8> is a Vec<T> of one-byte elements: the same layout as a string.
BufferBytes(data) == VecBytes([i \in DOMAIN data |-> U8Bytes(data[i])])

\* impl WriteTo for Acl: perms as u32, scheme, id.
AclBytes(acl) == I32Bytes(acl.perms) \o StringBytes(acl.scheme)
                 \o StringBytes(acl.id)

=============================================================================
