----------------------------- MODULE JuteReader -----------------------------
(***************************************************************************)
(* The reply decoders of src/proto.rs (the ReadFrom impls) run over a      *)
(* Cursor holding one frame body.  Each decoder is the sequence of reads   *)
(* it makes (CodeSchema); the decoder walks it one read at a time.  A      *)
(* failed read is `try!`/`?` returning Err (status "error"); an unwrap or  *)
(* a capacity overflow is a panic (status "panic").                        *)
(***************************************************************************)
EXTENDS Jute

\* The frames handed to a decoder: [name, bytes, toks, whole] (JuteServer).
CONSTANT Inputs
\* TRUE: the decoder reads from a Read other than a Cursor (a socket, a
\* BufReader, a chain), whose read() may return fewer bytes than asked.
CONSTANT ShortReads

VARIABLES
    input,    \* the frame and the response type the caller decodes it as
    pos,      \* the Cursor position
    todo,     \* the reads still to make
    out,      \* the fields read so far
    status    \* "decoding", "done", "error" or "panic"

vars == <<input, pos, todo, out, status>>

(***************************************************************************)
(* The reads each ReadFrom impl makes, in order.                           *)
(***************************************************************************)
AclReads                 == <<Field("u32"), Field("string"), Field("string")>>
ConnectResponseReads     == <<Field("i32"), Field("i32"), Field("i64"),
                              Field("buffer"), Field("bool")>>
ReplyHeaderReads         == <<Field("i32"), Field("i64"), Field("i32")>>
CreateResponseReads      == <<Field("string")>>
StatResponseReads        == <<Field("stat")>>
GetAclResponseReads      == <<Vec(AclReads), Field("stat")>>
GetChildrenResponseReads == <<Vec(<<Field("string")>>)>>
\* Mutation: the Stat read before the data.
GetDataResponseReadsSwapped == <<Field("stat"), Field("buffer")>>
GetDataResponseReads     == <<Field("buffer"), Field("stat")>>
\* The body is commented out: read_from returns an empty list at once.
TransactionResponseReads == <<>>
EmptyResponseReads       == <<>>
WatchedEventReads        == <<Field("i32"), Field("i32"), Field("string")>>

CodeSchema ==
    [ ConnectResponse     |-> ConnectResponseReads,
      ReplyHeader         |-> ReplyHeaderReads,
      CreateResponse      |-> CreateResponseReads,
      StatResponse        |-> StatResponseReads,
      GetAclResponse      |-> GetAclResponseReads,
      GetChildrenResponse |-> GetChildrenResponseReads,
      GetDataResponse     |-> GetDataResponseReads,
      TransactionResponse |-> TransactionResponseReads,
      EmptyResponse       |-> EmptyResponseReads,
      WatchedEvent        |-> WatchedEventReads ]

\* The `for _ in 0..len` loop of a sequence decode, `left` turns to go.
Loop(elem, n) == [kind |-> "rep", elem |-> elem, left |-> n]

-----------------------------------------------------------------------------
buf      == input.bytes
Item     == Head(todo)
Avail    == Len(buf) - pos
Next4    == SubSeq(buf, pos + 1, pos + 4)
Decoding == status = "decoding" /\ todo # <<>>

\* A read fails: the decoder returns Err (or panics) at once.
Stop(st) == status' = st /\ UNCHANGED <<pos, todo, out>>

\* A read of w bytes yields tok and the decoder moves to its next read.
Emit(tok, w) == /\ out' = Append(out, tok)
                /\ pos' = pos + w
                /\ todo' = Tail(todo)
                /\ UNCHANGED status

Init == /\ input \in Inputs
        /\ pos = 0
        /\ todo = CodeSchema[input.name]
        /\ out = <<>>
        /\ status = "decoding"

\* read_i32/read_i64/read_u32/read_u8 (read_exact: EOF is an Err), and
\* Stat::read_from, whose eleven reads fail as soon as one runs short.
ReadFixed ==
    /\ Decoding
    /\ Item.kind \in FixedKinds
    /\ LET k == Item.kind
           w == Width[k]
       IN  \/ w > Avail /\ Stop("error")
           \/ w <= Avail /\ Emit(Tok(k, FixedValue(k, SubSeq(buf, pos + 1, pos + w))), w)
    /\ UNCHANGED input

\* read_buffer: a negative length reads as 0; one read() fills what it can
\* of the buffer; fewer bytes than the length is an Err.
\* read_string then does String::from_utf8(raw).unwrap().
\* Mutation: the length taken as is, without the clamp to 0.
BufferLenUnclamped == I32Of(Next4)
BufferLen == IF I32Of(Next4) < 0 THEN 0 ELSE I32Of(Next4)
BytesRead == IF BufferLen <= Avail - 4 THEN BufferLen ELSE Avail - 4
BufferData == SubSeq(buf, pos + 5, pos + 4 + BytesRead)
\* The counts that one read() may return: a Cursor's is BytesRead; another
\* reader may return any count from 1 up to it.  (read_exact, used by the
\* fixed-width reads, loops until it has them all.)
ReadSizes == IF ShortReads /\ BytesRead > 0 THEN 1..BytesRead ELSE {BytesRead}

\* Mutation: the string's bytes taken without the UTF-8 check.
ReadBufferUnchecked ==
    /\ Decoding
    /\ Item.kind \in {"buffer", "string"}
    /\ \/ Avail < 4 /\ Stop("error")
       \/ Avail >= 4 /\ (\E read \in ReadSizes : read # BufferLen) /\ Stop("error")
       \/ /\ Avail >= 4
          /\ BufferLen \in ReadSizes
          /\ Emit(Tok(Item.kind, BufferData), 4 + BufferLen)
    /\ UNCHANGED input

ReadBuffer ==
    /\ Decoding
    /\ Item.kind \in {"buffer", "string"}
    /\ \/ Avail < 4 /\ Stop("error")
       \/ /\ Avail >= 4
          /\ \E read \in ReadSizes : read # BufferLen
          /\ Stop("error")
       \/ /\ Avail >= 4
          /\ BufferLen \in ReadSizes
          /\ \/ Item.kind = "string" /\ ~IsUtf8(BufferData) /\ Stop("panic")
             \/ /\ Item.kind = "buffer" \/ IsUtf8(BufferData)
                /\ Emit(Tok(Item.kind, BufferData), 4 + BufferLen)
    /\ UNCHANGED input

\* GetAclResponse/GetChildrenResponse: read_i32 count, then
\* Vec::with_capacity(len as usize), which panics with a capacity overflow
\* when len is negative, then the loop over the elements.
\* Mutation: the count read as an i64 (eight bytes consumed).
ReadCountWide ==
    /\ Decoding
    /\ Item.kind = "vec"
    /\ \/ Avail < 4 /\ Stop("error")
       \/ Avail >= 4 /\ I32Of(Next4) < 0 /\ Stop("panic")
       \/ /\ Avail >= 4
          /\ I32Of(Next4) >= 0
          /\ out' = Append(out, Tok("count", <<I32Of(Next4)>>))
          /\ pos' = pos + 8
          /\ todo' = <<Loop(Item.elem, I32Of(Next4))>> \o Tail(todo)
          /\ UNCHANGED status
    /\ UNCHANGED input

ReadCount ==
    /\ Decoding
    /\ Item.kind = "vec"
    /\ \/ Avail < 4 /\ Stop("error")
       \/ Avail >= 4 /\ I32Of(Next4) < 0 /\ Stop("panic")
       \/ /\ Avail >= 4
          /\ I32Of(Next4) >= 0
          /\ out' = Append(out, Tok("count", <<I32Of(Next4)>>))
          /\ pos' = pos + 4
          /\ todo' = <<Loop(Item.elem, I32Of(Next4))>> \o Tail(todo)
          /\ UNCHANGED status
    /\ UNCHANGED input

\* One turn of the element loop: push one more element's reads, or leave.
ReadElement ==
    /\ Decoding
    /\ Item.kind = "rep"
    /\ \/ Item.left = 0 /\ todo' = Tail(todo)
       \/ /\ Item.left > 0
          /\ todo' = Item.elem \o <<[Item EXCEPT !.left = @ - 1]>> \o Tail(todo)
    /\ UNCHANGED <<input, pos, out, status>>

\* All reads made: read_from returns Ok.
Finish ==
    /\ status = "decoding"
    /\ todo = <<>>
    /\ status' = "done"
    /\ UNCHANGED <<input, pos, todo, out>>

Next == ReadFixed \/ ReadBuffer \/ ReadCount \/ ReadElement \/ Finish

Spec == Init /\ [][Next]_vars

-----------------------------------------------------------------------------
TypeOK ==
    /\ pos \in 0..Len(buf)
    /\ status \in {"decoding", "done", "error", "panic"}
    /\ \A i \in DOMAIN out : out[i].v \in Seq(Int)
    /\ input.name \in DOMAIN CodeSchema

\* The decoder seen as the abstract decoder of spec.md: nothing returned
\* while decoding, then Ok with the fields read, or the error or panic.
DecodeResult ==
    CASE status = "decoding" -> [st |-> "pending", toks |-> <<>>]
      [] status = "done"     -> [st |-> "ok", toks |-> out]
      [] OTHER               -> [st |-> status, toks |-> <<>>]

Abs == INSTANCE JuteDecodeSpec WITH result <- DecodeResult

\* Every reply, whole, cut short or carrying null lengths, decodes to what
\* spec.md's decoder returns for it (the same fields, or an error where it
\* reports one): read_buffer, read_string, the sequence loops and each
\* ReadFrom impl's field order, checked against the spec.
DecodeRefinesSpec == Abs!SafeSpec

\* The decoder with each panic counted as the error it should have been.
PanicAsError == IF status = "panic" THEN [st |-> "error", toks |-> <<>>]
                                    ELSE DecodeResult

AbsP == INSTANCE JuteDecodeSpec WITH result <- PanicAsError

\* On replies with invalid UTF-8 strings and null (-1) vectors the decoders
\* disagree with spec.md only in panicking (the from_utf8 unwrap in
\* read_string, Vec::with_capacity on a negative count) where it returns an
\* error: every other field and every other outcome is the spec's.
DecodeRefinesSpecUpToPanic == AbsP!SafeSpec

\* A whole reply is read to its last byte and yields exactly the fields
\* the server encoded: no field of a ReadFrom impl is read at the wrong
\* width, in the wrong order, or left unread.
RoundTrip ==
    input.whole =>
        /\ status \in {"decoding", "done"}
        /\ status = "done" => out = input.toks /\ pos = Len(buf)

\* No reply, however malformed, makes a decoder panic: spec.md 7 says every
\* decode failure is an error value the connection manager can act on.
NoPanic == status # "panic"

=============================================================================
