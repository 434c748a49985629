------------------------------ MODULE JuteSpec ------------------------------
(***************************************************************************)
(* The reply formats as spec.md states them, and the reference decoder it  *)
(* describes: section 4.1 (primitives), 4.2 (Acl, Stat), 4.3 (the response *)
(* column of the per-operation table), 4.4 (the corrected transaction      *)
(* reply algorithm), 4.5 (watch events), 6 (reply header) and 7 (framing   *)
(* and protocol-shape errors).  Nothing here is translated from the code:  *)
(* it is what the code's decoders are checked against.                     *)
(***************************************************************************)
EXTENDS Jute

\* Section 3: the eleven Stat fields, transaction ids, times and the
\* ephemeral owner 64 bits wide, versions and counts 32 bits wide.
SpecStatLayout == <<"i64", "i64", "i64", "i64", "i32", "i32", "i32", "i64",
                    "i32", "i32", "i64">>

AclShape == <<Field("u32"), Field("string"), Field("string")>>

\* Section 4.3 (response fields in order), 4.5 and 6.
SpecSchema ==
    [ ConnectResponse     |-> <<Field("i32"), Field("i32"), Field("i64"),
                                Field("buffer"), Field("bool")>>,
      ReplyHeader         |-> <<Field("i32"), Field("i64"), Field("i32")>>,
      CreateResponse      |-> <<Field("string")>>,
      StatResponse        |-> <<Field("stat")>>,
      GetDataResponse     |-> <<Field("buffer"), Field("stat")>>,
      GetAclResponse      |-> <<Vec(AclShape), Field("stat")>>,
      GetChildrenResponse |-> <<Vec(<<Field("string")>>)>>,
      TransactionResponse |-> <<Field("multi")>>,
      EmptyResponse       |-> <<>>,
      WatchedEvent        |-> <<Field("i32"), Field("i32"), Field("string")>> ]

ResponseNames == DOMAIN SpecSchema

\* Section 4.4: completion codes of a transaction reply entry, the outcome
\* each stands for, and the payload that follows it.  Step 4 names an
\* "empty", a "stat" and a "string" code without giving their values, and
\* Empty, SetData and Create outcomes: the values are the code's
\* Completion, the outcomes' fields its OpResult.
TerminalType == -1
NoError      == -1
OutcomeOf    == [Empty |-> "Empty", Stat |-> "SetData", String |-> "Create"]
OutcomeName  == [c \in {k \in DOMAIN Completion : Completion[k] # "Error"} |->
                    OutcomeOf[Completion[c]]]
Payload(c)   == OpResult[OutcomeName[c]]

\* Section 6: operation codes.
OpCodes == [ create |-> 1, delete |-> 2, exists |-> 3, getData |-> 4,
             setData |-> 5, getAcl |-> 6, setAcl |-> 7, getChildren |-> 8,
             ping |-> 11, check |-> 13, multi |-> 14, auth |-> 100,
             closeSession |-> -11 ]

\* Section 4.3, request column: the fields after the request header, keyed
\* by operation code; a transaction body is the entry stream of 4.4.
PathWatch == <<Field("string"), Field("u8")>>
SpecRequestSchema ==
    (1 :> <<Field("string"), Field("buffer"), Vec(AclShape), Field("i32")>>)
    @@ (2 :> <<Field("string"), Field("i32")>>)
    @@ (3 :> PathWatch) @@ (4 :> PathWatch) @@ (8 :> PathWatch)
    @@ (5 :> <<Field("string"), Field("buffer"), Field("i32")>>)
    @@ (6 :> <<Field("string")>>)
    @@ (7 :> <<Field("string"), Vec(AclShape), Field("i32")>>)
    @@ (11 :> <<>>) @@ (-11 :> <<>>)
    @@ (14 :> <<Field("multireq")>>)
    @@ (100 :> <<Field("i32"), Field("string"), Field("buffer")>>)

\* Section 4.3: a connect request has no request header.
SpecConnectSchema == <<Field("i32"), Field("i64"), Field("i32"), Field("i64"),
                       Field("buffer"), Field("u8")>>

\* Section 4.4, encode: the payload of each transaction entry type.
SpecEntrySchema ==
    (13 :> <<Field("string"), Field("i32")>>)
    @@ (1 :> <<Field("string"), Field("buffer"), Vec(AclShape), Field("i32")>>)
    @@ (2 :> <<Field("string"), Field("i32")>>)
    @@ (5 :> <<Field("string"), Field("buffer"), Field("i32")>>)

(***************************************************************************)
(* The reference decoder.  Dec(items, bs) is [st, toks, rest]: st is "ok"  *)
(* or "error" (framing, UTF-8 or protocol-shape error; section 7), toks    *)
(* the decoded fields and rest the bytes after them.                       *)
(***************************************************************************)
Fail         == [st |-> "error", toks |-> <<>>, rest |-> <<>>]
Ok(ts, rest) == [st |-> "ok", toks |-> ts, rest |-> rest]

\* The value part of the only token of a one-field decode, or <<>>.
ValueOf(ts) == IF ts = <<>> THEN <<>> ELSE ts[1].v

RECURSIVE Dec(_, _), DecItem(_, _), DecRep(_, _, _), DecMulti(_),
          DecMultiReq(_)

\* a, then b decoded from the bytes a left.
Join(a, b) == IF b.st # "ok" THEN b ELSE Ok(a.toks \o b.toks, b.rest)

\* A failed first decode ends the whole decode (section 7: fail eagerly).
SeqFrom(a, items)   == IF a.st # "ok" THEN a ELSE Join(a, Dec(items, a.rest))
RepFrom(a, elem, n) == IF a.st # "ok" THEN a ELSE Join(a, DecRep(elem, n, a.rest))

Dec(items, bs) ==
    IF items = <<>> THEN Ok(<<>>, bs)
    ELSE SeqFrom(DecItem(Head(items), bs), Tail(items))

\* n consecutive decodes of elem (a sequence of exactly n elements, 4.1).
DecRep(elem, n, bs) ==
    IF n = 0 THEN Ok(<<>>, bs) ELSE RepFrom(Dec(elem, bs), elem, n - 1)

\* The fields of a successful decode as one token of kind.
AsOne(kind, r) ==
    IF r.st # "ok" THEN r
    ELSE Ok(<<Tok(kind, FlattenSeq([i \in DOMAIN r.toks |-> r.toks[i].v]))>>,
            r.rest)

DecItem(it, bs) ==
    LET k   == it.kind
        len == I32Of(Take(bs, 4))
        n   == IF len < 0 THEN 0 ELSE len       \* negative length: empty
    IN
    CASE k = "stat" ->
           AsOne("stat", Dec([i \in 1..11 |-> Field(SpecStatLayout[i])], bs))
      [] k \in FixedKinds \ {"stat"} ->
           IF Len(bs) < Width[k] THEN Fail
           ELSE Ok(<<Tok(k, FixedValue(k, Take(bs, Width[k])))>>,
                   Drop(bs, Width[k]))
      [] k \in {"buffer", "string"} ->
           IF Len(bs) < 4 \/ Len(bs) - 4 < n THEN Fail          \* truncated
           ELSE IF k = "string" /\ ~IsUtf8(SubSeq(bs, 5, 4 + n)) THEN Fail
           ELSE Ok(<<Tok(k, SubSeq(bs, 5, 4 + n))>>, Drop(bs, 4 + n))
      [] k = "vec" ->
           IF Len(bs) < 4 \/ len < 0 THEN Fail   \* negative count: framing
           ELSE Join(Ok(<<Tok("count", <<len>>)>>, <<>>),
                     DecRep(it.elem, len, Drop(bs, 4)))
      [] k = "multi" -> DecMulti(bs)
      [] k = "multireq" -> DecMultiReq(bs)

\* One transaction reply entry after its header (4.4 steps 3-4): an error
\* outcome with no payload, or the payload its completion code announces.
DecEntry(type, err, bs) ==
    CASE err # NoError -> Ok(<<Tok("error", <<err>>)>>, bs)
      [] type \in DOMAIN OutcomeName -> AsOne(OutcomeName[type], Dec(Payload(type), bs))
      [] OTHER -> Fail                               \* protocol-shape error

\* Step 5: an entry with done set is the last one.
MultiFrom(e, done) == IF e.st # "ok" \/ done THEN e ELSE Join(e, DecMulti(e.rest))

\* Section 4.4, steps 1-5: entry headers {type, done, err} until the
\* terminal type or an entry with done set.
DecMulti(bs) ==
    IF Len(bs) < 9 THEN Fail
    ELSE IF I32Of(Take(bs, 4)) = TerminalType THEN Ok(<<>>, Drop(bs, 9))
    ELSE MultiFrom(DecEntry(I32Of(Take(bs, 4)), I32Of(SubSeq(bs, 6, 9)), Drop(bs, 9)),
                   bs[5] # 0)


\* Section 4.4, encode, read back: entries {type, done = 0, err = -1} and
\* their payloads, closed by the mandatory terminal {-1, 1, -1}.  Each
\* entry yields a token naming its type, then its payload's fields.
ReqEntryFrom(type, r) ==
    IF r.st # "ok" THEN r
    ELSE Join(Ok(<<Tok("entry", <<type>>)>> \o r.toks, <<>>), DecMultiReq(r.rest))

DecMultiReq(bs) ==
    IF Len(bs) < 9 THEN Fail
    ELSE LET type == I32Of(Take(bs, 4))
             done == bs[5]
             err  == I32Of(SubSeq(bs, 6, 9))
         IN  CASE type = TerminalType /\ done = 1 /\ err = NoError ->
                    Ok(<<>>, Drop(bs, 9))
               [] type \in DOMAIN SpecEntrySchema /\ done = 0 /\ err = NoError ->
                    ReqEntryFrom(type, Dec(SpecEntrySchema[type], Drop(bs, 9)))
               [] OTHER -> Fail

(***************************************************************************)
(* Section 6, framing: each frame is an i32 length and a body of exactly   *)
(* that many bytes.  The first frame of a session is the connect request;  *)
(* every later one is a request header {xid, opcode} and the operation's   *)
(* fields.  ParseFrames yields one token sequence per frame.               *)
(***************************************************************************)
\* A body decodes only if its fields use up exactly its bytes.
Whole(r) == IF r.st = "ok" /\ r.rest # <<>> THEN Fail ELSE r

ParseBody(body, first) ==
    IF first THEN Whole(Dec(SpecConnectSchema, body))
    ELSE IF Len(body) < 8 \/ I32Of(SubSeq(body, 5, 8)) \notin DOMAIN SpecRequestSchema
         THEN Fail
         ELSE Whole(Dec(<<Field("i32"), Field("i32")>>
                        \o SpecRequestSchema[I32Of(SubSeq(body, 5, 8))], body))

\* The byte count of the first frame of bs, or -1 if it is cut short.
FrameLen(bs) ==
    IF Len(bs) < 4 \/ I32Of(Take(bs, 4)) < 0 \/ Len(bs) - 4 < I32Of(Take(bs, 4))
    THEN -1 ELSE 4 + I32Of(Take(bs, 4))

RECURSIVE ParseFrames(_, _)

FramesFrom(r, more) ==
    IF r.st # "ok" \/ more.st # "ok" THEN [st |-> "error", frames |-> <<>>]
    ELSE [st |-> "ok", frames |-> <<r.toks>> \o more.frames]

ParseFrames(bs, first) ==
    IF bs = <<>> THEN [st |-> "ok", frames |-> <<>>]
    ELSE IF FrameLen(bs) < 0 THEN [st |-> "error", frames |-> <<>>]
    ELSE FramesFrom(ParseBody(SubSeq(bs, 5, FrameLen(bs)), first),
                    ParseFrames(Drop(bs, FrameLen(bs)), FALSE))

(***************************************************************************)
(* The fields spec.md says a request's frame carries, in order, for the    *)
(* request records of the client model.  An optional version is a         *)
(* sequence of at most one value, encoded -1 when absent (section 3).      *)
(***************************************************************************)
VersionCode(v) == IF v = <<>> THEN -1 ELSE v[1]

S(b) == Tok("string", b)
B(b) == Tok("buffer", b)
I(n) == Tok("i32", <<n>>)

AclToks(acl) ==
    <<Tok("count", <<Len(acl)>>)>>
    \o FlattenSeq([i \in DOMAIN acl |->
                      <<Tok("u32", <<acl[i].perms>>), S(acl[i].scheme), S(acl[i].id)>>])

EntryToks(op) ==
    <<Tok("entry", <<OpCodes[op.op]>>)>> \o
    CASE op.op = "check"   -> <<S(op.path), I(VersionCode(op.version))>>
      [] op.op = "create"  -> <<S(op.path), B(op.data)>> \o AclToks(op.acl) \o <<I(op.mode)>>
      [] op.op = "delete"  -> <<S(op.path), I(VersionCode(op.version))>>
      [] op.op = "setData" -> <<S(op.path), B(op.data), I(VersionCode(op.version))>>

BodyToks(r) ==
    CASE r.op = "create"  -> <<S(r.path), B(r.data)>> \o AclToks(r.acl) \o <<I(r.flags)>>
      [] r.op = "delete"  -> <<S(r.path), I(r.version)>>
      [] r.op \in {"exists", "getData", "getChildren"} ->
                              <<S(r.path), Tok("u8", <<IF r.watch THEN 1 ELSE 0>>)>>
      [] r.op = "setData" -> <<S(r.path), B(r.data), I(r.version)>>
      [] r.op = "getAcl"  -> <<S(r.path)>>
      [] r.op = "setAcl"  -> <<S(r.path)>> \o AclToks(r.acl) \o <<I(r.version)>>
      [] r.op = "auth"    -> <<I(r.typ), S(r.scheme), B(r.auth)>>
      [] r.op \in {"ping", "closeSession"} -> <<>>
      [] r.op = "multi"   -> FlattenSeq([i \in DOMAIN r.ops |-> EntryToks(r.ops[i])])

SignedI64(n) == Tok("i64", <<IF n < 0 THEN -1 ELSE 0, n>>)

\* A frame's fields: the connect request's, or the header's and the body's.
RequestToks(r) ==
    IF r.op = "connect"
    THEN <<I(r.protocol_version), SignedI64(r.last_zxid_seen), I(r.timeout),
           SignedI64(r.session_id), B(r.passwd),
           Tok("u8", <<IF r.read_only THEN 1 ELSE 0>>)>>
    ELSE <<I(r.xid), I(OpCodes[r.op])>> \o BodyToks(r)

=============================================================================
