----------------------------- MODULE JuteServer -----------------------------
(***************************************************************************)
(* The server side of the wire: every reply body a server sends for a      *)
(* response type, built from small sets of field values (spec.md sections  *)
(* 4.1-4.5 and 6).  Each is a record [toks, bytes]: the fields the server  *)
(* meant and their encoding.  A server may send a null buffer or string as *)
(* length -1, which spec.md 4.1 says decodes as empty, and a null vector   *)
(* as count -1, the way Jute serializers write a null list.                *)
(***************************************************************************)
EXTENDS JuteSpec, FiniteSets

CONSTANTS
    IntVals,      \* values of i32 and i64 fields
    PermVals,     \* Acl permission masks (u32)
    BufVals,      \* byte buffers
    StrVals,      \* byte strings
    StatVals,     \* Stat records, each an 11-tuple of field values
    MaxVec,       \* longest ACL list or child list sent
    MaxOps,       \* most entries in a transaction reply
    ServerErrs,   \* per-entry error codes of a transaction reply
    NullLengths,  \* TRUE: empty buffers and strings may be sent as length -1
    NullVectors   \* TRUE: an empty ACL or child list may be sent as count -1

ASSUME /\ \A v \in IntVals : -2^30 <= v /\ v < 2^30
       /\ MaxVec \in Nat /\ MaxOps \in Nat
       /\ NoError \notin ServerErrs
       /\ NullLengths \in BOOLEAN /\ NullVectors \in BOOLEAN

Pair(ts, bs) == [toks |-> ts, bytes |-> bs]

Concat(ps) == Pair(FlattenSeq([i \in DOMAIN ps |-> ps[i].toks]),
                   FlattenSeq([i \in DOMAIN ps |-> ps[i].bytes]))

NoPairs == {Pair(<<>>, <<>>)}

SignWord(v) == IF v < 0 THEN -1 ELSE 0

WireFixed(kind, v) == IF kind = "i64" THEN I64Bytes(v) ELSE I32Bytes(v)
ValFixed(kind, v)  == IF kind = "i64" THEN <<SignWord(v), v>> ELSE <<v>>

SendStat(s) ==
    Pair(<<Tok("stat", FlattenSeq([i \in 1..11 |->
                                    ValFixed(SpecStatLayout[i], s[i])]))>>,
         FlattenSeq([i \in 1..11 |-> WireFixed(SpecStatLayout[i], s[i])]))

SendBytes(kind, b) == Pair(<<Tok(kind, b)>>, I32Bytes(Len(b)) \o b)

SendNull(kind) == Pair(<<Tok(kind, <<>>)>>, I32Bytes(-1))

RECURSIVE Send(_), SendItem(_), SendRep(_, _)

\* Every encoding of an item sequence.
Send(items) ==
    IF items = <<>> THEN NoPairs
    ELSE { Concat(<<a, b>>) : a \in SendItem(Head(items)),
                              b \in Send(Tail(items)) }

SendRep(elem, n) ==
    IF n = 0 THEN NoPairs
    ELSE { Concat(<<a, b>>) : a \in Send(elem), b \in SendRep(elem, n - 1) }

(***************************************************************************)
(* Transaction replies (4.4): up to MaxOps entries, each a header          *)
(* {type, done, err} and its payload, closed either by the terminal entry  *)
(* {-1, 1, -1} or by setting done on the last entry.                       *)
(***************************************************************************)
EntryHeader(type, done, err) == I32Bytes(type) \o <<done>> \o I32Bytes(err)

Entry(type, done, err, payload) ==
    IF err # NoError
    THEN Pair(<<Tok("error", <<err>>)>>, EntryHeader(type, done, err))
    ELSE Pair(<<Tok(OutcomeName[type], ValueOf(payload.toks))>>,
              EntryHeader(type, done, err) \o payload.bytes)

\* The entries an operation may produce, as [type, err, payload].
EntryKinds ==
    UNION { { [type |-> c, err |-> NoError, payload |-> p]
                : p \in Send(Payload(c)) } : c \in DOMAIN OutcomeName }
    \cup { [type |-> 0, err |-> e, payload |-> Pair(<<>>, <<>>)] : e \in ServerErrs }

MkEntry(x, done) == Entry(x.type, done, x.err, x.payload)

Terminal == Pair(<<>>, EntryHeader(TerminalType, 1, NoError))

SendMulti ==
    UNION { { Concat([i \in 1..n |-> MkEntry(xs[i], 0)] \o <<Terminal>>)
              : xs \in [1..n -> EntryKinds] }
            \cup { Concat([i \in 1..n |-> MkEntry(xs[i], IF i = n THEN 1 ELSE 0)])
                   : xs \in [1..n -> EntryKinds] }
          : n \in 0..MaxOps }
    \ {Pair(<<>>, <<>>)}

SendItem(it) ==
    LET k == it.kind IN
    CASE k \in {"i32", "i64"} ->
           { Pair(<<Tok(k, ValFixed(k, v))>>, WireFixed(k, v)) : v \in IntVals }
      [] k = "u32"  -> { Pair(<<Tok(k, <<v>>)>>, I32Bytes(v)) : v \in PermVals }
      [] k \in {"u8", "bool"} -> { Pair(<<Tok(k, <<b>>)>>, <<b>>) : b \in {0, 1} }
      [] k = "stat" -> { SendStat(s) : s \in StatVals }
      [] k \in {"buffer", "string"} ->
           { SendBytes(k, b) : b \in IF k = "buffer" THEN BufVals ELSE StrVals }
           \cup (IF NullLengths THEN {SendNull(k)} ELSE {})
      [] k = "vec" ->
           UNION { { Concat(<<Pair(<<Tok("count", <<n>>)>>, I32Bytes(n)), r>>)
                     : r \in SendRep(it.elem, n) } : n \in 0..MaxVec }
           \cup (IF NullVectors THEN {Pair(<<Tok("count", <<-1>>)>>, I32Bytes(-1))}
                 ELSE {})
      [] k = "multi" -> SendMulti

\* The whole replies of a response type, and every strict prefix of one
\* (a frame cut short: spec.md 4.1 says it must be a framing error).
Replies(name) ==
    { [name |-> name, bytes |-> p.bytes, toks |-> p.toks, whole |-> TRUE]
        : p \in Send(SpecSchema[name]) }

Truncations(name) ==
    UNION { { [name |-> name, bytes |-> Take(p.bytes, k), toks |-> <<>>,
               whole |-> FALSE] : k \in 0..(Len(p.bytes) - 1) }
            : p \in Send(SpecSchema[name]) }

=============================================================================
