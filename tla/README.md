# TLA+ models of the rust-zookeeper wire codec

These modules model the wire-protocol layer of the client: `src/src/proto.rs`
(the `ReadFrom`/`WriteTo` impls and frame assembly) and the transaction
`Op`/`OpResult` types of `src/src/multi.rs`. They check the code against
`spec.md`.

## The system

`spec.md` §2 lists the codec's parts, leaf-first:

- **Primitive encoder/decoder set** (`proto.rs` 74–126):
  - `read_buffer` and `read_string`;
  - `WriteTo` for `u8`, `String` and `Vec<T>`;
  - the big-endian fixed-width reads and writes of `byteorder`.
- **Structured record codecs** (128–162): `Acl` read/write and
  `Stat::read_from`, which makes eleven fixed reads.
- **Per-operation codecs** (164–416, 531–573): one `WriteTo` per request and
  one `ReadFrom` per reply.
- **Frame assembler** (38–60): `to_len_prefixed_buf` does four steps on a
  `Cursor<Vec<u8>>`:
  1. seeks to 4;
  2. writes the header and body;
  3. seeks to 0;
  4. back-patches the i32 length.
- **Transaction codec** (418–529):
  - the encoder writes one `{type, done=0, err=-1}` header and payload per
    `Op`, then the closing header `{-1, 1, -1}`;
  - the decoder `TransactionResponse::read_from` returns an empty list, and
    its real body is commented out. `read_transaction_header` (481–487),
    which only that body calls, is not modelled. The enum `Completion` is
    modelled. Its `Error` code is -1, the same value as the terminal
    entry's type code, so a decoder that dispatched on `Completion` before
    testing for the terminal entry would read the terminal entry as an
    error.
- **Watch-event decoder** (560–573).
- **Session handshake values** (164–229): `ConnectResponse::initial` builds
  the first connect from the configured `u64` timeout, `ConnectResponse`'s
  `read_from` decodes the server's grant (its i32 timeout cast to `u64`), and
  `ConnectRequest::from` builds every reconnect from the last grant and the
  last zxid seen (the timeout cast back to i32).

The codec is stateless and synchronous (§5), so nothing in it runs
concurrently. A decode is a sequence of reads from a cursor that can fail or
panic at each step. Its interaction is with the connection manager, which is
not in this repository:

- it frames requests onto one socket, pipelining several before the server
  reads them;
- it hands reply bodies to the decoders.

## Modules

| Module | Models |
|---|---|
| `Jute` | The primitives: the `u64`/`i32` casts (`I32AsU64`, `U64AsI32`), the enums `Completion` and `multi::OpResult`, byte layout of i32/i64 (two's complement, big-endian), `I32Of`, the `Stat` layout, UTF-8 validity (`IsUtf8`, as `String::from_utf8` decides it), and the `WriteTo` impls for u8, String, Vec and Acl. |
| `JuteReader` | The reply decoders as a state machine over one frame. `CodeSchema` is the sequence of reads each `ReadFrom` impl makes. The actions are `ReadFixed`, `ReadBuffer`, `ReadCount`, `ReadElement` (one loop turn) and `Finish`. The state is the cursor `pos`, the reads still to do `todo`, the fields read `out`, and `status` (decoding, done, error or panic). `try!`/`?` is an error; an `unwrap` or capacity overflow is a panic. |
| `JuteWriter` | Every request `WriteTo`, the transaction operations `multi::Op` (`Op`) and their encoder, and frame assembly, with `Cursor` semantics (a write past the end zero-fills). |
| `JuteSpec` | The reference from `spec.md`. It models no code, except that it takes the transaction completion codes and outcome payloads, which `spec.md` names without values, from `Jute`'s `Completion` and `OpResult`. It holds the schemas of §4.3/§6, the decoder `Dec` including the §4.4 transaction algorithm, and the request-frame parser `ParseFrames`. |
| `JuteDecodeSpec` | The abstract decoder: in one step it returns what `JuteSpec` returns. |
| `JuteServer` | A generator of server replies from `spec.md`'s layouts. It produces whole replies, every truncation of them, and optionally null (-1) lengths and vectors. |
| `RequestStream` | The outbound stream. The connection manager (modelled from `spec.md`) sends the connect frame, then pipelines up to `MaxInFlight` request frames of every operation, each with a chosen xid. The server reads frames off the front by their length prefix. |
| `Session` | The handshake and reconnect loop. The code part is `Initial`, `From`, `ReadConnectResponse` (with the casts `I32AsU64`/`U64AsI32`) and `ConnectFrame`. Around it, from `spec.md` and ZooKeeper's protocol: the manager connects (`Connect`), reads the reply (`ClientReceive`), tracks the zxid (`Observe`); the server parses the connect frame and grants a new session, resumes a live one with the right password, or answers expired (`ServerAccept`), and expires sessions while the client is away (`ServerExpire`); the connection can drop with frames in flight (`Lose`). |
| `SessionSpec` | The abstract session (it models no code): the client holds no session, then one the server issued, keeps it, and is told it expired only after the server dropped it. |
| `LengthPrefix` | The length fields of a framed `SetData` request, with its data abstracted to its length (a `usize` as four 16-bit digits): `Vec::write_to`'s `self.len() as i32` and `to_len_prefixed_buf`'s `len as i32`. |
| `MCJuteReader`, `MCRequestStream`, `MCSession`, `MCLengthPrefix` | The model values for TLC. |

`JuteReader` implements `JuteDecodeSpec` through the refinement mapping
`DecodeResult`:

- while decoding, the result is pending;
- when done, it is `Ok` with the fields read;
- on failure, it is the error or the panic.

The abstract spec is checked as the property `Abs!SafeSpec`.

`Session` implements `SessionSpec` through `HeldSession`, the session id of
the manager's last decoded `ConnectResponse` (or expired, once the manager
was told so), with the server's issued and live ids. The property
`SessionRefinesSpec` is `AbsSession!Spec`. Because the mapping reads the
decoded response, not the server's record of what it sent, a wrong
`read_from` or `from` shows up as a step `SessionSpec` forbids. Examples are
a reconnect that asks for a new session, or one whose password the server
rejects while the session is still live.

`JuteReader` has a constant `ShortReads`. When it is TRUE, the decoder reads
from a reader other than a `Cursor`, whose `read()` may return any count from
1 up to what is asked. `read_buffer`'s one `read()` then sees such a count.
The fixed-width reads use `read_exact` and are not affected.

## Runs

| Run | Checks | Result |
|---|---|---|
| `decode` (`MCJuteReader.cfg`) | `TypeOK`; `RoundTrip` (a whole reply decodes to exactly the fields sent, to its last byte); `DecodeRefinesSpec` | passes, about 151k states |
| `decode_malformed` | `DecodeRefinesSpecUpToPanic`: the decoders agree with the spec except that they panic where it returns an error | passes |
| `request_stream` | `StreamParsesToRequests`: the bytes on the wire, parsed frame by frame per `spec.md`, are exactly the requests sent, in order | passes, about 140k states |
| `session` | `SessionRefinesSpec`; `ReconnectResumesGrant`: whenever a connect request is on the wire it parses, asks for session 0 if no reply was ever read, and otherwise carries exactly the last grant's id, password and timeout and the last zxid | passes, about 125k states |
| `session_timeout` | `ProposesConfiguredTimeout`: the first request proposes the configured timeout | violated: `as i32` wraps 2^31 and 2^32+5000 ms |
| `short_read` | `RoundTrip` with `ShortReads` | violated: a 2-byte buffer read in 1-byte pieces is an Err |
| `length_prefix` | `PrefixesStateLengths`: each length field, read as an i32, gives the length written | violated: 2^31-10 bytes of data give a negative frame length |
| `txn_response` | `RoundTrip` on transaction replies | violated: the decoder reads nothing |
| `utf8_panic` | `NoPanic` on strings that are not UTF-8 | violated: `read_string` unwraps |
| `null_vector_panic` | `NoPanic` on a -1 ACL or child count | violated: `Vec::with_capacity(-1 as usize)` |

The six violations are recorded as findings in `PROJECT.json`. Each
property of a passing run has a mutant, a plausible bug in the mapped code
that the property catches:

- a count read as 8 bytes;
- data and stat swapped in `GetDataResponse`;
- no clamp of a negative length;
- a missing UTF-8 check;
- a missing terminal transaction entry;
- a reconnect that sends a fresh zero password;
- a reconnect that does not carry the session id.

## Bounds

- Integers come from {-1, 300}, which covers negative, multi-byte and
  sign-extension cases.
- Buffers are empty or two bytes; strings are empty or "/a". The malformed
  runs add a lone 0xFF byte.
- A `Stat` has all fields -1, or distinct small values; the distinct values
  catch fields read out of order.
- Vectors and transactions have 0–2 elements: empty, single and plural all
  occur.
- Every reply is also offered cut at every byte.
- The request stream has 2 frames in flight and xids {1, -2}. It covers both
  connect encodings (session id 0 and -1, read-only flag both ways) and every
  request type, including transactions of 0–2 ops with absent and present
  versions.

- The session run has configured timeouts 5000, 2^31 and 2^32+5000 ms,
  granted timeouts 4000 and 100000 ms (the latter needs more than 16 bits),
  four session ids, two passwords of different lengths, three connection
  losses and two zxid steps. That is enough to combine several patterns in
  one behaviour: a loss before the reply (an orphaned session), then losses
  after it with the zxid advancing between reconnects, then resumes and an
  expiry. `session_timeout` keeps two losses and three ids.

- `length_prefix` uses data lengths 2, 2^31-10, 2^31 and 2^32+2. These are
  the cases where no field wraps, only the frame's field wraps, both wrap
  negative, and the data field wraps to a small positive value.

These bounds reach every disjunct:

- every field kind;
- every error path: short fixed read, short buffer, truncated prefix;
- both panics;
- the loop at count 0 and count above 0.

## Fairness

No module assumes fairness, and every property is a safety property.

- A decode is a sequence of reads over one in-memory frame. Each step
  consumes a pending read or counts a finite loop down. Such a decode
  always returns, so a liveness property would hold whatever the decoders
  do.
- In `Session`, the manager could fail to settle, connected or expired, for
  only one reason: a connect frame the server cannot parse.
  `ReconnectResumesGrant` already requires every connect frame to parse.
- Type invariants are kept only in `JuteReader`. In the other modules, the
  Rust types already rule out every value a type invariant could exclude,
  such as a byte above 255 or a 16-bit digit above 65535.

## Not modelled

- `read_transaction_header` (proto.rs 481–487). Only the commented-out
  transaction decoder calls it, so no behaviour of the program runs it.
- The connection manager's reply matching and watch delivery (its
  reconnect loop is modelled in `Session` from `spec.md`),
  and the ACL and enumeration modules. Their code is not in this repository.
- The `WatchedEventType`/`KeeperState` conversions, which are defined outside
  `src/`.
- Allocation failure for lengths near 2^31 (`vec![0; len]`,
  `Vec::with_capacity`). It is beyond TLC's value range, and it is an
  abort, not a state. The `as i32` wraps are modelled in `LengthPrefix`
  over data abstracted to its length.
