------------------------------ MODULE Session ------------------------------
(***************************************************************************)
(* Session establishment across reconnects.  The code modelled is that of *)
(* src/proto.rs which the handshake runs through: ConnectResponse::initial,*)
(* ConnectRequest::from, the connect frame (ConnectRequest::write_to under *)
(* to_len_prefixed_buf) and ConnectResponse::read_from.                    *)
(*                                                                         *)
(* The connection manager that calls them and the server that answers are *)
(* not in the repository.  They follow spec.md 1 and 3: the manager starts *)
(* from ConnectResponse::initial, reconnects after a lost connection with  *)
(* ConnectRequest::from(last response, last zxid), and a session id of 0   *)
(* asks for a new session.  The server answers as ZooKeeper's does: a new  *)
(* session for id 0, the same session when it is live and the password    *)
(* matches, otherwise the expired reply {timeout 0, id 0, zero password}.  *)
(*                                                                         *)
(* A u64 is four 16-bit digits (Jute); session ids are kept within the    *)
(* i32 range, so an i64 is its value.                                      *)
(***************************************************************************)
EXTENDS JuteWriter, JuteSpec

CONSTANTS
    ConfiguredTimeouts, \* u64 session timeouts (ms) the manager may be given
    GrantedTimeouts,    \* i32 timeouts the server may negotiate
    SessionIds,         \* ids the server may assign
    Passwds,            \* passwords the server may issue
    MaxLosses,          \* connection losses in one behaviour
    MaxZxid             \* zxids the manager observes while connected

ASSUME /\ ConfiguredTimeouts \subseteq U64
       /\ GrantedTimeouts \subseteq 1..(2^30)
       /\ SessionIds \subseteq 1..(2^30)
       /\ Cardinality(SessionIds) > MaxLosses
       /\ Passwds \subseteq Seq(Byte)
       /\ MaxLosses \in Nat /\ MaxZxid \in Nat

VARIABLES
    configured, \* the timeout the manager was configured with (u64)
    connResp,   \* the manager's ConnectResponse: initial, then the last one read
    zxid,       \* the last zxid the manager has seen
    state,      \* "disconnected", "connecting", "connected" or "expired"
    losses,     \* connection losses so far
    toServer,   \* the connect frame on its way to the server
    toClient,   \* the server's reply body on its way to the client
    issued,     \* session ids the server has handed out
    live,       \* the server's live sessions, [id, passwd]
    granted,    \* the reply the server last sent, as the values it encoded
    received    \* <<the reply the manager last read>>, or <<>> before any

vars == <<configured, connResp, zxid, state, losses, toServer, toClient,
          issued, live, granted, received>>

-----------------------------------------------------------------------------
(* The code.                                                               *)

ZeroPasswd == [i \in 1..16 |-> 0]

\* ConnectResponse::initial.
Initial(timeout) == [protocol_version |-> 0, timeout |-> timeout, session_id |-> 0,
                     passwd |-> ZeroPasswd, read_only |-> FALSE]

\* Mutation: the session id not carried over, so every reconnect asks anew.
FromNoSessionId(resp, last_zxid_seen) ==
    [op |-> "connect", protocol_version |-> resp.protocol_version,
     last_zxid_seen |-> last_zxid_seen, timeout |-> U64AsI32(resp.timeout),
     session_id |-> 0, passwd |-> resp.passwd, read_only |-> resp.read_only]

\* Mutation: a fresh zero password instead of the session's.
FromZeroPasswd(resp, last_zxid_seen) ==
    [op |-> "connect", protocol_version |-> resp.protocol_version,
     last_zxid_seen |-> last_zxid_seen, timeout |-> U64AsI32(resp.timeout),
     session_id |-> resp.session_id, passwd |-> ZeroPasswd,
     read_only |-> resp.read_only]

\* ConnectRequest::from.
From(resp, last_zxid_seen) ==
    [op |-> "connect", protocol_version |-> resp.protocol_version,
     last_zxid_seen |-> last_zxid_seen, timeout |-> U64AsI32(resp.timeout),
     session_id |-> resp.session_id, passwd |-> resp.passwd,
     read_only |-> resp.read_only]

\* ConnectResponse::read_from of a whole reply: i32, i32 as u64, i64,
\* read_buffer (a negative length reads as 0), read_u8 != 0.
ReadConnectResponse(b) ==
    LET n == IF I32Of(SubSeq(b, 17, 20)) < 0 THEN 0 ELSE I32Of(SubSeq(b, 17, 20))
    IN  [protocol_version |-> I32Of(SubSeq(b, 1, 4)),
         timeout          |-> I32AsU64(I32Of(SubSeq(b, 5, 8))),
         session_id       |-> FixedValue("i64", SubSeq(b, 9, 16))[2],
         passwd           |-> SubSeq(b, 21, 20 + n),
         read_only        |-> b[21 + n] # 0]

ConnectFrame(req) == Remaining(SelfLenPrefixedBuf(ConnectRequestBytes(req)))

-----------------------------------------------------------------------------
(* The server, after spec.md 4.3's response layout.                        *)

ConnectResponseBytes(r) ==
    I32Bytes(r.protocol_version) \o I32Bytes(r.timeout) \o I64Bytes(r.session_id)
    \o BufferBytes(r.passwd) \o U8Bytes(BoolByte(r.read_only))

Grant(id, pw, t) == [protocol_version |-> 0, timeout |-> t, session_id |-> id,
                     passwd |-> pw, read_only |-> FALSE]

ExpiredReply == Grant(0, ZeroPasswd, 0)

\* The connect frame as the server parses it (spec.md 4.3 and 6): the
\* length prefix, then i32, i64, i32, i64, buffer, u8, using up the frame;
\* [ok |-> FALSE] when it does not.  i64 values are kept within the i32 range.
ParseConnect(bs) ==
    LET n == IF Len(bs) < 32 THEN 0 ELSE I32Of(SubSeq(bs, 29, 32))
    IN  IF Len(bs) < 32 \/ n < 0 \/ Len(bs) # 33 + n
           \/ I32Of(SubSeq(bs, 1, 4)) # Len(bs) - 4
           \/ I32Of(SubSeq(bs, 9, 12)) # (IF I32Of(SubSeq(bs, 13, 16)) < 0 THEN -1 ELSE 0)
           \/ I32Of(SubSeq(bs, 21, 24)) # (IF I32Of(SubSeq(bs, 25, 28)) < 0 THEN -1 ELSE 0)
        THEN [ok |-> FALSE]
        ELSE [ok |-> TRUE, op |-> "connect",
              protocol_version |-> I32Of(SubSeq(bs, 5, 8)),
              last_zxid_seen |-> I32Of(SubSeq(bs, 13, 16)),
              timeout |-> I32Of(SubSeq(bs, 17, 20)),
              session_id |-> I32Of(SubSeq(bs, 25, 28)),
              passwd |-> SubSeq(bs, 33, 32 + n),
              read_only |-> bs[33 + n] # 0]

Parsed == ParseConnect(toServer)

Reply(r) == /\ toClient' = ConnectResponseBytes(r)
            /\ granted' = r
            /\ toServer' = <<>>

-----------------------------------------------------------------------------
Init == /\ configured \in ConfiguredTimeouts
        /\ connResp = Initial(configured)
        /\ zxid = 0
        /\ state = "disconnected"
        /\ losses = 0
        /\ toServer = <<>> /\ toClient = <<>>
        /\ issued = {} /\ live = {}
        /\ granted = ExpiredReply
        /\ received = <<>>

\* The manager (re)connects with the request built from its last response.
Connect == /\ state = "disconnected"
           /\ toServer' = ConnectFrame(From(connResp, zxid))
           /\ state' = "connecting"
           /\ UNCHANGED <<configured, connResp, zxid, losses, toClient, issued,
                          live, granted, received>>

\* The server reads the connect frame and answers it.
ServerAccept ==
    /\ toServer # <<>>
    /\ Parsed.ok
    /\ LET id == Parsed.session_id
           pw == Parsed.passwd
       IN  \/ /\ id = 0
              /\ \E s \in SessionIds \ issued, w \in Passwds, t \in GrantedTimeouts :
                    /\ Reply(Grant(s, w, t))
                    /\ issued' = issued \cup {s}
                    /\ live' = live \cup {[id |-> s, passwd |-> w]}
           \/ /\ [id |-> id, passwd |-> pw] \in live
              /\ \E t \in GrantedTimeouts : Reply(Grant(id, pw, t))
              /\ UNCHANGED <<issued, live>>
           \/ /\ id # 0
              /\ [id |-> id, passwd |-> pw] \notin live
              /\ Reply(ExpiredReply)
              /\ UNCHANGED <<issued, live>>
    /\ UNCHANGED <<configured, connResp, zxid, state, losses, received>>

\* The server expires a session whose client is not connected to it.
ServerExpire ==
    /\ state # "connected"
    /\ \E r \in live : live' = live \ {r}
    /\ UNCHANGED <<configured, connResp, zxid, state, losses, toServer, toClient,
                   issued, granted, received>>

\* The manager reads the reply; a timeout of 0 means the session expired.
ClientReceive ==
    /\ toClient # <<>>
    /\ connResp' = ReadConnectResponse(toClient)
    /\ state' = IF connResp'.timeout = I32AsU64(0) THEN "expired" ELSE "connected"
    /\ received' = <<granted>>
    /\ toClient' = <<>>
    /\ UNCHANGED <<configured, zxid, losses, toServer, issued, live, granted>>

\* Replies to requests carry zxids; the manager records the last one.
Observe == /\ state = "connected"
           /\ zxid < MaxZxid
           /\ zxid' = zxid + 1
           /\ UNCHANGED <<configured, connResp, state, losses, toServer, toClient,
                          issued, live, granted, received>>

\* The connection drops, losing whatever was in flight.
Lose == /\ state \in {"connecting", "connected"}
        /\ losses < MaxLosses
        /\ losses' = losses + 1
        /\ state' = "disconnected"
        /\ toServer' = <<>> /\ toClient' = <<>>
        /\ UNCHANGED <<configured, connResp, zxid, issued, live, granted, received>>

Next == Connect \/ ServerAccept \/ ServerExpire \/ ClientReceive \/ Observe \/ Lose

Spec == Init /\ [][Next]_vars

-----------------------------------------------------------------------------
\* The request the manager must send to resume the session of reply g.
ResumeRequest(g, z) ==
    [ok |-> TRUE, op |-> "connect", protocol_version |-> g.protocol_version,
     last_zxid_seen |-> z, timeout |-> g.timeout, session_id |-> g.session_id,
     passwd |-> g.passwd, read_only |-> g.read_only]

\* Every connect frame, as the server parses it, asks for exactly the
\* session of the last reply the manager read: its id, its password byte
\* for byte and its timeout (through read_from's i32-to-u64 cast and
\* from's u64-to-i32 cast), with the manager's last zxid; before any reply,
\* it asks for a new session (id 0).
ReconnectResumesGrant ==
    toServer # <<>> =>
        /\ Parsed.ok
        /\ received # <<>> => Parsed = ResumeRequest(received[1], zxid)
        /\ received = <<>> => Parsed.session_id = 0

\* The session the manager holds, read off its last decoded response: the
\* expired reply's id is 0, so expiry is told by the state.
HeldSession == IF state = "expired" THEN -1 ELSE connResp.session_id

AbsSession == INSTANCE SessionSpec
                  WITH session <- HeldSession, live <- {r.id : r \in live}

\* Every step of the handshake loop is a step of SessionSpec: the manager
\* adopts only a session id the server issued (as read back by
\* ConnectResponse::read_from), keeps it across every reconnect built by
\* ConnectRequest::from, and is told it expired only once the server has
\* dropped it, never while the session it holds is still live.
SessionRefinesSpec == AbsSession!Spec

\* The first connect request proposes the timeout the manager was
\* configured with (ConnectResponse::initial then ConnectRequest::from).
ProposesConfiguredTimeout ==
    toServer # <<>> /\ received = <<>> =>
        I32AsU64(Parsed.timeout) = configured

=============================================================================
