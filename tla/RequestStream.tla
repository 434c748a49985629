---------------------------- MODULE RequestStream ----------------------------
(***************************************************************************)
(* A session's outbound byte stream.  The connection manager (outside      *)
(* src/) encodes each request with the codec of src/proto.rs and writes    *)
(* the frame to the socket; the server reads frames off the stream by      *)
(* their length prefix.  The first frame is the connect request; every     *)
(* later frame is a request header and one operation's fields.             *)
(***************************************************************************)
EXTENDS JuteWriter, JuteSpec

CONSTANTS
    Connects,      \* ConnectRequest values
    Requests,      \* request values of the other operations ([op, ...])
    Xids,          \* request ids the connection manager assigns
    MaxInFlight    \* frames written and not yet read by the server

ASSUME MaxInFlight \in Nat \ {0}

VARIABLES
    sent,          \* the requests whose frames are on the stream, in order
    wire,          \* the bytes written and not yet read by the server
    connectSent,   \* the client has written its connect request
    serverReady    \* the server has read the connect request

vars == <<sent, wire, connectSent, serverReady>>

RequestsOf(op) == {r \in Requests : r.op = op}

Init == /\ sent = <<>>
        /\ wire = <<>>
        /\ connectSent = FALSE
        /\ serverReady = FALSE

\* The manager opens the session with ConnectRequest::to_len_prefixed_buf.
SendConnect ==
    /\ ~connectSent
    /\ \E r \in Connects :
          /\ sent' = Append(sent, r)
          /\ wire' = wire \o Remaining(SelfLenPrefixedBuf(ConnectRequestBytes(r)))
    /\ connectSent' = TRUE
    /\ UNCHANGED serverReady

\* The manager frames request r with to_len_prefixed_buf(header, body).
Submit(r, body) ==
    /\ connectSent
    /\ Len(sent) < MaxInFlight
    /\ \E x \in Xids :
          /\ sent' = Append(sent, [r EXCEPT !.xid = x])
          /\ wire' = wire \o Remaining(LenPrefixedBuf(RequestHeaderBytes(x, OpCode[r.op]),
                                                      body))
    /\ UNCHANGED <<connectSent, serverReady>>

SendCreate      == \E r \in RequestsOf("create")  : Submit(r, CreateRequestBytes(r))
SendDelete      == \E r \in RequestsOf("delete")  : Submit(r, DeleteRequestBytes(r))
SendExists      == \E r \in RequestsOf("exists")  : Submit(r, StringAndBoolRequestBytes(r))
SendGetData     == \E r \in RequestsOf("getData") : Submit(r, StringAndBoolRequestBytes(r))
SendGetChildren == \E r \in RequestsOf("getChildren") :
                       Submit(r, StringAndBoolRequestBytes(r))
SendSetData     == \E r \in RequestsOf("setData") : Submit(r, SetDataRequestBytes(r))
SendGetAcl      == \E r \in RequestsOf("getAcl")  : Submit(r, GetAclRequestBytes(r))
SendSetAcl      == \E r \in RequestsOf("setAcl")  : Submit(r, SetAclRequestBytes(r))
SendAuth        == \E r \in RequestsOf("auth")    : Submit(r, AuthRequestBytes(r))
SendPing        == \E r \in RequestsOf("ping")    : Submit(r, EmptyRequestBytes(r))
SendClose       == \E r \in RequestsOf("closeSession") : Submit(r, EmptyRequestBytes(r))
SendMulti       == \E r \in RequestsOf("multi")   : Submit(r, TransactionRequestBytes(r))

\* The server reads the first frame off the stream by its length prefix.
ServerRead ==
    /\ sent # <<>>
    /\ FrameLen(wire) >= 0
    /\ wire' = Drop(wire, FrameLen(wire))
    /\ sent' = Tail(sent)
    /\ serverReady' = TRUE
    /\ UNCHANGED connectSent

Next == \/ SendConnect \/ SendCreate \/ SendDelete \/ SendExists
        \/ SendGetData \/ SendGetChildren \/ SendSetData \/ SendGetAcl
        \/ SendSetAcl \/ SendAuth \/ SendPing \/ SendClose \/ SendMulti
        \/ ServerRead

Spec == Init /\ [][Next]_vars

-----------------------------------------------------------------------------
\* Reading the stream frame by frame, by length prefix and spec.md's field
\* order, gives back exactly the requests written, in order, whatever the
\* operations and however many frames are queued: every WriteTo impl, the
\* transaction entry stream with its terminal entry, the absent-version
\* sentinel and the back-patched length prefix agree with spec.md.
StreamParsesToRequests ==
    LET p == ParseFrames(wire, ~serverReady)
    IN  /\ p.st = "ok"
        /\ p.frames = [i \in DOMAIN sent |-> RequestToks(sent[i])]

=============================================================================
