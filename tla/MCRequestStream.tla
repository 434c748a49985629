--------------------------- MODULE MCRequestStream ---------------------------
(***************************************************************************)
(* Model checking the request stream with small request values: one path, *)
(* an empty and a two-byte data buffer, the empty and a one-entry ACL,     *)
(* absent and present versions, transactions of up to two operations.     *)
(***************************************************************************)
EXTENDS RequestStream

Root == <<47>>                 \* "/"
Path == <<47, 97>>             \* "/a"
MCDatas == {<<>>, <<8, 8>>}
\* Acl::open_unsafe-like entry: all permissions, scheme "w", id "a".
OpenAcl == [perms |-> 31, scheme |-> <<119>>, id |-> <<97>>]
MCAcls == {<<>>, <<OpenAcl>>}
MCModes == {0, 1}              \* CreateMode Persistent, Ephemeral
MCVersions == {-1, 3}
MCXids == {1, -2}          \* a negative id, as the manager uses for pings
MCOptVersions == {<<>>, <<3>>}

MCOps == Op({Path}, MCDatas, {<<OpenAcl>>}, MCModes, MCOptVersions)

MCConnects ==
    { [op |-> "connect", protocol_version |-> 0, last_zxid_seen |-> z,
       timeout |-> 5000, session_id |-> s, passwd |-> <<0, 7>>,
       read_only |-> ro] : z \in {0, 300}, s \in {0, -1}, ro \in BOOLEAN }

MCRequests ==
    { [op |-> "create", xid |-> 0, path |-> Path, data |-> d, acl |-> a,
       flags |-> m] : d \in MCDatas, a \in MCAcls, m \in MCModes }
    \cup { [op |-> "delete", xid |-> 0, path |-> Path, version |-> v] : v \in MCVersions }
    \cup { [op |-> o, xid |-> 0, path |-> Path, watch |-> w]
           : o \in {"exists", "getData", "getChildren"}, w \in BOOLEAN }
    \cup { [op |-> "setData", xid |-> 0, path |-> Path, data |-> d, version |-> v]
           : d \in MCDatas, v \in MCVersions }
    \cup { [op |-> "getAcl", xid |-> 0, path |-> Path] }
    \cup { [op |-> "setAcl", xid |-> 0, path |-> Path, acl |-> a, version |-> v]
           : a \in MCAcls, v \in MCVersions }
    \cup { [op |-> "auth", xid |-> 0, typ |-> 0, scheme |-> <<100>>, auth |-> <<1, 2>>] }
    \cup { [op |-> o, xid |-> 0] : o \in {"ping", "closeSession"} }
    \cup { [op |-> "multi", xid |-> 0, ops |-> ops]
           : ops \in UNION { [1..n -> MCOps] : n \in 0..2 } }

=============================================================================
