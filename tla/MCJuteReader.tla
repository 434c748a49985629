---------------------------- MODULE MCJuteReader ----------------------------
(***************************************************************************)
(* Model checking the reply decoders against every reply a server can send *)
(* built from the values below, and every strict prefix of one.           *)
(***************************************************************************)
EXTENDS JuteReader, JuteServer

\* 300 has two non-zero bytes (byte order), -1 is all ones (sign).
MCIntVals  == {-1, 300}
MCPermVals == {31}
MCBufVals  == {<<>>, <<1, 2>>}
\* "/a"; an invalid UTF-8 byte (0xFF) is added where a run is about it.
MCStrVals    == {<<>>, <<47, 97>>}
MCBadStrVals == {<<47, 97>>, <<255>>}
MCStatVals == { [i \in 1..11 |-> -1], [i \in 1..11 |-> i] }
MCServerErrs == {-101}

\* The reply types whose decoders are expected to agree with spec.md.
Agreeing == ResponseNames \ {"TransactionResponse"}

FramesOf(names) == UNION { Replies(n) \cup Truncations(n) : n \in names }

MCInputs       == FramesOf(Agreeing)
MCTxnInputs    == FramesOf({"TransactionResponse"})
MCStringInputs == FramesOf({"CreateResponse", "WatchedEvent"})
MCListInputs   == FramesOf({"GetChildrenResponse", "GetAclResponse"})
MCMalformedInputs == MCStringInputs \cup MCListInputs

=============================================================================
