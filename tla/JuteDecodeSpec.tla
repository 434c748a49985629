--------------------------- MODULE JuteDecodeSpec ---------------------------
(***************************************************************************)
(* The abstract specification of a reply decoder: handed one frame body    *)
(* and the response type the caller expects, it returns in one step       *)
(* exactly what the reference decoder of spec.md returns: the decoded      *)
(* fields, or an error value (never a crash; spec.md section 7).           *)
(***************************************************************************)
EXTENDS JuteSpec

\* input: the frame handed to the decoder, [name, bytes, toks, whole], and
\* the response type it is decoded as; it is the caller's and never changes.
VARIABLES input, result

Pending == [st |-> "pending", toks |-> <<>>]

Outcome(in) == LET r == Dec(SpecSchema[in.name], in.bytes)
               IN  [st |-> r.st, toks |-> r.toks]

Init == input.name \in ResponseNames /\ result = Pending

Decode == /\ result = Pending
          /\ result' = Outcome(input)
          /\ UNCHANGED input

SafeSpec == Init /\ [][Decode]_<<input, result>>

=============================================================================
