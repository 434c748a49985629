----------------------------- MODULE SessionSpec -----------------------------
(***************************************************************************)
(* What session establishment promises the client, whatever the frames and *)
(* the losses in between: the client holds no session, then one the server *)
(* issued, keeps that one across reconnects, and gives it up only by       *)
(* learning that it expired, which it may only be told once the server no  *)
(* longer holds it.  An expired client stays expired.                      *)
(*                                                                         *)
(* session is NoSession (0), an issued id, or Expired (-1).                *)
(***************************************************************************)
EXTENDS Integers

CONSTANT SessionIds

ASSUME SessionIds \subseteq 1..(2^30)

NoSession == 0
Expired   == -1

VARIABLES
    session, \* the session the client holds
    issued,  \* ids the server has handed out
    live     \* ids the server still holds

svars == <<session, issued, live>>

Init == session = NoSession /\ issued = {} /\ live = {}

\* The server opens a session with a fresh id.
Issue == \E s \in SessionIds \ issued :
            /\ issued' = issued \cup {s}
            /\ live' = live \cup {s}
            /\ UNCHANGED session

\* A client without a session takes one the server issued.
Adopt == /\ session = NoSession
         /\ \E s \in issued : session' = s
         /\ UNCHANGED <<issued, live>>

\* The server drops a session.
Drop == \E s \in live : live' = live \ {s} /\ UNCHANGED <<session, issued>>

\* The client learns that its session is gone.
Expire == /\ session \in issued
          /\ session \notin live
          /\ session' = Expired
          /\ UNCHANGED <<issued, live>>

Next == Issue \/ Adopt \/ Drop \/ Expire

Spec == Init /\ [][Next]_svars

=============================================================================
