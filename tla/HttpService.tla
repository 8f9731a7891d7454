----------------------------- MODULE HttpService -----------------------------
(***************************************************************************)
(* What a connection promises to its peer when nothing fails: requests are *)
(* answered whole and one after another, and a request that asks to close  *)
(* is the last. The connection is closed then, and not before. To a peer   *)
(* that sends a request before the response to the one before is there,    *)
(* less is promised: that it is answered in order or loses the connection. *)
(***************************************************************************)
EXTENDS Integers, Sequences

VARIABLES
  keeps,      \* keeps[i]: request i asks to keep the connection
  received,   \* requests received whole
  answered,   \* responses sent whole
  waits,      \* the peer has always waited
  open

svars == <<keeps, received, answered, waits, open>>

SInit ==
  /\ keeps \in Seq(BOOLEAN)
  /\ received = 0 /\ answered = 0
  /\ waits = TRUE /\ open = TRUE

\* The peer has its last answer.
Over == answered > 0 /\ ~keeps[answered]

Receive ==
  /\ open
  /\ received < Len(keeps)
  /\ received' = received + 1
  /\ waits => received = answered
  /\ UNCHANGED <<keeps, answered, waits, open>>

ReceiveMore ==
  /\ open /\ ~waits
  /\ received' \in received + 1 .. Len(keeps)
  /\ UNCHANGED <<keeps, answered, waits, open>>

Pipeline == waits' = FALSE /\ UNCHANGED <<keeps, received, answered, open>>

Answer ==
  /\ open
  /\ ~(waits /\ Over)
  /\ answered' \in answered + 1 .. received
  /\ UNCHANGED <<keeps, received, waits, open>>

Close ==
  /\ open
  /\ waits /\ Over
  /\ open' = FALSE
  /\ UNCHANGED <<keeps, received, answered, waits>>

Lose ==
  /\ open /\ ~waits
  /\ open' = FALSE
  /\ received' \in received .. Len(keeps)
  /\ UNCHANGED <<keeps, answered, waits>>

SNext == Receive \/ ReceiveMore \/ Pipeline \/ Answer \/ Close \/ Lose

SSafe == SInit /\ [][SNext]_svars

\* What was received is answered, and what is over is closed.
SSpec == SSafe /\ WF_svars(Answer) /\ WF_svars(Close)
=============================================================================
