------------------------------ MODULE ConnSet ------------------------------
(***************************************************************************)
(* What a worker promises: a bounded set of connections. Each step admits  *)
(* one connection or removes one, a connection whose peer has left does    *)
(* not stay, and the rest go together when the worker is done.             *)
(***************************************************************************)
EXTENDS Integers, FiniteSets

CONSTANTS Conns, Limit

VARIABLES conns, left, up

cvars == <<conns, left, up>>

CInit == conns = {} /\ left = {} /\ up = TRUE

Admit(c) ==
  /\ up
  /\ c \notin conns
  /\ Cardinality(conns) < Limit
  /\ conns' = conns \cup {c}
  /\ UNCHANGED <<left, up>>

Leave(c) == c \in conns /\ left' = left \cup {c} /\ UNCHANGED <<conns, up>>

Remove(c) ==
  /\ up
  /\ c \in conns
  /\ conns' = conns \ {c}
  /\ left' = left \ {c}
  /\ UNCHANGED up

Quit == up' = FALSE /\ UNCHANGED <<conns, left>>

Clear == ~up /\ conns' = {} /\ left' = {} /\ UNCHANGED up

CNext == Quit \/ Clear \/ \E c \in Conns : Admit(c) \/ Leave(c) \/ Remove(c)

CSafe == CInit /\ [][CNext]_cvars

CSpec == CSafe /\ \A c \in Conns : WF_cvars(c \in left /\ Remove(c))
=============================================================================
