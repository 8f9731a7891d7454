---------------------------- MODULE FileHandles ----------------------------
(***************************************************************************)
(* What the table of open files promises to the server: a bounded cache of *)
(* open handles. A handle stays open while the cache or a user has it, or  *)
(* a user forgot to give it back, and is closed once nobody has.           *)
(***************************************************************************)
EXTENDS Integers, FiniteSets

CONSTANTS Handles, Clients, Capacity

VARIABLES
  open,     \* handles that are open
  cached,   \* handles the cache keeps
  users,    \* users[h]: clients that have h
  pinned    \* pinned[h]: how often h was never given back

hvars == <<open, cached, users, pinned>>

HInit ==
  /\ open = {}
  /\ cached = {}
  /\ users = [h \in Handles |-> {}]
  /\ pinned = [h \in Handles |-> 0]

Gain(c, h) == c \notin users[h] /\ users' = [users EXCEPT ![h] = @ \cup {c}]
Lose(c, h) == c \in users[h] /\ users' = [users EXCEPT ![h] = @ \ {c}]

\* A client opens a file that it did not find.
Open(c, h) ==
  /\ h \notin open
  /\ open' = open \cup {h}
  /\ Gain(c, h)
  /\ UNCHANGED <<cached, pinned>>

\* It adds the file to the cache while it still has it.
Admit(c, h) ==
  /\ c \in users[h]
  /\ h \notin cached
  /\ Cardinality(cached) < Capacity
  /\ cached' = cached \cup {h}
  /\ UNCHANGED <<open, users, pinned>>

\* The cache makes room.
Evict(h) ==
  /\ h \in cached
  /\ Cardinality(cached) = Capacity
  /\ cached' = cached \ {h}
  /\ UNCHANGED <<open, users, pinned>>

\* A client finds the file in the cache.
Find(c, h) == h \in cached /\ Gain(c, h) /\ UNCHANGED <<open, cached, pinned>>

\* A client gives the handle back.
Release(c, h) == Lose(c, h) /\ UNCHANGED <<open, cached, pinned>>

\* A client forgets the handle without giving it back.
Pin(c, h) ==
  /\ Lose(c, h)
  /\ pinned' = [pinned EXCEPT ![h] = @ + 1]
  /\ UNCHANGED <<open, cached>>

\* Nobody has the handle.
Close(h) ==
  /\ h \in open
  /\ h \notin cached
  /\ users[h] = {}
  /\ pinned[h] = 0
  /\ open' = open \ {h}
  /\ UNCHANGED <<cached, users, pinned>>

HNext ==
  \E h \in Handles :
    \/ Evict(h) \/ Close(h)
    \/ \E c \in Clients : \/ Open(c, h) \/ Admit(c, h) \/ Find(c, h)
                          \/ Release(c, h) \/ Pin(c, h)

HSafe == HInit /\ [][HNext]_hvars

\* Closing is not optional.
HSpec == HSafe /\ \A h \in Handles : WF_hvars(Close(h))
=============================================================================
