--------------------------- MODULE FileTableImpl ---------------------------
(* FileTable implements FileHandles: reference counts, mutex and array are *)
(* the means, a cache of handles that closes what nobody has is the end.   *)
EXTENDS FileTable

\* A caller about to free a file no longer has it; a file opened but not yet
\* in the table belongs to its caller alone.
Handles == INSTANCE FileHandles WITH
  Handles <- Objs, Clients <- Callers, Capacity <- Cap,
  open    <- alive,
  cached  <- {o \in Objs : SlotsOf(o) # {}},
  users   <- [o \in Objs |-> Users(o)],
  pinned  <- lost

\* Every step of the table is a step of the cache or invisible to it.
ImplementsHandles == Handles!HSafe

\* ... and what nobody has is closed in the end.
ImplementsHandlesLive == Handles!HSpec
=============================================================================
