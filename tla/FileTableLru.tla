---------------------------- MODULE FileTableLru ----------------------------
(* FileTable with a history variable: when each file was really last used. *)
EXTENDS FileTable

VARIABLE used

\* A file is used when a caller gets it from ais_file_table_get_or_open: it
\* was found in the table, or was put there.
UsedNow(o) ==
  \E c \in Callers :
    \/ pc[c] = "lookup" /\ pc'[c] = "stat" /\ f'[c] = o
    \/ pc[c] \in {"insert", "swap"} /\ pc'[c] = "held" /\ f[c] = o

LruInit == Init /\ used = [o \in Objs |-> 0]

LruNext ==
  /\ Next
  /\ used' = [o \in Objs |-> IF UsedNow(o) THEN now ELSE used[o]]

LruSpec == LruInit /\ [][LruNext]_<<vars, used>>

\* The comment of ais_file_table_insert, "Evict the least recently used
\* file": the slot that becomes vacant holds the file of the table whose last
\* use is the earliest.
EvictsLeastRecentlyUsed ==
  [][lock = NoCaller /\ lock' # NoCaller =>
       \A i \in Entries : used[files[slot']] <= used[files[i]]]_<<vars, used>>
=============================================================================
