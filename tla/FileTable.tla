----------------------------- MODULE FileTable -----------------------------
(***************************************************************************)
(* The table of open files shared by every worker thread                   *)
(* (libaishttpd/file.c): a fixed array of pointers to reference counted    *)
(* files, protected by a mutex, with an LRU-like eviction once it is full. *)
(*                                                                         *)
(* A caller is one request being served by some worker: it looks a path up *)
(* or opens it (ais_file_table_get_or_open), holds the reference while it  *)
(* is the body of a response, and gives it back (ais_file_put) or forgets  *)
(* it (ais_http_res_free of http.c clears a file body without a put).      *)
(*                                                                         *)
(* One step is one critical section of tb->lock, one atomic operation on a *)
(* reference count, or thread-local work; the eviction's critical section  *)
(* is split at the put and at the free it may run.                         *)
(***************************************************************************)
EXTENDS Integers, FiniteSets

CONSTANTS
  Callers,      \* requests in service, of any worker
  Objs,         \* addresses malloc can return for a struct ais_file
  Paths,        \* file names that are asked for
  Cap,          \* tb->cap: slots of the table (256 in http.c)
  MaxTime,      \* bound: time(NULL) runs from 0 to MaxTime
  MaxLost,      \* bound: once a file was forgotten so often, none is any more
  NoObj,        \* NULL in tb->files
  NoPath,       \* path of an object that was never opened
  NoCaller      \* owner of a free mutex

ASSUME FileTableAssumption ==
  /\ IsFiniteSet(Callers)
  /\ Cap \in Nat \ {0}
  /\ MaxTime \in Nat
  /\ MaxLost \in Nat
  /\ NoPath \notin Paths
  /\ NoObj \notin Objs
  /\ NoCaller \notin Callers

VARIABLES
  files,        \* tb->files
  len,          \* tb->len
  lock,         \* owner of tb->lock between steps
  slot,         \* evict_idx of the owner of tb->lock
  alive,        \* heap: the struct ais_file that are allocated
  path,         \* f->path
  refcnt,       \* f->refcnt
  last_used,    \* f->last_used
  lost,         \* ghost: references to f that were forgotten
  now,          \* time(NULL)
  pc, arg, f    \* of each caller: next step, path asked for, file

table   == <<files, len, lock, slot>>
heap    == <<alive, path, refcnt, last_used>>
callers == <<pc, arg, f>>
vars    == <<table, heap, lost, now, callers>>

Slots == 0 .. Cap - 1
Times == 0 .. MaxTime

Init ==
  /\ files = [i \in Slots |-> NoObj]
  /\ len = 0
  /\ lock = NoCaller
  /\ slot = 0
  /\ alive = {}
  /\ path = [o \in Objs |-> NoPath]
  /\ refcnt = [o \in Objs |-> 0]
  /\ last_used = [o \in Objs |-> 0]
  /\ lost = [o \in Objs |-> 0]
  /\ now = 0
  /\ pc = [c \in Callers |-> "idle"]
  /\ arg = [c \in Callers |-> NoPath]
  /\ f = [c \in Callers |-> NoObj]

-----------------------------------------------------------------------------
(* What the code reads.                                                    *)

Entries == 0 .. len - 1

\* The loop of ais_file_table_get_path stops at i for path p.
FirstMatch(i, p) ==
  /\ path[files[i]] = p
  /\ \A j \in 0 .. i - 1 : path[files[j]] # p

\* The loop of ais_file_table_insert leaves i in evict_idx.
Oldest(i) ==
  /\ \A j \in Entries : last_used[files[i]] <= last_used[files[j]]
  /\ \A j \in 0 .. i - 1 : last_used[files[i]] < last_used[files[j]]

\* It finds p.
InTableButLast(p) == \E i \in 0 .. len - 2 : path[files[i]] = p
InTable(p) == \E i \in Entries : path[files[i]] = p

\* There is still space in the table.
HasSpaceInclusive == len <= Cap
HasSpace == len < Cap

\* The counter of a new file: one for the caller, one for the table.
CallerOnly == 1
FirstRefs == 2

\* The reference that a file which was found gets for its caller.
GetNothing(o) == UNCHANGED refcnt
Get(o) == refcnt' = [refcnt EXCEPT ![o] = @ + 1]

\* atomic_fetch_sub returns the value before the decrement.
WasLastOfTwo(o) == refcnt[o] <= 2
ReadsZero(o) == refcnt[o] = 0
WasLast(o) == refcnt[o] = 1

Goto(c, to) == pc' = [pc EXCEPT ![c] = to]

-----------------------------------------------------------------------------
(* ais_file_table_get_or_open                                              *)

\* A request asks for a path.
Call(c, p) ==
  /\ pc[c] = "idle"
  /\ Goto(c, "lookup")
  /\ arg' = [arg EXCEPT ![c] = p]
  /\ UNCHANGED <<table, heap, lost, now, f>>

\* ais_file_table_get_path finds the path: ais_file_get under the lock.
LookupHit(c) ==
  /\ pc[c] = "lookup"
  /\ lock = NoCaller
  /\ \E i \in Entries :
       LET o == files[i] IN
       /\ FirstMatch(i, arg[c])
       /\ Get(o)
       /\ last_used' = [last_used EXCEPT ![o] = now]
       /\ f' = [f EXCEPT ![c] = o]
  /\ Goto(c, "stat")
  /\ UNCHANGED <<table, alive, path, lost, now, arg>>

\* ais_file_table_get_path returns -ENOENT.
LookupMiss(c) ==
  /\ pc[c] = "lookup"
  /\ lock = NoCaller
  /\ ~InTable(arg[c])
  /\ Goto(c, "open")
  /\ UNCHANGED <<table, heap, lost, now, arg, f>>

\* fstat of the file that was found; a failure gives the reference back.
Stat(c) ==
  /\ pc[c] = "stat"
  /\ \E next \in {"held", "put"} : Goto(c, next)
  /\ UNCHANGED <<table, heap, lost, now, arg, f>>

\* malloc, open, fstat and strdup of a file that was not found. malloc does
\* not clear last_used, and nothing sets it before the insertion.
OpenOk(c) ==
  /\ pc[c] = "open"
  /\ \E o \in Objs \ alive, garbage \in Times :
       /\ alive' = alive \cup {o}
       /\ path' = [path EXCEPT ![o] = arg[c]]
       /\ refcnt' = [refcnt EXCEPT ![o] = FirstRefs]
       /\ last_used' = [last_used EXCEPT ![o] = garbage]
       /\ f' = [f EXCEPT ![c] = o]
  /\ Goto(c, "insert")
  /\ UNCHANGED <<table, lost, now, arg>>

\* One of them fails: the error paths undo the others.
OpenFail(c) ==
  /\ pc[c] = "open"
  /\ Goto(c, "idle")
  /\ UNCHANGED <<table, heap, lost, now, arg, f>>

-----------------------------------------------------------------------------
(* ais_file_table_insert                                                   *)

\* There is still space in the table.
InsertAppend(c) ==
  /\ pc[c] = "insert"
  /\ lock = NoCaller
  /\ HasSpace
  /\ files' = [files EXCEPT ![len] = f[c]]
  /\ len' = len + 1
  /\ last_used' = [last_used EXCEPT ![f[c]] = now]
  /\ Goto(c, "held")
  /\ UNCHANGED <<lock, slot, alive, path, refcnt, lost, now, arg, f>>

\* The table is full: choose a victim and drop the table's reference to it.
InsertEvict(c) ==
  /\ pc[c] = "insert"
  /\ lock = NoCaller
  /\ ~HasSpace
  /\ lock' = c
  /\ \E i \in Entries :
       LET victim == files[i] IN
       /\ Oldest(i)
       /\ slot' = i
       /\ refcnt' = [refcnt EXCEPT ![victim] = @ - 1]
       /\ Goto(c, IF WasLast(victim) THEN "evfree" ELSE "swap")
  /\ UNCHANGED <<files, len, alive, path, last_used, lost, now, arg, f>>

\* The table's reference was the last one: ais_file_put closes and frees.
EvictFree(c) ==
  /\ pc[c] = "evfree"
  /\ alive' = alive \ {files[slot]}
  /\ Goto(c, "swap")
  /\ UNCHANGED <<table, path, refcnt, last_used, lost, now, arg, f>>

\* tb->files[evict_idx] = f, which leaves f->last_used alone, and unlock.
InsertSwap(c) ==
  /\ pc[c] = "swap"
  /\ files' = [files EXCEPT ![slot] = f[c]]
  /\ lock' = NoCaller
  /\ Goto(c, "held")
  /\ UNCHANGED <<len, slot, heap, lost, now, arg, f>>

-----------------------------------------------------------------------------
(* The end of a reference, and time.                                       *)

\* The atomic decrement of ais_file_put.
Put(c) ==
  /\ pc[c] \in {"held", "put"}
  /\ refcnt' = [refcnt EXCEPT ![f[c]] = @ - 1]
  /\ Goto(c, IF WasLast(f[c]) THEN "free" ELSE "idle")
  /\ UNCHANGED <<table, alive, path, last_used, lost, now, arg, f>>

\* It was the last reference: close(f->fd), free(f).
PutFree(c) ==
  /\ pc[c] = "free"
  /\ alive' = alive \ {f[c]}
  /\ Goto(c, "idle")
  /\ UNCHANGED <<table, path, refcnt, last_used, lost, now, arg, f>>

\* ais_http_res_free clears a body of type FILE and never puts it.
Forget(c) ==
  /\ pc[c] = "held"
  /\ \A o \in Objs : lost[o] < MaxLost
  /\ lost' = [lost EXCEPT ![f[c]] = @ + 1]
  /\ Goto(c, "idle")
  /\ UNCHANGED <<table, heap, now, arg, f>>

Tick ==
  /\ now < MaxTime
  /\ now' = now + 1
  /\ UNCHANGED <<table, heap, lost, callers>>

-----------------------------------------------------------------------------
Step(c) ==
  \/ LookupHit(c) \/ LookupMiss(c) \/ Stat(c) \/ OpenOk(c) \/ OpenFail(c)
  \/ InsertAppend(c) \/ InsertEvict(c) \/ EvictFree(c) \/ InsertSwap(c)
  \/ Put(c) \/ PutFree(c) \/ Forget(c)

Next ==
  \/ \E c \in Callers : Step(c) \/ \E p \in Paths : Call(c, p)
  \/ Tick

Spec == Init /\ [][Next]_vars

\* A worker that is past an atomic decrement or inside the critical section
\* keeps running; nothing is assumed of who gets the mutex, of how long a
\* response takes or of whether it is put.
Fairness ==
  \A c \in Callers : WF_vars(EvictFree(c) \/ InsertSwap(c) \/ PutFree(c))

FairSpec == Spec /\ Fairness

-----------------------------------------------------------------------------
(* Who owns a reference to o.                                              *)

Held == {"stat", "insert", "evfree", "swap", "held", "put"}

\* Callers that may use o.
Users(o) == {c \in Callers : pc[c] \in Held /\ f[c] = o}

\* Callers that hold the table's reference to o until it is in the table.
Inserters(o) == {c \in Callers : pc[c] \in {"insert", "evfree", "swap"} /\ f[c] = o}

\* The slot whose victim has been put and that is not overwritten yet.
Vacant(i) == lock # NoCaller /\ i = slot

\* Slots that own a reference to o.
SlotsOf(o) == {i \in Entries : files[i] = o /\ ~Vacant(i)}

\* Callers about to close and free o.
Freers(o) ==
  {c \in Callers : \/ pc[c] = "free" /\ f[c] = o
                   \/ pc[c] = "evfree" /\ files[slot] = o}

-----------------------------------------------------------------------------
(* Properties.                                                             *)

PCs == {"idle", "lookup", "stat", "open", "insert", "evfree", "swap", "held",
        "put", "free"}

\* The types of the variables.
TypeOK ==
  /\ files \in [Slots -> Objs \cup {NoObj}]
  /\ len \in 0 .. Cap
  /\ lock \in Callers \cup {NoCaller}
  /\ slot \in Slots
  /\ alive \subseteq Objs
  /\ path \in [Objs -> Paths \cup {NoPath}]
  /\ refcnt \in [Objs -> Int]
  /\ last_used \in [Objs -> Times]
  /\ lost \in [Objs -> Nat]
  /\ now \in Times
  /\ pc \in [Callers -> PCs]
  /\ arg \in [Callers -> Paths \cup {NoPath}]
  /\ f \in [Callers -> Objs \cup {NoObj}]

\* A reference count is at every step the number of its owners: the callers
\* that may use the file, the table or the caller about to put it there, and
\* the responses that forgot it.
RefcntExact ==
  \A o \in Objs :
    refcnt[o] = Cardinality(Users(o)) + Cardinality(Inserters(o))
                  + Cardinality(SlotsOf(o)) + lost[o]

\* No pointer that will be followed is dangling: what a caller holds, what
\* the table lists outside the eviction, and what a caller is about to free
\* is allocated.
NoDangling ==
  /\ \A c \in Callers : pc[c] \in Held \cup {"free"} => f[c] \in alive
  /\ \A i \in Entries : ~Vacant(i) => files[i] \in alive
  /\ \A c \in Callers : pc[c] = "evfree" => files[slot] \in alive

\* close and free run at most once per file, and only when nobody owns it.
FreedOnce ==
  \A o \in Objs : Freers(o) # {} => refcnt[o] = 0 /\ Cardinality(Freers(o)) = 1

\* Nothing leaks inside the table: an allocated file has an owner, or a caller
\* that is about to free it.
NeverLeaked == \A o \in alive : refcnt[o] > 0 \/ Freers(o) # {}

\* The miss and the insertion are separate critical sections, so a path can
\* be in the table more than once; but never more often than callers can have
\* missed it together.
OpenersOf(p) == {c \in Callers : pc[c] \in {"open", "insert", "evfree", "swap"} /\ arg[c] = p}
CopiesOf(p)  == {i \in Entries : ~Vacant(i) /\ path[files[i]] = p}
CopiesBounded ==
  \A p \in Paths :
    Cardinality(CopiesOf(p)) + Cardinality(OpenersOf(p)) <= Cardinality(Callers)

\* What the comment "one for caller, one for table" promises of a file in the
\* table that no caller uses: the table's reference is the only one.
TableOwnsOne ==
  \A o \in Objs : SlotsOf(o) # {} /\ Users(o) = {} => refcnt[o] = 1

=============================================================================
