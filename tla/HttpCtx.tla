------------------------------ MODULE HttpCtx ------------------------------
(***************************************************************************)
(* The life of a server: main constructs an Httpd, installs the signal     *)
(* handler, ais_http_ctx_init and ais_http_ctx_run start the workers, and  *)
(* ~Httpd stops, joins and frees them. Worker 0 is the main thread. A      *)
(* signal is handled by any thread, which does nothing else meanwhile.     *)
(* The sample program of the library, libaishttpd/main.c, goes another way *)
(* through the same functions: it installs its handler after               *)
(* ais_http_ctx_init, and frees what it has not stopped.                   *)
(*                                                                         *)
(* A worker's loop is what TcpServer models; here it ends once its         *)
(* should_stop is set, or by an error.                                     *)
(***************************************************************************)
EXTENDS Integers, Sequences

CONSTANTS
  N,            \* iarg->nr_workers
  MaxSignals,   \* bound: signals that arrive
  Faults        \* failures that happen: "init", "thread", "die"

ASSUME HttpCtxAssumption == N \in Nat \ {0} /\ MaxSignals \in Nat

Wrks == 0 .. N - 1
Idle == -1

VARIABLES
  program,       \* whose main this is: "httpd" or "sample"
  pc, i,         \* what main does, and the index of its loop
  workers,       \* ctx->workers: "wild", "set", "dangling" or "null"
  srv,           \* wrk->tcp_srv: "zero", "ready" or "freed"
  held,          \* how many of Resources it has
  thread,        \* wrk->thread: "none", "runs", "ended" or "joined"
  should_stop,   \* of each tcp_srv
  g_h,           \* the handler's pointer is set
  handler,       \* index up to which a thread's handler has come, or Idle
  signals,       \* bound
  asked,         \* ghost: a signal was handled while the server was running
  failed         \* ghost: ais_http_ctx_init or a thread's creation failed

ctx   == <<workers, srv, held, thread, should_stop>>
sigs  == <<g_h, handler, signals, asked>>
vars  == <<program, pc, i, ctx, sigs, failed>>

Sample == program = "sample"

Init ==
  /\ program \in {"httpd", "sample"}
  /\ pc = "setup" /\ i = 0
  /\ workers = "wild"
  /\ srv = [k \in Wrks |-> "zero"]
  /\ held = [k \in Wrks |-> 0]
  /\ thread = [k \in Wrks |-> "none"]
  /\ should_stop = [k \in Wrks |-> FALSE]
  /\ g_h = ~Sample
  /\ handler = [k \in Wrks |-> Idle]
  /\ signals = 0
  /\ asked = FALSE /\ failed = FALSE

\* Main is at p, and no handler of its thread runs.
Main(p) == pc = p /\ handler[0] = Idle

-----------------------------------------------------------------------------
(* ais_http_ctx_init                                                       *)

CtxInit ==
  /\ Main("setup")
  /\ workers' = "set"
  /\ pc' = "init" /\ i' = 0
  /\ UNCHANGED <<program, srv, held, thread, should_stop, sigs, failed>>

\* The table is not allocated, or the array of workers is not.
CtxInitFails ==
  /\ "init" \in Faults
  /\ Main("setup")
  /\ workers' \in {"wild", "null"}
  /\ failed' = TRUE
  /\ pc' = IF Sample THEN "done" ELSE "stop"
  /\ UNCHANGED <<program, i, srv, held, thread, should_stop, sigs>>

\* What ais_sock_tcp_srv_init gets, in this order.
Resources == <<"socket", "eventfd", "epoll", "events", "clients">>
Wanted == Resources[held[i] + 1]

\* One of them. The memset before the first also forgets a stop.
WrkInit ==
  /\ Main("init") /\ i < N
  /\ held' = [held EXCEPT ![i] = @ + 1]
  /\ should_stop' = IF held[i] = 0 THEN [should_stop EXCEPT ![i] = FALSE] ELSE should_stop
  /\ IF Wanted = "clients" THEN srv' = [srv EXCEPT ![i] = "ready"] /\ i' = i + 1
     ELSE UNCHANGED <<srv, i>>
  /\ UNCHANGED <<program, pc, workers, thread, sigs, failed>>

\* The labels of its clean-up: how many are given back when one is not to be had.
UndoneShort == IF held[i] = 0 THEN 0 ELSE held[i] - 1
Undone ==
  CASE Wanted = "socket"  -> 0
    [] Wanted = "eventfd" -> 1
    [] Wanted = "epoll"   -> 2
    [] Wanted = "events"  -> 3
    [] Wanted = "clients" -> 4

\* The workers are freed; the exception of start goes through ~Httpd, the
\* sample returns.
WrkInitFails ==
  /\ "init" \in Faults
  /\ Main("init") /\ i < N
  /\ srv' = [k \in Wrks |-> IF k < i THEN "freed" ELSE srv[k]]
  /\ held' = [k \in Wrks |-> IF k < i THEN 0 ELSE IF k = i THEN held[k] - Undone ELSE held[k]]
  /\ workers' = "dangling"
  /\ failed' = TRUE
  /\ pc' = IF Sample THEN "done" ELSE "stop"
  /\ i' = 0
  /\ should_stop' = [k \in Wrks |-> k > i /\ should_stop[k]]
  /\ UNCHANGED <<program, thread, sigs>>

-----------------------------------------------------------------------------
(* ais_http_ctx_run                                                        *)

\* The sample's setup_signal_handler comes first.
Installed == g_h \/ Sample
CtxRun ==
  /\ Main("init") /\ i = N
  /\ g_h' = Installed
  /\ pc' = "create" /\ i' = 1
  /\ UNCHANGED <<program, ctx, handler, signals, asked, failed>>

Create ==
  /\ Main("create") /\ i < N
  /\ thread' = [thread EXCEPT ![i] = "runs"]
  /\ i' = i + 1
  /\ UNCHANGED <<program, pc, workers, srv, held, should_stop, sigs, failed>>

CreateFails ==
  /\ "thread" \in Faults
  /\ Main("create") /\ i < N
  /\ failed' = TRUE
  /\ pc' = "undo"
  /\ UNCHANGED <<program, i, ctx, sigs>>

\* Stop and join the workers before i; worker 0 has no thread to join.
Undo ==
  /\ Main("undo")
  /\ should_stop' = [should_stop EXCEPT ![i - 1] = TRUE]
  /\ pc' = "undo_join" /\ i' = i - 1
  /\ UNCHANGED <<program, workers, srv, held, thread, sigs, failed>>

UndoJoin ==
  /\ Main("undo_join")
  /\ IF i = 0
     THEN pc' = "undefined" /\ UNCHANGED thread
     ELSE thread[i] = "ended" /\ thread' = [thread EXCEPT ![i] = "joined"] /\ pc' = "undo"
  /\ UNCHANGED <<program, i, workers, srv, held, should_stop, sigs, failed>>

RunMain ==
  /\ Main("create") /\ i >= N
  /\ thread' = [thread EXCEPT ![0] = "runs"]
  /\ pc' = "loop"
  /\ UNCHANGED <<program, i, workers, srv, held, should_stop, sigs, failed>>

\* ais_wrk_entry returns; main goes on to ~Httpd, with an exception or without,
\* the sample to ais_http_ctx_free.
AfterRun == IF Sample THEN "free" ELSE "stop"
WrkEnds(k) ==
  /\ thread[k] = "runs" /\ handler[k] = Idle
  /\ should_stop[k] \/ "die" \in Faults
  /\ thread' = [thread EXCEPT ![k] = "ended"]
  /\ IF k = 0 THEN pc' = AfterRun /\ i' = 0 ELSE UNCHANGED <<pc, i>>
  /\ UNCHANGED <<program, workers, srv, held, should_stop, sigs, failed>>

-----------------------------------------------------------------------------
(* ~Httpd: ais_http_ctx_stop and ais_http_ctx_free                         *)

AllButLast == i < N - 1
OneTooMany == i <= N
MoreToStop == i < N

Stop ==
  /\ Main("stop") /\ workers = "set"
  /\ IF MoreToStop
     THEN should_stop' = [should_stop EXCEPT ![i] = TRUE] /\ i' = i + 1 /\ UNCHANGED pc
     ELSE pc' = "free" /\ i' = 0 /\ UNCHANGED should_stop
  /\ UNCHANGED <<program, workers, srv, held, thread, sigs, failed>>

\* The pointer that a failed ais_http_ctx_init left behind, or never set.
StopUndefined ==
  /\ Main("stop") /\ workers \in {"dangling", "wild"}
  /\ pc' = "undefined"
  /\ UNCHANGED <<program, i, ctx, sigs, failed>>

\* Both functions return at once when there are no workers; what was never set
\* may happen to be null.
NothingToFree ==
  /\ Main("stop") /\ workers \in {"null", "wild"}
  /\ pc' = "done"
  /\ UNCHANGED <<program, i, ctx, sigs, failed>>

AnyThread == TRUE
Joinable == i = 0 \/ thread[i] = "ended"

\* Join worker i, but not main itself, and free its server.
FreeWrk ==
  /\ Main("free") /\ i < N
  /\ Joinable
  /\ thread' = IF i = 0 THEN thread ELSE [thread EXCEPT ![i] = "joined"]
  /\ srv' = [srv EXCEPT ![i] = "freed"]
  /\ held' = [held EXCEPT ![i] = 0]
  /\ should_stop' = [should_stop EXCEPT ![i] = FALSE]
  /\ i' = i + 1
  /\ UNCHANGED <<program, pc, workers, sigs, failed>>

FreeWorkers ==
  /\ Main("free") /\ i = N
  /\ workers' = "dangling"
  /\ pc' = "clear"
  /\ UNCHANGED <<program, i, srv, held, thread, should_stop, sigs, failed>>

Clear ==
  /\ Main("clear")
  /\ workers' = "null"
  /\ pc' = "done"
  /\ UNCHANGED <<program, i, srv, held, thread, should_stop, sigs, failed>>

-----------------------------------------------------------------------------
(* handle_signal                                                           *)

Alive(k) == IF k = 0 THEN pc \notin {"done", "undefined"} ELSE thread[k] = "runs"

\* A second signal may come before the first handler, on another thread, has
\* reset g_h.
Signal(k) ==
  /\ signals < MaxSignals
  /\ pc # "undefined"
  /\ Alive(k) /\ handler[k] = Idle
  /\ g_h
  /\ signals' = signals + 1
  /\ handler' = [handler EXCEPT ![k] = 0]
  /\ asked' = (asked \/ pc \in {"create", "loop"})
  /\ UNCHANGED <<program, pc, i, ctx, g_h, failed>>

\* The sample's handler resets its pointer first, the other one at its end.
StillSet == g_h /\ ~Sample

\* ais_http_ctx_stop in the handler: one worker.
HandlerStops(k) ==
  /\ handler[k] \in Wrks
  /\ pc # "undefined"
  /\ workers \in {"wild", "dangling", "set"}
  /\ IF workers = "set"
     THEN should_stop' = [should_stop EXCEPT ![handler[k]] = TRUE] /\ UNCHANGED pc
     ELSE pc' = "undefined" /\ UNCHANGED should_stop
  /\ handler' = [handler EXCEPT ![k] = @ + 1]
  /\ g_h' = StillSet
  /\ UNCHANGED <<program, i, workers, srv, held, thread, signals, asked, failed>>

HandlerDone(k) ==
  /\ handler[k] = N \/ (handler[k] # Idle /\ workers \in {"null", "wild"})
  /\ handler' = [handler EXCEPT ![k] = Idle]
  /\ g_h' = FALSE
  /\ UNCHANGED <<program, pc, i, ctx, signals, asked, failed>>

-----------------------------------------------------------------------------
MainStep ==
  \/ CtxInit \/ WrkInit \/ CtxRun \/ Create \/ RunMain \/ Undo \/ UndoJoin
  \/ Stop \/ StopUndefined \/ NothingToFree \/ FreeWrk \/ FreeWorkers \/ Clear

Handle(k) == HandlerStops(k) \/ HandlerDone(k)

Next ==
  \/ MainStep \/ CtxInitFails \/ WrkInitFails \/ CreateFails
  \/ \E k \in Wrks : WrkEnds(k) \/ Signal(k) \/ Handle(k)

Spec == Init /\ [][Next]_vars

\* Every thread keeps running; a loop that is told to stop ends (the property
\* StopWorks of TcpServer).
FairSpec ==
  /\ Spec
  /\ WF_vars(MainStep)
  /\ \A k \in Wrks : WF_vars(should_stop[k] /\ WrkEnds(k)) /\ WF_vars(Handle(k))

-----------------------------------------------------------------------------
(* Properties.                                                             *)

\* The types of the variables.
TypeOK ==
  /\ program \in {"httpd", "sample"} /\ g_h \in BOOLEAN
  /\ pc \in {"setup", "init", "create", "undo", "undo_join", "loop", "stop", "free",
             "clear", "done", "undefined"}
  /\ i \in 0 .. N
  /\ workers \in {"wild", "set", "dangling", "null"}
  /\ srv \in [Wrks -> {"zero", "ready", "freed"}]
  /\ held \in [Wrks -> 0 .. Len(Resources)]
  /\ thread \in [Wrks -> {"none", "runs", "ended", "joined"}]
  /\ should_stop \in [Wrks -> BOOLEAN]
  /\ handler \in [Wrks -> Idle .. N]
  /\ signals \in 0 .. MaxSignals

\* A worker's server is freed only when its loop has ended, and the array only
\* when no other thread is in its loop or in a handler that walks the array.
FreedAfterUse ==
  /\ \A k \in Wrks : srv[k] = "freed" => thread[k] # "runs"
  /\ workers \in {"dangling", "null"} =>
       \A k \in Wrks \ {0} : thread[k] # "runs" /\ handler[k] = Idle

\* Wherever initialisation fails, and at the end of a server that ran, the array
\* of workers is not given up before everything in it is.
NothingHeld == workers # "set" => \A k \in Wrks : held[k] = 0

\* Main waits only for a worker that will end: it was told to, a handler is on
\* its way to tell it, or it has ended. (So the stop of one worker is not
\* forgotten between the two loops, although a handler and main run them
\* concurrently.) The sample waits for ever if its own worker failed and no
\* signal came.
JoinsStopped ==
  pc = "free" /\ (Sample => asked) =>
    \A k \in i .. N - 1 :
      \/ should_stop[k] \/ thread[k] = "ended"
      \/ Sample /\ \E h \in Wrks : handler[h] \in 0 .. k

=============================================================================
