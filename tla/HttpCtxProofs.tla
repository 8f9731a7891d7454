---------------------------- MODULE HttpCtxProofs ----------------------------
(* Theorems about HttpCtx, for both programs, any number of workers and of *)
(* signals, and any failures.                                              *)
EXTENDS HttpCtx, TLAPS

\* Where ctx->workers is a pointer that may be followed, and the loops' index.
Set ==
  /\ pc = "setup" => workers = "wild"
  /\ pc \in {"init", "create", "undo", "undo_join", "loop", "free"} => workers = "set"
  /\ pc = "clear" => workers # "set"
  /\ Sample => pc # "stop"
  /\ pc \in {"create", "undo"} => i >= 1

\* Which threads run, and that only they, and main, handle signals.
Threads ==
  /\ thread[0] = "runs" => pc = "loop"
  /\ pc \in {"setup", "init"} \/ workers # "set" => \A k \in Wrks : thread[k] # "runs"
  /\ pc = "free" => \A k \in Wrks : k < i => thread[k] # "runs"
  /\ \A k \in Wrks \ {0} : handler[k] # Idle => thread[k] = "runs"

\* What initialisation has got so far, and what is still to be freed.
Servers ==
  /\ pc = "setup" => \A k \in Wrks : held[k] = 0 /\ srv[k] # "freed"
  /\ pc = "init" => \A k \in Wrks : k >= i => held[k] = 0 \/ (k = i /\ held[k] < Len(Resources))
  /\ pc = "free" => \A k \in Wrks : k < i => held[k] = 0
  /\ \A k \in Wrks : srv[k] = "freed" => workers # "set" \/ (pc = "free" /\ k < i)

\* Worker k has been told to stop, or a handler is on its way to it.
Told(k) == should_stop[k] \/ \E h \in Wrks : handler[h] \in 0 .. k

\* Who has been told when main comes to the joins: by the loop of ~Httpd, and
\* after a signal by a handler.
Stops ==
  /\ pc = "stop" /\ workers = "set" => \A k \in Wrks : k < i => should_stop[k]
  /\ pc = "free" /\ ~Sample => \A k \in Wrks : k >= i => should_stop[k]
  /\ asked => pc \notin {"setup", "init"}
  /\ asked /\ pc \in {"create", "loop"} => \A k \in Wrks : Told(k)
  /\ asked /\ pc = "free" => \A k \in Wrks : k >= i => Told(k)

\* The inductive invariant: who runs follows from where main is, and what may be
\* freed from who runs; who has been told is kept from the signal to the joins.
IInv == TypeOK /\ Set /\ Threads /\ Servers /\ Stops /\ NothingHeld

-----------------------------------------------------------------------------
(* The steps, by the part of main's way that they belong to.               *)

Starting == CtxInit \/ CtxInitFails \/ WrkInit \/ WrkInitFails \/ CtxRun
Creating == Create \/ CreateFails \/ Undo \/ UndoJoin \/ RunMain
Ending   == Stop \/ StopUndefined \/ NothingToFree \/ FreeWrk \/ FreeWorkers \/ Clear
Signals  == \E k \in Wrks : Signal(k) \/ Handle(k)
Dies     == \E k \in Wrks : WrkEnds(k)

LEMMA ByPart == [Next]_vars => Starting \/ Creating \/ Ending \/ Signals \/ Dies \/ UNCHANGED vars
BY DEF Next, MainStep, Starting, Creating, Ending, Signals, Dies

\* What a handler on its way to worker b has before it.
LEMMA NextUpTo ==
  ASSUME NEW a \in Int, NEW b \in Int, a >= 0, a <= b, a # b PROVE a + 1 \in 0 .. b
OBVIOUS

LEMMA IInvInit == Init => IInv
<1> USE HttpCtxAssumption DEF Init, Wrks, Idle
<1>1. Init => TypeOK
  BY DEF TypeOK, Sample, Resources
<1>2. Init => Set /\ Threads /\ Servers /\ NothingHeld
  BY DEF Set, Threads, Servers, NothingHeld, Sample
<1>3. Init => Stops
  BY DEF Stops
<1> QED
  BY <1>1, <1>2, <1>3 DEF IInv

LEMMA TypeStep ==
  ASSUME IInv, [Next]_vars PROVE TypeOK'
<1> USE HttpCtxAssumption DEF IInv, TypeOK, Set, Servers, Main, Wrks, Idle, Resources
<1>1. CASE Starting
  <2>1. CASE CtxInit
    BY <2>1 DEF CtxInit, ctx, sigs
  <2>2. CASE CtxInitFails
    BY <2>2 DEF CtxInitFails, ctx, sigs
  <2>3. CASE WrkInit
    <3>1. /\ i \in Wrks /\ pc' = pc /\ held' = [held EXCEPT ![i] = @ + 1] /\ held[i] \in 0 .. 4
          /\ UNCHANGED <<program, workers, thread, sigs>>
      BY <2>3 DEF WrkInit
    <3>2. should_stop' \in [Wrks -> BOOLEAN]
      BY <2>3, <3>1 DEF WrkInit
    <3>3. i' \in 0 .. N /\ srv' \in [Wrks -> {"zero", "ready", "freed"}]
      BY <2>3, <3>1 DEF WrkInit
    <3>4. held' \in [Wrks -> 0 .. Len(Resources)]
      BY <3>1
    <3> QED
      BY <3>1, <3>2, <3>3, <3>4 DEF sigs
  <2>4. CASE WrkInitFails
    <3>1. i \in Wrks /\ held[i] \in 0 .. 4
      BY <2>4 DEF WrkInitFails, Servers
    <3>2. held[i] - Undone \in 0 .. 5
      BY <3>1 DEF Wanted, Undone
    <3>3. held' \in [Wrks -> 0 .. Len(Resources)]
      BY <2>4, <3>2 DEF WrkInitFails
    <3>4. srv' \in [Wrks -> {"zero", "ready", "freed"}] /\ should_stop' \in [Wrks -> BOOLEAN]
      BY <2>4 DEF WrkInitFails
    <3>5. i' \in 0 .. N /\ workers' = "dangling" /\ pc' \in {"done", "stop"}
      BY <2>4 DEF WrkInitFails
    <3>6. UNCHANGED <<program, thread, sigs>>
      BY <2>4 DEF WrkInitFails
    <3> QED
      BY <3>3, <3>4, <3>5, <3>6 DEF sigs
  <2>5. CASE CtxRun
    <3>1. g_h' \in BOOLEAN
      BY <2>5, Zenon DEF CtxRun, Installed
    <3> QED
      BY <2>5, <3>1 DEF CtxRun, ctx
  <2> QED
    BY <1>1, <2>1, <2>2, <2>3, <2>4, <2>5 DEF Starting
<1>2. CASE Creating
  <2>1. CASE Create
    BY <2>1 DEF Create, ctx, sigs
  <2>2. CASE CreateFails
    BY <2>2 DEF CreateFails, ctx, sigs
  <2>3. CASE Undo
    BY <2>3 DEF Undo, ctx, sigs
  <2>4. CASE UndoJoin
    BY <2>4 DEF UndoJoin, ctx, sigs
  <2>5. CASE RunMain
    BY <2>5 DEF RunMain, ctx, sigs
  <2> QED
    BY <1>2, <2>1, <2>2, <2>3, <2>4, <2>5 DEF Creating
<1>3. CASE Ending
  <2>1. CASE Stop
    <3>1. UNCHANGED <<program, workers, srv, held, thread, sigs>> /\ pc' \in {"stop", "free"}
      BY <2>1 DEF Stop
    <3>2. i' \in 0 .. N
      BY <2>1 DEF Stop, MoreToStop
    <3>3. should_stop' = should_stop \/ should_stop' = [should_stop EXCEPT ![i] = TRUE]
      BY <2>1 DEF Stop
    <3>4. should_stop' \in [Wrks -> BOOLEAN]
      BY <3>3
    <3> QED
      BY <3>1, <3>2, <3>4 DEF sigs
  <2>2. CASE StopUndefined
    BY <2>2 DEF StopUndefined, ctx, sigs
  <2>3. CASE NothingToFree
    BY <2>3 DEF NothingToFree, ctx, sigs
  <2>4. CASE FreeWrk
    BY <2>4 DEF FreeWrk, Joinable, ctx, sigs
  <2>5. CASE FreeWorkers
    BY <2>5 DEF FreeWorkers, ctx, sigs
  <2>6. CASE Clear
    BY <2>6 DEF Clear, ctx, sigs
  <2> QED
    BY <1>3, <2>1, <2>2, <2>3, <2>4, <2>5, <2>6 DEF Ending
<1>4. ASSUME NEW k \in Wrks, Signal(k) PROVE TypeOK'
  BY <1>4 DEF Signal, Alive, ctx
<1>5. ASSUME NEW k \in Wrks, HandlerStops(k) PROVE TypeOK'
  <2>1. g_h' \in BOOLEAN
    BY <1>5, Zenon DEF HandlerStops, StillSet
  <2>2. should_stop' \in [Wrks -> BOOLEAN]
    BY <1>5 DEF HandlerStops
  <2>3. handler' \in [Wrks -> -1 .. N]
    BY <1>5 DEF HandlerStops
  <2> QED
    BY <1>5, <2>1, <2>2, <2>3 DEF HandlerStops
<1>6. ASSUME NEW k \in Wrks, HandlerDone(k) PROVE TypeOK'
  <2>1. g_h' \in BOOLEAN
    BY <1>6, Zenon DEF HandlerDone
  <2>2. handler' \in [Wrks -> -1 .. N]
    BY <1>6 DEF HandlerDone
  <2> QED
    BY <1>6, <2>1, <2>2 DEF HandlerDone, ctx
<1>7. ASSUME NEW k \in Wrks, WrkEnds(k) PROVE TypeOK'
  BY <1>7 DEF WrkEnds, AfterRun, sigs
<1>8. CASE UNCHANGED vars
  BY <1>8 DEF vars, ctx, sigs
<1> QED
  BY <1>1, <1>2, <1>3, <1>4, <1>5, <1>6, <1>7, <1>8, ByPart DEF Signals, Dies, Handle

LEMMA SetStep ==
  ASSUME IInv, [Next]_vars PROVE Set'
<1> USE HttpCtxAssumption DEF IInv, TypeOK, Set, Threads, Main, Sample, Wrks
<1>1. CASE Starting
  <2>1. CASE CtxInit
    BY <2>1 DEF CtxInit, ctx, sigs
  <2>2. CASE CtxInitFails
    BY <2>2 DEF CtxInitFails, ctx, sigs
  <2>3. CASE WrkInit
    BY <2>3 DEF WrkInit, Wanted, ctx, sigs
  <2>4. CASE WrkInitFails
    BY <2>4 DEF WrkInitFails, Wanted, Undone, ctx, sigs
  <2>5. CASE CtxRun
    BY <2>5 DEF CtxRun, ctx, sigs
  <2> QED
    BY <1>1, <2>1, <2>2, <2>3, <2>4, <2>5 DEF Starting
<1>2. CASE Creating
  <2>1. CASE Create
    BY <2>1 DEF Create, ctx, sigs
  <2>2. CASE CreateFails
    BY <2>2 DEF CreateFails, ctx, sigs
  <2>3. CASE Undo
    BY <2>3 DEF Undo, ctx, sigs
  <2>4. CASE UndoJoin
    BY <2>4 DEF UndoJoin, ctx, sigs
  <2>5. CASE RunMain
    BY <2>5 DEF RunMain, ctx, sigs
  <2> QED
    BY <1>2, <2>1, <2>2, <2>3, <2>4, <2>5 DEF Creating
<1>3. CASE Ending
  <2>1. CASE Stop
    BY <2>1 DEF Stop, MoreToStop, ctx, sigs
  <2>2. CASE StopUndefined
    BY <2>2 DEF StopUndefined, ctx, sigs
  <2>3. CASE NothingToFree
    BY <2>3 DEF NothingToFree, ctx, sigs
  <2>4. CASE FreeWrk
    BY <2>4 DEF FreeWrk, Joinable, ctx, sigs
  <2>5. CASE FreeWorkers
    BY <2>5 DEF FreeWorkers, ctx, sigs
  <2>6. CASE Clear
    BY <2>6 DEF Clear, ctx, sigs
  <2> QED
    BY <1>3, <2>1, <2>2, <2>3, <2>4, <2>5, <2>6 DEF Ending
<1>4. ASSUME NEW k \in Wrks, Signal(k) PROVE Set'
  BY <1>4 DEF Signal, Alive, ctx
<1>5. ASSUME NEW k \in Wrks, HandlerStops(k) PROVE Set'
  BY <1>5 DEF HandlerStops, ctx
<1>6. ASSUME NEW k \in Wrks, HandlerDone(k) PROVE Set'
  BY <1>6 DEF HandlerDone, ctx
<1>7. ASSUME NEW k \in Wrks, WrkEnds(k) PROVE Set'
  BY <1>7 DEF WrkEnds, AfterRun, sigs
<1>8. CASE UNCHANGED vars
  BY <1>8 DEF vars, ctx, sigs
<1> QED
  BY <1>1, <1>2, <1>3, <1>4, <1>5, <1>6, <1>7, <1>8, ByPart DEF Signals, Dies, Handle

LEMMA ThreadsStep ==
  ASSUME IInv, [Next]_vars PROVE Threads'
<1> USE HttpCtxAssumption DEF IInv, TypeOK, Set, Threads, Main, Wrks, Idle
<1>1. CASE Starting
  <2>1. CASE CtxInit
    BY <2>1 DEF CtxInit, ctx, sigs
  <2>2. CASE CtxInitFails
    BY <2>2 DEF CtxInitFails, ctx, sigs
  <2>3. CASE WrkInit
    BY <2>3 DEF WrkInit, Wanted, ctx, sigs
  <2>4. CASE WrkInitFails
    BY <2>4 DEF WrkInitFails, Wanted, Undone, ctx, sigs
  <2>5. CASE CtxRun
    BY <2>5 DEF CtxRun, ctx, sigs
  <2> QED
    BY <1>1, <2>1, <2>2, <2>3, <2>4, <2>5 DEF Starting
<1>2. CASE Creating
  <2>1. CASE Create
    BY <2>1 DEF Create, ctx, sigs
  <2>2. CASE CreateFails
    BY <2>2 DEF CreateFails, ctx, sigs
  <2>3. CASE Undo
    BY <2>3 DEF Undo, ctx, sigs
  <2>4. CASE UndoJoin
    <3>1. /\ workers = "set" /\ UNCHANGED <<i, workers, handler>> /\ pc' \in {"undo", "undefined"}
          /\ \A k \in Wrks : thread'[k] = thread[k] \/ (thread[k] = "ended" /\ thread'[k] = "joined")
      BY <2>4 DEF UndoJoin, sigs
    <3>2. thread[0] # "runs"
      BY <2>4 DEF UndoJoin
    <3> QED
      BY <3>1, <3>2
  <2>5. CASE RunMain
    BY <2>5 DEF RunMain, ctx, sigs
  <2> QED
    BY <1>2, <2>1, <2>2, <2>3, <2>4, <2>5 DEF Creating
<1>3. CASE Ending
  <2>1. CASE Stop
    BY <2>1 DEF Stop, MoreToStop, ctx, sigs
  <2>2. CASE StopUndefined
    BY <2>2 DEF StopUndefined, ctx, sigs
  <2>3. CASE NothingToFree
    BY <2>3 DEF NothingToFree, ctx, sigs
  <2>4. CASE FreeWrk
    BY <2>4 DEF FreeWrk, Joinable, ctx, sigs
  <2>5. CASE FreeWorkers
    BY <2>5 DEF FreeWorkers, ctx, sigs
  <2>6. CASE Clear
    BY <2>6 DEF Clear, ctx, sigs
  <2> QED
    BY <1>3, <2>1, <2>2, <2>3, <2>4, <2>5, <2>6 DEF Ending
<1>4. ASSUME NEW k \in Wrks, Signal(k) PROVE Threads'
  BY <1>4 DEF Signal, Alive, ctx
<1>5. ASSUME NEW k \in Wrks, HandlerStops(k) PROVE Threads'
  <2>1. i' = i /\ workers' = workers /\ thread' = thread
    BY <1>5 DEF HandlerStops
  <2>2. pc' = pc \/ (pc' = "undefined" /\ workers # "set")
    BY <1>5 DEF HandlerStops
  <2>3. \A h \in Wrks : handler'[h] # Idle => handler[h] # Idle
    BY <1>5 DEF HandlerStops
  <2>4. \A h \in Wrks \ {0} : handler'[h] # Idle => thread[h] = "runs"
    BY <2>3
  <2>5. CASE pc' = pc
    BY <2>1, <2>4, <2>5
  <2>6. CASE pc' = "undefined" /\ workers # "set"
    BY <2>1, <2>4, <2>6
  <2> QED
    BY <2>2, <2>5, <2>6
<1>6. ASSUME NEW k \in Wrks, HandlerDone(k) PROVE Threads'
  BY <1>6 DEF HandlerDone, ctx
<1>7. ASSUME NEW k \in Wrks, WrkEnds(k) PROVE Threads'
  <2>1. /\ thread[k] = "runs" /\ handler[k] = Idle /\ thread' = [thread EXCEPT ![k] = "ended"]
        /\ UNCHANGED <<workers, handler>>
    BY <1>7 DEF WrkEnds, sigs
  <2>2. CASE k = 0
    <3>1. i' = 0 /\ pc' \in {"free", "stop"} /\ thread'[0] = "ended" /\ workers = "set"
      BY <1>7, <2>1, <2>2 DEF WrkEnds, AfterRun
    <3> QED
      BY <2>1, <2>2, <3>1
  <2>3. CASE k # 0
    <3>1. UNCHANGED <<pc, i>>
      BY <1>7, <2>3 DEF WrkEnds
    <3> QED
      BY <2>1, <2>3, <3>1
  <2> QED
    BY <2>2, <2>3
<1>8. CASE UNCHANGED vars
  BY <1>8 DEF vars, ctx, sigs
<1> QED
  BY <1>1, <1>2, <1>3, <1>4, <1>5, <1>6, <1>7, <1>8, ByPart DEF Signals, Dies, Handle

LEMMA ServersStep ==
  ASSUME IInv, [Next]_vars PROVE Servers' /\ NothingHeld'
<1> USE HttpCtxAssumption DEF IInv, TypeOK, Set, Threads, Servers, NothingHeld, Main, Wrks, Resources
<1>1. CASE Starting
  <2>1. CASE CtxInit
    BY <2>1 DEF CtxInit, ctx, sigs
  <2>2. CASE CtxInitFails
    BY <2>2 DEF CtxInitFails, ctx, sigs
  <2>3. CASE WrkInit
    <3>1. /\ pc = "init" /\ pc' = pc /\ workers' = workers /\ i \in Wrks
          /\ held' = [held EXCEPT ![i] = @ + 1] /\ held[i] \in 0 .. 4
      BY <2>3 DEF WrkInit
    <3>2. \/ held[i] = 4 /\ i' = i + 1 /\ srv' = [srv EXCEPT ![i] = "ready"]
          \/ held[i] < 4 /\ i' = i /\ srv' = srv
      BY <2>3, <3>1 DEF WrkInit, Wanted
    <3>3. NothingHeld' /\ \A k \in Wrks : srv'[k] # "freed"
      BY <3>1, <3>2
    <3>4. \A k \in Wrks : k >= i' => held'[k] = 0 \/ (k = i' /\ held'[k] < 5)
      BY <3>1, <3>2
    <3> QED
      BY <3>1, <3>3, <3>4
  <2>4. CASE WrkInitFails
    BY <2>4 DEF WrkInitFails, Wanted, Undone, ctx, sigs
  <2>5. CASE CtxRun
    BY <2>5 DEF CtxRun, ctx, sigs
  <2> QED
    BY <1>1, <2>1, <2>2, <2>3, <2>4, <2>5 DEF Starting
<1>2. CASE Creating
  <2>1. CASE Create
    BY <2>1 DEF Create, ctx, sigs
  <2>2. CASE CreateFails
    BY <2>2 DEF CreateFails, ctx, sigs
  <2>3. CASE Undo
    BY <2>3 DEF Undo, ctx, sigs
  <2>4. CASE UndoJoin
    BY <2>4 DEF UndoJoin, ctx, sigs
  <2>5. CASE RunMain
    BY <2>5 DEF RunMain, ctx, sigs
  <2> QED
    BY <1>2, <2>1, <2>2, <2>3, <2>4, <2>5 DEF Creating
<1>3. CASE Ending
  <2>1. CASE Stop
    BY <2>1 DEF Stop, MoreToStop, ctx, sigs
  <2>2. CASE StopUndefined
    BY <2>2 DEF StopUndefined, ctx, sigs
  <2>3. CASE NothingToFree
    BY <2>3 DEF NothingToFree, ctx, sigs
  <2>4. CASE FreeWrk
    BY <2>4 DEF FreeWrk, Joinable, ctx, sigs
  <2>5. CASE FreeWorkers
    BY <2>5 DEF FreeWorkers, ctx, sigs
  <2>6. CASE Clear
    BY <2>6 DEF Clear, ctx, sigs
  <2> QED
    BY <1>3, <2>1, <2>2, <2>3, <2>4, <2>5, <2>6 DEF Ending
<1>4. ASSUME NEW k \in Wrks, Signal(k) PROVE Servers' /\ NothingHeld'
  BY <1>4 DEF Signal, Alive, ctx
<1>5. ASSUME NEW k \in Wrks, HandlerStops(k) PROVE Servers' /\ NothingHeld'
  BY <1>5 DEF HandlerStops, ctx
<1>6. ASSUME NEW k \in Wrks, HandlerDone(k) PROVE Servers' /\ NothingHeld'
  BY <1>6 DEF HandlerDone, ctx
<1>7. ASSUME NEW k \in Wrks, WrkEnds(k) PROVE Servers' /\ NothingHeld'
  BY <1>7 DEF WrkEnds, AfterRun, sigs
<1>8. CASE UNCHANGED vars
  BY <1>8 DEF vars, ctx, sigs
<1> QED
  BY <1>1, <1>2, <1>3, <1>4, <1>5, <1>6, <1>7, <1>8, ByPart DEF Signals, Dies, Handle

LEMMA StopsStep ==
  ASSUME IInv, [Next]_vars PROVE Stops'
<1> USE HttpCtxAssumption DEF IInv, TypeOK, Set, Threads, Stops, Told, Main, Wrks, Idle, Sample
<1>1. CASE Starting
  <2>1. CASE CtxInit
    BY <2>1 DEF CtxInit, ctx, sigs
  <2>2. CASE CtxInitFails
    BY <2>2 DEF CtxInitFails, ctx, sigs
  <2>3. CASE WrkInit
    BY <2>3 DEF WrkInit, Wanted, ctx, sigs
  <2>4. CASE WrkInitFails
    BY <2>4 DEF WrkInitFails, Wanted, Undone, ctx, sigs
  <2>5. CASE CtxRun
    BY <2>5 DEF CtxRun, ctx, sigs
  <2> QED
    BY <1>1, <2>1, <2>2, <2>3, <2>4, <2>5 DEF Starting
<1>2. CASE Creating
  <2>1. CASE Create
    BY <2>1 DEF Create, ctx, sigs
  <2>2. CASE CreateFails
    BY <2>2 DEF CreateFails, ctx, sigs
  <2>3. CASE Undo
    BY <2>3 DEF Undo, ctx, sigs
  <2>4. CASE UndoJoin
    BY <2>4 DEF UndoJoin, ctx, sigs
  <2>5. CASE RunMain
    BY <2>5 DEF RunMain, ctx, sigs
  <2> QED
    BY <1>2, <2>1, <2>2, <2>3, <2>4, <2>5 DEF Creating
<1>3. CASE Ending
  <2>1. CASE Stop
    <3>1. /\ pc = "stop" /\ workers = "set" /\ workers' = workers /\ ~Sample
          /\ program' = program /\ asked' = asked
      BY <2>1 DEF Stop, sigs
    <3>2. CASE i < N
      <4>1. should_stop' = [should_stop EXCEPT ![i] = TRUE] /\ i' = i + 1 /\ pc' = pc
        BY <2>1, <3>2 DEF Stop, MoreToStop
      <4> QED
        BY <3>1, <3>2, <4>1
    <3>3. CASE ~(i < N)
      <4>1. pc' = "free" /\ should_stop' = should_stop
        BY <2>1, <3>3 DEF Stop, MoreToStop
      <4>2. \A k \in Wrks : should_stop'[k]
        BY <3>1, <3>3, <4>1
      <4> QED
        BY <3>1, <4>1, <4>2
    <3> QED
      BY <3>2, <3>3
  <2>2. CASE StopUndefined
    BY <2>2 DEF StopUndefined, ctx, sigs
  <2>3. CASE NothingToFree
    BY <2>3 DEF NothingToFree, ctx, sigs
  <2>4. CASE FreeWrk
    BY <2>4 DEF FreeWrk, Joinable, ctx, sigs
  <2>5. CASE FreeWorkers
    BY <2>5 DEF FreeWorkers, ctx, sigs
  <2>6. CASE Clear
    BY <2>6 DEF Clear, ctx, sigs
  <2> QED
    BY <1>3, <2>1, <2>2, <2>3, <2>4, <2>5, <2>6 DEF Ending
<1>4. ASSUME NEW k \in Wrks, Signal(k) PROVE Stops'
  <2>1. /\ handler[k] = -1 /\ handler' = [handler EXCEPT ![k] = 0]
        /\ asked' = (asked \/ pc \in {"create", "loop"})
        /\ UNCHANGED <<program, pc, i, workers, should_stop>>
    BY <1>4 DEF Signal, ctx
  <2>2. ASSUME NEW j \in Wrks, Told(j) PROVE Told(j)'
    BY <2>1, <2>2
  <2>3. ASSUME NEW j \in Wrks PROVE Told(j)'
    <3>1. handler'[k] \in 0 .. j
      BY <2>1
    <3> QED
      BY <3>1
  <2> QED
    BY <2>1, <2>2, <2>3
<1>5. ASSUME NEW k \in Wrks, HandlerStops(k) PROVE Stops'
  <2>1. /\ handler[k] \in Wrks /\ handler' = [handler EXCEPT ![k] = @ + 1]
        /\ UNCHANGED <<program, i, workers, asked>>
    BY <1>5 DEF HandlerStops
  <2>2. CASE workers = "set"
    <3>1. should_stop' = [should_stop EXCEPT ![handler[k]] = TRUE] /\ pc' = pc
      BY <1>5, <2>2 DEF HandlerStops
    <3>2. ASSUME NEW j \in Wrks, should_stop[j] PROVE should_stop'[j]
      BY <2>1, <3>1, <3>2
    <3>3. ASSUME NEW j \in Wrks, Told(j) PROVE Told(j)'
      <4>1. CASE should_stop[j] \/ handler[k] = j
        BY <2>1, <3>1, <3>2, <4>1
      <4>2. CASE ~should_stop[j] /\ handler[k] # j
        <5>1. PICK h \in Wrks : handler[h] \in 0 .. j
          BY <3>3, <4>2
        <5>2. handler'[h] \in 0 .. j
          <6>1. CASE h = k
            <7>1. handler'[h] = handler[h] + 1
              BY <2>1, <6>1
            <7>2. handler[h] \in Int /\ handler[h] >= 0 /\ handler[h] <= j /\ handler[h] # j /\ j \in Int
              BY <2>1, <4>2, <5>1, <6>1
            <7>3. handler[h] + 1 \in 0 .. j
              BY <7>2, NextUpTo
            <7> QED
              BY <7>1, <7>3
          <6>2. CASE h # k
            BY <2>1, <5>1, <6>2
          <6> QED
            BY <6>1, <6>2
        <5> QED
          BY <5>2
      <4> QED
        BY <4>1, <4>2
    <3> QED
      BY <2>1, <2>2, <3>1, <3>2, <3>3
  <2>3. CASE workers # "set"
    <3>1. pc' = "undefined"
      BY <1>5, <2>3 DEF HandlerStops
    <3> QED
      BY <2>1, <2>3, <3>1
  <2> QED
    BY <2>2, <2>3
<1>6. ASSUME NEW k \in Wrks, HandlerDone(k) PROVE Stops'
  BY <1>6 DEF HandlerDone, ctx
<1>7. ASSUME NEW k \in Wrks, WrkEnds(k) PROVE Stops'
  <2>1. UNCHANGED <<program, workers, should_stop, handler, asked>> /\ thread[k] = "runs"
    BY <1>7 DEF WrkEnds, sigs
  <2>2. CASE k = 0
    <3>1. i' = 0 /\ pc' = AfterRun /\ pc = "loop"
      BY <1>7, <2>1, <2>2 DEF WrkEnds
    <3>2. CASE Sample
      BY <2>1, <3>1, <3>2 DEF AfterRun
    <3>3. CASE ~Sample
      BY <2>1, <3>1, <3>3 DEF AfterRun
    <3> QED
      BY <3>2, <3>3
  <2>3. CASE k # 0
    <3>1. UNCHANGED <<pc, i>>
      BY <1>7, <2>3 DEF WrkEnds
    <3> QED
      BY <2>1, <3>1
  <2> QED
    BY <2>2, <2>3
<1>8. CASE UNCHANGED vars
  BY <1>8 DEF vars, ctx, sigs
<1> QED
  BY <1>1, <1>2, <1>3, <1>4, <1>5, <1>6, <1>7, <1>8, ByPart DEF Signals, Dies, Handle

LEMMA IInvStep == IInv /\ [Next]_vars => IInv'
BY TypeStep, SetStep, ThreadsStep, ServersStep, StopsStep DEF IInv

LEMMA IInvAlways == Spec => []IInv
BY IInvInit, IInvStep, PTL DEF Spec

\* Every variable stays in its domain: no loop and no handler leaves the array
\* of workers.
THEOREM TypeCorrect == Spec => []TypeOK
<1>1. IInv => TypeOK
  BY DEF IInv
<1> QED
  BY IInvAlways, <1>1, PTL

\* No worker and no handler of a signal uses what main has freed, for any number
\* of either.
THEOREM NothingFreedInUse == Spec => []FreedAfterUse
<1>1. IInv => FreedAfterUse
  BY HttpCtxAssumption DEF IInv, TypeOK, Set, Threads, Servers, FreedAfterUse, Wrks
<1> QED
  BY IInvAlways, <1>1, PTL

\* Initialisation, failing anywhere, and the end give back all they have got.
THEOREM NothingLeaks == Spec => []NothingHeld
<1>1. IInv => NothingHeld
  BY DEF IInv
<1> QED
  BY IInvAlways, <1>1, PTL

\* Main joins no worker that nobody has told, or will tell, to stop.
THEOREM JoinsEnd == Spec => []JoinsStopped
<1>1. IInv => JoinsStopped
  <2> SUFFICES ASSUME IInv, pc = "free", Sample => asked, NEW k \in i .. N - 1
               PROVE  \/ should_stop[k] \/ thread[k] = "ended"
                      \/ Sample /\ \E h \in Wrks : handler[h] \in 0 .. k
    BY DEF JoinsStopped
  <2>1. k \in Wrks /\ k >= i
    BY DEF IInv, TypeOK, Wrks
  <2>2. CASE Sample
    BY <2>1, <2>2 DEF IInv, Stops, Told
  <2>3. CASE ~Sample
    BY <2>1, <2>3 DEF IInv, Stops
  <2> QED
    BY <2>2, <2>3
<1> QED
  BY IInvAlways, <1>1, PTL
=============================================================================
