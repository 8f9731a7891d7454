-------------------------- MODULE TcpServerProofs --------------------------
(* Theorems about TcpServer, for any number of clients, any limits and any *)
(* failures.                                                               *)
EXTENDS TcpServerImpl, FiniteSetTheorems, TLAPS

\* The inductive invariant: the descriptors need the array only for their
\* number, the array needs to know that the events it handles are of clients.
IInv == TypeOK /\ DenseArray /\ WithinCap /\ EventsLive /\ DescriptorsExact

-----------------------------------------------------------------------------
(* The array.                                                              *)

\* The capacity grow_clients_array leaves: the next client fits and the limit
\* holds.
LEMMA GrownFits ==
  ASSUME TypeOK, WithinCap, CanGrow
  PROVE  GrownCap \in Nat /\ nclients + 1 <= GrownCap /\ GrownCap <= MaxClients /\ cap <= GrownCap
<1>1. Doubled \in Nat /\ Doubled > cap
  BY DEF TypeOK, Doubled
<1> QED
  BY <1>1, TcpServerAssumption DEF TypeOK, WithinCap, CanGrow, GrownCap

\* The capacity shrink_clients_array leaves: the clients still fit.
LEMMA ShrunkFits ==
  ASSUME TypeOK, WithinCap, NEW n \in Nat, n <= nclients
  PROVE  ShrunkCap(n) \in Nat /\ n <= ShrunkCap(n) /\ ShrunkCap(n) <= MaxClients
BY TcpServerAssumption DEF TypeOK, WithinCap, ShrunkCap

\* Storing a new client behind the last one keeps the array dense.
LEMMA AppendDense ==
  ASSUME TypeOK, DenseArray, nclients < MaxClients, NEW c \in Clis \ live,
         live' = live \cup {c},
         clients' = [clients EXCEPT ![nclients] = c],
         idx' = [idx EXCEPT ![c] = nclients],
         nclients' = nclients + 1
  PROVE  DenseArray' /\ clients' \in [Slots -> Clis \cup {NoCli}]
         /\ idx' \in [Clis -> Slots] /\ nclients' \in 0 .. MaxClients
BY TcpServerAssumption DEF TypeOK, DenseArray, Slots

\* Swapping the last client into the place of the closed one does, too.
LEMMA SwapDense ==
  ASSUME TypeOK, DenseArray, NEW c \in live, SwapRemove(c), live' = live \ {c}
  PROVE  DenseArray' /\ clients' \in [Slots -> Clis \cup {NoCli}]
         /\ idx' \in [Clis -> Slots] /\ nclients' \in 0 .. MaxClients
         /\ nclients' = nclients - 1 /\ nclients >= 1
<1> DEFINE last == nclients - 1
           moved == clients[last]
<1> USE TcpServerAssumption
<1>1. /\ idx[c] \in 0 .. last /\ clients[idx[c]] = c
      /\ last \in Slots /\ moved \in live /\ idx[moved] = last
      /\ nclients \in 1 .. MaxClients
  BY DEF TypeOK, DenseArray, Slots
<1>2. /\ clients' = [clients EXCEPT ![idx[c]] = moved, ![last] = NoCli]
      /\ idx' = IF moved = c THEN idx ELSE [idx EXCEPT ![moved] = idx[c]]
      /\ nclients' = last
  BY DEF SwapRemove, IdxMoved
<1>3. /\ clients' \in [Slots -> Clis \cup {NoCli}]
      /\ idx' \in [Clis -> Slots]
      /\ nclients' \in 0 .. MaxClients
  <2>1. idx[c] \in Slots /\ moved \in Clis /\ nclients' \in 0 .. MaxClients
    BY <1>1, <1>2 DEF TypeOK, Slots
  <2>2. clients' \in [Slots -> Clis \cup {NoCli}]
    BY <1>2, <2>1 DEF TypeOK
  <2>3. idx' \in [Clis -> Slots]
    BY <1>2, <2>1 DEF TypeOK
  <2> QED
    BY <2>1, <2>2, <2>3
<1>4. ASSUME NEW i \in Slots
      PROVE  clients'[i] = IF i = last THEN NoCli
                           ELSE IF i = idx[c] THEN moved ELSE clients[i]
  BY <1>1, <1>2 DEF TypeOK, Slots
<1>5. ASSUME NEW d \in Clis
      PROVE  idx'[d] = IF d = moved THEN idx[c] ELSE idx[d]
  BY <1>1, <1>2 DEF TypeOK
<1>6. ASSUME NEW i \in 0 .. nclients' - 1
      PROVE  clients'[i] \in live' /\ idx'[clients'[i]] = i
  <2>1. i \in Slots /\ i # last /\ i \in 0 .. nclients - 1
    BY <1>1, <1>2 DEF Slots
  <2>2. CASE i = idx[c]
    BY <1>1, <1>4, <1>5, <2>1, <2>2 DEF TypeOK
  <2>3. CASE i # idx[c]
    BY <1>1, <1>4, <1>5, <2>1, <2>3 DEF TypeOK, DenseArray
  <2> QED
    BY <2>2, <2>3
<1>7. ASSUME NEW i \in nclients' .. MaxClients - 1
      PROVE  clients'[i] = NoCli
  <2>1. i \in Slots /\ i >= last
    BY <1>1, <1>2 DEF Slots
  <2>2. CASE i = last
    BY <1>4, <2>1, <2>2
  <2>3. CASE i # last
    <3>1. i \in nclients .. MaxClients - 1 /\ i # idx[c]
      BY <1>1, <2>1, <2>3 DEF Slots
    <3> QED
      BY <1>4, <2>1, <2>3, <3>1 DEF DenseArray
  <2> QED
    BY <2>2, <2>3
<1>8. ASSUME NEW d \in live'
      PROVE  idx'[d] \in 0 .. nclients' - 1 /\ clients'[idx'[d]] = d
  <2>1. d \in live /\ d # c /\ d \in Clis
    BY DEF TypeOK
  <2>2. CASE d = moved
    <3>1. idx[c] # last /\ idx[c] \in Slots /\ idx[c] \in 0 .. nclients' - 1
      BY <1>1, <1>2, <2>1, <2>2 DEF Slots
    <3> QED
      BY <1>4, <1>5, <2>1, <2>2, <3>1
  <2>3. CASE d # moved
    <3>1. idx[d] \in 0 .. nclients - 1 /\ clients[idx[d]] = d
      BY <2>1 DEF DenseArray
    <3>2. idx[d] # last /\ idx[d] # idx[c] /\ idx[d] \in Slots
          /\ idx[d] \in 0 .. nclients' - 1
      BY <1>1, <1>2, <2>1, <2>3, <3>1 DEF Slots
    <3> QED
      BY <1>4, <1>5, <2>1, <2>3, <3>1, <3>2
  <2> QED
    BY <2>2, <2>3
<1>9. DenseArray'
  BY <1>6, <1>7, <1>8, Zenon DEF DenseArray
<1>10. nclients' = nclients - 1 /\ nclients >= 1
  BY <1>1, <1>2
<1> QED
  BY <1>3, <1>9, <1>10

\* The clients the array lists; what ConnSet calls conns.
Members == {clients[i] : i \in 0 .. nclients - 1}

\* The array lists just the allocated clients, as many as it counts.
LEMMA MembersLive ==
  ASSUME IInv
  PROVE  Members = live /\ Cardinality(Members) = nclients
<1>1. TypeOK /\ DenseArray /\ nclients \in Nat
  BY DEF IInv, TypeOK
<1>2. Members = live
  BY <1>1 DEF Members, DenseArray
<1> DEFINE at == [i \in 0 .. nclients - 1 |-> clients[i]]
<1>3. at \in Bijection(0 .. nclients - 1, Members)
  <2>1. at \in [0 .. nclients - 1 -> Members] /\ \A c \in Members : \E i \in 0 .. nclients - 1 : at[i] = c
    BY DEF Members
  <2>2. \A i, j \in 0 .. nclients - 1 : at[i] = at[j] => i = j
    BY <1>1 DEF DenseArray
  <2> QED
    BY <2>1, <2>2 DEF Bijection, Injection, Surjection, IsInjective
<1>4. IsFiniteSet(0 .. nclients - 1) /\ Cardinality(0 .. nclients - 1) = nclients
  BY <1>1, FS_Interval
<1> QED
  BY <1>2, <1>3, <1>4, FS_Bijection DEF ExistsBijection

-----------------------------------------------------------------------------
(* The steps.                                                              *)

LEMMA IInvInit == Init => IInv
<1> SUFFICES ASSUME Init PROVE IInv
  OBVIOUS
<1> USE TcpServerAssumption DEF Init
<1>1. TypeOK
  <2>1. /\ armed \in BOOLEAN /\ accepting_conns \in BOOLEAN
        /\ should_stop \in BOOLEAN /\ stopping \in BOOLEAN /\ evfd \in BOOLEAN /\ stdin \in BOOLEAN
    BY Zenon
  <2>2. /\ clients \in [Slots -> Clis \cup {NoCli}]
        /\ idx \in [Clis -> Slots]
    BY DEF Slots
  <2> QED
    BY <2>1, <2>2 DEF TypeOK
<1>2. DenseArray
  BY DEF DenseArray, Slots
<1>3. WithinCap /\ EventsLive
  BY DEF WithinCap, EventsLive
<1>4. DescriptorsExact
  <2>1. stdin
    BY Zenon
  <2>2. fds = 0 /\ Cardinality(live) = 0
    BY FS_EmptySet
  <2> QED
    BY <2>1, <2>2 DEF DescriptorsExact
<1> QED
  BY <1>1, <1>2, <1>3, <1>4 DEF IInv

\* The number of allocated clients is a number.
LEMMA LiveCount == ASSUME TypeOK PROVE IsFiniteSet(live) /\ Cardinality(live) \in Nat
BY TcpServerAssumption, FS_Subset, FS_CardinalityType DEF TypeOK

\* What a step does to the descriptors when it neither admits nor frees a
\* client: nothing, or it ends the loop with one descriptor lost at most.
SpoilsOne ==
  /\ Running /\ ~Running'
  /\ \/ fds' \in {fds, fds + 1} /\ stdin' = stdin
     \/ fds' = fds /\ stdin' = FALSE

\* A step that leaves the array alone only has to name clients that are live,
\* and to keep the descriptors or end the loop.
LEMMA QuietStep ==
  ASSUME IInv, TypeOK', UNCHANGED <<clients, nclients, idx, live>>,
         cap' = cap \/ (cap' <= MaxClients /\ cap <= cap'),
         (batch' \cup ready' \cup gone') \cap Clis \subseteq live,
         \/ fds' = fds /\ stdin' = stdin /\ (Running' => Running)
         \/ SpoilsOne
  PROVE  IInv'
<1>1. TypeOK' /\ DenseArray' /\ WithinCap' /\ EventsLive'
  BY DEF IInv, TypeOK, DenseArray, WithinCap, EventsLive
<1>2. Cardinality(live) \in Nat /\ Cardinality(live') = Cardinality(live) /\ fds \in Int
  BY LiveCount DEF IInv, TypeOK
<1>3. DescriptorsExact
  BY DEF IInv
<1>4. ASSUME fds' = fds, stdin' = stdin, Running' => Running PROVE DescriptorsExact'
  <2>1. fds' - Cardinality(live') = fds - Cardinality(live)
    BY <1>2, <1>4
  <2> QED
    BY <1>3, <1>4, <2>1, Zenon DEF DescriptorsExact
<1>5. ASSUME SpoilsOne PROVE DescriptorsExact'
  <2>1. fds - Cardinality(live) = 0 /\ ~Running'
    BY <1>3, <1>5 DEF SpoilsOne, DescriptorsExact
  <2>2. stdin
    BY <1>3, <1>5, Zenon DEF SpoilsOne, DescriptorsExact
  <2>3. CASE fds' \in {fds, fds + 1} /\ stdin' = stdin
    <3>1. fds' - Cardinality(live') \in {0, 1}
      BY <1>2, <2>1, <2>3
    <3>2. stdin'
      BY <2>2, <2>3, Zenon
    <3> QED
      BY <2>1, <3>1, <3>2, Zenon DEF DescriptorsExact
  <2>4. CASE fds' = fds /\ stdin' = FALSE
    <3>1. fds' - Cardinality(live') = 0
      BY <1>2, <2>1, <2>4
    <3>2. fds' - Cardinality(live') \in {0, 1}
      BY <3>1
    <3> QED
      BY <2>1, <3>1, <3>2, Zenon DEF DescriptorsExact
  <2> QED
    BY <1>5, <2>3, <2>4, Zenon DEF SpoilsOne
<1>6. DescriptorsExact'
  BY <1>4, <1>5, Zenon
<1> QED
  BY <1>1, <1>6, Zenon DEF IInv

\* The descriptor that a step takes or gives back is that of the client.
LEMMA ClientsFd ==
  ASSUME TypeOK, DescriptorsExact, Running, UNCHANGED stdin, NEW c \in Clis,
         \/ c \notin live /\ live' = live \cup {c} /\ fds' = fds + 1
         \/ c \in live /\ live' = live \ {c} /\ fds' = fds - 1
  PROVE  DescriptorsExact'
<1>1. IsFiniteSet(live) /\ Cardinality(live) \in Nat /\ fds \in Int
  BY LiveCount DEF TypeOK
<1>2. stdin /\ (stdin' <=> stdin)
  BY Zenon DEF DescriptorsExact
<1>3. fds - Cardinality(live) = 0
  BY DEF DescriptorsExact
<1>4. fds' - Cardinality(live') = 0
  BY <1>1, <1>3, FS_AddElement, FS_RemoveElement, FS_CardinalityType
<1> QED
  BY <1>2, <1>4 DEF DescriptorsExact

LEMMA AcceptStep == ASSUME IInv, Accept PROVE IInv'
<1> USE TcpServerAssumption
<1>0. TypeOK /\ WithinCap /\ DenseArray /\ EventsLive
  BY DEF IInv
<1>1. CASE AcceptEmfile
  BY <1>0, <1>1, QuietStep DEF AcceptEmfile, TypeOK, EventsLive, Running, array, gate, world, stop
<1>2. CASE AcceptAgain
  BY <1>0, <1>2, QuietStep DEF AcceptAgain, TypeOK, EventsLive, Running, array, gate, world, stop
<1>3. CASE AcceptAborted
  BY <1>0, <1>3, QuietStep DEF AcceptAborted, Dequeue, TypeOK, EventsLive, Running, array, gate, stop
<1>4. CASE AcceptFull
  BY <1>0, <1>4, QuietStep DEF AcceptFull, Dequeue, TypeOK, EventsLive, Running, array, gate, stop
<1>5. CASE AcceptNoGrow
  <2>1. UNCHANGED <<array, gate, others, ready, gone, batch, stop, evfd, fds>>
        /\ loop' = "exited" /\ stdin' = FALSE /\ backlog' = backlog - 1 /\ backlog > 0
    BY <1>5 DEF AcceptNoGrow, Dequeue
  <2>2. stdin' \in BOOLEAN
    BY <2>1, Zenon
  <2>3. TypeOK'
    BY <1>0, <2>1, <2>2 DEF TypeOK, array, gate, stop
  <2>4. SpoilsOne
    BY <1>5, <2>1 DEF AcceptNoGrow, Dequeue, SpoilsOne, Running
  <2> QED
    BY <1>0, <2>1, <2>3, <2>4, QuietStep DEF EventsLive, array
<1>6. CASE AcceptNomem
  <2>1. /\ UNCHANGED <<clients, nclients, idx, live, gate, others, ready, gone,
                        batch, stop, evfd, fds>>
        /\ loop = "accept" /\ loop' = "exited" /\ backlog' = backlog - 1 /\ backlog > 0
    BY <1>6 DEF AcceptNomem, Dequeue
  <2>2. stdin' = stdin \/ stdin' = FALSE
    BY <1>6, Zenon DEF AcceptNomem
  <2>3. cap' = cap \/ (cap' \in Nat /\ cap' <= MaxClients /\ cap <= cap')
    BY <1>0, <1>6, GrownFits DEF AcceptNomem
  <2>4. stdin' \in BOOLEAN
    BY <1>0, <2>2, Zenon DEF TypeOK
  <2>5. TypeOK'
    BY <1>0, <2>1, <2>3, <2>4 DEF TypeOK, gate, stop
  <2>6. SpoilsOne
    BY <2>1, <2>2 DEF SpoilsOne, Running
  <2> QED
    BY <1>0, <2>1, <2>3, <2>5, <2>6, QuietStep DEF EventsLive
<1>7. CASE AcceptAddFails
  <2>1. GrownCap \in Nat /\ GrownCap <= MaxClients /\ cap <= GrownCap
    BY <1>0, <1>7, GrownFits DEF AcceptAddFails
  <2>2. SpoilsOne
    BY <1>7 DEF AcceptAddFails, Dequeue, SpoilsOne, Running
  <2> QED
    BY <1>0, <1>7, <2>1, <2>2, QuietStep DEF AcceptAddFails, Dequeue, TypeOK, EventsLive, gate, stop
<1>8. CASE AcceptOk
  <2>1. PICK c \in Clis \ live :
          /\ live' = live \cup {c}
          /\ clients' = [clients EXCEPT ![nclients] = c]
          /\ idx' = [idx EXCEPT ![c] = nclients]
    BY <1>8 DEF AcceptOk
  <2>2. CanGrow /\ cap' = GrownCap /\ nclients' = nclients + 1 /\ nclients < MaxClients
    BY <1>8 DEF AcceptOk, CanGrow
  <2>3. WithinCap' /\ cap' \in Nat
    BY <1>0, <2>2, GrownFits DEF WithinCap
  <2>4. DenseArray' /\ clients' \in [Slots -> Clis \cup {NoCli}]
        /\ idx' \in [Clis -> Slots] /\ nclients' \in 0 .. MaxClients
    BY <1>0, <2>1, <2>2, AppendDense
  <2>5. TypeOK'
    BY <1>0, <1>8, <2>1, <2>3, <2>4 DEF AcceptOk, Dequeue, TypeOK, gate, stop
  <2>6. EventsLive'
    BY <1>0, <1>8, <2>1 DEF AcceptOk, EventsLive
  <2>7. DescriptorsExact'
    <3>1. Running /\ UNCHANGED stdin /\ fds' = fds + 1
      BY <1>8 DEF AcceptOk, Dequeue, Running
    <3>2. DescriptorsExact
      BY DEF IInv
    <3> QED
      BY <1>0, <2>1, <3>1, <3>2, ClientsFd
  <2> QED
    BY <2>3, <2>4, <2>5, <2>6, <2>7 DEF IInv
<1> QED
  BY <1>1, <1>2, <1>3, <1>4, <1>5, <1>6, <1>7, <1>8 DEF Accept

LEMMA CloseStep == ASSUME IInv, NEW c \in Clis, CloseCli(c) PROVE IInv'
<1>0. TypeOK /\ WithinCap /\ DenseArray /\ EventsLive
  BY DEF IInv
<1>1. c \in live /\ live' = live \ {c} /\ SwapRemove(c)
  BY <1>0 DEF CloseCli, FreeCli, HandleCli, EventsLive
<1>2. /\ DenseArray' /\ clients' \in [Slots -> Clis \cup {NoCli}]
      /\ idx' \in [Clis -> Slots] /\ nclients' \in 0 .. MaxClients
      /\ nclients' = nclients - 1 /\ nclients >= 1
  BY <1>0, <1>1, SwapDense
<1>3. (cap' = ShrunkCap(nclients - 1) \/ cap' = cap) /\ nclients - 1 \in Nat
  BY <1>0, <1>1, <1>2 DEF SwapRemove, Shrink, TypeOK
<1>4. WithinCap' /\ cap' \in Nat
  BY <1>0, <1>2, <1>3, ShrunkFits DEF WithinCap, TypeOK
<1>5. TypeOK'
  <2>1. armed' \in BOOLEAN /\ accepting_conns' \in BOOLEAN
    BY <1>0 DEF CloseCli, Rearm, TypeOK, gate, stop
  <2>2. /\ live' = live \ {c} /\ fds' = fds - 1 /\ batch' = batch \ {c}
        /\ ready' = ready \ {c} /\ gone' = gone \ {c}
        /\ UNCHANGED <<others, backlog, loop, stop, evfd, stdin>>
    BY DEF CloseCli, FreeCli, HandleCli
  <2> QED
    BY <1>0, <1>2, <1>4, <2>1, <2>2 DEF TypeOK, stop
<1>6. EventsLive'
  BY <1>0, <1>1 DEF CloseCli, FreeCli, HandleCli, EventsLive
<1>7. DescriptorsExact'
  <2>1. Running /\ UNCHANGED stdin /\ fds' = fds - 1
    BY DEF CloseCli, HandleCli, FreeCli, Running
  <2>2. DescriptorsExact
    BY DEF IInv
  <2> QED
    BY <1>0, <1>1, <2>1, <2>2, ClientsFd
<1> QED
  BY <1>2, <1>4, <1>5, <1>6, <1>7 DEF IInv

LEMMA FreeStep == ASSUME IInv, SrvFree PROVE IInv'
<1>1. TypeOK' /\ DenseArray' /\ WithinCap' /\ EventsLive'
  BY TcpServerAssumption
  DEF SrvFree, stop, IInv, TypeOK, DenseArray, WithinCap, EventsLive, Slots, gate
<1>2. Cardinality(live) = nclients /\ nclients \in Nat /\ fds \in Int
  BY MembersLive DEF IInv, TypeOK
<1>3. Cardinality(live') = 0 /\ fds' = fds - nclients /\ (stdin' <=> stdin) /\ ~Running'
  BY FS_EmptySet DEF SrvFree, Running
<1>4. DescriptorsExact
  BY DEF IInv
<1>5. DescriptorsExact'
  BY <1>2, <1>3, <1>4 DEF DescriptorsExact
<1> QED
  BY <1>1, <1>5, Zenon DEF IInv

\* Everything else: waiting, handling, peers, the stop request.
LEMMA RestStep ==
  ASSUME IInv,
         \/ Run \/ RunFails \/ CheckStop \/ EpollWait \/ EpollIntr \/ EpollFails \/ BatchDone
         \/ HandleEvFd \/ HandleSrv \/ HandleSrvFails
         \/ \E c \in Clis : ServeCli(c) \/ ServeModFails(c)
         \/ StopFlag \/ StopWrite \/ Peers \/ OtherOpens \/ OtherCloses
         \/ UNCHANGED vars
  PROVE  IInv'
<1>0. TypeOK /\ EventsLive
  BY DEF IInv
<1> USE TcpServerAssumption DEF TypeOK, EventsLive, Running, array, gate, world, stop
<1>1. CASE Run \/ RunFails \/ CheckStop \/ BatchDone \/ EpollIntr \/ EpollFails
  BY <1>0, <1>1, QuietStep DEF Run, RunFails, CheckStop, BatchDone, EpollIntr, EpollFails
<1>2. CASE EpollWait
  <2>1. PICK S \in SUBSET Reported : batch' = S
    BY <1>2 DEF EpollWait
  <2>2. batch' \subseteq Clis \cup {"srv", "ev"} /\ batch' \cap Clis \subseteq live
    BY <1>0, <2>1 DEF Reported
  <2> QED
    BY <1>0, <1>2, <2>2, QuietStep DEF EpollWait
<1>3. CASE HandleEvFd \/ HandleSrv \/ HandleSrvFails
  BY <1>0, <1>3, QuietStep DEF HandleEvFd, HandleSrv, HandleSrvFails
<1>4. CASE \E c \in Clis : ServeCli(c) \/ ServeModFails(c)
  BY <1>0, <1>4, QuietStep DEF ServeCli, ServeModFails, HandleCli
<1>5. CASE StopFlag \/ StopWrite
  BY <1>0, <1>5, QuietStep DEF StopFlag, StopWrite
<1>6. CASE Peers
  BY <1>0, <1>6, QuietStep DEF Peers, Connect, PeerActive, PeerLeave
<1>7. CASE OtherOpens \/ OtherCloses
  BY <1>0, <1>7, QuietStep DEF OtherOpens, OtherCloses
<1>8. CASE UNCHANGED vars
  BY <1>0, <1>8, QuietStep DEF vars
<1> QED
  BY <1>1, <1>2, <1>3, <1>4, <1>5, <1>6, <1>7, <1>8

LEMMA IInvStep == IInv /\ [Next]_vars => IInv'
BY AcceptStep, CloseStep, FreeStep, RestStep DEF Next, Loop

LEMMA IInvAlways == Spec => []IInv
BY IInvInit, IInvStep, PTL DEF Spec

\* Every variable stays in its domain.
THEOREM TypeCorrect == Spec => []TypeOK
<1>1. IInv => TypeOK
  BY DEF IInv
<1> QED
  BY IInvAlways, <1>1, PTL

\* The array of clients is dense and every client knows its slot, through any
\* sequence of accepts and of swaps.
THEOREM ArrayDense == Spec => []DenseArray
<1>1. IInv => DenseArray
  BY DEF IInv
<1> QED
  BY IInvAlways, <1>1, PTL

\* The assertion after the insertion of a client holds for every limit and
\* every way the array grew and shrank.
THEOREM NeverBeyondCap == Spec => []WithinCap
<1>1. IInv => WithinCap
  BY DEF IInv
<1> QED
  BY IInvAlways, <1>1, PTL

\* However often clients come and go, no descriptor is lost or closed twice
\* while the loop runs; and whatever fails in an accept, the failure that ends
\* the loop loses one descriptor or closes descriptor 0, never more, and
\* ais_sock_tcp_srv_free adds nothing to that.
THEOREM NoDescriptorLost == Spec => []DescriptorsExact
<1>1. IInv => DescriptorsExact
  BY DEF IInv
<1> QED
  BY IInvAlways, <1>1, PTL

\* No event of a batch outlives its client.
THEOREM NoStaleEvent == Spec => []EventsLive
<1>1. IInv => EventsLive
  BY DEF IInv
<1> QED
  BY IInvAlways, <1>1, PTL

-----------------------------------------------------------------------------
(* The array implements a set of connections.                              *)

\* ConnSet counts as FiniteSets does.
LEMMA SameCount == ASSUME NEW S PROVE Conns!Cardinality(S) = Cardinality(S)
BY DEF Conns!Cardinality, Cardinality

\* The steps, by what they do to the allocated clients.
LEMMA ByEffect ==
  ASSUME IInv, [Next]_vars
  PROVE  \/ AcceptOk
         \/ \E c \in Clis : CloseCli(c)
         \/ \E c \in Clis : PeerLeave(c)
         \/ SrvFree
         \/ UNCHANGED <<clients, nclients, gone>> /\ (Running' <=> Running)
         \/ UNCHANGED <<clients, nclients, gone>> /\ ~Running'
<1> USE DEF array, gate, world, stop, Running
<1>1. CASE Run \/ RunFails \/ CheckStop \/ BatchDone \/ EpollIntr \/ EpollWait \/ EpollFails
           \/ HandleEvFd \/ HandleSrv \/ HandleSrvFails
  BY <1>1 DEF Run, RunFails, CheckStop, BatchDone, EpollIntr, EpollWait, EpollFails,
              HandleEvFd, HandleSrv, HandleSrvFails
<1>2. CASE AcceptEmfile \/ AcceptAgain \/ AcceptAborted \/ AcceptFull \/ AcceptNoGrow
  BY <1>2 DEF AcceptEmfile, AcceptAgain, AcceptAborted, AcceptFull, AcceptNoGrow, Dequeue
<1>3. CASE AcceptNomem \/ AcceptAddFails
  BY <1>3 DEF AcceptNomem, AcceptAddFails, Dequeue
<1>4. CASE \E c \in Clis : ServeCli(c) \/ ServeModFails(c)
  BY <1>4 DEF ServeCli, ServeModFails, HandleCli
<1>5. CASE StopFlag \/ StopWrite \/ OtherOpens \/ OtherCloses \/ UNCHANGED vars
  BY <1>5 DEF StopFlag, StopWrite, OtherOpens, OtherCloses, vars
<1>6. CASE Connect \/ \E c \in Clis : PeerActive(c)
  BY <1>6 DEF Connect, PeerActive
<1> QED
  BY <1>1, <1>2, <1>3, <1>4, <1>5, <1>6 DEF Next, Loop, Accept, Peers

LEMMA ConnsStep ==
  ASSUME IInv, [Next]_vars
  PROVE  [Conns!CNext]_(Conns!cvars)
<1>1. Members = live /\ Members' = live' /\ Cardinality(Members) = nclients
  <2>1. IInv'
    BY IInvStep
  <2>2. Members' = live'
    BY <2>1 DEF IInv, TypeOK, DenseArray, Members
  <2> QED
    BY <2>2, MembersLive
<1>2. TypeOK /\ EventsLive
  BY DEF IInv
<1>3. CASE AcceptOk
  <2>1. PICK c \in Clis \ live : live' = live \cup {c}
    BY <1>3 DEF AcceptOk
  <2>2. Running /\ (Running' <=> Running) /\ UNCHANGED gone
    BY <1>3 DEF AcceptOk, Dequeue, Running
  <2>3. Cardinality(Members) < MaxClients
    BY <1>1, <1>3 DEF AcceptOk, CanGrow
  <2>4. Conns!Cardinality(Members) < MaxClients
    BY <2>3, SameCount
  <2>5. Conns!Admit(c)
    BY <1>1, <2>1, <2>2, <2>4 DEF Conns!Admit, Members, Running
  <2> QED
    BY <2>1, <2>5 DEF Conns!CNext
<1>4. ASSUME NEW c \in Clis, CloseCli(c) PROVE Conns!CNext
  <2>1. Running /\ (Running' <=> Running) /\ c \in live /\ live' = live \ {c} /\ gone' = gone \ {c}
    BY <1>2, <1>4 DEF CloseCli, HandleCli, FreeCli, Running, EventsLive
  <2>2. Conns!Remove(c)
    BY <1>1, <2>1 DEF Conns!Remove, Members, Running
  <2> QED
    BY <2>2 DEF Conns!CNext
<1>5. ASSUME NEW c \in Clis, PeerLeave(c) PROVE Conns!CNext
  <2>1. c \in live /\ gone' = gone \cup {c} /\ live' = live /\ (Running' <=> Running)
    BY <1>5 DEF PeerLeave, array, Running
  <2>2. Conns!Leave(c)
    BY <1>1, <2>1 DEF Conns!Leave, Members, Running
  <2> QED
    BY <2>2 DEF Conns!CNext
<1>6. CASE SrvFree
  <2>1. ~Running /\ (Running' <=> Running) /\ live' = {} /\ gone' = {}
    BY <1>6 DEF SrvFree, Running
  <2>2. Conns!Clear
    BY <1>1, <2>1 DEF Conns!Clear, Members, Running
  <2> QED
    BY <2>2 DEF Conns!CNext
<1>7. CASE UNCHANGED <<clients, nclients, gone>> /\ (Running' <=> Running)
  BY <1>7 DEF Conns!cvars, Members, Running
<1>8. CASE UNCHANGED <<clients, nclients, gone>> /\ ~Running'
  BY <1>8 DEF Conns!Quit, Conns!CNext, Members, Running
<1> QED
  BY <1>3, <1>4, <1>5, <1>6, <1>7, <1>8, ByEffect

\* The event loop keeps a bounded set of connections: each step admits one that
\* is not there, removes the one whose event it handles, or leaves the set
\* alone, and all go together only when the loop has ended.
THEOREM ImplementsConns == Spec => ImplementsConnSet
<1>1. Init => Conns!CInit
  BY DEF Init, Conns!CInit, Running
<1>2. IInv /\ [Next]_vars => [Conns!CNext]_(Conns!cvars)
  BY ConnsStep
<1> QED
  BY <1>1, <1>2, IInvAlways, PTL DEF Spec, ImplementsConnSet, Conns!CSafe
=============================================================================
