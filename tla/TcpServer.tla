----------------------------- MODULE TcpServer -----------------------------
(***************************************************************************)
(* One worker's event loop (libaishttpd/tcp.c, from ais_sock_tcp_srv_run   *)
(* to ais_sock_tcp_srv_free): epoll, the listening socket, the array of    *)
(* clients, the back-off when descriptors run out, and the stop request of *)
(* another thread.                                                         *)
(*                                                                         *)
(* One step is one system call of the loop together with the code up to    *)
(* the next one that another thread, the kernel or a peer can observe: a   *)
(* test of should_stop, an epoll_wait, one accept4, one client's event. A  *)
(* client's bytes and responses are abstracted to whether its event leaves *)
(* it open or closes it.                                                   *)
(***************************************************************************)
EXTENDS Integers, FiniteSets

CONSTANTS
  Clis,         \* addresses calloc can return for a struct ais_sock_tcp_cli
  NoCli,        \* NULL in srv->clients
  MaxClients,   \* srv->max_clients
  InitCap,      \* first cap_clients: 32, or max_clients if that is less
  ShrinkFree,   \* free slots that make the array shrink (256)
  ShrinkSlack,  \* free slots it keeps then (32)
  NEvents,      \* srv->nevents
  FdLimit,      \* descriptors the process may still open (RLIMIT_NOFILE)
  MaxOther,     \* bound: descriptors the rest of the process takes
  MaxBacklog,   \* bound: connections that wait to be accepted
  Faults        \* failures that happen: "setup", "poll", "nomem", "accept",
                \* "add", "mod"

ASSUME TcpServerAssumption ==
  /\ NoCli \notin Clis
  /\ Clis \cap {"srv", "ev"} = {}
  /\ IsFiniteSet(Clis)
  /\ MaxClients \in Nat \ {0}
  /\ InitCap \in 1 .. MaxClients
  /\ ShrinkSlack \in Nat \ {0}
  /\ ShrinkFree \in Nat
  /\ ShrinkSlack <= ShrinkFree
  /\ NEvents \in Nat \ {0}
  /\ FdLimit \in Nat /\ MaxOther \in Nat /\ MaxBacklog \in Nat

VARIABLES
  clients, nclients, cap,   \* srv->clients, nclients, cap_clients
  idx,                      \* cli->idx
  live,                     \* the clients that are allocated
  loop,                     \* where the worker is
  batch,                    \* sources of the events not yet handled
  armed,                    \* EPOLLIN is enabled for the listening socket
  accepting_conns,          \* srv->accepting_conns
  should_stop,              \* srv->should_stop
  stopping,                 \* a stop has set it and not yet written to the eventfd
  evfd,                     \* the eventfd is readable
  stdin,                    \* descriptor 0 is the one the process started with
  fds,                      \* descriptors the worker has for connections
  others,                   \* descriptors the rest of the process has
  backlog,                  \* connections to accept
  ready,                    \* clients with bytes to read or room to write
  gone                      \* clients whose peer closed or failed

array == <<clients, nclients, cap, idx, live>>
gate  == <<armed, accepting_conns>>
world == <<others, backlog, ready, gone>>
stop  == <<should_stop, stopping>>
vars  == <<array, gate, world, stop, loop, batch, evfd, stdin, fds>>

Slots == 0 .. MaxClients - 1

\* The state in which ais_sock_tcp_srv_run is entered.
Init ==
  /\ clients = [i \in Slots |-> NoCli]
  /\ nclients = 0
  /\ cap = InitCap
  /\ idx = [c \in Clis |-> 0]
  /\ live = {}
  /\ loop = "setup"
  /\ batch = {}
  /\ armed = TRUE
  /\ accepting_conns = FALSE
  /\ should_stop = FALSE
  /\ stopping = FALSE
  /\ evfd = FALSE
  /\ stdin = TRUE
  /\ fds = 0
  /\ others = 0
  /\ backlog = 0
  /\ ready = {}
  /\ gone = {}

-----------------------------------------------------------------------------
(* ais_sock_tcp_srv_run, start_event_loop, fish_events, reap_events        *)

\* bind, listen, and the two descriptors that epoll watches from now on.
Run ==
  /\ loop = "setup"
  /\ loop' = "top"
  /\ UNCHANGED <<array, gate, world, batch, stop, evfd, stdin, fds>>

RunFails ==
  /\ "setup" \in Faults
  /\ loop = "setup"
  /\ loop' = "exited"
  /\ UNCHANGED <<array, gate, world, batch, stop, evfd, stdin, fds>>

\* while (!srv->should_stop)
CheckStop ==
  /\ loop = "top"
  /\ loop' = IF should_stop THEN "exited" ELSE "wait"
  /\ UNCHANGED <<array, gate, world, batch, stop, evfd, stdin, fds>>

\* What epoll would report now.
Reported ==
  ready \cup gone \cup {s \in {"srv"} : armed /\ backlog > 0}
                  \cup {s \in {"ev"} : evfd}

\* epoll_wait returns as many events as it has room for.
EpollWait ==
  /\ loop = "wait"
  /\ Reported # {}
  /\ \E S \in SUBSET Reported :
       /\ \/ Cardinality(S) = NEvents
          \/ S = Reported /\ Cardinality(S) <= NEvents
       /\ batch' = S
  /\ loop' = "reap"
  /\ UNCHANGED <<array, gate, world, stop, evfd, stdin, fds>>

\* epoll_wait is interrupted by a signal; it looks for events before that.
EpollIntr ==
  /\ loop = "wait"
  /\ Reported = {}
  /\ loop' = "top"
  /\ UNCHANGED <<array, gate, world, batch, stop, evfd, stdin, fds>>

\* epoll_wait fails otherwise.
EpollFails ==
  /\ "poll" \in Faults
  /\ loop = "wait"
  /\ loop' = "exited"
  /\ UNCHANGED <<array, gate, world, batch, stop, evfd, stdin, fds>>

\* Every event of the batch is handled.
BatchDone ==
  /\ loop = "reap"
  /\ batch = {}
  /\ loop' = "top"
  /\ UNCHANGED <<array, gate, world, batch, stop, evfd, stdin, fds>>

\* AIS_EV_DATA_EV_FD
HandleEvFd ==
  /\ loop = "reap"
  /\ "ev" \in batch
  /\ batch' = batch \ {"ev"}
  /\ evfd' = FALSE
  /\ UNCHANGED <<array, gate, world, loop, stop, stdin, fds>>

-----------------------------------------------------------------------------
(* handle_event_tcp_srv: accept until __handle_event_tcp_srv fails         *)

HandleSrv ==
  /\ loop = "reap"
  /\ "srv" \in batch
  /\ batch' = batch \ {"srv"}
  /\ loop' = "accept"
  /\ UNCHANGED <<array, gate, world, stop, evfd, stdin, fds>>

\* EPOLLERR or EPOLLHUP, which epoll reports of the listening socket whether it
\* is armed or not, and in any batch.
HandleSrvFails ==
  /\ "poll" \in Faults
  /\ loop = "reap"
  /\ loop' = "exited"
  /\ UNCHANGED <<array, gate, world, batch, stop, evfd, stdin, fds>>

NoFdLeft == fds + others >= FdLimit

\* accept4 fails with EMFILE or ENFILE, whether a connection waits or not:
\* the listening socket is disarmed and the loop goes on.
AcceptEmfile ==
  /\ loop = "accept"
  /\ NoFdLeft
  /\ \/ armed' = FALSE /\ accepting_conns' = FALSE /\ loop' = "reap"
     \/ "mod" \in Faults /\ loop' = "exited" /\ UNCHANGED gate
  /\ UNCHANGED <<array, world, batch, stop, evfd, stdin, fds>>

\* accept4 fails with EAGAIN.
AcceptAgain ==
  /\ loop = "accept"
  /\ ~NoFdLeft
  /\ backlog = 0
  /\ loop' = "reap"
  /\ UNCHANGED <<array, gate, world, batch, stop, evfd, stdin, fds>>

\* accept4 takes a connection off the backlog.
Dequeue ==
  /\ loop = "accept"
  /\ ~NoFdLeft
  /\ backlog > 0
  /\ backlog' = backlog - 1

\* It fails with another error than those handle_error_from_accept4 names.
AcceptAborted ==
  /\ "accept" \in Faults
  /\ Dequeue
  /\ loop' = "exited"
  /\ UNCHANGED <<array, gate, others, ready, gone, batch, stop, evfd, stdin, fds>>

\* Maximum clients reached: close(fd), -EAGAIN.
AcceptFullLeaks ==
  /\ Dequeue
  /\ nclients >= MaxClients
  /\ fds' = fds + 1
  /\ loop' = "reap"
  /\ UNCHANGED <<array, gate, others, ready, gone, batch, stop, evfd, stdin>>

AcceptFull ==
  /\ Dequeue
  /\ nclients >= MaxClients
  /\ loop' = "reap"
  /\ UNCHANGED <<array, gate, others, ready, gone, batch, stop, evfd, stdin, fds>>

\* grow_clients_array refuses once the capacity is max_clients, before it asks
\* whether a slot is free; the clean-up frees a client whose fd is still 0.
AcceptNoGrow ==
  /\ Dequeue
  /\ nclients < MaxClients
  /\ cap >= MaxClients
  /\ stdin' = FALSE
  /\ loop' = "exited"
  /\ UNCHANGED <<array, gate, others, ready, gone, batch, stop, evfd, fds>>

\* grow_clients_array succeeds.
CanGrow == nclients < MaxClients /\ cap < MaxClients

Doubled == IF cap = 0 THEN 2 ELSE 2 * cap
GrownUnclamped == IF nclients < cap THEN cap ELSE Doubled
GrownCap ==
  IF nclients < cap THEN cap
  ELSE IF Doubled > MaxClients THEN MaxClients ELSE Doubled

\* An allocation fails: the client's (descriptor 0 is spared), the array's, or
\* a buffer's after the array has grown.
AcceptNomem ==
  /\ "nomem" \in Faults
  /\ Dequeue
  /\ nclients < MaxClients
  /\ \/ UNCHANGED <<stdin, cap>>
     \/ CanGrow /\ stdin' = FALSE /\ cap' \in {cap, GrownCap}
  /\ loop' = "exited"
  /\ UNCHANGED <<clients, nclients, idx, live, gate, others, ready, gone, batch,
                 stop, evfd, fds>>

\* cb_accept or EPOLL_CTL_ADD fails: the client is freed with its fd set to
\* -1, and the descriptor stays open.
AcceptAddFails ==
  /\ "add" \in Faults
  /\ Dequeue
  /\ CanGrow
  /\ cap' = GrownCap
  /\ fds' = fds + 1
  /\ loop' = "exited"
  /\ UNCHANGED <<clients, nclients, idx, live, gate, others, ready, gone, batch,
                 stop, evfd, stdin>>

AcceptOk ==
  /\ Dequeue
  /\ CanGrow
  /\ cap' = GrownCap
  /\ \E c \in Clis \ live :
       /\ live' = live \cup {c}
       /\ clients' = [clients EXCEPT ![nclients] = c]
       /\ idx' = [idx EXCEPT ![c] = nclients]
  /\ nclients' = nclients + 1
  /\ fds' = fds + 1
  /\ UNCHANGED <<gate, others, ready, gone, loop, batch, stop, evfd, stdin>>

-----------------------------------------------------------------------------
(* handle_event_tcp_cli                                                    *)

HandleCli(c) ==
  /\ loop = "reap"
  /\ c \in batch
  /\ batch' = batch \ {c}

\* recv and send go well and the client stays; the end of the stream is not
\* an empty read.
ServeEof(c) ==
  /\ HandleCli(c)
  /\ ready' = ready \ {c}
  /\ UNCHANGED <<array, gate, others, backlog, gone, loop, stop, evfd, stdin, fds>>

ServeCli(c) ==
  /\ HandleCli(c)
  /\ c \in ready
  /\ ready' = ready \ {c}
  /\ UNCHANGED <<array, gate, others, backlog, gone, loop, stop, evfd, stdin, fds>>

\* adjust_epoll_events fails: its error is the event loop's.
ServeModFails(c) ==
  /\ "mod" \in Faults
  /\ HandleCli(c)
  /\ c \in ready
  /\ ready' = ready \ {c}
  /\ loop' = "exited"
  /\ UNCHANGED <<array, gate, others, backlog, gone, stop, evfd, stdin, fds>>

ShrunkCap(n) == IF cap - n < ShrinkFree THEN cap ELSE n + ShrinkSlack

\* shrink_clients_array; a realloc that fails leaves the array as it is.
Shrink(n) ==
  \/ cap' = ShrunkCap(n)
  \/ "nomem" \in Faults /\ UNCHANGED cap

\* The array part of ais_sock_tcp_srv_close_cli: the last client takes the
\* place of the closed one.
IdxKept(c, moved) == UNCHANGED idx
IdxPastEnd(c, moved) == idx' = [idx EXCEPT ![moved] = nclients]
IdxMoved(c, moved) == idx' = IF moved = c THEN idx ELSE [idx EXCEPT ![moved] = idx[c]]

SwapRemove(c) ==
  LET last == nclients - 1
      moved == clients[last]
  IN /\ clients' = [clients EXCEPT ![idx[c]] = moved, ![last] = NoCli]
     /\ IdxMoved(c, moved)
     /\ nclients' = last
     /\ Shrink(last)

\* Its last part: a disarmed listening socket is armed again.
RearmInverted ==
  IF accepting_conns THEN armed' = TRUE /\ accepting_conns' = TRUE ELSE UNCHANGED gate
Rearm ==
  IF accepting_conns THEN UNCHANGED gate
  ELSE \/ armed' = TRUE /\ accepting_conns' = TRUE
       \/ "mod" \in Faults /\ UNCHANGED gate

\* ais_sock_tcp_cli_free: close(cli->fd) ends what epoll reports of it.
FreeMoved(c) ==
  LET d == clients[nclients - 1]
  IN live' = live \ {d} /\ ready' = ready \ {d} /\ gone' = gone \ {d} /\ fds' = fds - 1
FreeCli(c) ==
  live' = live \ {c} /\ ready' = ready \ {c} /\ gone' = gone \ {c} /\ fds' = fds - 1

\* An error, the end of the stream or of the last response closes the client.
CloseCli(c) ==
  /\ HandleCli(c)
  /\ SwapRemove(c)
  /\ FreeCli(c)
  /\ Rearm
  /\ UNCHANGED <<others, backlog, loop, stop, evfd, stdin>>

-----------------------------------------------------------------------------
(* ais_sock_tcp_srv_stop, of another thread or a signal handler, and       *)
(* ais_sock_tcp_srv_free, after the loop has returned.                     *)

StopFlag ==
  /\ ~stopping
  /\ loop # "freed"
  /\ should_stop' = TRUE
  /\ stopping' = TRUE
  /\ UNCHANGED <<array, gate, world, loop, batch, evfd, stdin, fds>>

WriteFirst ==
  /\ ~should_stop
  /\ ~stopping
  /\ evfd' = TRUE
  /\ UNCHANGED <<array, gate, world, loop, batch, stop, stdin, fds>>
StopWrite ==
  /\ stopping
  /\ loop # "freed"
  /\ evfd' = TRUE
  /\ stopping' = FALSE
  /\ UNCHANGED <<array, gate, world, loop, batch, should_stop, stdin, fds>>

SrvFree ==
  /\ loop = "exited"
  /\ loop' = "freed"
  /\ clients' = [i \in Slots |-> NoCli]
  /\ nclients' = 0
  /\ cap' = 0
  /\ live' = {}
  /\ fds' = fds - nclients
  /\ batch' = {}
  /\ ready' = {}
  /\ gone' = {}
  /\ backlog' = 0
  /\ UNCHANGED <<idx, gate, others, stop, evfd, stdin>>

-----------------------------------------------------------------------------
(* Peers and the rest of the process.                                      *)

Connect ==
  /\ loop \notin {"setup", "freed"}
  /\ backlog < MaxBacklog
  /\ backlog' = backlog + 1
  /\ UNCHANGED <<array, gate, others, ready, gone, loop, batch, stop, evfd, stdin, fds>>

PeerActive(c) ==
  /\ c \in live \ (ready \cup gone)
  /\ ready' = ready \cup {c}
  /\ UNCHANGED <<array, gate, others, backlog, gone, loop, batch, stop, evfd, stdin, fds>>

PeerLeave(c) ==
  /\ c \in live \ gone
  /\ gone' = gone \cup {c}
  /\ UNCHANGED <<array, gate, others, backlog, ready, loop, batch, stop, evfd, stdin, fds>>

OtherOpens ==
  /\ others < MaxOther
  /\ fds + others < FdLimit
  /\ others' = others + 1
  /\ UNCHANGED <<array, gate, backlog, ready, gone, loop, batch, stop, evfd, stdin, fds>>

OtherCloses ==
  /\ others > 0
  /\ others' = others - 1
  /\ UNCHANGED <<array, gate, backlog, ready, gone, loop, batch, stop, evfd, stdin, fds>>

-----------------------------------------------------------------------------
Accept ==
  \/ AcceptEmfile \/ AcceptAgain \/ AcceptAborted \/ AcceptFull
  \/ AcceptNoGrow \/ AcceptNomem \/ AcceptAddFails \/ AcceptOk

Loop ==
  \/ Run \/ RunFails \/ CheckStop \/ EpollWait \/ EpollFails \/ BatchDone \/ HandleEvFd
  \/ HandleSrv \/ HandleSrvFails \/ Accept
  \/ \E c \in Clis : ServeCli(c) \/ ServeModFails(c) \/ CloseCli(c)

Peers ==
  \/ Connect
  \/ \E c \in Clis : PeerActive(c) \/ PeerLeave(c)

Next ==
  \/ Loop \/ EpollIntr \/ StopFlag \/ StopWrite \/ SrvFree
  \/ Peers \/ OtherOpens \/ OtherCloses

Spec == Init /\ [][Next]_vars

\* The worker's thread keeps running, and a stop that has begun goes on.
Fairness ==
  /\ WF_vars(Loop)
  /\ WF_vars(StopWrite)

FairSpec == Spec /\ Fairness

\* Moreover no connection stays for ever, and the other users of descriptors
\* give theirs back.
PatientSpec ==
  /\ FairSpec
  /\ \A c \in Clis : WF_vars(PeerLeave(c))
  /\ WF_vars(OtherCloses)

-----------------------------------------------------------------------------
(* Properties.                                                             *)

Running == loop \in {"setup", "top", "wait", "reap", "accept"}

\* The types of the variables.
TypeOK ==
  /\ clients \in [Slots -> Clis \cup {NoCli}]
  /\ nclients \in 0 .. MaxClients
  /\ cap \in Nat
  /\ idx \in [Clis -> Slots]
  /\ live \subseteq Clis
  /\ loop \in {"setup", "top", "wait", "reap", "accept", "exited", "freed"}
  /\ batch \subseteq Clis \cup {"srv", "ev"}
  /\ armed \in BOOLEAN /\ accepting_conns \in BOOLEAN
  /\ should_stop \in BOOLEAN /\ stopping \in BOOLEAN /\ evfd \in BOOLEAN /\ stdin \in BOOLEAN
  /\ fds \in Int
  /\ others \in 0 .. MaxOther
  /\ backlog \in 0 .. MaxBacklog
  /\ ready \subseteq Clis /\ gone \subseteq Clis

\* The array lists exactly the allocated clients, without holes, and each one
\* knows its place: so the swap in close_cli moves and closes the right ones.
DenseArray ==
  /\ \A i \in 0 .. nclients - 1 : clients[i] \in live /\ idx[clients[i]] = i
  /\ \A i \in nclients .. MaxClients - 1 : clients[i] = NoCli
  /\ \A c \in live : idx[c] \in 0 .. nclients - 1 /\ clients[idx[c]] = c

\* The assertion of __handle_event_tcp_srv, with the limit that the growth and
\* the shrinking keep: no client is stored beyond the array.
WithinCap == nclients <= cap /\ cap <= MaxClients

\* An event of the batch, and the kernel's interest, never name a client that
\* was freed meanwhile by an earlier event of the batch.
EventsLive == (batch \cup ready \cup gone) \cap Clis \subseteq live

\* While the worker runs every descriptor it accepted is a client's, and no
\* clean-up has closed descriptor 0. The paths that go wrong end the loop, so
\* over a run, its clean-up included, one of them at most goes wrong, and in one
\* way: it leaves its own descriptor open, or closes descriptor 0.
DescriptorsExact ==
  LET lost == fds - Cardinality(live)
  IN /\ lost \in {0, 1} /\ (~stdin => lost = 0)
     /\ Running => lost = 0 /\ stdin

\* The comment "Maximum clients reached, drop the connection": without a
\* failing call, the loop ends only when it is told to.
EndsOnlyWhenStopped == loop = "exited" => should_stop

\* A stop request is never lost between the test of should_stop and the
\* epoll_wait that follows it.
StopWorks == should_stop ~> ~Running

\* After a back-off the listening socket is armed again once a client leaves.
LeaveEndsBackoff == (~armed /\ gone # {}) ~> (armed \/ ~Running)

\* The comment of handle_error_from_accept4, "Wait until a client disconnects,
\* then re-enable EPOLLIN event": the back-off is not for ever.
BackoffEnds == ~armed ~> (armed \/ ~Running)
=============================================================================
