------------------------------ MODULE HttpConn ------------------------------
(***************************************************************************)
(* One HTTP connection: the events of its client in libaishttpd/tcp.c and  *)
(* the request state machine of libaishttpd/http.c that they drive. The    *)
(* peer may pipeline, leave, and read as slowly as it likes; another       *)
(* worker may refresh the size of the file being streamed.                 *)
(*                                                                         *)
(* One step is one system call of the handler or one turn of the loop of   *)
(* ais_http_handle_req. Bytes are counted in units: a request header has   *)
(* HdrLen of them; a response header, with a text body if it has one, and  *)
(* a chunk of a file are one unit each. Requests are those whose URI        *)
(* gwnet_http1.c parses within its buffer (HdrParser says which).          *)
(***************************************************************************)
EXTENDS Integers, Sequences, AisBuf, Router

CONSTANTS
  Scripts,      \* what a peer may ask for: sequences of requests
  HdrLen,       \* units of a request header
  FileLen,      \* chunks of the file at first
  MaxResize,    \* bound: changes of the file and refreshes of its size
  RxCap,        \* units the receive buffer starts with (1024 bytes)
  RxInc,        \* units it grows by (4096 bytes)
  TxCap,        \* units the send buffer starts with (512 bytes)
  Faults        \* failures that happen: "nomem", "read", "intr", "leave"

Requests == [keep : BOOLEAN, good : BOOLEAN, target : Targets]

ASSUME HttpConnAssumption ==
  /\ Scripts \subseteq Seq(Requests)
  /\ HdrLen \in Nat \ {0}
  /\ FileLen \in Nat /\ MaxResize \in Nat
  /\ RxCap \in Nat \ {0} /\ RxInc \in Nat \ {0} /\ TxCap \in Nat \ {0}

VARIABLES
  script,       \* the requests: [keep, good, target]
  peer,         \* units the peer has written
  pipelined,    \* ghost: it has not always waited for the whole response
  shut,         \* the peer has closed its side
  taken,        \* units received
  rx, tx,       \* cli->rx_buf, cli->tx_buf
  epollout,     \* EPOLLOUT in cli->ep_mask
  pc,           \* where the handler of the connection's events is; "aborted" is
                \* the end of its whole thread
  state,        \* req->state
  keep_alive,   \* req->keep_alive
  body,         \* type of req->res.body; "dir" is a file that is a directory
  file_off,     \* req->res.body.file_off
  size, disk,   \* f->size, and the length the file has
  resizes,      \* bound
  out, sent     \* ghost: units put into tx, and how many of them are sent

buffers == <<taken, rx, tx, out, sent>>
request == <<state, keep_alive, body, file_off>>
peers   == <<script, peer, pipelined, shut>>
env     == <<peers, disk, resizes>>
vars    == <<buffers, request, env, epollout, pc, size>>

Init ==
  /\ script \in Scripts
  /\ peer = 0 /\ pipelined = FALSE /\ shut = FALSE
  /\ taken = 0
  /\ rx = NewBuf(RxCap) /\ tx = NewBuf(TxCap)
  /\ epollout = FALSE
  /\ pc = "wait"
  /\ state = "INIT" /\ keep_alive = FALSE /\ body = "none" /\ file_off = 0
  /\ size = FileLen /\ disk = FileLen /\ resizes = 0
  /\ out = <<>> /\ sent = 0

-----------------------------------------------------------------------------
\* Units of the stream that the parser has consumed, requests among them that
\* are complete, and units the next header still misses.
Parsed  == taken - rx.len
Cur     == Parsed \div HdrLen
Missing == HdrLen - (Parsed % HdrLen)

\* A unit of the output: the header of response i is <<i, 0>>, its k-th chunk
\* is <<i, k>>.
Chunks(i) == IF Respond(script[i].target).body = "file" THEN FileLen ELSE 0
Complete(i) == \E n \in 1 .. sent : out[n] = <<i, Chunks(i)>>

-----------------------------------------------------------------------------
(* The peer, and the other users of the file.                              *)

Gone == pc \in {"closed", "undefined", "aborted"}

\* The peer writes; a request begins after a whole response, or is pipelined.
PeerSend ==
  /\ ~Gone /\ ~shut
  /\ peer < HdrLen * Len(script)
  /\ peer' = peer + 1
  /\ LET first == peer > 0 /\ (peer % HdrLen) = 0
     IN pipelined' = (pipelined \/ (first /\ ~Complete(peer \div HdrLen)))
  /\ UNCHANGED <<buffers, request, script, shut, disk, resizes, epollout, pc, size>>

PeerLeave ==
  /\ "leave" \in Faults
  /\ ~Gone /\ ~shut
  /\ shut' = TRUE
  /\ UNCHANGED <<buffers, request, script, peer, pipelined, disk, resizes, epollout, pc, size>>

\* The file changes, or another request's fstat sees that it has changed.
Resize ==
  /\ ~Gone
  /\ resizes < MaxResize
  /\ resizes' = resizes + 1
  /\ \/ disk' \in 0 .. FileLen + 1 /\ UNCHANGED size
     \/ size' = disk /\ UNCHANGED disk
  /\ UNCHANGED <<buffers, request, peers, epollout, pc>>

-----------------------------------------------------------------------------
(* handle_event_tcp_cli: receiving                                         *)

Close == pc' = "closed" /\ UNCHANGED <<buffers, request, env, epollout, size>>

Readable == pc = "wait" /\ (peer > taken \/ shut)

\* realloc is never given a pointer that a soft advance moved: a full buffer is
\* not within its allocation then, and what is undefined has already happened.
Growable == Room(rx) = 0 => rx.off = 0

Grown == IF Room(rx) = 0 THEN Increase(rx, RxInc) ELSE rx

\* recv into the room behind the data; a full buffer grows first. A soft
\* advance that was not synced makes both reach outside the allocation.
RecvData ==
  /\ Readable
  /\ peer > taken
  /\ \E k \in 1 .. Room(Grown) :
       /\ k <= peer - taken
       /\ taken' = taken + k
       /\ rx' = [Grown EXCEPT !.len = @ + k]
       /\ pc' = IF Inside(rx') /\ Growable THEN "rx_cb" ELSE "undefined"
  /\ UNCHANGED <<tx, out, sent, request, env, epollout, size>>

\* recv is interrupted: the callback still sees what was received before.
RecvIntr ==
  /\ "intr" \in Faults
  /\ Readable
  /\ Growable
  /\ rx' = Grown
  /\ pc' = IF rx.len > 0 THEN "rx_cb" ELSE IF tx.len > 0 THEN "send" ELSE "adjust"
  /\ UNCHANGED <<taken, tx, out, sent, request, env, epollout, size>>

\* The end of the stream, a hang-up, or a failing allocation.
RecvFails ==
  /\ Readable
  /\ Growable
  /\ shut \/ ("nomem" \in Faults /\ Room(rx) = 0)
  /\ Close

\* handle_event_tcp_cli_recv returns; what the callback queued is sent at once.
RxDoneUnsynced ==
  /\ pc = "rx_done"
  /\ pc' = IF tx.len > 0 THEN "send" ELSE "adjust"
  /\ UNCHANGED <<buffers, request, env, epollout, size>>
RxDone ==
  /\ pc = "rx_done"
  /\ rx' = Sync(rx)
  /\ pc' = IF tx.len > 0 THEN "send" ELSE "adjust"
  /\ UNCHANGED <<taken, tx, out, sent, request, env, epollout, size>>

-----------------------------------------------------------------------------
(* handle_event_tcp_cli: sending, and adjust_epoll_events                  *)

\* EPOLLOUT without EPOLLIN.
EventOut ==
  /\ pc = "wait" /\ ~Readable
  /\ epollout
  /\ pc' = "send"
  /\ UNCHANGED <<buffers, request, env, epollout, size>>

SendNoCallback ==
  /\ pc = "send"
  /\ \E k \in 1 .. tx.len : tx' = SoftAdvance(tx, k) /\ sent' = sent + k
  /\ pc' = "adjust"
  /\ UNCHANGED <<taken, rx, out, request, env, epollout, size>>
Send ==
  /\ pc = "send"
  /\ \E k \in 1 .. tx.len : tx' = SoftAdvance(tx, k) /\ sent' = sent + k
  /\ pc' = "tx_cb"
  /\ UNCHANGED <<taken, rx, out, request, env, epollout, size>>

\* The socket's buffer is full, or send is interrupted.
SendAgain ==
  /\ pc = "send"
  /\ pc' = "adjust"
  /\ UNCHANGED <<buffers, request, env, epollout, size>>

SendFails == pc = "send" /\ shut /\ Close

\* The end of http_send_callback.
FinishedDone == tx.len = 0 /\ ~keep_alive /\ state = "DONE"
FinishedEarly == ~keep_alive
Finished == tx.len = 0 /\ ~keep_alive
TxDone ==
  /\ pc = "tx_done"
  /\ IF Finished THEN Close
     ELSE pc' = "adjust" /\ UNCHANGED <<buffers, request, env, epollout, size>>

AdjustEpoll ==
  /\ pc = "adjust"
  /\ epollout' = (tx.len > 0)
  /\ pc' = "wait"
  /\ UNCHANGED <<buffers, request, env, size>>

-----------------------------------------------------------------------------
(* ais_http_handle_req: one turn of the loop. A turn that returns 0 stays  *)
(* in the callback, one that returns -EAGAIN leaves it.                    *)

In(s) == pc \in {"rx_cb", "tx_cb"} /\ state = s

Again == pc' = IF pc = "rx_cb" THEN "rx_done" ELSE "tx_done"

ReqInit ==
  /\ In("INIT") \/ In("DONE")
  /\ state' = "RECV_HDR"
  /\ UNCHANGED <<buffers, keep_alive, body, file_off, env, epollout, pc, size>>

\* A part of a header: the parser consumes what it understands of it.
RecvHdrMore ==
  /\ In("RECV_HDR")
  /\ rx.len < Missing
  /\ \E n \in 0 .. rx.len : rx' = SoftAdvance(rx, n)
  /\ Again
  /\ UNCHANGED <<taken, tx, out, sent, request, env, epollout, size>>

\* The parser refuses the header, which it may notice at any unit of it, or
\* cannot allocate a part of it.
RecvHdrBad ==
  /\ In("RECV_HDR")
  /\ rx.len > 0
  /\ ~script[Cur + 1].good \/ "nomem" \in Faults
  /\ Close

RecvHdrDone ==
  /\ In("RECV_HDR")
  /\ rx.len >= Missing
  /\ script[Cur + 1].good
  /\ rx' = SoftAdvance(rx, Missing)
  /\ keep_alive' = script[Cur + 1].keep
  /\ state' = "RECV_BODY"
  /\ UNCHANGED <<taken, tx, out, sent, body, file_off, env, epollout, pc, size>>

\* No body is received; the route chooses the response, and the fstat of
\* ais_file_table_get_or_open refreshes the size of a file.
RecvBody ==
  /\ In("RECV_BODY")
  /\ body' = Respond(script[Cur].target).body
  /\ size' = IF body' = "file" THEN disk ELSE size
  /\ file_off' = 0
  /\ state' = "BUILD_RES"
  /\ UNCHANGED <<buffers, keep_alive, env, epollout, pc>>

\* showFile and abort throw bad_alloc where a field or a body is not allocated;
\* nothing between them and the worker's entry catches it.
RecvBodyThrows ==
  /\ "nomem" \in Faults
  /\ In("RECV_BODY")
  /\ pc' = "aborted"
  /\ UNCHANGED <<buffers, request, env, epollout, size>>

\* Append units to the output.
Emit(items) ==
  /\ tx' = IF Len(items) = 2 THEN AppendTo(AppendTo(tx, 1), 1)
           ELSE IF Len(items) = 1 THEN AppendTo(tx, 1) ELSE PrepareNeed(tx, 1)
  /\ out' = out \o items

\* construct_res_body_file: one pread, which finds nothing behind the end.
ReadInPlace(items) == Emit(items \o <<<<Cur, file_off + 1>>>>) /\ UNCHANGED file_off
ReadChunk(items) ==
  IF file_off < disk
  THEN Emit(items \o <<<<Cur, file_off + 1>>>>) /\ file_off' = file_off + 1
  ELSE Emit(items) /\ UNCHANGED file_off

BuildRes ==
  /\ In("BUILD_RES")
  /\ body \in {"buf", "file"}
  /\ IF body = "file" THEN ReadChunk(<<<<Cur, 0>>>>) ELSE Emit(<<<<Cur, 0>>>>) /\ UNCHANGED file_off
  /\ body' = IF body = "buf" THEN "none" ELSE body
  /\ state' = "SEND_RES"
  /\ UNCHANGED <<taken, rx, sent, keep_alive, env, epollout, pc, size>>

\* pread of a directory, an allocation, or pread of a file fails.
BuildResFails ==
  /\ In("BUILD_RES")
  /\ body = "dir" \/ "nomem" \in Faults \/ ("read" \in Faults /\ body = "file")
  /\ Close

MoreThanOne == body = "file" /\ file_off + 1 < size
MoreToRead == body = "file" /\ file_off < size

SendResFile ==
  /\ In("SEND_RES")
  /\ MoreToRead
  /\ ReadChunk(<<>>)
  /\ IF file_off' < size THEN Again ELSE UNCHANGED pc
  /\ UNCHANGED <<taken, rx, sent, state, keep_alive, body, env, epollout, size>>

SendResFails ==
  /\ In("SEND_RES")
  /\ MoreToRead
  /\ {"nomem", "read"} \cap Faults # {}
  /\ Close

SendResDone ==
  /\ In("SEND_RES")
  /\ ~MoreToRead
  /\ body' = "none"
  /\ file_off' = 0
  /\ state' = "DONE"
  /\ UNCHANGED <<buffers, keep_alive, env, epollout, pc, size>>

-----------------------------------------------------------------------------
Handle ==
  \/ ReqInit \/ RecvHdrMore \/ RecvHdrBad \/ RecvHdrDone \/ RecvBody
  \/ RecvBodyThrows \/ BuildRes \/ BuildResFails \/ SendResFile \/ SendResFails
  \/ SendResDone

Server ==
  \/ RecvData \/ RecvIntr \/ RecvFails \/ RxDone
  \/ EventOut \/ Send \/ SendAgain \/ SendFails \/ TxDone \/ AdjustEpoll
  \/ Handle

Next == PeerSend \/ PeerLeave \/ Resize \/ Server

Spec == Init /\ [][Next]_vars

\* The worker serves the connection's events, and the peer reads: a send that
\* is tried again and again succeeds some day.
FairSpec == Spec /\ WF_vars(Server) /\ SF_vars(Send)

-----------------------------------------------------------------------------
(* Properties.                                                             *)

\* The types of the variables; the data of a buffer fits its capacity, which
\* ais_buf_soft_advance_sync asserts.
TypeOK ==
  /\ script \in Scripts
  /\ peer \in 0 .. HdrLen * Len(script) /\ taken \in 0 .. peer
  /\ rx \in Bufs /\ rx.len <= rx.cap
  /\ tx \in Bufs /\ tx.len <= tx.cap
  /\ pc \in {"wait", "rx_cb", "rx_done", "send", "tx_cb", "tx_done", "adjust",
             "closed", "undefined", "aborted"}
  /\ state \in {"INIT", "RECV_HDR", "RECV_BODY", "BUILD_RES", "SEND_RES", "DONE"}
  /\ body \in {"none", "buf", "file", "dir"}
  /\ file_off \in Nat /\ size \in Nat /\ disk \in Nat
  /\ resizes \in 0 .. MaxResize
  /\ pipelined \in BOOLEAN /\ shut \in BOOLEAN /\ epollout \in BOOLEAN /\ keep_alive \in BOOLEAN
  /\ sent \in 0 .. Len(out)

\* The send buffer stays inside its allocation through soft advances and
\* growth, and holds exactly the units that are queued and not sent.
TxInside == Inside(tx) /\ tx.len = Len(out) - sent

\* Responses come in the order of the requests; a response is its header and
\* then its chunks, none twice, none skipped, even if the file changes.
InOrder ==
  \A n \in 1 .. Len(out) :
    IF n = 1 THEN out[n] = <<1, 0>>
    ELSE LET before == out[n - 1]
         IN out[n] \in {<<before[1], before[2] + 1>>, <<before[1] + 1, 0>>}

\* As long as the file has not changed, a response also has all its chunks
\* before the next one begins.
WholeBodies ==
  resizes = 0 =>
    \A n \in 2 .. Len(out) :
      LET before == out[n - 1]
      IN out[n] = IF before[2] < Chunks(before[1])
                  THEN <<before[1], before[2] + 1>> ELSE <<before[1] + 1, 0>>

\* A connection that is not kept alive never waits without something to send:
\* nothing would close it any more.
CloseWhenDrained ==
  pc = "wait" /\ out # <<>> /\ ~keep_alive => tx.len > 0

\* A peer that waits for each response is never received outside the buffer, as
\* long as no file has changed: behind a file that grew, more is sent than the
\* peer waits for, and what it sends next meets the end of that.
NoOverrun == pc = "undefined" => pipelined \/ resizes > 0

\* A request that was received whole is answered, or the connection ends.
Answered ==
  \A i \in 1 .. 3 :
    (taken >= HdrLen * i) ~> (Complete(i) \/ Gone)
=============================================================================
