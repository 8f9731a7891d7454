--------------------------- MODULE HttpConnProofs ---------------------------
(* Theorems about HttpConn, for every script of a peer, every size of its  *)
(* headers, of the buffers and of the file, and any failures.              *)
EXTENDS HttpConn, AisBufProofs

InRequest == {"RECV_BODY", "BUILD_RES"}

Last == out[Len(out)]
\* The request that was last answered, if only in part.
Responded == IF out = <<>> THEN 0 ELSE Last[1]

Served == Respond(script[Cur].target).body

\* The parser is between two headers except in RECV_HDR.
Reading ==
  /\ rx.len <= taken
  /\ state = "INIT" => Parsed = 0
  /\ state \notin {"INIT", "RECV_HDR"} => Parsed % HdrLen = 0 /\ Cur >= 1

\* What is queued belongs to the requests that were parsed, up to the last.
Answering ==
  /\ out \in Seq((Nat \ {0}) \X Nat)
  /\ \A n \in 1 .. Len(out) : out[n][1] <= Responded
  /\ Responded = IF state \in InRequest THEN Cur - 1 ELSE Cur
  /\ state = "BUILD_RES" => file_off = 0
  /\ state = "SEND_RES" /\ body = "file" => Last = <<Cur, file_off>>

\* While the file has not changed: how much of a response is queued.
Counting ==
  resizes = 0 =>
    /\ size = FileLen /\ disk = FileLen
    /\ state # "SEND_RES" /\ out # <<>> => Last[2] = Chunks(Last[1])
    /\ state = "BUILD_RES" => body = Served
    /\ state = "SEND_RES" =>
         IF body = "file" THEN Served = "file" /\ file_off <= FileLen
         ELSE Last[2] = Chunks(Last[1])

\* Where a callback may stop, and that the connection waits for the peer to read
\* only with something to send, and otherwise is to be kept.
Draining ==
  /\ pc \in {"wait", "rx_done", "send", "tx_done", "adjust"} => state \notin InRequest
  /\ pc = "send" => tx.len > 0
  /\ pc = "wait" /\ epollout => tx.len > 0
  /\ pc \in {"wait", "rx_cb", "rx_done", "adjust"} /\ state \notin InRequest =>
       out = <<>> \/ keep_alive \/ tx.len > 0

\* A peer that has always waited has what it waited for, and nothing of it is
\* received before the response to the request before is sent.
Waiting ==
  ~pipelined =>
    /\ \A k \in 1 .. Len(script) : peer > HdrLen * k => Complete(k)
    /\ resizes = 0 =>
         /\ pc # "undefined"
         /\ pc \in {"wait", "send", "tx_cb", "tx_done", "adjust"} => rx.off = 0
         /\ pc \in {"send", "tx_cb"} => rx.len = 0

IInv ==
  /\ TypeOK /\ TxInside /\ InOrder /\ WholeBodies
  /\ Reading /\ Answering /\ Counting /\ Draining /\ Waiting

-----------------------------------------------------------------------------
(* What the definitions come to.                                           *)

LEMMA ServedBody == ASSUME NEW t \in Targets PROVE Respond(t).body \in {"buf", "file", "dir"}
BY DEF Targets, Respond, ShowFile, Text, Routes

\* Where the parser is in the stream, and that the script has the request.
LEMMA Position ==
  ASSUME TypeOK, Reading
  PROVE  /\ Parsed \in Nat /\ Cur \in Nat /\ Missing \in 1 .. HdrLen
         /\ Parsed = HdrLen * Cur + (Parsed % HdrLen)
         /\ Cur <= Len(script) /\ Len(script) \in Nat
         /\ rx.len > 0 => Cur < Len(script)
<1> USE HttpConnAssumption
<1>1. Parsed \in Nat /\ rx.len \in Nat /\ taken \in Nat /\ Parsed = taken - rx.len
  <2>1. taken \in 0 .. peer /\ rx \in Bufs /\ rx.len <= taken
    BY Zenon DEF TypeOK, Reading
  <2> QED
    BY <2>1 DEF Bufs, Parsed
<1>2. Parsed = HdrLen * Cur + (Parsed % HdrLen) /\ Parsed % HdrLen \in 0 .. HdrLen - 1 /\ Cur \in Nat
  <2>1. HdrLen \in Nat \ {0}
    OBVIOUS
  <2> QED
    BY <1>1, <2>1, DivMod, Zenon DEF Cur
<1>3. Len(script) \in Nat
  BY DEF TypeOK
<1>4. HdrLen * Len(script) \in Nat
  BY <1>3, TimesNat
<1>5. taken <= HdrLen * Len(script)
  BY <1>4 DEF TypeOK
<1>6. Parsed <= HdrLen * Len(script) /\ (rx.len > 0 => Parsed < HdrLen * Len(script))
  BY <1>1, <1>4, <1>5
<1>7. Cur <= Len(script) /\ (rx.len > 0 => Cur < Len(script))
  BY <1>1, <1>3, <1>6, DivBelow DEF Cur
<1>9. Missing \in 1 .. HdrLen
  BY <1>2 DEF Missing
<1> QED
  BY <1>1, <1>2, <1>3, <1>7, <1>9

LEMMA Requested == ASSUME TypeOK, NEW i \in 1 .. Len(script) PROVE script[i] \in Requests
BY HttpConnAssumption DEF TypeOK

Units == (Nat \ {0}) \X Nat

\* The output after n more units, and the buffer with them.
Queued(n) ==
  /\ Fit(tx') /\ Inside(tx') /\ tx'.len = tx.len + n
  /\ out' \in Seq(Units) /\ Len(out') = Len(out) + n
  /\ \A m \in 1 .. Len(out) : out'[m] = out[m]

\* Appending units to the output.
LEMMA EmitQueues ==
  ASSUME IInv, NEW items \in Seq(Units), Len(items) \in 0 .. 2, Emit(items)
  PROVE  Queued(Len(items)) /\ \A n \in 1 .. Len(items) : out'[Len(out) + n] = items[n]
<1>1. Fit(tx) /\ tx.len \in Nat
  BY DEF IInv, TypeOK, Fit, Bufs
<1>2. out \in Seq(Units) /\ out' = out \o items
  BY DEF IInv, Answering, Emit, Units
<1>3. /\ out' \in Seq(Units) /\ Len(out') = Len(out) + Len(items)
      /\ \A n \in 1 .. Len(out) : out'[n] = out[n]
      /\ \A n \in 1 .. Len(items) : out'[Len(out) + n] = items[n]
  BY <1>2
<1>4. CASE Len(items) = 0
  <2>1. tx' = PrepareNeed(tx, 1)
    BY <1>4 DEF Emit
  <2>2. Fit(tx') /\ tx'.len = tx.len /\ tx'.off = 0
    BY <1>1, <2>1, PrepareMakesRoom
  <2> QED
    BY <1>1, <1>3, <1>4, <2>2 DEF Fit, Bufs, Inside, Queued
<1>5. CASE Len(items) = 1
  <2>1. tx' = AppendTo(tx, 1)
    BY <1>5 DEF Emit
  <2>2. Fit(tx') /\ tx'.len = tx.len + 1 /\ Inside(tx')
    BY <1>1, <2>1, AppendFits
  <2> QED
    BY <1>1, <1>3, <1>5, <2>2 DEF Queued
<1>6. CASE Len(items) = 2
  <2> DEFINE one == AppendTo(tx, 1)
  <2>1. tx' = AppendTo(one, 1)
    BY <1>6 DEF Emit
  <2>2. Fit(one) /\ one.len = tx.len + 1
    BY <1>1, AppendFits
  <2> HIDE DEF one
  <2>3. Fit(tx') /\ tx'.len = one.len + 1 /\ Inside(tx')
    BY <2>1, <2>2, AppendFits
  <2> QED
    BY <1>1, <1>3, <1>6, <2>2, <2>3 DEF Queued
<1> QED
  BY <1>4, <1>5, <1>6

\* A header is queued, and if the file has any the first chunk behind it.
LEMMA BuildResQueues ==
  ASSUME IInv, BuildRes
  PROVE  \E n \in 0 .. 1 :
           /\ Queued(1 + n)
           /\ n = 1 <=> body = "file" /\ 0 < disk
           /\ out'[Len(out) + 1] = <<Cur, 0>>
           /\ n = 1 => out'[Len(out) + 2] = <<Cur, 1>>
           /\ file_off' = n
<1>1. Cur \in Nat \ {0} /\ file_off = 0 /\ disk \in Nat
  BY Position DEF IInv, Reading, Answering, BuildRes, In, TypeOK
<1> DEFINE one == <<<<Cur, 0>>>>
           two == <<<<Cur, 0>>>> \o <<<<Cur, 1>>>>
<1>2. one \in Seq(Units) /\ Len(one) = 1 /\ one[1] = <<Cur, 0>>
  BY <1>1 DEF Units
<1>3. two \in Seq(Units) /\ Len(two) = 2 /\ two[1] = <<Cur, 0>> /\ two[2] = <<Cur, 1>>
  BY <1>1 DEF Units
<1>4. CASE body = "file" /\ 0 < disk
  <2>1. Emit(two) /\ file_off' = 1
    BY <1>1, <1>4 DEF BuildRes, ReadChunk
  <2> HIDE DEF one, two
  <2>2. Queued(2) /\ out'[Len(out) + 1] = two[1] /\ out'[Len(out) + 2] = two[2]
    BY <1>3, <2>1, EmitQueues
  <2> QED
    BY <1>3, <1>4, <2>1, <2>2
<1>5. CASE ~(body = "file" /\ 0 < disk)
  <2>1. Emit(one) /\ file_off' = 0
    BY <1>1, <1>5 DEF BuildRes, ReadChunk
  <2> HIDE DEF one, two
  <2>2. Queued(1) /\ out'[Len(out) + 1] = one[1]
    BY <1>2, <2>1, EmitQueues
  <2> QED
    BY <1>2, <1>5, <2>1, <2>2
<1> QED
  BY <1>4, <1>5

\* The next chunk is queued, if the file still has it.
LEMMA SendResQueues ==
  ASSUME IInv, SendResFile
  PROVE  \E n \in 0 .. 1 :
           /\ Queued(n)
           /\ n = 1 <=> file_off < disk
           /\ n = 1 => out'[Len(out) + 1] = <<Cur, file_off + 1>>
           /\ file_off' = file_off + n
<1>1. Cur \in Nat \ {0} /\ file_off \in Nat /\ disk \in Nat
  BY Position DEF IInv, Reading, SendResFile, In, TypeOK
<1> DEFINE one == <<>> \o <<<<Cur, file_off + 1>>>>
<1>2. one \in Seq(Units) /\ Len(one) = 1 /\ one[1] = <<Cur, file_off + 1>>
  BY <1>1 DEF Units
<1>3. CASE file_off < disk
  <2>1. Emit(one) /\ file_off' = file_off + 1
    BY <1>3 DEF SendResFile, ReadChunk
  <2> HIDE DEF one
  <2>2. Queued(1) /\ out'[Len(out) + 1] = one[1]
    BY <1>2, <2>1, EmitQueues
  <2> QED
    BY <1>2, <1>3, <2>1, <2>2
<1>4. CASE ~(file_off < disk)
  <2>1. Emit(<<>>) /\ file_off' = file_off
    BY <1>4 DEF SendResFile, ReadChunk
  <2>2. <<>> \in Seq(Units) /\ Len(<<>>) = 0
    OBVIOUS
  <2>3. PICK none \in Seq(Units) : none = <<>>
    BY <2>2, Zenon
  <2>4. Len(none) = 0 /\ Len(none) \in 0 .. 2 /\ Emit(none)
    BY <2>1, <2>2, <2>3
  <2>5. Queued(Len(none))
    BY <2>4, EmitQueues
  <2>6. Queued(0)
    BY <2>4, <2>5
  <2> QED
    BY <1>1, <1>4, <2>1, <2>6
<1> QED
  BY <1>3, <1>4

\* Nothing else touches the send buffer but a send.
LEMMA OthersQueueNothing ==
  ASSUME [Next]_vars, ~BuildRes, ~SendResFile, ~Send PROVE UNCHANGED <<tx, out, sent>>
BY DEF Next, Server, Handle, vars, buffers, PeerSend, PeerLeave, Resize, RecvData, RecvIntr,
       RecvFails, RxDone, EventOut, SendAgain, SendFails, TxDone, AdjustEpoll, Close, ReqInit,
       RecvHdrMore, RecvHdrBad, RecvHdrDone, RecvBody, RecvBodyThrows, BuildResFails, SendResFails, SendResDone

\* A receive buffer that grew if it was full.
LEMMA GrownFits ==
  ASSUME Fit(rx)
  PROVE  Fit(Grown) /\ Grown.len = rx.len /\ 1 <= Room(Grown) /\ (rx.off = 0 => Grown.off = 0)
BY HttpConnAssumption DEF Grown, Increase, SetCap, Room, Fit, Bufs

LEMMA RecvAdds ==
  ASSUME TypeOK, RecvData
  PROVE  \E k \in 1 .. peer - taken :
           /\ taken' = taken + k
           /\ Fit(rx') /\ rx'.len = rx.len + k
           /\ rx.off = 0 => pc' = "rx_cb"
<1>1. Fit(rx) /\ peer \in Nat /\ taken \in Nat
  BY HttpConnAssumption DEF TypeOK, Fit, Bufs
<1> DEFINE g == Grown
<1>2. Fit(g) /\ g.len = rx.len /\ (rx.off = 0 => g.off = 0)
  BY <1>1, GrownFits
<1>3. PICK k \in 1 .. Room(g) :
        /\ k <= peer - taken /\ taken' = taken + k
        /\ rx' = [g EXCEPT !.len = @ + k]
  BY DEF RecvData
<1>4. pc' = IF Inside(rx') /\ (Room(rx) = 0 => rx.off = 0) THEN "rx_cb" ELSE "undefined"
  BY DEF RecvData, Growable
<1> HIDE DEF g
<1>5. Room(g) \in Nat /\ k \in Nat
  BY <1>2 DEF Fit, Bufs, Room
<1>6. Fit(rx') /\ rx'.len = rx.len + k /\ rx'.off = g.off /\ rx'.cap = g.cap
  BY <1>2, <1>3, <1>5 DEF Fit, Bufs, Room
<1>7. rx.off = 0 => Inside(rx')
  BY <1>2, <1>6 DEF Fit, Bufs, Inside
<1> QED
  BY <1>1, <1>3, <1>4, <1>5, <1>6, <1>7

-----------------------------------------------------------------------------
(* The steps.                                                              *)

\* The steps, with those that only close the connection together.
LEMMA ByStep ==
  [Next]_vars =>
    \/ PeerSend \/ PeerLeave \/ Resize \/ RecvData \/ RecvIntr \/ Close \/ RxDone
    \/ (EventOut \/ SendAgain \/ AdjustEpoll \/ RecvBodyThrows) \/ Send \/ TxDone
    \/ ReqInit \/ RecvHdrMore \/ RecvHdrDone \/ RecvBody \/ BuildRes \/ SendResFile \/ SendResDone
    \/ UNCHANGED vars
BY DEF Next, Server, Handle, RecvFails, SendFails, RecvHdrBad, BuildResFails, SendResFails

LEMMA TypeInit == Init => TypeOK
<1> SUFFICES ASSUME Init PROVE TypeOK
  OBVIOUS
<1>1. rx \in Bufs /\ rx.len <= rx.cap /\ tx \in Bufs /\ tx.len <= tx.cap
  BY HttpConnAssumption, NewBufFits DEF Init, Fit
<1>2. Len(script) \in Nat /\ HdrLen * Len(script) \in Nat
  BY HttpConnAssumption, TimesNat DEF Init
<1>3. script \in Scripts /\ peer \in 0 .. HdrLen * Len(script) /\ taken \in 0 .. peer
  BY <1>2 DEF Init
<1>4. pc = "wait" /\ state = "INIT" /\ body = "none"
  BY DEF Init
<1>5. file_off \in Nat /\ size \in Nat /\ disk \in Nat /\ resizes \in 0 .. MaxResize
  BY HttpConnAssumption DEF Init
<1>6. sent \in 0 .. Len(out)
  BY DEF Init
<1>7. pipelined \in BOOLEAN /\ shut \in BOOLEAN /\ epollout \in BOOLEAN /\ keep_alive \in BOOLEAN
  BY DEF Init
<1> QED
  BY <1>1, <1>3, <1>4, <1>5, <1>6, <1>7 DEF TypeOK

LEMMA TypeStep ==
  ASSUME IInv, [Next]_vars PROVE TypeOK'
<1> USE HttpConnAssumption DEF TypeOK
<1>1. TypeOK /\ Fit(rx) /\ Fit(tx)
  BY DEF IInv, Fit
<1>2. Len(script) \in Nat /\ HdrLen * Len(script) \in Nat
  BY TimesNat
<1>3. taken \in Nat /\ peer \in Nat /\ Len(out) \in Nat /\ sent \in Nat
  BY <1>2 DEF IInv, Answering
<1> USE DEF buffers, request, env, peers
<1>4. CASE PeerSend
  <2>1. peer' \in 0 .. HdrLen * Len(script) /\ taken \in 0 .. peer'
    BY <1>1, <1>2, <1>3, <1>4 DEF PeerSend
  <2>2. pipelined' \in BOOLEAN
    BY <1>1, <1>4, Zenon DEF PeerSend
  <2> QED
    BY <1>1, <1>4, <2>1, <2>2 DEF PeerSend
<1>5. CASE PeerLeave
  BY <1>1, <1>5 DEF PeerLeave
<1>6. CASE Resize
  BY <1>1, <1>6 DEF Resize
<1>7. CASE RecvData
  <2>1. taken' \in 0 .. peer /\ Fit(rx')
    BY <1>1, <1>3, <1>7, RecvAdds
  <2>2. pc' \in {"rx_cb", "undefined"}
    BY <1>7 DEF RecvData
  <2> QED
    BY <1>1, <1>7, <2>1, <2>2 DEF RecvData, Fit
<1>8. CASE RecvIntr
  <2>1. Fit(rx')
    BY <1>1, <1>8, GrownFits DEF RecvIntr
  <2>2. pc' \in {"rx_cb", "send", "adjust"}
    BY <1>8 DEF RecvIntr
  <2> QED
    BY <1>1, <1>8, <2>1, <2>2 DEF RecvIntr, Fit
<1>9. CASE Close
  BY <1>1, <1>9 DEF Close
<1>10. CASE RxDone
  <2>1. Fit(rx') /\ pc' \in {"send", "adjust"}
    BY <1>1, <1>10, SyncFits DEF RxDone
  <2> QED
    BY <1>1, <1>10, <2>1 DEF RxDone, Fit
<1>11. CASE EventOut \/ SendAgain \/ AdjustEpoll \/ RecvBodyThrows
  <2>1. epollout' = epollout \/ epollout' = (tx.len > 0)
    BY <1>11 DEF EventOut, SendAgain, AdjustEpoll, RecvBodyThrows
  <2>4. (tx.len > 0) \in BOOLEAN
    OBVIOUS
  <2>5. epollout' \in BOOLEAN
    BY <1>1, <2>1, <2>4, Zenon
  <2>2. pc' \in {"send", "adjust", "wait", "aborted"}
    BY <1>11 DEF EventOut, SendAgain, AdjustEpoll, RecvBodyThrows
  <2>3. UNCHANGED <<buffers, request, env, size>>
    BY <1>11 DEF EventOut, SendAgain, AdjustEpoll, RecvBodyThrows
  <2> QED
    BY <1>1, <2>2, <2>3, <2>5
<1>12. CASE Send
  <2>1. PICK k \in 1 .. tx.len : tx' = SoftAdvance(tx, k) /\ sent' = sent + k
    BY <1>12 DEF Send
  <2>2. tx.len = Len(out) - sent /\ tx.len \in Nat
    BY <1>1 DEF IInv, TxInside, Fit, Bufs
  <2>3. Fit(tx') /\ sent' \in 0 .. Len(out)
    BY <1>1, <1>3, <2>1, <2>2, SoftAdvanceFits
  <2> QED
    BY <1>1, <1>12, <2>3 DEF Send, Fit
<1>13. CASE TxDone
  BY <1>1, <1>13 DEF TxDone, Close
<1>14. CASE ReqInit
  BY <1>1, <1>14 DEF ReqInit
<1>15. CASE RecvHdrMore
  <2>1. Fit(rx') /\ pc' \in {"rx_done", "tx_done"}
    BY <1>1, <1>15, SoftAdvanceFits DEF RecvHdrMore, Again
  <2> QED
    BY <1>1, <1>15, <2>1 DEF RecvHdrMore, Fit
<1>16. CASE RecvHdrDone
  <2>1. Missing \in 1 .. HdrLen /\ rx.len \in Nat /\ rx.len >= Missing
    BY <1>1, <1>16, Position DEF RecvHdrDone, IInv, Fit, Bufs
  <2>2. rx.len > 0 /\ Missing \in 0 .. rx.len
    BY <2>1
  <2>3. Fit(rx')
    BY <1>1, <1>16, <2>2, SoftAdvanceFits DEF RecvHdrDone
  <2>4. Cur + 1 \in 1 .. Len(script)
    <3>1. TypeOK /\ Reading /\ rx.len > 0
      BY <2>1 DEF IInv
    <3>2. Cur \in Nat /\ Len(script) \in Nat /\ Cur < Len(script)
      BY <3>1, Position, Zenon
    <3> QED
      BY <3>2
  <2>5. keep_alive' \in BOOLEAN
    <3>1. script[Cur + 1] \in Requests
      BY <1>1, <2>4, Requested
    <3>2. keep_alive' = script[Cur + 1].keep
      BY <1>16 DEF RecvHdrDone
    <3> QED
      BY <3>1, <3>2 DEF Requests
  <2> QED
    BY <1>1, <1>16, <2>3, <2>5 DEF RecvHdrDone, Fit
<1>17. CASE RecvBody
  <2>1. Cur \in 1 .. Len(script)
    BY <1>17, Position DEF RecvBody, In, IInv, Reading
  <2>2. body' \in {"buf", "file", "dir"}
    BY <1>1, <1>17, <2>1, Requested, ServedBody DEF RecvBody, Requests
  <2> QED
    BY <1>1, <1>17, <2>2 DEF RecvBody
<1>18. CASE BuildRes
  <2>1. Fit(tx') /\ Len(out') \in Nat /\ Len(out') >= Len(out) /\ file_off' \in Nat
    BY <1>3, <1>18, BuildResQueues DEF Queued
  <2>2. body' \in {"none", "file"} /\ state' = "SEND_RES"
    BY <1>18 DEF BuildRes
  <2> QED
    BY <1>1, <1>3, <1>18, <2>1, <2>2 DEF BuildRes, Fit
<1>19. CASE SendResFile
  <2>1. Fit(tx') /\ Len(out') \in Nat /\ Len(out') >= Len(out) /\ file_off' \in Nat
    BY <1>1, <1>3, <1>19, SendResQueues DEF Queued
  <2>2. pc' \in {pc, "rx_done", "tx_done"}
    BY <1>19 DEF SendResFile, Again
  <2> QED
    BY <1>1, <1>3, <1>19, <2>1, <2>2 DEF SendResFile, Fit
<1>20. CASE SendResDone
  BY <1>1, <1>20 DEF SendResDone
<1>21. CASE UNCHANGED vars
  BY <1>1, <1>21 DEF vars
<1> QED
  BY <1>4, <1>5, <1>6, <1>7, <1>8, <1>9, <1>10, <1>11, <1>12, <1>13, <1>14, <1>15, <1>16,
     <1>17, <1>18, <1>19, <1>20, <1>21, ByStep

LEMMA TxStep ==
  ASSUME IInv, [Next]_vars PROVE TxInside'
<1>1. Fit(tx) /\ Inside(tx) /\ tx.len = Len(out) - sent /\ tx.len \in Nat
  BY DEF IInv, TypeOK, TxInside, Fit, Bufs
<1>2. Len(out) \in Nat /\ sent \in Nat
  BY DEF IInv, TypeOK, Answering
<1>3. CASE BuildRes
  <2>1. PICK n \in 0 .. 1 : Queued(1 + n)
    BY <1>3, BuildResQueues
  <2> QED
    BY <1>1, <1>2, <1>3, <2>1 DEF Queued, BuildRes, TxInside
<1>4. CASE SendResFile
  <2>1. PICK n \in 0 .. 1 : Queued(n)
    BY <1>4, SendResQueues
  <2> QED
    BY <1>1, <1>2, <1>4, <2>1 DEF Queued, SendResFile, TxInside
<1>5. CASE Send
  <2>1. PICK k \in 1 .. tx.len : tx' = SoftAdvance(tx, k) /\ sent' = sent + k
    BY <1>5 DEF Send
  <2>2. Inside(tx') /\ tx'.len = tx.len - k
    BY <1>1, <2>1, SoftAdvanceFits
  <2> QED
    BY <1>1, <1>2, <1>5, <2>1, <2>2 DEF Send, TxInside
<1>6. CASE UNCHANGED <<tx, out, sent>>
  BY <1>1, <1>6 DEF TxInside, Inside
<1> QED
  BY <1>3, <1>4, <1>5, <1>6, OthersQueueNothing

\* Only two steps move the parser on: within a header, and to its end.
LEMMA ParserStands ==
  ASSUME IInv, [Next]_vars, ~RecvHdrMore, ~RecvHdrDone
  PROVE  Parsed' = Parsed /\ Cur' = Cur /\ script' = script /\ rx'.len <= taken'
<1> USE DEF Parsed, Cur
<1>1. TypeOK /\ Fit(rx) /\ rx.len \in Nat /\ taken \in Nat /\ rx.len <= taken
  BY Position DEF IInv, TypeOK, Reading, Fit, Bufs
<1>2. CASE RecvData
  <2>1. PICK k \in 1 .. peer - taken : taken' = taken + k /\ rx'.len = rx.len + k
    BY <1>1, <1>2, RecvAdds
  <2>2. k \in Nat
    BY <2>1
  <2>3. taken' - rx'.len = taken - rx.len /\ rx'.len <= taken'
    BY <1>1, <2>1, <2>2
  <2> QED
    BY <1>2, <2>3 DEF RecvData, env, peers
<1>3. CASE RecvIntr
  <2>1. rx'.len = rx.len
    BY <1>1, <1>3, GrownFits DEF RecvIntr
  <2> QED
    BY <1>1, <1>3, <2>1 DEF RecvIntr, env, peers
<1>4. CASE RxDone
  <2>1. rx'.len = rx.len
    BY <1>1, <1>4, SyncFits DEF RxDone
  <2> QED
    BY <1>1, <1>4, <2>1 DEF RxDone, env, peers
<1>5. CASE UNCHANGED <<taken, rx, script>>
  BY <1>1, <1>5
<1>6. RecvData \/ RecvIntr \/ RxDone \/ UNCHANGED <<taken, rx, script>>
  BY ByStep DEF PeerSend, PeerLeave, Resize, Close, EventOut, SendAgain, AdjustEpoll, RecvBodyThrows,
     Send, TxDone, ReqInit, RecvBody, BuildRes, SendResFile, SendResDone, vars, buffers, env, peers
<1> QED
  BY <1>2, <1>3, <1>4, <1>5, <1>6

LEMMA ParserMore ==
  ASSUME IInv, RecvHdrMore PROVE Cur' = Cur /\ script' = script /\ rx'.len <= taken'
<1>1. TypeOK /\ Fit(rx) /\ rx.len \in Nat /\ taken \in Nat /\ rx.len <= taken /\ Parsed = taken - rx.len
  BY DEF IInv, TypeOK, Reading, Fit, Bufs, Parsed
<1>2. PICK n \in 0 .. rx.len : rx' = SoftAdvance(rx, n)
  BY DEF RecvHdrMore
<1>3. rx.len < Missing /\ taken' = taken /\ script' = script
  BY DEF RecvHdrMore, env, peers
<1>4. rx'.len = rx.len - n
  BY <1>1, <1>2, SoftAdvanceFits
<1>5. Parsed' = Parsed + n /\ n \in Nat /\ n < Missing
  BY <1>1, <1>3, <1>4, Position DEF Parsed, IInv
<1>6. (Parsed + n) \div HdrLen = Parsed \div HdrLen
  BY <1>1, <1>5, HttpConnAssumption, Position, DivWithin DEF Missing, IInv
<1> QED
  BY <1>1, <1>3, <1>4, <1>5, <1>6 DEF Cur

LEMMA ParserDone ==
  ASSUME IInv, RecvHdrDone
  PROVE  Cur' = Cur + 1 /\ Parsed' % HdrLen = 0 /\ script' = script /\ rx'.len <= taken'
<1>1. TypeOK /\ Fit(rx) /\ rx.len \in Nat /\ taken \in Nat /\ rx.len <= taken /\ Parsed = taken - rx.len
  BY DEF IInv, TypeOK, Reading, Fit, Bufs, Parsed
<1>2. Missing \in 1 .. HdrLen /\ Missing <= rx.len /\ Parsed \in Nat
  BY <1>1, Position DEF RecvHdrDone, IInv
<1>3. rx' = SoftAdvance(rx, Missing) /\ taken' = taken /\ script' = script
  BY DEF RecvHdrDone, env, peers
<1>4. rx'.len = rx.len - Missing
  BY <1>1, <1>2, <1>3, SoftAdvanceFits
<1>5. Parsed' = Parsed + Missing
  BY <1>1, <1>2, <1>3, <1>4 DEF Parsed
<1>6. (Parsed + Missing) \div HdrLen = (Parsed \div HdrLen) + 1 /\ (Parsed + Missing) % HdrLen = 0
  BY <1>2, HttpConnAssumption, DivNext DEF Missing
<1> QED
  BY <1>1, <1>2, <1>3, <1>4, <1>5, <1>6 DEF Cur

LEMMA ReadingStep ==
  ASSUME IInv, [Next]_vars PROVE Reading'
<1>1. CASE RecvHdrMore
  BY <1>1, ParserMore DEF RecvHdrMore, Reading, In, request
<1>2. CASE RecvHdrDone
  <2>1. Cur' >= 1
    BY <1>2, ParserDone, Position DEF IInv
  <2> QED
    BY <1>2, <2>1, ParserDone DEF RecvHdrDone, Reading
<1>3. CASE ~RecvHdrMore /\ ~RecvHdrDone
  <2>1. Parsed' = Parsed /\ Cur' = Cur /\ rx'.len <= taken'
    BY <1>3, ParserStands
  <2>2. state' = state \/ (state' # "INIT" /\ state # "RECV_HDR" /\ state # "INIT")
        \/ (state' = "RECV_HDR")
    BY <1>3, ByStep DEF PeerSend, PeerLeave, Resize, RecvData, RecvIntr, Close, RxDone, EventOut,
       SendAgain, AdjustEpoll, RecvBodyThrows, Send, TxDone, ReqInit, RecvBody, BuildRes, SendResFile,
       SendResDone, In, vars, request
  <2> QED
    BY <2>1, <2>2 DEF IInv, Reading
<1> QED
  BY <1>1, <1>2, <1>3

\* Where a response begins, and how it goes on.
LEMMA BuildResOutput ==
  ASSUME IInv, BuildRes
  PROVE  /\ Answering' /\ InOrder'
         /\ \A m \in 1 .. Len(out) : out'[m] = out[m]
         /\ Len(out') \in {Len(out) + 1, Len(out) + 2}
         /\ out'[Len(out) + 1] = <<Cur, 0>>
         /\ Len(out') = Len(out) + 2 => body = "file" /\ 0 < disk /\ out'[Len(out) + 2] = <<Cur, 1>> /\ file_off' = 1
         /\ Len(out') = Len(out) + 1 => ~(body = "file" /\ 0 < disk) /\ file_off' = 0
<1>1. PICK n \in 0 .. 1 :
        /\ Queued(1 + n)
        /\ n = 1 <=> body = "file" /\ 0 < disk
        /\ out'[Len(out) + 1] = <<Cur, 0>>
        /\ n = 1 => out'[Len(out) + 2] = <<Cur, 1>>
        /\ file_off' = n
  BY BuildResQueues
<1>2. /\ out \in Seq(Units) /\ Len(out) \in Nat /\ out' \in Seq(Units) /\ Len(out') = Len(out) + 1 + n
      /\ \A m \in 1 .. Len(out) : out'[m] = out[m]
  BY <1>1 DEF IInv, Answering, Units, Queued
<1>3. Cur \in Nat \ {0} /\ Responded = Cur - 1 /\ state' = "SEND_RES" /\ Cur' = Cur
  <2>1. Cur' = Cur
    BY DEF BuildRes, Cur, Parsed
  <2> QED
    BY <2>1, Position DEF IInv, Reading, Answering, InRequest, BuildRes, In
<1>4. out # <<>> => Len(out) \in 1 .. Len(out) /\ out[Len(out)][1] = Cur - 1
  BY <1>2, <1>3 DEF Responded, Last
<1>5. out = <<>> => Cur = 1
  BY <1>3 DEF Responded
<1>6. InOrder'
  <2> SUFFICES ASSUME NEW m \in 1 .. Len(out')
               PROVE  IF m = 1 THEN out'[m] = <<1, 0>>
                      ELSE out'[m] \in {<<out'[m - 1][1], out'[m - 1][2] + 1>>, <<out'[m - 1][1] + 1, 0>>}
    BY DEF InOrder
  <2>1. CASE m <= Len(out)
    BY <1>2, <2>1 DEF IInv, InOrder
  <2>2. CASE m = Len(out) + 1
    <3>1. CASE out = <<>>
      BY <1>1, <1>2, <1>5, <2>2, <3>1
    <3>2. CASE out # <<>>
      <4>1. m # 1 /\ m - 1 = Len(out) /\ m - 1 \in 1 .. Len(out)
        BY <1>2, <1>4, <2>2, <3>2
      <4>2. out'[m - 1][1] + 1 = Cur
        BY <1>2, <1>3, <1>4, <3>2, <4>1
      <4>3. out'[m] = <<Cur, 0>>
        BY <1>1, <2>2
      <4> QED
        BY <4>1, <4>2, <4>3
    <3> QED
      BY <3>1, <3>2
  <2>3. CASE m = Len(out) + 2
    <3>1. n = 1 /\ m - 1 = Len(out) + 1 /\ m # 1
      BY <1>2, <2>3
    <3>2. out'[m - 1] = <<Cur, 0>> /\ out'[m] = <<Cur, 1>>
      BY <1>1, <2>3, <3>1
    <3>3. out'[m - 1][1] = Cur /\ out'[m - 1][2] + 1 = 1
      BY <3>2
    <3> QED
      BY <3>1, <3>2, <3>3
  <2> QED
    BY <1>2, <2>1, <2>2, <2>3
<1>7. Answering'
  <2>1. Last' = <<Cur, n>> /\ out' # <<>> /\ Responded' = Cur
    BY <1>1, <1>2, <1>3 DEF Last, Responded
  <2>2. ASSUME NEW m \in 1 .. Len(out) PROVE out[m][1] <= Cur
    <3>1. out[m] \in Units
      BY <1>2
    <3>2. out[m][1] <= Cur - 1
      BY <1>3 DEF IInv, Answering
    <3> QED
      BY <1>3, <3>1, <3>2 DEF Units
  <2>3. \A m \in 1 .. Len(out') : out'[m][1] <= Cur
    BY <1>1, <1>2, <1>3, <2>2
  <2>4. out' \in Seq((Nat \ {0}) \X Nat)
    BY <1>2 DEF Units
  <2>5. state' = "SEND_RES" /\ Cur' = Cur /\ file_off' = n
    BY <1>1, <1>3
  <2> QED
    BY <2>1, <2>3, <2>4, <2>5 DEF Answering, InRequest
<1> QED
  BY <1>1, <1>2, <1>6, <1>7

LEMMA SendResOutput ==
  ASSUME IInv, SendResFile
  PROVE  /\ Answering' /\ InOrder'
         /\ \A m \in 1 .. Len(out) : out'[m] = out[m]
         /\ Len(out') \in {Len(out), Len(out) + 1}
         /\ Len(out') = Len(out) + 1 => out'[Len(out) + 1] = <<Cur, file_off + 1>> /\ file_off' = file_off + 1 /\ file_off < disk
         /\ Len(out') = Len(out) => out' = out /\ file_off' = file_off /\ ~(file_off < disk)
<1>1. PICK n \in 0 .. 1 :
        /\ Queued(n)
        /\ n = 1 <=> file_off < disk
        /\ n = 1 => out'[Len(out) + 1] = <<Cur, file_off + 1>>
        /\ file_off' = file_off + n
  BY SendResQueues
<1>2. /\ out \in Seq(Units) /\ Len(out) \in Nat /\ out' \in Seq(Units) /\ Len(out') = Len(out) + n
      /\ \A m \in 1 .. Len(out) : out'[m] = out[m]
  BY <1>1 DEF IInv, Answering, Units, Queued
<1>3. Cur \in Nat \ {0} /\ Responded = Cur /\ Last = <<Cur, file_off>> /\ file_off \in Nat
  BY Position DEF IInv, Reading, Answering, InRequest, SendResFile, MoreToRead, In, TypeOK
<1>4. out # <<>>
  BY <1>3 DEF Responded
<1>5. state' = state /\ body' = body /\ Cur' = Cur /\ state = "SEND_RES" /\ body = "file"
  BY DEF SendResFile, Cur, Parsed, In, MoreToRead
<1>6. CASE n = 0
  <2>1. out' = out
    BY <1>2, <1>6
  <2>2. file_off' = file_off /\ Last' = Last /\ Responded' = Responded
    BY <1>1, <1>3, <1>6, <2>1 DEF Last, Responded
  <2>3. Answering' /\ InOrder'
    BY <1>5, <2>1, <2>2 DEF IInv, Answering, InOrder, InRequest
  <2>4. Len(out') = Len(out) /\ ~(file_off < disk)
    BY <1>1, <1>6, <2>1
  <2> QED
    BY <1>2, <2>1, <2>2, <2>3, <2>4
<1>7. CASE n = 1
  <2>1. Last' = <<Cur, file_off + 1>> /\ out' # <<>> /\ Responded' = Cur
    BY <1>1, <1>2, <1>3, <1>5, <1>7 DEF Last, Responded
  <2>2. \A m \in 1 .. Len(out') : out'[m][1] <= Cur
    <3>1. \A m \in 1 .. Len(out) : out[m][1] <= Cur
      BY <1>3 DEF IInv, Answering
    <3> QED
      BY <1>1, <1>2, <1>3, <1>7, <3>1
  <2>3. Answering'
    BY <1>1, <1>2, <1>3, <1>5, <1>7, <2>1, <2>2 DEF Answering, Units, InRequest
  <2>4. InOrder'
    <3> SUFFICES ASSUME NEW m \in 1 .. Len(out')
                 PROVE  IF m = 1 THEN out'[m] = <<1, 0>>
                        ELSE out'[m] \in {<<out'[m - 1][1], out'[m - 1][2] + 1>>, <<out'[m - 1][1] + 1, 0>>}
      BY DEF InOrder
    <3>1. CASE m <= Len(out)
      BY <1>2, <3>1 DEF IInv, InOrder
    <3>2. CASE m = Len(out) + 1
      <4>1. m # 1 /\ out'[m - 1] = <<Cur, file_off>>
        BY <1>2, <1>3, <1>4, <3>2 DEF Last
      <4> QED
        BY <1>1, <1>3, <1>7, <3>2, <4>1
    <3> QED
      BY <1>2, <1>7, <3>1, <3>2
  <2> QED
    BY <1>1, <1>2, <1>7, <2>3, <2>4
<1> QED
  BY <1>6, <1>7

LEMMA OutputStands ==
  ASSUME [Next]_vars, ~BuildRes, ~SendResFile PROVE out' = out
BY OthersQueueNothing DEF Send

LEMMA AnsweringStep ==
  ASSUME IInv, [Next]_vars PROVE Answering' /\ InOrder'
<1>1. CASE BuildRes
  BY <1>1, BuildResOutput
<1>2. CASE SendResFile
  BY <1>2, SendResOutput
<1>3. CASE ~BuildRes /\ ~SendResFile
  <2>1. out' = out /\ InOrder' /\ Last' = Last /\ Responded' = Responded
    BY <1>3, OutputStands DEF IInv, InOrder, Last, Responded
  <2>2. CASE RecvHdrDone
    <3>1. Cur' = Cur + 1 /\ Cur \in Nat
      BY <2>2, ParserDone, Position DEF IInv
    <3> QED
      BY <2>1, <2>2, <3>1 DEF RecvHdrDone, In, IInv, Answering, InRequest
  <2>3. CASE ~RecvHdrDone
    <3>1. Cur' = Cur
      BY <2>3, ParserMore, ParserStands
    <3>2. CASE RecvBody
      BY <2>1, <3>1, <3>2 DEF RecvBody, In, IInv, Answering, InRequest
    <3>3. CASE ReqInit \/ SendResDone
      BY <2>1, <3>1, <3>3 DEF ReqInit, SendResDone, In, IInv, Answering, InRequest
    <3>4. CASE UNCHANGED request
      BY <2>1, <3>1, <3>4 DEF request, IInv, Answering, InRequest
    <3>5. RecvBody \/ ReqInit \/ SendResDone \/ UNCHANGED request
      BY <1>3, <2>3, ByStep DEF PeerSend, PeerLeave, Resize, RecvData, RecvIntr, Close, RxDone, EventOut,
         SendAgain, AdjustEpoll, RecvBodyThrows, Send, TxDone, RecvHdrMore, vars
    <3> QED
      BY <3>2, <3>3, <3>4, <3>5
  <2> QED
    BY <2>1, <2>2, <2>3
<1> QED
  BY <1>1, <1>2, <1>3

\* As long as no file changes, the steps of a response are the right ones.
WholeAt(n) ==
  out[n] = IF out[n - 1][2] < Chunks(out[n - 1][1])
           THEN <<out[n - 1][1], out[n - 1][2] + 1>> ELSE <<out[n - 1][1] + 1, 0>>

LEMMA CountingStep ==
  ASSUME IInv, [Next]_vars PROVE Counting' /\ WholeBodies'
<1> SUFFICES ASSUME resizes' = 0
             PROVE  Counting' /\ \A n \in 2 .. Len(out') : WholeAt(n)'
  BY DEF Counting, WholeBodies, WholeAt
<1>1. resizes = 0 /\ ~Resize
  BY ByStep DEF IInv, TypeOK, PeerSend, PeerLeave, Resize, RecvData, RecvIntr, Close, RxDone, EventOut,
     SendAgain, AdjustEpoll, RecvBodyThrows, Send, TxDone, ReqInit, RecvHdrMore, RecvHdrDone, RecvBody,
     BuildRes, SendResFile, SendResDone, vars, env
<1>2. size = FileLen /\ disk = FileLen /\ FileLen \in Nat
  BY <1>1, HttpConnAssumption DEF IInv, Counting
<1>3. script' = script
  BY ParserStands, ParserMore, ParserDone
<1>4. \A n \in 2 .. Len(out) : WholeAt(n)
  BY <1>1 DEF IInv, WholeBodies, WholeAt
<1>5. Len(out) \in Nat /\ Cur \in Nat
  BY Position DEF IInv, Answering
<1>6. CASE BuildRes
  <2>1. Cur' = Cur /\ Served' = Served /\ state = "BUILD_RES" /\ state' = "SEND_RES" /\ body = Served
        /\ size' = size /\ disk' = disk /\ body \in {"buf", "file"}
    BY <1>1, <1>6 DEF BuildRes, In, Cur, Parsed, Served, env, peers, IInv, Counting
  <2>2. body' = IF body = "buf" THEN "none" ELSE body
    BY <1>6 DEF BuildRes
  <2>3. Chunks(Cur) = IF body = "file" THEN FileLen ELSE 0
    BY <2>1 DEF Chunks, Served
  <2>4. /\ \A m \in 1 .. Len(out) : out'[m] = out[m]
        /\ Len(out') \in {Len(out) + 1, Len(out) + 2}
        /\ out'[Len(out) + 1] = <<Cur, 0>>
        /\ Len(out') = Len(out) + 2 => body = "file" /\ 0 < FileLen /\ out'[Len(out) + 2] = <<Cur, 1>> /\ file_off' = 1
        /\ Len(out') = Len(out) + 1 => ~(body = "file" /\ 0 < FileLen) /\ file_off' = 0
    BY <1>2, <1>6, BuildResOutput
  <2>5. ASSUME NEW n \in 2 .. Len(out') PROVE WholeAt(n)'
    <3>1. CASE n <= Len(out)
      <4>1. n \in 1 .. Len(out) /\ n - 1 \in 1 .. Len(out) /\ n \in 2 .. Len(out)
        BY <1>5, <3>1
      <4>2. out'[n] = out[n] /\ out'[n - 1] = out[n - 1] /\ WholeAt(n)
        BY <1>4, <2>4, <4>1
      <4> QED
        BY <1>3, <4>2 DEF WholeAt, Chunks
    <3>2. CASE n = Len(out) + 1
      <4>0. n - 1 = Len(out) /\ Len(out) \in 1 .. Len(out) /\ Len(out) # 0
        BY <1>5, <3>2
      <4>1. out # <<>>
        BY <4>0
      <4>4. out'[Len(out)] = out[Len(out)] /\ out'[Len(out) + 1] = <<Cur, 0>>
        BY <2>4, <4>0
      <4>5. out'[n - 1] = Last /\ out'[n] = <<Cur, 0>>
        BY <3>2, <4>0, <4>4 DEF Last
      <4>6. Responded = Cur - 1 /\ Responded = Last[1]
        BY <2>1, <4>1 DEF IInv, Answering, InRequest, Responded
      <4>7. Last[2] = Chunks(Last[1])
        BY <1>1, <2>1, <4>1 DEF IInv, Counting
      <4>2. Last[2] = Chunks(Last[1]) /\ Last[1] + 1 = Cur
        BY <1>5, <4>6, <4>7
      <4>3. ~(Last[2] < Chunks(Last[1]))
        BY <4>2, HttpConnAssumption DEF Chunks
      <4> QED
        BY <1>3, <4>2, <4>3, <4>5 DEF WholeAt, Chunks
    <3>3. CASE n = Len(out) + 2
      <4>1. out'[n - 1] = <<Cur, 0>> /\ out'[n] = <<Cur, 1>> /\ body = "file" /\ 0 < FileLen
        BY <1>5, <2>4, <3>3
      <4>2. Chunks(Cur)' = FileLen
        BY <1>3, <2>1, <2>3, <4>1 DEF Chunks
      <4>3. out'[n - 1][1] = Cur /\ out'[n - 1][2] = 0 /\ out'[n] = <<Cur, 0 + 1>>
        BY <4>1
      <4> QED
        BY <2>1, <4>1, <4>2, <4>3 DEF WholeAt, Chunks
    <3> QED
      BY <1>5, <2>4, <3>1, <3>2, <3>3
  <2>6. CASE body = "file"
    <3>1. Served' = "file" /\ file_off' <= FileLen /\ body' = "file"
      BY <1>2, <2>1, <2>2, <2>4, <2>6
    <3> QED
      BY <1>2, <2>1, <2>5, <3>1 DEF Counting
  <2>7. CASE body = "buf"
    <3>1. Last' = <<Cur, 0>> /\ body' = "none"
      BY <1>5, <2>2, <2>4, <2>7 DEF Last
    <3>2. Chunks(Cur)' = 0
      BY <1>3, <2>1, <2>3, <2>7 DEF Chunks
    <3>3. Last'[2] = Chunks(Last[1])'
      BY <2>1, <3>1, <3>2 DEF Chunks
    <3> QED
      BY <1>2, <2>1, <2>5, <3>1, <3>3 DEF Counting
  <2> QED
    BY <2>1, <2>6, <2>7
<1>7. CASE SendResFile
  <2>1. Cur' = Cur /\ Served' = Served /\ state = "SEND_RES" /\ state' = state /\ body = "file" /\ body' = body
        /\ size' = size /\ disk' = disk
    BY <1>7 DEF SendResFile, MoreToRead, In, Cur, Parsed, Served, env, peers
  <2>2. Served = "file" /\ file_off \in Nat /\ file_off <= FileLen /\ Last = <<Cur, file_off>>
    BY <1>1, <2>1 DEF IInv, Counting, Answering, TypeOK
  <2>3. /\ \A m \in 1 .. Len(out) : out'[m] = out[m]
        /\ Len(out') \in {Len(out), Len(out) + 1}
        /\ Len(out') = Len(out) + 1 => out'[Len(out) + 1] = <<Cur, file_off + 1>> /\ file_off' = file_off + 1 /\ file_off < FileLen
        /\ Len(out') = Len(out) => out' = out /\ file_off' = file_off
    BY <1>2, <1>7, SendResOutput
  <2>4. ASSUME NEW n \in 2 .. Len(out') PROVE WholeAt(n)'
    <3>1. CASE n <= Len(out)
      BY <1>3, <1>4, <1>5, <2>3, <3>1 DEF WholeAt, Chunks
    <3>2. CASE n = Len(out) + 1
      <4>1. out'[n - 1] = <<Cur, file_off>> /\ out'[n] = <<Cur, file_off + 1>> /\ file_off < FileLen
        BY <1>5, <2>2, <2>3, <3>2 DEF Last
      <4>2. Chunks(Cur)' = FileLen
        BY <1>3, <2>1, <2>2 DEF Chunks, Served
      <4>3. out'[n - 1][1] = Cur /\ out'[n - 1][2] = file_off
        BY <4>1
      <4> QED
        BY <2>1, <4>1, <4>2, <4>3 DEF WholeAt, Chunks
    <3> QED
      BY <1>5, <2>3, <3>1, <3>2
  <2>5. file_off' <= FileLen
    BY <1>2, <1>5, <2>2, <2>3
  <2> QED
    BY <1>2, <2>1, <2>2, <2>4, <2>5 DEF Counting
<1>8. CASE ~BuildRes /\ ~SendResFile
  <2>1. out' = out /\ Last' = Last
    BY <1>8, OutputStands DEF Last
  <2>2. \A n \in 2 .. Len(out') : WholeAt(n)'
    BY <1>3, <1>4, <2>1 DEF WholeAt, Chunks
  <2>3. Chunks(Last[1])' = Chunks(Last[1])
    BY <1>3, <2>1 DEF Chunks
  <2>4. CASE RecvHdrDone
    BY <1>1, <1>2, <2>1, <2>2, <2>3, <2>4 DEF RecvHdrDone, In, env, IInv, Counting
  <2>5. CASE RecvBody
    <3>1. Cur' = Cur /\ body' = Served /\ Served' = Served
      BY <1>3, <2>5 DEF RecvBody, Cur, Parsed, buffers, Served
    <3>2. size' = FileLen /\ disk' = FileLen /\ state = "RECV_BODY" /\ state' = "BUILD_RES"
      BY <1>2, <2>5 DEF RecvBody, In, env
    <3> QED
      BY <1>1, <2>1, <2>2, <2>3, <3>1, <3>2 DEF IInv, Counting
  <2>6. CASE ReqInit
    BY <1>1, <1>2, <2>1, <2>2, <2>3, <2>6 DEF ReqInit, In, env, IInv, Counting
  <2>7. CASE SendResDone
    <3>1. state = "SEND_RES" /\ state' = "DONE" /\ size' = size /\ disk' = disk
      BY <2>7 DEF SendResDone, In, env
    <3>2. CASE body = "file"
      <4>1. file_off = FileLen /\ Served = "file" /\ Last = <<Cur, file_off>>
        BY <1>1, <1>2, <2>7, <3>1, <3>2 DEF SendResDone, MoreToRead, IInv, Counting, Answering, TypeOK
      <4>2. Last[2] = Chunks(Last[1])
        BY <4>1 DEF Chunks, Served
      <4> QED
        BY <1>2, <2>1, <2>2, <2>3, <3>1, <4>2 DEF Counting
    <3>3. CASE body # "file"
      BY <1>1, <1>2, <2>1, <2>2, <2>3, <3>1, <3>3 DEF IInv, Counting
    <3> QED
      BY <3>2, <3>3
  <2>8. CASE UNCHANGED <<request, size, disk>>
    <3>1. Cur' = Cur \/ (state # "SEND_RES" /\ state # "BUILD_RES")
      BY <1>1, ParserMore, ParserStands DEF RecvHdrDone, In
    <3>2. Cur' = Cur => Served' = Served
      BY <1>3 DEF Served
    <3> QED
      BY <1>1, <1>2, <2>1, <2>2, <2>3, <2>8, <3>1, <3>2 DEF request, IInv, Counting
  <2>9. RecvHdrDone \/ RecvBody \/ ReqInit \/ SendResDone \/ UNCHANGED <<request, size, disk>>
    BY <1>1, <1>8, ByStep DEF PeerSend, PeerLeave, RecvData, RecvIntr, Close, RxDone, EventOut,
       SendAgain, AdjustEpoll, RecvBodyThrows, Send, TxDone, RecvHdrMore, vars, env
  <2> QED
    BY <2>4, <2>5, <2>6, <2>7, <2>8, <2>9
<1> QED
  BY <1>6, <1>7, <1>8

LEMMA DrainingStep ==
  ASSUME IInv, [Next]_vars PROVE Draining'
<1>1. /\ tx.len \in Nat /\ Draining /\ TypeOK /\ Fit(rx)
  BY DEF IInv, TypeOK, Bufs, Fit
<1> USE DEF InRequest, buffers, request, env
<1>2. CASE BuildRes
  <2>1. PICK n \in 0 .. 1 : Queued(1 + n)
    BY <1>2, BuildResQueues
  <2>2. tx'.len > 0
    BY <1>1, <2>1 DEF Queued
  <2> QED
    BY <1>2, <2>2 DEF BuildRes, In, Draining
<1>3. CASE SendResFile
  <2>1. PICK n \in 0 .. 1 : Queued(n)
    BY <1>3, SendResQueues
  <2>2. tx'.len >= tx.len /\ (out' = <<>> \/ tx'.len > 0 \/ out' # <<>>)
    BY <1>1, <2>1 DEF Queued
  <2>3. out' = <<>> => out = <<>>
    BY <2>1 DEF Queued, IInv, Answering
  <2>4. out # <<>>
    BY <1>3, Position DEF IInv, Reading, Answering, Responded, SendResFile, In
  <2>5. keep_alive \/ tx'.len > 0 \/ pc = "tx_cb"
    BY <1>1, <1>3, <2>1, <2>4 DEF Queued, SendResFile, In, Draining
  <2>6. state' = "SEND_RES" /\ keep_alive' = keep_alive
        /\ (pc' = pc \/ pc' = IF pc = "rx_cb" THEN "rx_done" ELSE "tx_done") /\ pc \in {"rx_cb", "tx_cb"}
    BY <1>3 DEF SendResFile, In, Again
  <2> QED
    BY <2>5, <2>6 DEF Draining
<1>4. CASE Send
  BY <1>1, <1>4 DEF Send, Draining
<1>5. CASE UNCHANGED <<tx, out>> /\ ~Send
  <2>1. CASE PeerSend \/ PeerLeave \/ Resize \/ UNCHANGED vars
    BY <1>1, <1>5, <2>1 DEF PeerSend, PeerLeave, Resize, vars, Draining
  <2>2. CASE RecvData
    BY <1>1, <1>5, <2>2 DEF RecvData, Readable, Draining
  <2>3. CASE RecvIntr
    BY <1>1, <1>5, <2>3 DEF RecvIntr, Readable, Draining
  <2>4. CASE Close
    BY <1>1, <1>5, <2>4 DEF Close, Draining
  <2>5. CASE RxDone
    BY <1>1, <1>5, <2>5 DEF RxDone, Draining
  <2>6. CASE EventOut
    BY <1>1, <1>5, <2>6 DEF EventOut, Draining
  <2>7. CASE SendAgain
    BY <1>1, <1>5, <2>7 DEF SendAgain, Draining
  <2>8. CASE AdjustEpoll
    BY <1>1, <1>5, <2>8 DEF AdjustEpoll, Draining
  <2>9. CASE RecvBodyThrows
    BY <1>1, <1>5, <2>9 DEF RecvBodyThrows, Draining
  <2>10. CASE TxDone
    BY <1>1, <1>5, <2>10 DEF TxDone, Finished, Close, Draining
  <2>11. CASE ReqInit
    BY <1>1, <1>5, <2>11 DEF ReqInit, In, Draining
  <2>12. CASE RecvHdrMore
    BY <1>1, <1>5, <2>12 DEF RecvHdrMore, In, Again, Draining
  <2>13. CASE RecvHdrDone
    BY <1>1, <1>5, <2>13 DEF RecvHdrDone, In, Draining
  <2>14. CASE RecvBody
    BY <1>1, <1>5, <2>14 DEF RecvBody, In, Draining
  <2>15. CASE SendResDone
    BY <1>1, <1>5, <2>15 DEF SendResDone, In, Draining
  <2> QED
    BY <1>2, <1>3, <1>5, <2>1, <2>2, <2>3, <2>4, <2>5, <2>6, <2>7, <2>8, <2>9, <2>10, <2>11,
       <2>12, <2>13, <2>14, <2>15, ByStep
<1> QED
  BY <1>2, <1>3, <1>4, <1>5, OthersQueueNothing

\* While something is still to be sent to a peer that waits, it has sent nothing
\* behind the request that is answered.
LEMMA Waited ==
  ASSUME IInv, ~pipelined, resizes = 0, tx.len > 0, state \notin InRequest
  PROVE  rx.len = 0
<1>1. /\ TypeOK /\ Reading /\ taken \in Nat /\ peer \in Nat /\ rx.len \in Nat /\ rx.len <= taken
      /\ taken <= peer /\ Parsed = taken - rx.len /\ tx.len \in Nat /\ sent \in Nat
  <2>1. Len(script) \in Nat /\ HdrLen * Len(script) \in Nat
    BY HttpConnAssumption, TimesNat DEF IInv, TypeOK
  <2> QED
    BY <2>1 DEF IInv, TypeOK, Reading, Bufs, Parsed, Answering
<1>2. Cur \in Nat /\ Cur <= Len(script) /\ Len(script) \in Nat /\ Parsed \in Nat
      /\ Parsed = HdrLen * Cur + (Parsed % HdrLen)
  BY <1>1, Position
<1>3. HdrLen * Cur \in Nat /\ Parsed % HdrLen \in Nat
  BY <1>2, HttpConnAssumption, TimesNat, DivMod
<1>4. out \in Seq(Units) /\ Len(out) \in Nat /\ sent < Len(out) /\ Len(out) \in 1 .. Len(out)
  BY <1>1 DEF IInv, TxInside, Answering, Units
<1>5. Responded = Cur /\ Last \in Units /\ Last[1] = Cur
  BY <1>4 DEF IInv, Answering, Responded, Last
<1>6. Cur \in 1 .. Len(script)
  BY <1>2, <1>5 DEF Units
<1>7. ~Complete(Cur)
  <2> SUFFICES ASSUME NEW n \in 1 .. sent, out[n] = <<Cur, Chunks(Cur)>> PROVE FALSE
    BY DEF Complete
  <2>1. n + 1 \in 2 .. Len(out) /\ n + 1 \in 1 .. Len(out) /\ (n + 1) - 1 = n
    BY <1>1, <1>4
  <2>2. out[n][1] = Cur /\ out[n][2] = Chunks(Cur) /\ ~(Chunks(Cur) < Chunks(Cur))
    BY HttpConnAssumption DEF Chunks
  <2>3. out[n + 1] = IF out[n][2] < Chunks(out[n][1])
                     THEN <<out[n][1], out[n][2] + 1>> ELSE <<out[n][1] + 1, 0>>
    BY <2>1 DEF IInv, WholeBodies
  <2>4. out[n + 1] = <<Cur + 1, 0>>
    BY <2>2, <2>3
  <2>5. out[n + 1][1] <= Cur
    BY <1>5, <2>1 DEF IInv, Answering
  <2> QED
    BY <1>2, <2>4, <2>5
<1>8. ~(peer > HdrLen * Cur)
  BY <1>6, <1>7 DEF IInv, Waiting
<1> QED
  BY <1>1, <1>2, <1>3, <1>8

\* What was sent stays sent.
LEMMA CompleteStays ==
  ASSUME IInv, [Next]_vars, NEW k \in Nat, Complete(k) PROVE Complete(k)'
<1>1. \A m \in 1 .. Len(out) : out'[m] = out[m]
  BY BuildResOutput, SendResOutput, OutputStands
<1>2. sent \in 0 .. Len(out) /\ Len(out) \in Nat
  BY DEF IInv, TypeOK, Answering
<1>3. sent' \in Nat /\ sent <= sent'
  <2>1. CASE Send
    <3>1. PICK n \in 1 .. tx.len : sent' = sent + n
      BY <2>1 DEF Send
    <3> QED
      BY <1>2, <3>1 DEF IInv, TypeOK, Bufs
  <2>2. CASE ~Send
    BY <1>2, <2>2, OthersQueueNothing DEF BuildRes, SendResFile
  <2> QED
    BY <2>1, <2>2
<1>4. script' = script
  BY ParserStands, ParserMore, ParserDone
<1>5. PICK n \in 1 .. sent : out[n] = <<k, Chunks(k)>>
  BY DEF Complete
<1>6. n \in 1 .. sent' /\ out'[n] = <<k, Chunks(k)'>>
  BY <1>1, <1>2, <1>3, <1>4, <1>5 DEF Chunks
<1> QED
  BY <1>6 DEF Complete

LEMMA WaitingStep ==
  ASSUME IInv, [Next]_vars PROVE Waiting'
<1> SUFFICES ASSUME ~pipelined' PROVE Waiting'
  BY DEF Waiting
<1>1. ~pipelined /\ TypeOK /\ Fit(rx) /\ (resizes' = 0 => resizes = 0 /\ ~Resize)
  BY ByStep DEF IInv, Fit, TypeOK, PeerSend, PeerLeave, Resize, RecvData, RecvIntr, Close, RxDone,
     EventOut, SendAgain, AdjustEpoll, RecvBodyThrows, Send, TxDone, ReqInit, RecvHdrMore, RecvHdrDone,
     RecvBody, BuildRes, SendResFile, SendResDone, vars, env, peers
<1>2. script' = script /\ Len(script) \in Nat /\ rx.len \in Nat
  BY <1>1, ParserStands, ParserMore, ParserDone, HttpConnAssumption DEF TypeOK, Bufs
<1>3. ASSUME NEW k \in 1 .. Len(script), peer' > HdrLen * k PROVE Complete(k)'
  <2>1. k \in Nat /\ HdrLen * k \in Nat /\ HdrLen * Len(script) \in Nat
    BY <1>2, HttpConnAssumption, TimesNat
  <2>2. peer \in Nat
    BY <1>1, <2>1 DEF TypeOK
  <2>3. CASE peer > HdrLen * k
    BY <1>1, <2>1, <2>3, CompleteStays DEF IInv, Waiting
  <2>4. CASE ~(peer > HdrLen * k)
    <3>1. PeerSend
      BY <1>3, <2>4, ByStep DEF PeerLeave, Resize, RecvData, RecvIntr, Close, RxDone, EventOut,
         SendAgain, AdjustEpoll, RecvBodyThrows, Send, TxDone, ReqInit, RecvHdrMore, RecvHdrDone,
         RecvBody, BuildRes, SendResFile, SendResDone, vars, env, peers
    <3>2. peer' = peer + 1
      BY <3>1 DEF PeerSend
    <3>3. peer = HdrLen * k
      BY <1>3, <2>1, <2>2, <2>4, <3>2
    <3>4. peer = HdrLen * k + 0 /\ 0 \in 0 .. HdrLen - 1 /\ k >= 1
      BY <2>1, <3>3, HttpConnAssumption
    <3>5. peer \div HdrLen = k /\ peer % HdrLen = 0
      BY <2>1, <2>2, <3>4, HttpConnAssumption, DivModOf
    <3>6. peer > 0
      <4>1. HdrLen * 0 + HdrLen <= HdrLen * k
        BY <2>1, <3>4, HttpConnAssumption, TimesLess
      <4> QED
        BY <2>1, <3>3, <4>1, HttpConnAssumption
    <3>7. Complete(k)
      BY <3>1, <3>5, <3>6 DEF PeerSend
    <3> QED
      BY <2>1, <3>7, CompleteStays
  <2> QED
    BY <2>3, <2>4
<1>4. ASSUME resizes' = 0
      PROVE  /\ pc' # "undefined"
             /\ pc' \in {"wait", "send", "tx_cb", "tx_done", "adjust"} => rx'.off = 0
             /\ pc' \in {"send", "tx_cb"} => rx'.len = 0
  <2> USE DEF buffers, request, env
  <2>1. /\ resizes = 0 /\ ~Resize /\ pc # "undefined"
        /\ pc \in {"wait", "send", "tx_cb", "tx_done", "adjust"} => rx.off = 0
        /\ pc \in {"send", "tx_cb"} => rx.len = 0
    BY <1>1, <1>4 DEF IInv, Waiting
  <2>2. tx.len \in Nat /\ (tx.len > 0 /\ state \notin InRequest => rx.len = 0)
    BY <1>1, <2>1, Waited DEF TypeOK, Bufs
  <2>3. /\ pc \in {"wait", "rx_done", "send", "tx_done", "adjust"} => state \notin InRequest
        /\ pc = "wait" /\ epollout => tx.len > 0
    BY DEF IInv, Draining
  <2>4. CASE PeerSend \/ PeerLeave \/ UNCHANGED vars
    BY <2>1, <2>4 DEF PeerSend, PeerLeave, vars
  <2>5. CASE ReqInit \/ RecvBody \/ BuildRes \/ SendResDone
    BY <2>1, <2>5 DEF ReqInit, RecvBody, BuildRes, SendResDone
  <2>6. CASE RecvData
    <3>1. rx.off = 0
      BY <2>1, <2>6 DEF RecvData, Readable
    <3>2. pc' = "rx_cb"
      BY <1>1, <2>6, <3>1, RecvAdds
    <3> QED
      BY <3>2
  <2>7. CASE RecvIntr
    <3>1. rx' = Grown /\ rx.off = 0 /\ pc = "wait"
          /\ pc' = IF rx.len > 0 THEN "rx_cb" ELSE IF tx.len > 0 THEN "send" ELSE "adjust"
      BY <2>1, <2>7 DEF RecvIntr, Readable
    <3>2. rx'.len = rx.len /\ rx'.off = 0
      BY <1>1, <3>1, GrownFits
    <3> QED
      BY <1>2, <3>1, <3>2
  <2>8. CASE Close
    BY <2>8 DEF Close
  <2>9. CASE RxDone
    <3>1. rx'.len = rx.len /\ rx'.off = 0
      BY <1>1, <2>9, SyncFits DEF RxDone
    <3> QED
      BY <2>2, <2>3, <2>9, <3>1 DEF RxDone
  <2>10. CASE EventOut
    BY <2>1, <2>2, <2>3, <2>10 DEF EventOut
  <2>11. CASE SendAgain
    BY <2>1, <2>11 DEF SendAgain
  <2>12. CASE AdjustEpoll
    BY <2>1, <2>12 DEF AdjustEpoll
  <2>13. CASE RecvBodyThrows
    BY <2>13 DEF RecvBodyThrows
  <2>14. CASE Send
    BY <2>1, <2>14 DEF Send
  <2>15. CASE TxDone
    BY <2>1, <2>15 DEF TxDone, Close
  <2>16. CASE SendResFile
    BY <2>1, <2>16 DEF SendResFile, In, Again
  <2>17. CASE RecvHdrMore
    <3>1. PICK n \in 0 .. rx.len : rx' = SoftAdvance(rx, n)
      BY <2>17 DEF RecvHdrMore
    <3>2. rx'.off = rx.off + n
      BY <1>1, <3>1, SoftAdvanceFits
    <3>3. pc \in {"rx_cb", "tx_cb"} /\ pc' = IF pc = "rx_cb" THEN "rx_done" ELSE "tx_done"
      BY <2>17 DEF RecvHdrMore, In, Again
    <3> QED
      BY <1>2, <2>1, <3>1, <3>2, <3>3
  <2>18. CASE RecvHdrDone
    <3>1. pc' = pc /\ rx.len >= Missing /\ Missing \in 1 .. HdrLen /\ pc \in {"rx_cb", "tx_cb"}
      BY <1>1, <2>18, Position DEF RecvHdrDone, In, IInv
    <3> QED
      BY <2>1, <3>1
  <2> QED
    BY <2>1, <2>4, <2>5, <2>6, <2>7, <2>8, <2>9, <2>10, <2>11, <2>12, <2>13, <2>14, <2>15, <2>16,
       <2>17, <2>18, ByStep
<1> QED
  BY <1>2, <1>3, <1>4 DEF Waiting

-----------------------------------------------------------------------------
(* The theorems.                                                           *)

LEMMA IInvInit == Init => IInv
<1> SUFFICES ASSUME Init PROVE IInv
  OBVIOUS
<1>1. TypeOK
  BY TypeInit
<1>2. rx.len = 0 /\ tx.len = 0 /\ rx.off = 0 /\ tx.off = 0 /\ taken = 0 /\ peer = 0 /\ sent = 0
  BY DEF Init, NewBuf
<1>3. out = <<>> /\ Len(out) = 0 /\ out \in Seq((Nat \ {0}) \X Nat)
  BY DEF Init
<1>4. Parsed = 0 /\ Cur = 0
  <2>1. 0 = HdrLen * 0 + 0 /\ 0 \in 0 .. HdrLen - 1
    BY HttpConnAssumption
  <2>2. 0 \div HdrLen = 0
    BY <2>1, HttpConnAssumption, DivModOf
  <2> QED
    BY <1>2, <2>2 DEF Parsed, Cur
<1>5. TxInside
  BY <1>1, <1>2, <1>3 DEF TxInside, Inside, TypeOK, Bufs
<1>6. InOrder /\ WholeBodies
  BY <1>3 DEF InOrder, WholeBodies
<1>7. Reading
  BY <1>2, <1>4 DEF Init, Reading
<1>8. Answering
  BY <1>3, <1>4 DEF Init, Answering, Responded, InRequest
<1>9. Counting
  BY <1>3 DEF Init, Counting
<1>10. Draining
  BY <1>3 DEF Init, Draining, InRequest
<1>11. Waiting
  <2>1. ASSUME NEW k \in 1 .. Len(script) PROVE ~(peer > HdrLen * k)
    <3>1. Len(script) \in Nat /\ k \in Nat /\ HdrLen * k \in Nat
      BY <1>1, HttpConnAssumption, TimesNat DEF TypeOK
    <3> QED
      BY <1>2, <3>1
  <2> QED
    BY <1>2, <2>1 DEF Init, Waiting
<1> QED
  BY <1>1, <1>5, <1>6, <1>7, <1>8, <1>9, <1>10, <1>11 DEF IInv

LEMMA IInvStep == IInv /\ [Next]_vars => IInv'
BY TypeStep, TxStep, ReadingStep, AnsweringStep, CountingStep, DrainingStep, WaitingStep DEF IInv

LEMMA IInvAlways == Spec => []IInv
BY IInvInit, IInvStep, PTL DEF Spec

\* The types hold, and the data of both buffers fits their capacity at every
\* step, whatever the script, the sizes and the failures
\* (ais_buf_soft_advance_sync asserts as much).
THEOREM TypeCorrect == Spec => []TypeOK
<1>1. IInv => TypeOK
  BY DEF IInv
<1> QED
  BY <1>1, IInvAlways, PTL

\* The send buffer stays inside its allocation and holds just what is queued and
\* not sent, through every soft advance, sync and growth.
THEOREM TxStaysInside == Spec => []TxInside
<1>1. IInv => TxInside
  BY DEF IInv
<1> QED
  BY <1>1, IInvAlways, PTL

\* ais_http_handle_req answers the requests in their order, and no chunk of a
\* file is queued twice or skipped, however the sends and receives interleave
\* with it and whatever becomes of the file.
THEOREM AnswersInOrder == Spec => []InOrder
<1>1. IInv => InOrder
  BY DEF IInv
<1> QED
  BY <1>1, IInvAlways, PTL

\* A response to a file that does not change has all its chunks before the next
\* response begins.
THEOREM BodiesAreWhole == Spec => []WholeBodies
<1>1. IInv => WholeBodies
  BY DEF IInv
<1> QED
  BY <1>1, IInvAlways, PTL

\* A connection that is not to be kept is never left waiting with nothing to
\* send, where nobody would close it.
THEOREM ClosesWhenDrained == Spec => []CloseWhenDrained
<1>1. IInv => CloseWhenDrained
  BY DEF IInv, Draining, CloseWhenDrained
<1> QED
  BY <1>1, IInvAlways, PTL

\* recv never writes outside the receive buffer for a peer that waits for its
\* responses, while no file changes.
THEOREM WaitingPeerIsSafe == Spec => []NoOverrun
<1>1. IInv => NoOverrun
  BY HttpConnAssumption DEF IInv, Waiting, NoOverrun, TypeOK
<1> QED
  BY <1>1, IInvAlways, PTL
=============================================================================
