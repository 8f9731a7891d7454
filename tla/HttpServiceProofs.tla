------------------------- MODULE HttpServiceProofs -------------------------
(* HttpConn is a service to its peer (HttpService), if nothing fails and   *)
(* no file changes: for every script, every size of headers, buffers and   *)
(* the file, and however sends and receives are cut or interrupted.        *)
EXTENDS HttpConnProofs, HttpConnImpl

\* No allocation fails, the peer does not leave, no file changes, and a request
\* is for something that can be served.
NothingFails ==
  /\ Faults \subseteq {"intr"} /\ MaxResize = 0
  /\ \A s \in Scripts : \A i \in 1 .. Len(s) : s[i].good /\ Respond(s[i].target).body # "dir"

Steady == ~shut /\ resizes = 0

\* keep_alive is that of the request in service.
Keeping == Cur >= 1 => keep_alive = script[Cur].keep

\* Between callbacks, a response that goes on has something to send.
Streaming ==
  /\ pc \in {"tx_cb", "tx_done"} => sent > 0
  /\ state = "SEND_RES" /\ pc \in {"wait", "rx_done", "send", "tx_done", "adjust"} => tx.len > 0

\* A peer that waits and has the answer to its last request is about to be left,
\* and nothing comes in between.
Ending ==
  ~pipelined =>
    \A i \in 1 .. Len(script) :
      Complete(i) /\ ~script[i].keep =>
        /\ Cur = i /\ state \notin InRequest /\ tx.len = 0
        /\ pc \in {"tx_cb", "tx_done", "closed"}

SInv == IInv /\ Steady /\ Keeping /\ Streaming /\ Ending

-----------------------------------------------------------------------------
(* The answered requests are the first ones.                               *)

\* Unit n has whole answers to the requests before i in front of it.
Preceded(i, n) == \A k \in 1 .. i - 1 : \E m \in 1 .. n - 1 : out[m] = <<k, Chunks(k)>>

LEMMA Behind ==
  ASSUME IInv, resizes = 0, NEW n \in 1 .. Len(out)
  PROVE  out[n] \in Units /\ out[n][2] <= Chunks(out[n][1]) /\ Preceded(out[n][1], n)
<1> DEFINE Good(m) == out[m][2] <= Chunks(out[m][1]) /\ Preceded(out[m][1], m)
           S == {m \in Nat : m \in 1 .. Len(out) => Good(m)}
<1>1. Len(out) \in Nat /\ \A m \in 1 .. Len(out) : out[m] \in Units
  BY DEF IInv, Answering, Units
<1>2. \A k : Chunks(k) \in Nat
  BY HttpConnAssumption DEF Chunks
<1>3. 0 \in S
  <2>1. 0 \in Nat /\ 0 \notin 1 .. Len(out)
    BY <1>1
  <2> HIDE DEF Good
  <2> QED
    BY <2>1
<1>4. ASSUME NEW m \in Nat, m \in S PROVE m + 1 \in S
  <2> SUFFICES ASSUME m + 1 \in 1 .. Len(out) PROVE Good(m + 1)
    BY <1>4
  <2>1. CASE m = 0
    <3>1. out[1] = <<1, 0>> /\ 0 <= Chunks(1)
      BY <1>1, <1>2, <2>1 DEF IInv, InOrder
    <3> QED
      BY <2>1, <3>1 DEF Preceded
  <2>2. CASE m # 0
    <3>1. m \in 1 .. Len(out) /\ m + 1 \in 2 .. Len(out) /\ (m + 1) - 1 = m
      BY <1>1, <2>2
    <3>2. PICK i \in Nat \ {0}, c \in Nat : out[m] = <<i, c>>
      BY <1>1, <3>1 DEF Units
    <3>3. Good(m)
      BY <1>4, <3>1
    <3>4. c <= Chunks(i) /\ Preceded(i, m)
      BY <3>2, <3>3
    <3>5. out[m + 1] = IF c < Chunks(i) THEN <<i, c + 1>> ELSE <<i + 1, 0>>
      BY <3>1, <3>2 DEF IInv, WholeBodies
    <3>6. Preceded(i, m + 1)
      <4>1. \A l \in 1 .. m - 1 : l \in 1 .. (m + 1) - 1
        OBVIOUS
      <4> QED
        BY <3>4, <4>1, Zenon DEF Preceded
    <3>7. CASE c < Chunks(i)
      <4>1. out[m + 1] = <<i, c + 1>> /\ Chunks(i) \in Nat
        BY <1>2, <3>5, <3>7
      <4>2. c + 1 <= Chunks(i)
        BY <3>7, <4>1
      <4> QED
        BY <3>6, <4>1, <4>2
    <3>8. CASE ~(c < Chunks(i))
      <4>1. Chunks(i) \in Nat /\ Chunks(i + 1) \in Nat
        BY <1>2
      <4>2. out[m + 1] = <<i + 1, 0>> /\ out[m] = <<i, Chunks(i)>>
        BY <3>2, <3>4, <3>5, <3>8, <4>1
      <4>3. Preceded(i + 1, m + 1)
        <5>1. \A k \in 1 .. (i + 1) - 1 : k \in 1 .. i - 1 \/ k = i
          OBVIOUS
        <5>2. m \in 1 .. (m + 1) - 1
          BY <3>1
        <5> QED
          BY <3>6, <4>2, <5>1, <5>2 DEF Preceded
      <4> QED
        BY <4>1, <4>2, <4>3
    <3> QED
      BY <3>7, <3>8
  <2> QED
    BY <2>1, <2>2
<1> HIDE DEF Good
<1>5. Nat \subseteq S
  <2> HIDE DEF S
  <2> QED
    BY <1>3, <1>4, SetInduction
<1>6. n \in Nat
  BY <1>1
<1>7. Good(n)
  BY <1>5, <1>6
<1> QED
  BY <1>1, <1>7 DEF Good

\* Requests are answered from the first on, as far as they were received.
InFront ==
  /\ Replied \in 0 .. Cur /\ Cur \in Nat
  /\ Received \in Cur .. Len(script) /\ Len(script) \in Nat
  /\ \A i \in 1 .. Len(script) : Complete(i) <=> i <= Replied

LEMMA Answers == IInv /\ Steady => InFront
<1> SUFFICES ASSUME IInv, Steady PROVE InFront
  OBVIOUS
<1> DEFINE Whole == {i \in DOMAIN script : Complete(i)}
<1>0. resizes = 0
  BY DEF Steady
<1>1. /\ TypeOK /\ Reading /\ Len(script) \in Nat /\ taken \in Nat /\ Parsed \in Nat
      /\ Parsed <= taken /\ Cur \in Nat /\ taken <= HdrLen * Len(script)
  <2>1. Len(script) \in Nat /\ HdrLen * Len(script) \in Nat /\ rx.len \in Nat
    BY HttpConnAssumption, TimesNat DEF IInv, TypeOK, Bufs
  <2> QED
    BY <2>1, Position DEF IInv, TypeOK, Parsed
<1>2. Received \in Cur .. Len(script)
  <2>1. Received \in Nat
    BY <1>1, HttpConnAssumption, DivMod DEF Received
  <2>2. Cur <= Received
    BY <1>1, HttpConnAssumption, DivGrows DEF Received, Cur
  <2>3. Received <= Len(script)
    BY <1>1, HttpConnAssumption, DivBelow DEF Received
  <2> QED
    BY <1>1, <2>1, <2>2, <2>3
<1>3. ASSUME NEW i \in Whole PROVE i \in 1 .. Cur /\ \A k \in 1 .. i - 1 : k \in Whole
  <2>1. i \in 1 .. Len(script) /\ Len(out) \in Nat /\ sent \in 0 .. Len(out)
    BY <1>1, HttpConnAssumption DEF IInv, TypeOK, Answering
  <2>2. PICK n \in 1 .. sent : out[n] = <<i, Chunks(i)>>
    BY DEF Complete
  <2>3. n \in 1 .. Len(out) /\ out[n][1] = i
    BY <2>1, <2>2
  <2>4. i <= Cur
    BY <1>1, <2>1, <2>3 DEF IInv, Answering
  <2>5. ASSUME NEW k \in 1 .. i - 1 PROVE k \in Whole
    <3>1. PICK m \in 1 .. n - 1 : out[m] = <<k, Chunks(k)>>
      BY <1>0, <2>3, Behind DEF Preceded
    <3>2. m \in 1 .. sent
      BY <2>1, <2>2, <3>1
    <3>3. k \in DOMAIN script
      BY <1>1, <2>1, HttpConnAssumption DEF TypeOK
    <3> QED
      BY <3>1, <3>2, <3>3 DEF Complete
  <2> QED
    BY <1>1, <2>1, <2>4, <2>5
<1>4. Whole \in SUBSET (1 .. Cur)
  BY <1>3
<1>5. PICK m \in 0 .. Cur : Whole = 1 .. m /\ Cardinality(Whole) = m
  <2> HIDE DEF Whole
  <2> QED
    BY <1>1, <1>3, <1>4, Prefix
<1>6. \A i \in 1 .. Len(script) : Complete(i) <=> i \in Whole
  BY <1>1, HttpConnAssumption DEF TypeOK
<1>7. Replied = Cardinality(Whole)
  BY DEF Replied
<1> HIDE DEF Whole
<1>8. Replied \in 0 .. Cur /\ Whole = 1 .. Replied
  BY <1>5, <1>7
<1>9. \A i \in 1 .. Len(script) : i \in Whole <=> i <= Replied
  BY <1>1, <1>8
<1> QED
  BY <1>1, <1>2, <1>6, <1>8, <1>9, Zenon DEF InFront

\* The last unit of the answer to the last request is the last unit of all.
LEMMA NothingBehind ==
  ASSUME IInv, resizes = 0, NEW i \in Nat, Cur <= i,
         NEW n \in 1 .. Len(out), out[n] = <<i, Chunks(i)>>
  PROVE  n = Len(out)
<1>1. Len(out) \in Nat /\ Cur \in Nat /\ \A m \in 1 .. Len(out) : out[m][1] <= Cur
  <2>1. Cur \in Nat
    BY Position DEF IInv
  <2>2. Responded \in {Cur, Cur - 1} /\ out \in Seq(Units) /\ \A m \in 1 .. Len(out) : out[m][1] <= Responded
    BY DEF IInv, Answering, Units
  <2>3. Len(out) \in Nat /\ \A m \in 1 .. Len(out) : out[m][1] \in Nat
    BY <2>2 DEF Units
  <2> QED
    BY <2>1, <2>2, <2>3
<1> SUFFICES ASSUME n # Len(out) PROVE FALSE
  OBVIOUS
<1>2. n + 1 \in 2 .. Len(out) /\ n + 1 \in 1 .. Len(out) /\ (n + 1) - 1 = n
  BY <1>1
<1>3. out[n][1] = i /\ out[n][2] = Chunks(i) /\ ~(Chunks(i) < Chunks(i))
  BY HttpConnAssumption DEF Chunks
<1>4. out[n + 1] = IF out[n][2] < Chunks(out[n][1])
                   THEN <<out[n][1], out[n][2] + 1>> ELSE <<out[n][1] + 1, 0>>
  BY <1>2 DEF IInv, WholeBodies
<1>5. out[n + 1][1] = i + 1
  BY <1>3, <1>4
<1> QED
  BY <1>1, <1>2, <1>5

\* A request is not parsed before the peer has begun it.
LEMMA NotBegun ==
  ASSUME IInv, NEW i \in Nat, ~(peer > HdrLen * i)
  PROVE  Cur <= i
<1>1. /\ TypeOK /\ Reading /\ Parsed \in Nat /\ Parsed <= peer /\ Cur \in Nat /\ peer \in Nat
  <2>1. Len(script) \in Nat /\ HdrLen * Len(script) \in Nat /\ rx.len \in Nat
    BY HttpConnAssumption, TimesNat DEF IInv, TypeOK, Bufs
  <2> QED
    BY <2>1, Position DEF IInv, TypeOK, Parsed
<1>2. Parsed = HdrLen * Cur + (Parsed % HdrLen) /\ Parsed % HdrLen \in Nat
      /\ HdrLen * Cur \in Nat /\ HdrLen * i \in Nat
  BY <1>1, HttpConnAssumption, TimesNat, DivMod, Position
<1>3. i < Cur => HdrLen * i + HdrLen <= HdrLen * Cur
  BY <1>1, HttpConnAssumption, TimesLess
<1> QED
  BY <1>1, <1>2, <1>3, HttpConnAssumption

-----------------------------------------------------------------------------
(* The steps.                                                              *)

\* What a connection does to which nothing happens.
LEMMA ByService ==
  ASSUME NothingFails, SInv, [Next]_vars
  PROVE  \/ PeerSend \/ RecvData \/ RecvIntr \/ RxDone
         \/ EventOut \/ SendAgain \/ AdjustEpoll \/ Send \/ TxDone
         \/ ReqInit \/ RecvHdrMore \/ RecvHdrDone \/ RecvBody \/ BuildRes \/ SendResFile \/ SendResDone
         \/ UNCHANGED vars
<1>1. ~PeerLeave /\ ~RecvBodyThrows /\ ~SendFails /\ ~RecvFails
  BY DEF NothingFails, SInv, Steady, PeerLeave, RecvBodyThrows, SendFails, RecvFails
<1>2. ~Resize
  BY DEF NothingFails, SInv, Steady, Resize
<1>3. TypeOK /\ Reading /\ script \in Scripts /\ Len(script) \in Nat
  BY HttpConnAssumption DEF SInv, IInv, TypeOK
<1>4. ~RecvHdrBad
  <2> SUFFICES ASSUME RecvHdrBad PROVE FALSE
    OBVIOUS
  <2>1. Cur + 1 \in 1 .. Len(script)
    BY <1>3, Position DEF RecvHdrBad
  <2> QED
    BY <1>3, <2>1 DEF RecvHdrBad, NothingFails
<1>5. ~BuildResFails
  <2> SUFFICES ASSUME BuildResFails PROVE FALSE
    OBVIOUS
  <2>1. state = "BUILD_RES" /\ body = "dir"
    BY DEF BuildResFails, In, NothingFails
  <2>2. Cur \in 1 .. Len(script)
    BY <1>3, <2>1, Position DEF Reading
  <2>3. body = Respond(script[Cur].target).body
    BY <2>1 DEF SInv, IInv, Steady, Counting, Served
  <2> QED
    BY <1>3, <2>1, <2>2, <2>3 DEF NothingFails
<1>6. ~SendResFails
  BY DEF SendResFails, NothingFails
<1> QED
  BY <1>1, <1>2, <1>4, <1>5, <1>6 DEF Next, Server, Handle

LEMMA SteadyStep ==
  ASSUME NothingFails, SInv, [Next]_vars
  PROVE  Steady' /\ script' = script /\ (~pipelined' => ~pipelined)
<1>1. PeerSend \/ UNCHANGED env
  BY ByService DEF RecvData, RecvIntr, RxDone, EventOut, SendAgain, AdjustEpoll,
     Send, TxDone, Close, ReqInit, RecvHdrMore, RecvHdrDone, RecvBody, BuildRes, SendResFile,
     SendResDone, vars
<1>2. Steady'
  BY <1>1 DEF SInv, Steady, PeerSend, env, peers
<1>3. ~pipelined' => ~pipelined
  BY <1>1, Zenon DEF PeerSend, env, peers
<1>4. script' = script
  BY ParserStands, ParserMore, ParserDone DEF SInv
<1> QED
  BY <1>2, <1>3, <1>4

\* Only a send completes an answer.
LEMMA OnlySendCompletes ==
  ASSUME IInv, [Next]_vars, ~Send, NEW k \in Nat
  PROVE  Complete(k)' <=> Complete(k)
<1>1. \A m \in 1 .. Len(out) : out'[m] = out[m]
  BY BuildResOutput, SendResOutput, OutputStands
<1>2. sent \in 0 .. Len(out) /\ Len(out) \in Nat
  BY DEF IInv, TypeOK, Answering
<1>3. sent' = sent
  BY OthersQueueNothing DEF BuildRes, SendResFile
<1>4. script' = script
  BY ParserStands, ParserMore, ParserDone
<1>5. \A m \in 1 .. sent : out'[m] = out[m]
  BY <1>1, <1>2
<1>6. Chunks(k)' = Chunks(k)
  BY <1>4 DEF Chunks
<1> QED
  BY <1>3, <1>5, <1>6 DEF Complete

LEMMA KeepingStep ==
  ASSUME NothingFails, SInv, [Next]_vars PROVE Keeping'
<1>1. CASE RecvHdrDone
  BY <1>1, ParserDone DEF RecvHdrDone, SInv, Keeping
<1>2. CASE ~RecvHdrDone
  <2>1. Cur' = Cur /\ script' = script
    BY <1>2, ParserStands, ParserMore DEF SInv
  <2>2. keep_alive' = keep_alive
    BY <1>2, ByService DEF PeerSend, RecvData, RecvIntr, RxDone, EventOut, SendAgain, AdjustEpoll,
       Send, TxDone, Close, ReqInit, RecvHdrMore, RecvBody, BuildRes, SendResFile, SendResDone,
       vars, request
  <2> QED
    BY <2>1, <2>2 DEF SInv, Keeping
<1> QED
  BY <1>1, <1>2

LEMMA StreamingStep ==
  ASSUME NothingFails, SInv, [Next]_vars PROVE Streaming'
<1> USE DEF Streaming
<1>1. Streaming /\ tx.len \in Nat /\ sent \in Nat
  BY DEF SInv, IInv, TypeOK, Bufs, Answering
<1>2. CASE Send
  <2>1. PICK k \in 1 .. tx.len : sent' = sent + k
    BY <1>2 DEF Send
  <2> QED
    BY <1>1, <1>2, <2>1 DEF Send
<1>3. CASE SendResFile
  <2>1. PICK n \in 0 .. 1 : /\ Queued(n) /\ (n = 1 <=> file_off < disk)
                            /\ file_off' = file_off + n
    BY <1>3, SendResQueues DEF SInv
  <2>2. file_off < size /\ size = disk
    BY <1>3 DEF SendResFile, MoreToRead, SInv, IInv, Steady, Counting
  <2>3. tx'.len = tx.len + 1
    BY <2>1, <2>2 DEF Queued
  <2>4. pc \in {"rx_cb", "tx_cb"} /\ sent' = sent /\ pc' \in {pc, "rx_done", "tx_done"}
        /\ (pc = "rx_cb" => pc' \in {"rx_cb", "rx_done"})
    BY <1>3 DEF SendResFile, In, Again
  <2> QED
    BY <1>1, <2>3, <2>4
<1>4. CASE PeerSend \/ RecvIntr \/ RxDone \/ EventOut \/ SendAgain \/ AdjustEpoll \/ TxDone \/ UNCHANGED vars
  BY <1>1, <1>4 DEF PeerSend, RecvIntr, Readable, RxDone, EventOut, SendAgain, AdjustEpoll, TxDone, Close,
     vars, buffers, request
<1>5. CASE RecvData
  BY <1>5 DEF RecvData
<1>6. CASE ReqInit \/ RecvHdrMore \/ RecvHdrDone \/ RecvBody \/ BuildRes \/ SendResDone
  BY <1>1, <1>6 DEF ReqInit, RecvHdrMore, RecvHdrDone, RecvBody, BuildRes, SendResDone, In, Again,
     buffers, request
<1> QED
  BY <1>2, <1>3, <1>4, <1>5, <1>6, ByService

LEMMA EndingStep ==
  ASSUME NothingFails, SInv, [Next]_vars PROVE Ending'
<1>1. script' = script /\ (~pipelined' => ~pipelined) /\ IInv /\ resizes = 0
  BY SteadyStep DEF SInv, Steady
<1> SUFFICES ASSUME ~pipelined', NEW i \in 1 .. Len(script), Complete(i)', ~script[i].keep
             PROVE  /\ Cur' = i /\ state' \notin InRequest /\ tx'.len = 0
                    /\ pc' \in {"tx_cb", "tx_done", "closed"}
  BY <1>1 DEF Ending
<1>2. ~pipelined /\ i \in Nat /\ (pc \in {"send", "tx_cb"} => rx.len = 0)
  BY <1>1 DEF IInv, Waiting
<1>3. Complete(i) =>
        /\ Cur = i /\ state \notin InRequest /\ tx.len = 0
        /\ pc \in {"tx_cb", "tx_done", "closed"}
  BY <1>2 DEF SInv, Ending
<1>4. CASE Send
  <2>1. pc = "send" /\ pc' = "tx_cb" /\ out' = out /\ state' = state /\ state \notin InRequest
    BY <1>1, <1>4 DEF Send, request, IInv, Draining
  <2>2. ~(peer > HdrLen * i)
    BY <1>1, <1>2, <1>3, <2>1 DEF IInv, Waiting
  <2>3. TypeOK' /\ TxInside' /\ Len(out) \in Nat
    BY <1>1, TypeStep, TxStep DEF IInv, Answering
  <2>4. sent' \in 0 .. Len(out) /\ tx'.len = Len(out) - sent'
    BY <2>1, <2>3 DEF TypeOK, TxInside
  <2>5. PICK n \in 1 .. sent' : out[n] = <<i, Chunks(i)>>
    BY <1>1, <2>1 DEF Complete, Chunks
  <2>6. n \in 1 .. Len(out)
    BY <2>3, <2>4, <2>5
  <2>7. n = Len(out) /\ Cur = i
    <3>1. Cur <= i /\ Responded = Cur
      BY <1>1, <1>2, <2>1, <2>2, NotBegun DEF IInv, Answering
    <3>2. n = Len(out)
      BY <1>1, <1>2, <2>5, <2>6, <3>1, NothingBehind
    <3> QED
      BY <2>5, <2>6, <3>1, <3>2 DEF Responded, Last
  <2>8. Cur' = Cur
    BY <1>1, <1>4, ParserStands DEF Send, RecvHdrMore, RecvHdrDone, In
  <2> QED
    BY <2>1, <2>3, <2>4, <2>5, <2>7, <2>8
<1>5. CASE ~Send
  <2>1. /\ Complete(i) /\ Cur = i /\ state \notin InRequest /\ tx.len = 0
        /\ pc \in {"tx_cb", "tx_done", "closed"}
    BY <1>1, <1>2, <1>3, <1>5, OnlySendCompletes
  <2>2. ~RecvHdrDone
    <3> SUFFICES ASSUME RecvHdrDone PROVE FALSE
      OBVIOUS
    <3>1. rx.len >= Missing /\ Missing \in 1 .. HdrLen
      BY <1>1, Position DEF RecvHdrDone, IInv
    <3> QED
      BY <1>2, <2>1, <3>1 DEF RecvHdrDone, In
  <2>3. Cur' = Cur
    BY <1>1, <2>2, ParserStands, ParserMore
  <2>4. ~SendResFile
    <3> SUFFICES ASSUME SendResFile PROVE FALSE
      OBVIOUS
    <3>1. state = "SEND_RES" /\ body = "file" /\ file_off < size /\ file_off \in Nat
      BY <1>1 DEF SendResFile, In, MoreToRead, IInv, TypeOK
    <3>2. Last = <<Cur, file_off>> /\ size = FileLen /\ Served = "file"
      BY <1>1, <3>1 DEF IInv, Answering, Counting
    <3>3. PICK n \in 1 .. sent : out[n] = <<i, Chunks(i)>>
      BY <2>1 DEF Complete
    <3>4. sent \in 0 .. Len(out) /\ Len(out) \in Nat /\ tx.len = Len(out) - sent
      BY <1>1 DEF IInv, TypeOK, Answering, TxInside
    <3>5. Chunks(i) = FileLen
      BY <2>1, <3>2 DEF Chunks, Served
    <3>6. n = Len(out)
      <4>1. n \in 1 .. Len(out) /\ Cur <= i
        BY <1>2, <2>1, <3>4
      <4> QED
        BY <1>1, <1>2, <3>3, <4>1, NothingBehind
    <3> QED
      BY <3>1, <3>2, <3>3, <3>5, <3>6, HttpConnAssumption DEF Last
  <2>5. ASSUME TxDone PROVE pc' = "closed"
    BY <1>2, <2>1, <2>5 DEF TxDone, Finished, Close, SInv, Keeping
  <2>6. pc' \in {"tx_cb", "tx_done", "closed"}
    BY <1>5, <2>1, <2>2, <2>4, <2>5, ByService DEF PeerSend, RecvData, RecvIntr, Readable, RxDone, EventOut,
       SendAgain, AdjustEpoll, ReqInit, RecvHdrMore, RecvBody, BuildRes, SendResDone, In, InRequest, Again, vars
  <2>7. state' \notin InRequest /\ tx'.len = 0
    BY <1>5, <2>1, <2>2, <2>4, ByService DEF PeerSend, RecvData, RecvIntr, Readable, RxDone, EventOut,
       SendAgain, AdjustEpoll, TxDone, Close, ReqInit, RecvHdrMore, RecvBody, BuildRes, SendResDone, In,
       InRequest, vars, buffers, request
  <2> QED
    BY <2>1, <2>3, <2>6, <2>7
<1> QED
  BY <1>4, <1>5

LEMMA SInvInit == Init => SInv
<1> SUFFICES ASSUME Init PROVE SInv
  OBVIOUS
<1>1. IInv
  BY IInvInit
<1>2. sent = 0 /\ pc = "wait" /\ state = "INIT" /\ ~shut /\ resizes = 0
  BY DEF Init
<1>3. Parsed = 0
  BY <1>1, <1>2 DEF IInv, Reading
<1>4. Cur = 0
  <2>1. 0 = HdrLen * 0 + 0 /\ 0 \in 0 .. HdrLen - 1
    BY HttpConnAssumption
  <2>2. 0 \div HdrLen = 0
    BY <2>1, HttpConnAssumption, DivModOf
  <2> QED
    BY <1>3, <2>2 DEF Cur
<1>5. \A i : ~Complete(i)
  BY <1>2 DEF Complete
<1> QED
  BY <1>1, <1>2, <1>4, <1>5 DEF SInv, Steady, Keeping, Streaming, Ending

LEMMA SInvStep == NothingFails /\ SInv /\ [Next]_vars => SInv'
BY IInvStep, SteadyStep, KeepingStep, StreamingStep, EndingStep DEF SInv

-----------------------------------------------------------------------------
(* The refinement.                                                         *)

\* The last request is answered when the callback of a send decides to close.
LEMMA LastAnswered ==
  ASSUME SInv, pc = "tx_done", tx.len = 0
  PROVE  Replied = Cur /\ Cur \in 1 .. Len(script)
<1>1. InFront
  BY Answers DEF SInv
<1>2. /\ IInv /\ resizes = 0 /\ Len(out) \in Nat /\ out \in Seq(Units)
      /\ sent = Len(out) /\ Len(out) \in 1 .. sent
  BY DEF SInv, Steady, Streaming, IInv, TypeOK, TxInside, Answering, Units
<1>3. state \notin InRequest /\ state # "SEND_RES"
  BY DEF SInv, Streaming, IInv, Draining
<1>4. Last \in Units /\ Last[1] = Cur /\ Last[2] = Chunks(Cur)
  BY <1>2, <1>3 DEF IInv, Answering, Responded, Counting, Last
<1>5. out[Len(out)] = <<Cur, Chunks(Cur)>>
  BY <1>4 DEF Units, Last
<1>6. Complete(Cur)
  BY <1>2, <1>5 DEF Complete
<1>7. Cur \in 1 .. Len(script)
  BY <1>1, <1>4 DEF InFront, Units
<1> QED
  BY <1>1, <1>6, <1>7 DEF InFront

LEMMA KeepsAre ==
  ASSUME TypeOK
  PROVE  /\ Keeps \in Seq(BOOLEAN) /\ Len(Keeps) = Len(script) /\ Len(script) \in Nat
         /\ \A i \in 1 .. Len(script) : Keeps[i] = script[i].keep
<1>1. script \in Seq(Requests)
  BY HttpConnAssumption DEF TypeOK
<1>2. DOMAIN script = 1 .. Len(script) /\ Len(script) \in Nat
      /\ \A i \in 1 .. Len(script) : script[i] \in Requests
  BY <1>1
<1>3. \A i \in 1 .. Len(script) : script[i].keep \in BOOLEAN
  BY <1>2, Zenon DEF Requests
<1> QED
  BY <1>2, <1>3 DEF Keeps

LEMMA ServiceInit == Init => Service!SInit
<1> SUFFICES ASSUME Init PROVE Service!SInit
  OBVIOUS
<1>1. SInv /\ taken = 0 /\ sent = 0 /\ pipelined = FALSE /\ pc = "wait"
  BY SInvInit DEF Init
<1>2. Keeps \in Seq(BOOLEAN)
  BY <1>1, KeepsAre DEF SInv, IInv
<1>3. Received = 0
  <2>1. 0 = HdrLen * 0 + 0 /\ 0 \in 0 .. HdrLen - 1
    BY HttpConnAssumption
  <2>2. 0 \div HdrLen = 0
    BY <2>1, HttpConnAssumption, DivModOf
  <2> QED
    BY <1>1, <2>2 DEF Received
<1>4. Replied = 0
  <2>1. {i \in DOMAIN script : Complete(i)} = {}
    BY <1>1 DEF Complete
  <2> QED
    BY <2>1, FS_EmptySet DEF Replied
<1> QED
  BY <1>1, <1>2, <1>3, <1>4 DEF Service!SInit, Gone

\* What the service sees of the steps that it does not see.
LEMMA RepliedStands ==
  ASSUME NothingFails, SInv, [Next]_vars, ~Send
  PROVE  Replied' = Replied
<1>1. script' = script /\ IInv /\ DOMAIN script = 1 .. Len(script)
  BY SteadyStep, HttpConnAssumption DEF SInv, IInv, TypeOK
<1>2. \A i \in DOMAIN script : i \in Nat
  BY <1>1, HttpConnAssumption DEF IInv, TypeOK
<1>3. \A i \in DOMAIN script : Complete(i)' <=> Complete(i)
  BY <1>1, <1>2, OnlySendCompletes
<1> DEFINE Whole == {i \in DOMAIN script : Complete(i)}
<1>4. Whole' = Whole
  BY <1>1, <1>3
<1>5. Replied = Cardinality(Whole) /\ Replied' = Cardinality(Whole')
  BY DEF Replied
<1> HIDE DEF Whole
<1> QED
  BY <1>4, <1>5

\* Receiving gives a peer that waits one request more at most, and only with all
\* before it answered.
LEMMA ReceivesOne ==
  ASSUME NothingFails, SInv, [Next]_vars, RecvData, ~pipelined
  PROVE  pc' = "rx_cb" /\ (Received' = Received \/ (Received' = Received + 1 /\ Received = Replied))
<1>1. SInv' /\ IInv' /\ Steady' /\ InFront /\ InFront' /\ Replied' = Replied
  <2>1. SInv'
    BY SInvStep
  <2>2. ~Send
    BY DEF RecvData, Readable, Send
  <2>3. IInv /\ Steady /\ IInv' /\ Steady'
    BY <2>1 DEF SInv
  <2> QED
    BY <2>1, <2>2, <2>3, Answers, RepliedStands, PTL
<1>2. script' = script /\ ~pipelined' /\ peer' = peer /\ pc' \in {"rx_cb", "undefined"}
  BY DEF RecvData, env, peers
<1>3. pc' = "rx_cb"
  BY <1>1, <1>2 DEF IInv, Waiting, Steady
<1>4. \A k \in 1 .. Len(script) : peer > HdrLen * k => k <= Replied
  BY <1>1, <1>2, Zenon DEF IInv, Waiting, InFront
<1>5. /\ taken' \in Nat /\ taken \in Nat /\ peer \in Nat /\ taken <= taken' /\ taken' <= peer
  <2>1. TypeOK /\ TypeOK' /\ Fit(rx)
    BY <1>1 DEF SInv, IInv, Fit, TypeOK
  <2>2. Len(script) \in Nat /\ HdrLen * Len(script) \in Nat
    BY <1>1, HttpConnAssumption, TimesNat DEF InFront
  <2>3. peer \in Nat /\ taken \in Nat /\ taken' \in 0 .. peer
    <3>1. peer \in 0 .. HdrLen * Len(script) /\ taken \in 0 .. peer /\ taken' \in 0 .. peer'
      BY <2>1, Zenon DEF TypeOK
    <3> QED
      BY <1>2, <2>2, <3>1
  <2>4. PICK k \in 1 .. peer - taken : taken' = taken + k
    BY <2>1, RecvAdds
  <2> QED
    BY <2>3, <2>4
<1>6. Received \in Nat /\ Received' \in Nat /\ Received <= Received' /\ Received' <= Len(script)
      /\ Replied \in Nat /\ Replied <= Received
  <2>1. Received <= Received'
    BY <1>5, HttpConnAssumption, DivGrows DEF Received
  <2> QED
    BY <1>1, <1>2, <2>1 DEF InFront
<1>7. HdrLen * Received' <= peer /\ HdrLen * Received' \in Nat
  <2>1. taken' = HdrLen * Received' + (taken' % HdrLen) /\ taken' % HdrLen \in Nat
    <3>1. HdrLen \in Nat \ {0} /\ Received' = taken' \div HdrLen
      BY HttpConnAssumption DEF Received
    <3>2. /\ taken' = HdrLen * (taken' \div HdrLen) + (taken' % HdrLen)
          /\ taken' % HdrLen \in 0 .. HdrLen - 1
      BY <1>5, <3>1, DivMod, Zenon
    <3>3. taken' % HdrLen \in Nat
      BY <3>1, <3>2
    <3> QED
      BY <3>1, <3>2, <3>3, Zenon
  <2>2. HdrLen * Received' \in Nat
    BY <1>6, HttpConnAssumption, TimesNat
  <2> QED
    BY <1>5, <2>1, <2>2
<1>8. ASSUME NEW k \in Nat \ {0}, k < Received' PROVE k <= Replied
  <2>1. HdrLen * k + HdrLen <= HdrLen * Received'
    <3>1. HdrLen \in Nat \ {0} /\ k \in Int /\ Received' \in Int
      BY <1>6, HttpConnAssumption
    <3> QED
      BY <1>8, <3>1, TimesLess, Zenon
  <2>2. HdrLen * k \in Nat
    BY HttpConnAssumption, TimesNat
  <2>3. peer > HdrLen * k
    BY <1>5, <1>7, <2>1, <2>2, HttpConnAssumption
  <2>4. k \in 1 .. Len(script)
    BY <1>1, <1>6, <1>8 DEF InFront
  <2> QED
    BY <1>4, <2>3, <2>4
<1>9. Received + 1 < Received' => FALSE
  BY <1>6, <1>8
<1>10. Received < Received' => Received <= Replied
  BY <1>6, <1>8
<1> QED
  BY <1>3, <1>6, <1>9, <1>10

LEMMA ServiceStep ==
  ASSUME NothingFails, SInv, [Next]_vars PROVE [Service!SNext]_(Service!svars)
<1> USE DEF Service!svars
<1>1. SInv' /\ InFront /\ InFront'
  <2>1. SInv'
    BY SInvStep
  <2>2. IInv /\ Steady /\ IInv' /\ Steady'
    BY <2>1 DEF SInv
  <2> QED
    BY <2>1, <2>2, Answers, PTL
<1>2. script' = script /\ Keeps' = Keeps
  BY SteadyStep DEF Keeps
<1>3. /\ Len(Keeps) = Len(script) /\ Len(script) \in Nat
      /\ \A i \in 1 .. Len(script) : Keeps[i] = script[i].keep
  BY KeepsAre DEF SInv, IInv
<1>4. ~Send => Replied' = Replied
  BY RepliedStands
<1>5. Received \in Nat /\ Received <= Len(script) /\ Received' \in Nat /\ Received' <= Len(script)
      /\ Replied \in Nat /\ Replied <= Received /\ Replied' \in Nat /\ Replied' <= Received'
  BY <1>1, <1>2 DEF InFront
<1>6. ASSUME UNCHANGED taken PROVE Received' = Received
  BY <1>6 DEF Received
<1>7. CASE RecvIntr \/ RxDone \/ EventOut \/ SendAgain \/ AdjustEpoll \/ ReqInit \/ RecvHdrMore
           \/ RecvHdrDone \/ RecvBody \/ BuildRes \/ SendResFile \/ SendResDone \/ UNCHANGED vars
  <2>1. UNCHANGED taken /\ UNCHANGED pipelined
    BY <1>7 DEF RecvIntr, RxDone, EventOut, SendAgain, AdjustEpoll, ReqInit, RecvHdrMore, RecvHdrDone,
       RecvBody, BuildRes, SendResFile, SendResDone, vars, buffers, env, peers
  <2>2. Gone' <=> Gone
    BY <1>7 DEF RecvIntr, Readable, RxDone, EventOut, SendAgain, AdjustEpoll, ReqInit, RecvHdrMore,
       RecvHdrDone, RecvBody, BuildRes, SendResFile, SendResDone, In, Again, Gone, vars
  <2>3. ~Send \/ UNCHANGED <<out, sent, script>>
    BY <1>7 DEF RecvIntr, Readable, RxDone, EventOut, SendAgain, AdjustEpoll, ReqInit, RecvHdrMore,
       RecvHdrDone, RecvBody, BuildRes, SendResFile, SendResDone, In, Send, vars, buffers
  <2>4. Replied' = Replied
    BY <1>2, <1>4, <2>3 DEF Replied, Complete, Chunks
  <2>5. (~Gone)' = (~Gone)
    BY <2>2 DEF Gone
  <2> QED
    BY <1>2, <1>6, <2>1, <2>4, <2>5
<1>8. CASE PeerSend
  <2>1. Replied' = Replied /\ Received' = Received /\ (~Gone)' = (~Gone)
    <3>1. UNCHANGED <<taken, pc, out, sent>>
      BY <1>8 DEF PeerSend, buffers
    <3> QED
      BY <1>2, <1>6, <3>1 DEF Gone, Replied, Complete, Chunks
  <2>2. pipelined \in BOOLEAN /\ pipelined' \in BOOLEAN /\ (pipelined => pipelined')
    BY <1>1, <1>8 DEF SInv, IInv, TypeOK, PeerSend
  <2>3. CASE pipelined' = pipelined
    BY <1>2, <2>1, <2>3
  <2>4. CASE pipelined'
    BY <1>2, <2>1, <2>4 DEF Service!SNext, Service!Pipeline
  <2> QED
    BY <2>2, <2>3, <2>4
<1>9. CASE RecvData
  <2>1. UNCHANGED pipelined /\ Replied' = Replied /\ ~Gone /\ pc' \in {"rx_cb", "undefined"}
    BY <1>4, <1>9 DEF RecvData, Readable, Send, env, peers, Gone
  <2>2. pipelined \in BOOLEAN
    BY DEF SInv, IInv, TypeOK
  <2>3. Received <= Received'
    <3>1. TypeOK /\ Len(script) \in Nat /\ HdrLen * Len(script) \in Nat
      BY <1>3, HttpConnAssumption, TimesNat DEF SInv, IInv
    <3>2. peer \in Nat /\ taken \in Nat
      BY <3>1 DEF TypeOK
    <3>3. PICK k \in 1 .. peer - taken : taken' = taken + k
      BY <1>9, <3>1, RecvAdds
    <3> QED
      BY <3>2, <3>3, HttpConnAssumption, DivGrows DEF Received
  <2>4. CASE ~pipelined
    <3>1. pc' = "rx_cb" /\ (Received' = Received \/ (Received' = Received + 1 /\ Received = Replied))
      BY <1>9, <2>4, ReceivesOne
    <3>2. ~Gone' /\ (~Gone)' = (~Gone)
      BY <2>1, <3>1 DEF Gone
    <3> QED
      BY <1>2, <1>3, <1>5, <2>1, <3>1, <3>2 DEF Service!SNext, Service!Receive
  <2>5. CASE pipelined /\ pc' = "rx_cb"
    <3>1. (~Gone)' = (~Gone)
      BY <2>1, <2>5 DEF Gone
    <3>2. Received' = Received \/ Received' \in Received + 1 .. Len(Keeps)
      BY <1>3, <1>5, <2>3
    <3> QED
      BY <1>2, <2>1, <2>5, <3>1, <3>2 DEF Service!SNext, Service!ReceiveMore
  <2>6. CASE pipelined /\ pc' = "undefined"
    <3>1. (~Gone)' = FALSE
      BY <2>6 DEF Gone
    <3>2. Received' \in Received .. Len(Keeps)
      BY <1>3, <1>5, <2>3
    <3> QED
      BY <1>2, <2>1, <2>6, <3>1, <3>2 DEF Service!SNext, Service!Lose
  <2> QED
    BY <2>1, <2>2, <2>4, <2>5, <2>6
<1>10. CASE Send
  <2>1. pc = "send" /\ pc' = "tx_cb" /\ UNCHANGED <<taken, pipelined>>
    BY <1>10 DEF Send, env, peers
  <2>2. ~Gone /\ (~Gone)' = (~Gone) /\ Received' = Received
    BY <1>6, <2>1 DEF Gone
  <2>3. Replied <= Replied'
    <3>1. CASE Replied = 0
      BY <1>5, <3>1
    <3>2. CASE Replied # 0
      <4>1. Replied \in 1 .. Len(script) /\ Replied \in Nat
        BY <1>3, <1>5, <3>2
      <4>2. Complete(Replied)
        BY <1>1, <1>5, <4>1 DEF InFront
      <4> HIDE DEF SInv
      <4>3. \A k \in Nat : Complete(k) => Complete(k)'
        BY CompleteStays DEF SInv
      <4>4. PICK k \in 1 .. Len(script) : k = Replied
        BY <4>1
      <4>5. Complete(k)'
        BY <4>1, <4>2, <4>3, <4>4
      <4>6. k <= Replied'
        BY <1>1, <1>2, <4>5 DEF InFront
      <4> QED
        BY <4>4, <4>6
    <3> QED
      BY <3>1, <3>2
  <2>4. ~(~pipelined /\ Service!Over)
    <3> SUFFICES ASSUME ~pipelined, Service!Over PROVE FALSE
      OBVIOUS
    <3>1. Replied > 0 /\ ~Keeps[Replied]
      BY DEF Service!Over
    <3>2. Replied \in 1 .. Len(script) /\ Complete(Replied) /\ ~script[Replied].keep
      BY <1>1, <1>3, <1>5, <3>1 DEF InFront
    <3> QED
      BY <2>1, <3>2 DEF SInv, Ending
  <2>5. Replied' = Replied \/ Replied' \in Replied + 1 .. Received
    BY <1>5, <2>2, <2>3
  <2> QED
    BY <1>2, <2>1, <2>2, <2>4, <2>5 DEF Service!SNext, Service!Answer
<1>11. CASE TxDone
  <2>1. pc = "tx_done" /\ ~Gone /\ Replied' = Replied
    BY <1>4, <1>11 DEF TxDone, Send, Gone
  <2>2. UNCHANGED <<taken, pipelined>> /\ Received' = Received
    BY <1>6, <1>11 DEF TxDone, Close, buffers, env, peers
  <2>3. CASE ~Finished
    <3>1. (~Gone)' = (~Gone)
      BY <1>11, <2>1, <2>3 DEF TxDone, Gone
    <3> QED
      BY <1>2, <2>1, <2>2, <3>1
  <2>4. CASE Finished
    <3>1. (~Gone)' = FALSE
      BY <1>11, <2>4 DEF TxDone, Close, Gone
    <3>2. CASE pipelined
      <4>1. Received' \in Received .. Len(Keeps)
        BY <1>3, <1>5, <2>2
      <4> QED
        BY <1>2, <2>1, <2>2, <3>1, <3>2, <4>1 DEF Service!SNext, Service!Lose
    <3>3. CASE ~pipelined
      <4>1. Replied = Cur /\ Cur \in 1 .. Len(script)
        BY <2>1, <2>4, LastAnswered DEF Finished
      <4>2. ~Keeps[Replied] /\ Replied > 0
        BY <1>3, <2>4, <4>1 DEF Finished, SInv, Keeping
      <4> QED
        BY <1>2, <2>1, <2>2, <3>1, <3>3, <4>2 DEF Service!SNext, Service!Close, Service!Over
    <3> QED
      BY <3>2, <3>3
  <2> QED
    BY <2>3, <2>4
<1> QED
  BY <1>7, <1>8, <1>9, <1>10, <1>11, ByService

\* To its peer the connection is the service: requests are received one after
\* another by a peer that waits, answered whole and in order, and the connection
\* is closed after the answer to the request that asked for it and at no other
\* moment. A peer that pipelines is answered in order, or loses it.
THEOREM ServesAsPromised ==
  ASSUME NothingFails PROVE Spec => ServesSafely
<1>1. Init => SInv
  BY SInvInit
<1>2. SInv /\ [Next]_vars => SInv'
  BY SInvStep
<1>3. Init => Service!SInit
  BY ServiceInit
<1>4. SInv /\ [Next]_vars => [Service!SNext]_(Service!svars)
  BY ServiceStep
<1> QED
  BY <1>1, <1>2, <1>3, <1>4, PTL DEF Spec, ServesSafely, Service!SSafe
=============================================================================
