----------------------------- MODULE ChunkedBody -----------------------------
(***************************************************************************)
(* The resumable parser of chunked bodies, gwnet_http_body_parse_chunked   *)
(* of http_parser/gwnet_http1.c, and a caller that gives it the bytes that *)
(* have arrived and room to decode them into, or only counts (dst = NULL). *)
(*                                                                         *)
(* A size line is looked at byte by byte and consumed as a whole; one step *)
(* copies what a chunk, the bytes and the room allow, or compares the line *)
(* end behind the chunk.                                                   *)
(***************************************************************************)
EXTENDS ChunkedGrammar, FiniteSetsExt

CONSTANT MaxRoom   \* bound: room that a caller has for one call

ASSUME ChunkedBodyAssumption == MaxRoom \in Nat \ {0}

VARIABLES
  body, limit, counting,                  \* what is sent, and how the caller calls
  arrived, room,                          \* ctx->len of all calls together, dst_len
  consumed,                               \* ctx->off of all calls together
  state, found_zero_len, rem_len,         \* fields of ctx
  tot_len, tot_len_raw, max_len,
  off, at,                                \* in a size line: bytes seen, what is expected
  out,                                    \* bytes written to dst
  result                                  \* "scan" during a call, or what one returned

input == <<body, limit, counting>>
line  == <<off, at>>
count == <<tot_len, tot_len_raw>>
vars  == <<input, arrived, room, consumed, state, found_zero_len, rem_len, count,
           max_len, line, out, result>>

Init ==
  /\ body \in Bodies /\ limit \in Limits /\ counting \in BOOLEAN
  /\ arrived = 0 /\ room = 0 /\ consumed = 0
  /\ state = "INIT" /\ found_zero_len = FALSE /\ rem_len = 0
  /\ tot_len = 0 /\ tot_len_raw = 0 /\ max_len = limit
  /\ off = 0 /\ at = "digits"
  /\ out = <<>>
  /\ result = "none"

-----------------------------------------------------------------------------
(* The bytes.                                                              *)

Stream  == body.bytes
Avail   == arrived - consumed
Peek(n) == SubSeq(Stream, consumed + 1, consumed + n)
Byte    == Stream[consumed + off + 1]
HasByte == consumed + off < arrived
TooLong(n) == tot_len_raw + n >= max_len

-----------------------------------------------------------------------------
(* The caller.                                                             *)

\* The first call turns the limit into the first length that exceeds it.
PrepareEach == max_len + 1
Prepare == IF state = "INIT" THEN max_len + 1 ELSE max_len

\* More bytes, or none, and fresh room behind what was written.
Call ==
  /\ result \in {"none", "EAGAIN", "ENOBUFS"}
  /\ arrived' \in arrived .. Len(Stream)
  /\ room' \in IF counting THEN {0} ELSE 0 .. MaxRoom
  /\ max_len' = Prepare
  /\ state' = IF state = "INIT" THEN "LEN" ELSE state
  /\ off' = 0 /\ at' = "digits"
  /\ result' = "scan"
  /\ UNCHANGED <<input, consumed, found_zero_len, rem_len, count, out>>

Return(r) ==
  /\ result' = r
  /\ UNCHANGED <<input, arrived, room, consumed, state, found_zero_len, rem_len, count,
                 max_len, line, out>>

In(s) == result = "scan" /\ state = s

-----------------------------------------------------------------------------
(* parse_chunked_len                                                       *)

LenStarve == In("LEN") /\ ~HasByte /\ Return("EAGAIN")

\* Of an extension any byte but a line end is skipped.
LenAdvance ==
  /\ In("LEN") /\ HasByte
  /\ \/ at = "digits" /\ off < MaxDigits /\ Byte \in Hex /\ off' = off + 1 /\ UNCHANGED at
     \/ at = "digits" /\ off \in 1 .. MaxDigits - 1 /\ Byte \notin Hex /\ at' = "ext" /\ UNCHANGED off
     \/ at = "ext" /\ ~TooLong(off) /\ Byte # "lf" /\ off' = off + 1
          /\ at' = IF Byte = "cr" THEN "lf" ELSE "ext"
  /\ UNCHANGED <<input, arrived, room, consumed, state, found_zero_len, rem_len, count,
                 max_len, out, result>>

LenExceeds ==
  /\ In("LEN") /\ HasByte
  /\ (at = "ext" /\ TooLong(off)) \/ (at = "lf" /\ TooLong(off + 1))
  /\ Return("E2BIG")

LenMalformed ==
  /\ In("LEN") /\ HasByte
  /\ \/ at = "digits" /\ (off >= MaxDigits \/ (off = 0 /\ Byte \notin Hex))
     \/ at = "lf" /\ ~TooLong(off + 1) /\ Byte # "lf"
  /\ Return("EINVAL")

\* The line is consumed before its chunk is refused as too long.
PredictedNever(size) == FALSE
Predicted(size) == TooLong(off + 1 + size)

LenDone ==
  /\ In("LEN") /\ HasByte /\ Byte = "lf"
  /\ (at = "ext" /\ ~TooLong(off)) \/ (at = "lf" /\ ~TooLong(off + 1))
  /\ LET size == SizeOf(Peek(off + 1))
     IN /\ rem_len' = size
        /\ IF Predicted(size)
           THEN result' = "E2BIG" /\ UNCHANGED <<state, found_zero_len>>
           ELSE /\ state' = IF size = 0 THEN "TR" ELSE "DATA"
                /\ found_zero_len' = (size = 0)
                /\ UNCHANGED result
  /\ consumed' = consumed + off + 1
  /\ tot_len_raw' = tot_len_raw + off + 1
  /\ off' = 0 /\ at' = "digits"
  /\ UNCHANGED <<input, arrived, room, tot_len, max_len, out>>

-----------------------------------------------------------------------------
(* parse_chunked_data                                                      *)

DataStarve == In("DATA") /\ Avail = 0 /\ Return("EAGAIN")

CopyLenPast == Min({Avail} \cup IF counting THEN {} ELSE {room})
CopyLenNoRoom == Min({rem_len, Avail})
CopyLen == Min({rem_len, Avail} \cup IF counting THEN {} ELSE {room})

WhenFullAgain == "EAGAIN"
WhenFull == "ENOBUFS"
DataFull == In("DATA") /\ Avail > 0 /\ CopyLen = 0 /\ Return(WhenFull)

\* Should the chunk exceed the limit after all, nothing is copied.
Data ==
  /\ In("DATA") /\ Avail > 0 /\ CopyLen # 0
  /\ IF TooLong(CopyLen) THEN Return("E2BIG")
     ELSE /\ out' = IF counting THEN out ELSE out \o Peek(CopyLen)
          /\ room' = IF counting THEN room ELSE room - CopyLen
          /\ consumed' = consumed + CopyLen
          /\ tot_len' = tot_len + CopyLen
          /\ tot_len_raw' = tot_len_raw + CopyLen
          /\ rem_len' = rem_len - CopyLen
          /\ state' = IF rem_len' = 0 THEN "TR" ELSE "DATA"
          /\ UNCHANGED <<input, arrived, found_zero_len, max_len, line, result>>

-----------------------------------------------------------------------------
(* parse_chunked_tr                                                        *)

\* What is there of the line end matches it so far.
MatchesWhole == Peek(2) = <<"cr", "lf">> /\ Avail >= 2
Matches == Peek(Min({Avail, 2})) = SubSeq(<<"cr", "lf">>, 1, Min({Avail, 2}))

TrStarve ==
  /\ In("TR")
  /\ Avail = 0 \/ (Avail = 1 /\ ~TooLong(2) /\ Matches)
  /\ Return("EAGAIN")

TrExceeds == In("TR") /\ Avail > 0 /\ TooLong(2) /\ Return("E2BIG")

TrMalformed == In("TR") /\ Avail > 0 /\ ~TooLong(2) /\ ~Matches /\ Return("EINVAL")

AfterEndAnother == "LEN"
AfterEnd == IF found_zero_len THEN "DONE" ELSE "LEN"

TrDone ==
  /\ In("TR") /\ Avail >= 2 /\ ~TooLong(2) /\ Matches
  /\ consumed' = consumed + 2
  /\ tot_len_raw' = tot_len_raw + 2
  /\ state' = AfterEnd
  /\ result' = IF state' = "DONE" THEN "ok" ELSE "scan"
  /\ UNCHANGED <<input, arrived, room, found_zero_len, rem_len, tot_len, max_len, line, out>>

-----------------------------------------------------------------------------
Parser ==
  \/ LenStarve \/ LenAdvance \/ LenExceeds \/ LenMalformed \/ LenDone
  \/ DataStarve \/ DataFull \/ Data
  \/ TrStarve \/ TrExceeds \/ TrMalformed \/ TrDone

Next == Call \/ Parser

Spec == Init /\ [][Next]_vars

\* A call returns, and the caller again and again has bytes that it had not
\* before, or all of them, and some room.
HelpfulCall ==
  /\ Call
  /\ arrived' > arrived \/ arrived = Len(Stream)
  /\ counting \/ room' > 0

FairSpec == Spec /\ WF_vars(Parser) /\ SF_vars(HelpfulCall)

-----------------------------------------------------------------------------
(* Properties.                                                             *)

\* The types of the variables; dst is never written beyond its room.
TypeOK ==
  /\ body \in Bodies /\ limit \in Limits /\ counting \in BOOLEAN
  /\ arrived \in 0 .. Len(Stream) /\ consumed \in 0 .. arrived
  /\ room \in 0 .. MaxRoom
  /\ state \in {"INIT", "LEN", "DATA", "TR", "DONE"}
  /\ found_zero_len \in BOOLEAN /\ rem_len \in Nat
  /\ off \in 0 .. Avail /\ at \in {"digits", "ext", "lf"}
  /\ max_len \in {limit, limit + 1}
  /\ result \in {"none", "scan", "EAGAIN", "ENOBUFS", "ok", "EINVAL", "E2BIG"}

\* However the bytes and the room are cut into calls, the parser has decoded
\* exactly the data among what it has consumed, which are whole well-formed size
\* lines and line ends and any part of a chunk; its counters agree, and it is
\* done exactly when the whole body is consumed, and nothing behind it.
DecodedRight ==
  /\ tot_len_raw = consumed
  /\ out = IF counting THEN <<>> ELSE SubSeq(body.payload, 1, tot_len)
  /\ \/ consumed = 0 /\ tot_len = 0
     \/ \E i \in Parts(body) :
          LET rest == body.ends[i] - consumed
          IN /\ rest \in 0 .. Length(body, i) - 1 /\ tot_len = body.decoded[i] - rest
             /\ body.roles[i] # "wrong"
             /\ body.roles[i] # "data" => rest = 0
  /\ (result = "ok") <=> (body.good /\ consumed = Whole(body))

\* However the bytes are cut, only a malformed body is refused as malformed.
RefusedRight == result = "EINVAL" => ~body.good

\* A body that is accepted keeps the limit, one that is refused as too long and
\* is well-formed exceeds it, and a call that wants more has consumed no more.
LimitKept ==
  /\ result = "ok" => Whole(body) <= limit
  /\ result = "E2BIG" /\ body.good => Whole(body) > limit
  /\ result \in {"EAGAIN", "ENOBUFS"} => consumed <= limit

\* A chunk whose data has begun to be copied fits the limit whole: it is refused
\* by its size line or not at all, in whatever pieces it comes.
PredictionHolds == state = "DATA" => tot_len_raw + rem_len < max_len

\* A call that asks for bytes has left nothing that it could have used: what is
\* not consumed is an unfinished size line or line end. One that asks for room
\* has used all that it was given, and data is waiting.
AgainHonest ==
  /\ result = "EAGAIN" =>
       \A i \in Parts(body) :
         /\ body.ends[i] <= arrived => body.ends[i] <= consumed
         /\ body.roles[i] = "data" /\ arrived \in body.ends[i - 1] .. body.ends[i]
              => consumed = arrived
  /\ result = "ENOBUFS" =>
       /\ room = 0
       /\ \E i \in Parts(body) :
            body.roles[i] = "data" /\ consumed \in body.ends[i - 1] .. body.ends[i] - 1

\* A caller that goes on giving bytes and room gets every well-formed body that
\* keeps the limit.
Decodes == (body.good /\ Whole(body) <= limit) ~> (result = "ok")
=============================================================================
