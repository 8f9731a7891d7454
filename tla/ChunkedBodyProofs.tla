------------------------- MODULE ChunkedBodyProofs -------------------------
(* The parser of chunked bodies decodes, refuses and asks for what it      *)
(* should: for every stream that ChunkedGrammar allows, every limit, and   *)
(* however the bytes and the room are cut into calls.                      *)
EXTENDS ChunkedBody, TLAPS, SequenceTheorems

-----------------------------------------------------------------------------
(* The inductive invariant.                                                *)

\* The parser stands between two parts, or in the data of one.
AtLine(p) ==
  /\ consumed = body.ends[p - 1] /\ tot_len = body.decoded[p - 1]
  /\ Before(body, p) = "end"
AtData(p) ==
  /\ body.roles[p] = "data" /\ p < Count(body) /\ ~found_zero_len
  /\ rem_len \in 1 .. Length(body, p)
  /\ consumed = body.ends[p] - rem_len /\ tot_len = body.decoded[p] - rem_len
AtEnd(p) ==
  /\ consumed = body.ends[p - 1] /\ tot_len = body.decoded[p - 1]
  /\ Before(body, p) = (IF found_zero_len THEN "size" ELSE "data")
  /\ body.roles[p] \in {"end", "wrong"}

Place ==
  /\ result = "none" <=> state = "INIT"
  /\ result = "ok" <=> state = "DONE"
  /\ result # "E2BIG" =>
       /\ state \in {"INIT", "LEN"} => \E p \in Parts(body) : AtLine(p)
       /\ state = "DATA" => \E p \in Parts(body) : AtData(p)
       /\ state = "TR"   => \E p \in Parts(body) : AtEnd(p)
       /\ state = "DONE" => body.good /\ consumed = Whole(body)

\* What has been looked at of a size line, and not consumed.
Seen(k) == Stream[consumed + k]
Scanned ==
  /\ state # "LEN" => off = 0 /\ at = "digits"
  /\ at = "digits" => off <= MaxDigits /\ \A k \in 1 .. off : Seen(k) \in Hex
  /\ at # "digits" =>
       /\ off >= 1 /\ Seen(1) \in Hex
       /\ \E d \in 1 .. MaxDigits - 1 : Seen(d + 1) \notin Hex
  /\ \A k \in 1 .. off : Seen(k) # "lf" /\ (Seen(k) = "cr" <=> k = off /\ at = "lf")

Within ==
  /\ max_len = IF state = "INIT" THEN limit ELSE limit + 1
  /\ result # "E2BIG" => tot_len_raw < max_len

IInv ==
  /\ TypeOK /\ Place /\ Scanned /\ Within
  /\ DecodedRight /\ RefusedRight /\ LimitKept /\ PredictionHolds /\ AgainHonest

-----------------------------------------------------------------------------
(* The body.                                                               *)

\* Where the parts are.
LEMMA Layout ==
  ASSUME body \in Bodies, NEW p \in Parts(body)
  PROVE  /\ Count(body) \in Nat /\ p \in Nat /\ p >= 1 /\ p <= Count(body)
         /\ Stream \in Seq(Alphabet) /\ Len(Stream) \in Nat /\ body.good \in BOOLEAN
         /\ body.ends[p - 1] \in 0 .. Len(Stream) /\ body.ends[p] \in 0 .. Len(Stream)
         /\ Length(body, p) \in Nat \ {0}
         /\ body.ends[p] = body.ends[p - 1] + Length(body, p)
         /\ body.roles[p] \in {"size", "data", "end", "wrong"}
         /\ body.decoded[p - 1] \in Nat /\ body.decoded[p] \in 0 .. Len(body.payload)
         /\ body.payload \in Seq(Alphabet) /\ Len(body.payload) \in Nat
         /\ body.ends[0] = 0 /\ body.decoded[0] = 0
         /\ Whole(body) \in 0 .. Len(Stream) /\ body.ends[p] <= Whole(body)
         /\ p < Count(body) => p + 1 \in Parts(body) /\ (p + 1) - 1 = p
<1>1. Laid(body)
  BY GrammarAssumption
<1> DEFINE n == Count(body)
<1>2. n \in Nat /\ p \in 1 .. n /\ p - 1 \in 0 .. n /\ p \in 0 .. n /\ n \in 0 .. n /\ 0 \in 0 .. n
  BY <1>1 DEF Laid, Count, Parts
<1>3. Stream \in Seq(Alphabet) /\ Len(Stream) \in Nat /\ body.good \in BOOLEAN
      /\ body.payload \in Seq(Alphabet) /\ Len(body.payload) \in Nat
  BY <1>1 DEF Laid, Stream
<1>4. /\ body.ends[p - 1] \in 0 .. Len(Stream) /\ body.ends[p] \in 0 .. Len(Stream)
      /\ body.ends[n] \in 0 .. Len(Stream) /\ body.ends[0] = 0
      /\ body.decoded[p - 1] \in 0 .. Len(body.payload) /\ body.decoded[p] \in 0 .. Len(body.payload)
      /\ body.decoded[0] = 0
  BY <1>1, <1>2, Zenon DEF Laid, Stream
<1>5. body.ends[p - 1] < body.ends[p]
  <2>1. p - 1 < p
    BY <1>2
  <2> QED
    BY <1>1, <1>2, <2>1, Zenon DEF Laid
<1>6. body.ends[p] <= body.ends[n]
  <2>1. p < n => body.ends[p] < body.ends[n]
    BY <1>1, <1>2, Zenon DEF Laid
  <2> QED
    BY <1>2, <1>3, <1>4, <2>1
<1>7. body.roles[p] \in {"size", "data", "end", "wrong"}
  BY <1>1, <1>2 DEF Laid, Count
<1>8. /\ Length(body, p) \in Nat \ {0}
      /\ body.ends[p] = body.ends[p - 1] + Length(body, p)
  BY <1>3, <1>4, <1>5 DEF Length
<1>9. p < n => p + 1 \in 1 .. n /\ (p + 1) - 1 = p
  BY <1>2
<1>10. p >= 1 /\ p <= n
  BY <1>2
<1>11. body.decoded[p - 1] \in Nat
  BY <1>3, <1>4
<1> QED
  BY <1>2, <1>3, <1>4, <1>6, <1>7, <1>8, <1>9, <1>10, <1>11 DEF Whole, Parts

LEMMA Ends ==
  ASSUME body \in Bodies, NEW p \in Parts(body)
  PROVE  /\ body.ends[p - 1] \in Nat /\ body.ends[p] \in Nat
         /\ body.ends[p - 1] < body.ends[p]
<1>1. /\ body.ends[p - 1] \in 0 .. Len(Stream) /\ body.ends[p] \in 0 .. Len(Stream)
      /\ Len(Stream) \in Nat /\ Length(body, p) \in Nat \ {0}
      /\ body.ends[p] = body.ends[p - 1] + Length(body, p)
  BY Layout, Zenon
<1> QED
  BY <1>1

\* Parts do not overlap.
LEMMA Apart ==
  ASSUME body \in Bodies, NEW p \in Parts(body), NEW i \in Parts(body)
  PROVE  /\ i < p => body.ends[i] <= body.ends[p - 1]
         /\ i > p => body.ends[p] <= body.ends[i - 1]
<1>1. Laid(body)
  BY GrammarAssumption
<1>2. Count(body) \in Nat /\ p \in 1 .. Count(body) /\ i \in 1 .. Count(body)
  BY <1>1 DEF Laid, Count, Parts
<1>3. /\ i \in 0 .. Count(body) /\ p \in 0 .. Count(body)
      /\ i - 1 \in 0 .. Count(body) /\ p - 1 \in 0 .. Count(body)
  BY <1>2
<1>4. i < p - 1 => body.ends[i] < body.ends[p - 1]
  BY <1>1, <1>3, Zenon DEF Laid
<1>5. p < i - 1 => body.ends[p] < body.ends[i - 1]
  BY <1>1, <1>3, Zenon DEF Laid
<1>6. /\ body.ends[i] \in Nat /\ body.ends[p] \in Nat
      /\ body.ends[i - 1] \in Nat /\ body.ends[p - 1] \in Nat
  BY Ends, Zenon
<1> QED
  BY <1>2, <1>4, <1>5, <1>6

\* What may be there.
LEMMA Roles ==
  ASSUME body \in Bodies, NEW p \in Parts(body)
  PROVE  /\ body.good <=> body.roles[Count(body)] = "end"
         /\ body.roles[p] = "size" =>
              Before(body, p) = "end" /\ Line(body, p) /\ Announces(body, p)
         /\ body.roles[p] = "data" =>
              /\ Before(body, p) = "size"
              /\ p < Count(body) => body.roles[p + 1] \in {"end", "wrong"}
         /\ body.roles[p] = "end" =>
              /\ Length(body, p) = 2 /\ At(body, p, 1) = "cr" /\ At(body, p, 2) = "lf"
              /\ \/ Before(body, p) = "size" /\ p = Count(body)
                 \/ /\ Before(body, p) = "data" /\ p < Count(body)
                    /\ body.roles[p + 1] \in {"size", "wrong"}
         /\ body.roles[p] = "wrong" =>
              /\ p = Count(body)
              /\ IF Before(body, p) = "end" THEN NoLine(body, p) ELSE NoEnd(body, p)
<1>1. Grammar(body)
  BY GrammarAssumption
<1> QED
  BY <1>1, Zenon DEF Grammar

-----------------------------------------------------------------------------
(* In a size line.                                                         *)

LEMMA Types ==
  ASSUME TypeOK
  PROVE  /\ body \in Bodies /\ limit \in Nat /\ limit >= 1
         /\ arrived \in Nat /\ consumed \in Nat /\ consumed <= arrived
         /\ Len(Stream) \in Nat /\ Stream \in Seq(Alphabet) /\ arrived <= Len(Stream)
         /\ room \in Nat /\ rem_len \in Nat /\ off \in Nat /\ off <= Avail
         /\ Avail \in Nat /\ consumed + Avail = arrived
         /\ MaxDigits \in Nat \ {0} /\ MaxRoom \in Nat /\ room <= MaxRoom
         /\ max_len \in Nat
<1>1. body \in Bodies /\ limit \in Limits
  BY DEF TypeOK
<1>2. limit \in Nat /\ limit >= 1 /\ MaxDigits \in Nat \ {0}
  BY <1>1, GrammarAssumption
<1>3. Stream \in Seq(Alphabet) /\ Len(Stream) \in Nat
  BY <1>1, GrammarAssumption DEF Laid, Stream
<1> QED
  BY <1>1, <1>2, <1>3, ChunkedBodyAssumption DEF TypeOK, Avail

\* Behind a line end there is a size line, or something wrong.
LEMMA LineNext ==
  ASSUME body \in Bodies, NEW p \in Parts(body), Before(body, p) = "end"
  PROVE  body.roles[p] = "size" \/ (body.roles[p] = "wrong" /\ NoLine(body, p))
<1>1. body.roles[p] \in {"size", "data", "end", "wrong"}
  BY Layout
<1> QED
  BY <1>1, Roles

\* What has been looked at is a part of the line: where it ends, or where it
\* goes wrong, the parser does not go on.
LEMMA Unfinished ==
  ASSUME TypeOK, Scanned, NEW p \in Parts(body), AtLine(p)
  PROVE  off < Length(body, p) /\ (body.roles[p] = "size" \/ body.roles[p] = "wrong")
<1> DEFINE n == Length(body, p)
<1>1. n \in Nat \ {0} /\ off \in Nat /\ MaxDigits \in Nat \ {0}
  BY Types, Layout
<1>2. \A k : Seen(k) = At(body, p, k)
  BY DEF AtLine, Seen, At, Stream
<1>3. body.roles[p] = "size" \/ (body.roles[p] = "wrong" /\ NoLine(body, p))
  BY LineNext, Types DEF AtLine
<1> SUFFICES ASSUME off >= n PROVE FALSE
  BY <1>1, <1>3
<1>4. ASSUME NEW k \in 1 .. n PROVE k \in 1 .. off
  BY <1>1
<1>5. CASE body.roles[p] = "size"
  <2>1. At(body, p, n) = "lf"
    BY <1>1, <1>5, Roles, Types DEF Line
  <2> QED
    BY <1>1, <1>2, <1>4, <2>1 DEF Scanned
<1>6. CASE At(body, p, 1) \notin Hex
  <2>1. 1 \in 1 .. off
    BY <1>1
  <2> QED
    BY <1>2, <1>6, <2>1 DEF Scanned
<1>7. CASE n > MaxDigits /\ \A k \in 1 .. MaxDigits : At(body, p, k) \in Hex
  <2>1. at # "digits"
    BY <1>1, <1>7 DEF Scanned
  <2>2. PICK d \in 1 .. MaxDigits - 1 : Seen(d + 1) \notin Hex
    BY <2>1 DEF Scanned
  <2>3. d + 1 \in 1 .. MaxDigits
    BY <1>1
  <2> QED
    BY <1>2, <1>7, <2>2, <2>3
<1>8. ASSUME NEW c \in 1 .. n - 1, At(body, p, c) = "cr"
      PROVE  FALSE
  <2>1. c \in 1 .. off /\ c # off
    BY <1>1
  <2> QED
    BY <1>2, <1>8, <2>1 DEF Scanned
<1> QED
  BY <1>3, <1>5, <1>6, <1>7, <1>8 DEF NoLine

\* A line that the parser finds ended is a size line, and it is whole.
LEMMA LineEnds ==
  ASSUME TypeOK, Scanned, NEW p \in Parts(body), AtLine(p), at # "digits", Byte = "lf"
  PROVE  /\ body.roles[p] = "size" /\ Length(body, p) = off + 1
         /\ Peek(off + 1) = Part(body, p)
<1> DEFINE n == Length(body, p)
<1>1. n \in Nat \ {0} /\ off \in Nat /\ MaxDigits \in Nat \ {0} /\ consumed \in Nat
  BY Types, Layout
<1>2. \A k : Seen(k) = At(body, p, k)
  BY DEF AtLine, Seen, At, Stream
<1>3. At(body, p, off + 1) = "lf" /\ off + 1 \in 1 .. n
  <2>1. Seen(off + 1) = "lf"
    BY <1>1 DEF Byte, Seen
  <2> QED
    BY <1>1, <1>2, <2>1, Unfinished
<1>4. body.roles[p] = "size"
  <2> SUFFICES ASSUME NoLine(body, p) PROVE FALSE
    BY LineNext, Types DEF AtLine
  <2>1. off >= 1 /\ Seen(1) \in Hex
    BY DEF Scanned
  <2>2. PICK d \in 1 .. MaxDigits - 1 : Seen(d + 1) \notin Hex
    BY DEF Scanned
  <2>3. d + 1 \in 1 .. MaxDigits
    BY <1>1
  <2>4. PICK c \in 1 .. n - 1 :
          /\ At(body, p, c) = "cr"
          /\ \A k \in 1 .. c + 1 : At(body, p, k) # "lf"
    BY <1>2, <2>1, <2>2, <2>3 DEF NoLine
  <2>5. c < off => c \in 1 .. off /\ c # off
    BY <1>1
  <2>6. ~(c < off)
    BY <1>2, <2>4, <2>5 DEF Scanned
  <2>7. off + 1 \in 1 .. c + 1
    BY <1>1, <2>6
  <2> QED
    BY <1>3, <2>4, <2>7
<1>5. n = off + 1
  BY <1>1, <1>3, <1>4, Roles, Types DEF Line
<1>6. body.ends[p] = consumed + (off + 1) /\ body.ends[p - 1] = consumed
  BY <1>5, Layout, Types DEF AtLine
<1> QED
  BY <1>4, <1>5, <1>6 DEF Peek, Part, Stream

\* A size line is not refused.
LEMMA LineAccepted ==
  ASSUME TypeOK, Scanned, NEW p \in Parts(body), AtLine(p), body.good
  PROVE  /\ body.roles[p] = "size"
         /\ at = "digits" => off < MaxDigits /\ (off = 0 => Byte \in Hex)
         /\ at = "lf" => Byte = "lf"
<1> DEFINE n == Length(body, p)
<1>1. n \in Nat \ {0} /\ off \in Nat /\ MaxDigits \in Nat \ {0} /\ consumed \in Nat
  BY Types, Layout
<1>2. \A k : Seen(k) = At(body, p, k)
  BY DEF AtLine, Seen, At, Stream
<1>3. body.roles[p] = "size"
  <2>1. body.roles[p] = "wrong" => body.roles[Count(body)] = "wrong"
    BY Roles, Types
  <2>2. body.roles[Count(body)] = "end"
    BY Roles, Types
  <2> QED
    BY <2>1, <2>2, Unfinished
<1>4. Line(body, p)
  BY <1>3, Roles, Types
<1>5. PICK d \in 1 .. MaxDigits - 1 :
        /\ d < n /\ At(body, p, d + 1) \notin Hex
        /\ \A k \in 1 .. d : At(body, p, k) \in Hex
  BY <1>4 DEF Line
<1>6. Byte = At(body, p, off + 1)
  BY <1>1, <1>2 DEF Byte, Seen
<1>7. ASSUME at = "digits" PROVE off < MaxDigits /\ (off = 0 => Byte \in Hex)
  <2>1. \A k \in 1 .. off : At(body, p, k) \in Hex
    BY <1>2, <1>7 DEF Scanned
  <2>2. d + 1 \notin 1 .. off
    BY <1>5, <2>1
  <2>3. 1 \in 1 .. d
    BY <1>1
  <2> QED
    BY <1>1, <1>5, <1>6, <2>2, <2>3
<1>8. ASSUME at = "lf" PROVE Byte = "lf"
  <2>1. off \in 1 .. n /\ off < n
    BY <1>1, <1>8, Unfinished DEF Scanned
  <2>2. off \in 1 .. off
    BY <2>1, <1>1
  <2>3. At(body, p, off) = "cr"
    BY <1>2, <1>8, <2>2 DEF Scanned
  <2>4. off = n - 1
    BY <1>4, <2>1, <2>3 DEF Line
  <2>5. At(body, p, n) = "lf"
    BY <1>1, <1>4 DEF Line
  <2> QED
    BY <1>1, <1>6, <2>4, <2>5
<1> QED
  BY <1>3, <1>7, <1>8

-----------------------------------------------------------------------------
(* In data, and at a line end.                                             *)

LEMMA Decoding ==
  ASSUME body \in Bodies, NEW p \in Parts(body)
  PROVE  /\ body.roles[p] # "data" => body.decoded[p] = body.decoded[p - 1]
         /\ body.roles[p] = "data" =>
              /\ body.decoded[p] = body.decoded[p - 1] + Length(body, p)
              /\ \A k \in 1 .. Length(body, p) :
                   body.payload[body.decoded[p - 1] + k] = At(body, p, k)
<1>1. Laid(body)
  BY GrammarAssumption
<1>2. p \in 1 .. Count(body)
  BY DEF Parts
<1>3. body.decoded[p] = body.decoded[p - 1] + (IF body.roles[p] = "data" THEN Length(body, p) ELSE 0)
  BY <1>1, <1>2, Zenon DEF Laid
<1>4. body.roles[p] = "data" =>
        \A k \in 1 .. Length(body, p) :
          body.payload[body.decoded[p - 1] + k] = At(body, p, k)
  BY <1>1, <1>2, Zenon DEF Laid
<1> QED
  BY <1>3, <1>4, Layout

\* Appending what comes next.
LEMMA Appended ==
  \A s, q \in Seq(Alphabet) : \A t, m, c \in Nat :
    t + c <= Len(s) /\ m + c <= Len(q) /\ (\A k \in 1 .. c : s[t + k] = q[m + k])
    => SubSeq(s, 1, t) \o SubSeq(q, m + 1, m + c) = SubSeq(s, 1, t + c)
<1> TAKE s, q \in Seq(Alphabet)
<1> TAKE t, m, c \in Nat
<1> SUFFICES
      ASSUME t + c <= Len(s), m + c <= Len(q), \A k \in 1 .. c : s[t + k] = q[m + k]
      PROVE  SubSeq(s, 1, t) \o SubSeq(q, m + 1, m + c) = SubSeq(s, 1, t + c)
  BY Zenon
<1> DEFINE a == SubSeq(s, 1, t)
           b == SubSeq(q, m + 1, m + c)
           z == SubSeq(s, 1, t + c)
<1>1. a \in Seq(Alphabet) /\ Len(a) = t /\ \A k \in 1 .. t : a[k] = s[k]
  OBVIOUS
<1>2. b \in Seq(Alphabet) /\ Len(b) = c /\ \A k \in 1 .. c : b[k] = q[m + k]
  OBVIOUS
<1>3. z \in Seq(Alphabet) /\ Len(z) = t + c /\ \A k \in 1 .. t + c : z[k] = s[k]
  OBVIOUS
<1> HIDE DEF a, b, z
<1>4. /\ a \o b \in Seq(Alphabet) /\ Len(a \o b) = t + c
      /\ \A k \in 1 .. t + c : (a \o b)[k] = IF k <= t THEN a[k] ELSE b[k - t]
  <2>1. a \in Seq(Alphabet) /\ b \in Seq(Alphabet)
    BY <1>1, <1>2
  <2>2. /\ a \o b \in Seq(Alphabet) /\ Len(a \o b) = Len(a) + Len(b)
        /\ \A k \in 1 .. Len(a) + Len(b) :
             (a \o b)[k] = IF k <= Len(a) THEN a[k] ELSE b[k - Len(a)]
    BY <2>1, ConcatProperties, Zenon
  <2> QED
    BY <1>1, <1>2, <2>2
<1>5. ASSUME NEW k \in 1 .. t + c PROVE (a \o b)[k] = z[k]
  <2>1. k > t => k - t \in 1 .. c /\ t + (k - t) = k
    OBVIOUS
  <2>2. k <= t => k \in 1 .. t
    OBVIOUS
  <2>3. CASE k <= t
    BY <1>1, <1>4, <2>2, <2>3, <1>3
  <2>4. CASE k > t
    <3>1. b[k - t] = q[m + (k - t)] /\ s[t + (k - t)] = q[m + (k - t)]
      BY <1>2, <2>1, <2>4
    <3>2. (a \o b)[k] = b[k - t]
      BY <1>4, <2>4
    <3> QED
      BY <1>3, <2>1, <2>4, <3>1, <3>2
  <2>5. k <= t \/ k > t
    OBVIOUS
  <2> QED
    BY <2>3, <2>4, <2>5, Zenon
<1>6. a \o b = z
  BY <1>3, <1>4, <1>5, SeqEqual
<1> QED
  BY <1>6, Zenon DEF a, b, z

\* The least of some numbers.
LEMMA LeastOf ==
  ASSUME NEW S \in SUBSET Nat, NEW m \in S, \A k \in S : m <= k
  PROVE  Min(S) = m
<1>1. \A k \in S : (\A j \in S : k <= j) => k = m
  OBVIOUS
<1> QED
  BY <1>1 DEF Min

\* No more is copied than there is of the chunk, of bytes and of room.
LEMMA Copies ==
  ASSUME TypeOK
  PROVE  /\ CopyLen \in Nat /\ CopyLen <= rem_len /\ CopyLen <= Avail
         /\ ~counting => CopyLen <= room
         /\ CopyLen = 0 => rem_len = 0 \/ Avail = 0 \/ (~counting /\ room = 0)
<1> DEFINE S == {rem_len, Avail} \cup IF counting THEN {} ELSE {room}
<1>1. rem_len \in Nat /\ Avail \in Nat /\ room \in Nat
  BY Types
<1>2. PICK m \in S : \A k \in S : m <= k
  <2>1. CASE counting
    BY <1>1, <2>1
  <2>2. CASE ~counting
    BY <1>1, <2>2
  <2> QED
    BY <2>1, <2>2
<1>3. S \in SUBSET Nat
  BY <1>1
<1>4. CopyLen = m
  <2> HIDE DEF S
  <2>1. Min(S) = m
    BY <1>2, <1>3, LeastOf
  <2> QED
    BY <2>1 DEF CopyLen, S
<1> QED
  BY <1>1, <1>2, <1>4

LEMMA MatchesIs ==
  ASSUME TypeOK, Avail # 0
  PROVE  Matches <=> (Seen(1) = "cr" /\ (Avail >= 2 => Seen(2) = "lf"))
<1> DEFINE w == <<"cr", "lf">>
           m == Min({Avail, 2})
<1>1. Avail \in Nat /\ Avail >= 1 /\ consumed \in Nat /\ Stream \in Seq(Alphabet)
      /\ consumed + Avail <= Len(Stream)
  BY Types
<1>2. m \in 1 .. 2 /\ m <= Avail /\ (m = 2 <=> Avail >= 2)
  <2>1. Avail = 1 => m = 1
    BY LeastOf
  <2>2. Avail >= 2 => m = 2
    BY <1>1, LeastOf
  <2> QED
    BY <1>1, <2>1, <2>2
<1>3. w \in Seq(Alphabet) /\ Len(w) = 2 /\ w[1] = "cr" /\ w[2] = "lf"
  <2>1. Len(w) = 2 /\ w[1] = "cr" /\ w[2] = "lf"
    OBVIOUS
  <2>2. w \in Seq(Alphabet)
    BY DEF Alphabet
  <2> QED
    BY <2>1, <2>2
<1> HIDE DEF w, m
<1> DEFINE a == Peek(m)
           b == SubSeq(w, 1, m)
<1>4. a \in Seq(Alphabet) /\ Len(a) = m /\ \A k \in 1 .. m : a[k] = Seen(k)
  BY <1>1, <1>2 DEF Peek, Seen
<1>5. b \in Seq(Alphabet) /\ Len(b) = m /\ \A k \in 1 .. m : b[k] = w[k]
  BY <1>2, <1>3
<1> HIDE DEF a, b
<1>6. a = b <=> \A k \in 1 .. m : Seen(k) = w[k]
  <2>1. a = b => \A k \in 1 .. m : Seen(k) = w[k]
    BY <1>4, <1>5
  <2>2. (\A k \in 1 .. m : Seen(k) = w[k]) => a = b
    BY <1>4, <1>5, SeqEqual
  <2> QED
    BY <2>1, <2>2
<1>7. Matches <=> a = b
  BY DEF Matches, a, b, w, m
<1>8. (\A k \in 1 .. m : Seen(k) = w[k]) <=> (Seen(1) = "cr" /\ (Avail >= 2 => Seen(2) = "lf"))
  BY <1>1, <1>2, <1>3
<1> QED
  BY <1>6, <1>7, <1>8

\* A line end that is one matches, and what is wrong does not once it is there.
LEMMA EndsRight ==
  ASSUME TypeOK, NEW p \in Parts(body), AtEnd(p), Avail # 0
  PROVE  /\ body.roles[p] = "end" => Matches
         /\ body.roles[p] = "wrong" /\ Matches => Avail = 1 /\ Length(body, p) >= 2
<1>1. \A k : Seen(k) = At(body, p, k)
  BY DEF AtEnd, Seen, At, Stream
<1>2. body.roles[p] = "end" => Seen(1) = "cr" /\ Seen(2) = "lf"
  BY <1>1, Roles, Types
<1>3. body.roles[p] = "wrong" => NoEnd(body, p)
  BY Roles, Types DEF AtEnd
<1>4. Avail \in Nat /\ Length(body, p) \in Nat
  BY Types, Layout
<1> QED
  BY <1>1, <1>2, <1>3, <1>4, MatchesIs DEF NoEnd

-----------------------------------------------------------------------------
(* The steps.                                                              *)

LEMMA InitHolds == Init => IInv
<1> SUFFICES ASSUME Init PROVE IInv
  OBVIOUS
<1>1. body \in Bodies /\ limit \in Nat \ {0} /\ limit \in Limits
  BY GrammarAssumption DEF Init
<1>2. Laid(body)
  BY <1>1, GrammarAssumption
<1>3. 1 \in Parts(body)
  BY <1>2 DEF Laid, Parts, Count
<1>4. body.ends[1 - 1] = 0 /\ body.decoded[1 - 1] = 0 /\ Whole(body) \in Nat /\ Whole(body) >= 1
  <2>1. 1 - 1 = 0
    OBVIOUS
  <2>2. body.ends[1 - 1] = 0 /\ body.decoded[1 - 1] = 0
    BY <1>1, <1>3, <2>1, Layout, Zenon
  <2>3. /\ body.ends[1] = body.ends[1 - 1] + Length(body, 1) /\ Length(body, 1) \in Nat \ {0}
        /\ Whole(body) \in 0 .. Len(Stream) /\ body.ends[1] <= Whole(body) /\ Len(Stream) \in Nat
    BY <1>1, <1>3, Layout, Zenon
  <2> QED
    BY <2>2, <2>3
<1>5. AtLine(1)
  BY <1>4 DEF AtLine, Init, Before
<1>6. Stream \in Seq(Alphabet) /\ Len(Stream) \in Nat
  BY <1>1, <1>3, Layout
<1>7. TypeOK
  <2>1. arrived \in 0 .. Len(Stream) /\ consumed \in 0 .. arrived /\ room \in 0 .. MaxRoom
    BY <1>6, ChunkedBodyAssumption DEF Init
  <2>2. off \in 0 .. Avail /\ rem_len \in Nat
    BY DEF Init, Avail
  <2> QED
    BY <2>1, <2>2 DEF TypeOK, Init
<1>8. Place
  BY <1>3, <1>5 DEF Place, Init
<1>9. Scanned
  BY <1>1, GrammarAssumption DEF Scanned, Init
<1>10. Within /\ RefusedRight /\ LimitKept /\ PredictionHolds /\ AgainHonest
  BY <1>1 DEF Within, RefusedRight, LimitKept, PredictionHolds, AgainHonest, Init
<1>11. DecodedRight
  <2>1. SubSeq(body.payload, 1, 0) = <<>>
    BY SubSeqEmpty
  <2> QED
    BY <1>4, <2>1 DEF DecodedRight, Init
<1> QED
  BY <1>7, <1>8, <1>9, <1>10, <1>11 DEF IInv

\* A call goes on where the last one stopped, and looks at a line again.
LEMMA CallStep == IInv /\ Call => IInv'
<1> SUFFICES ASSUME IInv, Call PROVE IInv'
  OBVIOUS
<1>1. TypeOK /\ Place /\ Within /\ DecodedRight /\ PredictionHolds
  BY DEF IInv
<1>2. body' = body /\ limit' = limit /\ counting' = counting
  BY DEF Call, input
<1>3. /\ UNCHANGED <<consumed, found_zero_len, rem_len, tot_len, tot_len_raw, out>>
      /\ off' = 0 /\ at' = "digits" /\ result' = "scan"
      /\ result \in {"none", "EAGAIN", "ENOBUFS"}
  BY DEF Call, count
<1>4. state' = (IF state = "INIT" THEN "LEN" ELSE state) /\ max_len' = limit + 1
  BY <1>1 DEF Call, Prepare, Within
<1>5. TypeOK'
  <2>1. arrived' \in 0 .. Len(Stream) /\ consumed \in 0 .. arrived'
    <3>1. arrived' \in arrived .. Len(Stream)
      BY DEF Call
    <3> QED
      BY <1>1, <3>1, Types
  <2>2. room' \in 0 .. MaxRoom
    BY ChunkedBodyAssumption DEF Call
  <2>3. off' \in 0 .. Avail'
    <3>1. arrived' \in Nat /\ consumed \in Nat /\ consumed <= arrived'
      BY <1>1, <2>1, Types
    <3>2. \A a, c \in Nat : c <= a => 0 \in 0 .. a - c
      OBVIOUS
    <3>3. 0 \in 0 .. arrived' - consumed
      BY <3>1, <3>2, Zenon
    <3> QED
      BY <1>3, <3>3 DEF Avail
  <2>4. state' \in {"INIT", "LEN", "DATA", "TR", "DONE"}
    BY <1>1, <1>4 DEF TypeOK
  <2> QED
    BY <1>1, <1>2, <1>3, <1>4, <2>1, <2>2, <2>3, <2>4 DEF TypeOK, Stream
<1>6. Place'
  <2>1. \A p : (AtLine(p) => AtLine(p)') /\ (AtData(p) => AtData(p)') /\ (AtEnd(p) => AtEnd(p)')
    BY <1>2, <1>3 DEF AtLine, AtData, AtEnd, Before
  <2> QED
    BY <1>1, <1>2, <1>3, <1>4, <2>1 DEF Place
<1>7. Scanned'
  BY <1>1, <1>3, Types DEF Scanned
<1>8. Within'
  <2>1. tot_len_raw \in Nat /\ limit \in Nat
    BY <1>1, Types DEF DecodedRight
  <2>2. tot_len_raw < limit + 1
    BY <1>1, <1>3, <2>1 DEF Within
  <2> QED
    BY <1>1, <1>2, <1>3, <1>4, <2>2 DEF Within
<1>9. DecodedRight'
  BY <1>1, <1>2, <1>3 DEF DecodedRight
<1>10. PredictionHolds'
  BY <1>1, <1>3, <1>4 DEF PredictionHolds, Within
<1>11. RefusedRight' /\ LimitKept' /\ AgainHonest'
  BY <1>3 DEF RefusedRight, LimitKept, AgainHonest
<1> QED
  BY <1>5, <1>6, <1>7, <1>8, <1>9, <1>10, <1>11 DEF IInv

\* A call may return if what it returns is right.
LEMMA ReturnStep ==
  ASSUME IInv, result = "scan", NEW r \in {"EAGAIN", "ENOBUFS", "EINVAL", "E2BIG"}, Return(r),
         r = "EINVAL" => ~body.good,
         r = "E2BIG" /\ body.good => Whole(body) > limit,
         r = "EAGAIN" =>
           \A i \in Parts(body) :
             /\ body.ends[i] <= arrived => body.ends[i] <= consumed
             /\ body.roles[i] = "data" /\ arrived \in body.ends[i - 1] .. body.ends[i]
                  => consumed = arrived,
         r = "ENOBUFS" =>
           /\ room = 0
           /\ \E i \in Parts(body) :
                body.roles[i] = "data" /\ consumed \in body.ends[i - 1] .. body.ends[i] - 1
  PROVE  IInv'
<1>1. /\ TypeOK /\ Place /\ Scanned /\ Within /\ DecodedRight /\ PredictionHolds
  BY DEF IInv
<1>2. /\ UNCHANGED <<body, limit, counting, arrived, room, consumed, state, found_zero_len,
                     rem_len, tot_len, tot_len_raw, max_len, off, at, out>>
      /\ result' = r
  BY DEF Return, input, count, line
<1>3. TypeOK'
  BY <1>1, <1>2 DEF TypeOK, Stream, Avail
<1>4. Place'
  <2>1. \A p : (AtLine(p) => AtLine(p)') /\ (AtData(p) => AtData(p)') /\ (AtEnd(p) => AtEnd(p)')
    BY <1>2 DEF AtLine, AtData, AtEnd, Before
  <2> QED
    BY <1>1, <1>2, <2>1 DEF Place
<1>5. Scanned'
  BY <1>1, <1>2 DEF Scanned, Seen, Stream
<1>6. Within' /\ PredictionHolds'
  BY <1>1, <1>2 DEF Within, PredictionHolds
<1>7. DecodedRight'
  BY <1>1, <1>2 DEF DecodedRight
<1>8. RefusedRight'
  BY <1>2 DEF RefusedRight
<1>9. LimitKept'
  <2>1. consumed <= limit
    <3>1. consumed < limit + 1
      BY <1>1 DEF Within, DecodedRight, Place
    <3> QED
      BY <1>1, <3>1, Types
  <2> QED
    BY <1>2, <2>1 DEF LimitKept
<1>10. AgainHonest'
  BY <1>2 DEF AgainHonest
<1> QED
  BY <1>3, <1>4, <1>5, <1>6, <1>7, <1>8, <1>9, <1>10 DEF IInv

LEMMA StarveSteps == IInv /\ (LenStarve \/ DataStarve \/ TrStarve) => IInv'
<1> SUFFICES ASSUME IInv, LenStarve \/ DataStarve \/ TrStarve PROVE IInv'
  OBVIOUS
<1>1. /\ TypeOK /\ Place /\ Scanned /\ body \in Bodies
      /\ arrived \in Nat /\ consumed \in Nat /\ off \in Nat /\ consumed + Avail = arrived
  BY Types DEF IInv
<1>2. result = "scan" /\ Return("EAGAIN")
  BY DEF LenStarve, DataStarve, TrStarve, In
\* What is not consumed is no whole part.
<1>3. consumed = arrived \/ \E p \in Parts(body) :
        /\ consumed = body.ends[p - 1] /\ arrived < body.ends[p]
        /\ body.roles[p] # "data"
  <2>1. CASE LenStarve
    <3>1. state = "LEN" /\ ~HasByte
      BY <2>1 DEF LenStarve, In
    <3>2. PICK p \in Parts(body) : AtLine(p)
      BY <1>1, <1>2, <3>1 DEF Place
    <3>3. off < Length(body, p) /\ body.roles[p] # "data"
      BY <1>1, <3>2, Unfinished
    <3>4. consumed + off >= arrived
      BY <1>1, <3>1 DEF HasByte
    <3>5. consumed = body.ends[p - 1] /\ arrived < body.ends[p]
      BY <1>1, <3>2, <3>3, <3>4, Layout DEF AtLine
    <3> QED
      BY <3>3, <3>5
  <2>2. CASE DataStarve
    BY <1>1, <2>2 DEF DataStarve
  <2>3. CASE TrStarve /\ Avail # 0
    <3>1. state = "TR" /\ Avail = 1 /\ Matches
      BY <2>3 DEF TrStarve, In
    <3>2. PICK p \in Parts(body) : AtEnd(p)
      BY <1>1, <1>2, <3>1 DEF Place
    <3>3. Length(body, p) >= 2 /\ body.roles[p] # "data"
      BY <1>1, <2>3, <3>1, <3>2, EndsRight, Roles DEF AtEnd
    <3>4. consumed = body.ends[p - 1] /\ arrived < body.ends[p]
      <4>1. body.ends[p] = body.ends[p - 1] + Length(body, p) /\ Length(body, p) \in Nat
        BY <1>1, Layout
      <4> QED
        BY <1>1, <3>1, <3>2, <3>3, <4>1 DEF AtEnd
    <3> QED
      BY <3>3, <3>4
  <2>4. CASE TrStarve /\ Avail = 0
    BY <1>1, <2>4
  <2> QED
    BY <2>1, <2>2, <2>3, <2>4
<1>4. ASSUME NEW i \in Parts(body)
      PROVE  /\ body.ends[i] <= arrived => body.ends[i] <= consumed
             /\ body.roles[i] = "data" /\ arrived \in body.ends[i - 1] .. body.ends[i]
                  => consumed = arrived
  <2>1. /\ body.ends[i] \in Nat /\ body.ends[i - 1] \in Nat /\ i \in Nat
        /\ body.ends[i - 1] < body.ends[i]
    <3>1. i \in Nat
      BY DEF Parts
    <3> QED
      BY <1>1, <3>1, Ends, Zenon
  <2>2. CASE consumed = arrived
    BY <1>1, <2>1, <2>2
  <2>3. ASSUME NEW p \in Parts(body),
               consumed = body.ends[p - 1], arrived < body.ends[p], body.roles[p] # "data"
        PROVE  /\ body.ends[i] <= arrived => body.ends[i] <= consumed
               /\ body.roles[i] = "data" /\ arrived \in body.ends[i - 1] .. body.ends[i]
                    => consumed = arrived
    <3>1. body.ends[p] \in Nat /\ p \in Nat
      BY <1>1, Layout
    <3>2. CASE i < p
      <4>1. body.ends[i] <= consumed /\ consumed <= arrived
        BY <1>1, <2>3, <3>2, Apart, Types
      <4> QED
        BY <1>1, <2>1, <4>1
    <3>3. CASE i > p
      <4>1. body.ends[p] <= body.ends[i - 1]
        BY <1>1, <3>3, Apart
      <4> QED
        BY <1>1, <2>1, <2>3, <3>1, <4>1
    <3>4. CASE i = p
      BY <1>1, <2>1, <2>3, <3>4
    <3> QED
      BY <2>1, <3>1, <3>2, <3>3, <3>4
  <2> QED
    BY <1>3, <2>2, <2>3
<1> QED
  BY <1>2, <1>4, ReturnStep

LEMMA DataFullStep == IInv /\ DataFull => IInv'
<1> SUFFICES ASSUME IInv, DataFull PROVE IInv'
  OBVIOUS
<1>1. TypeOK /\ Place /\ body \in Bodies
  BY Types DEF IInv
<1>2. /\ result = "scan" /\ state = "DATA" /\ Return("ENOBUFS")
      /\ Avail > 0 /\ CopyLen = 0
  BY DEF DataFull, In, WhenFull
<1>3. PICK p \in Parts(body) : AtData(p)
  BY <1>1, <1>2 DEF Place
<1>4. rem_len \in 1 .. Length(body, p) /\ consumed = body.ends[p] - rem_len /\ body.roles[p] = "data"
  BY <1>3 DEF AtData
<1>5. room = 0
  BY <1>1, <1>2, <1>4, Copies, Types
<1>6. consumed \in body.ends[p - 1] .. body.ends[p] - 1
  <2>1. /\ body.ends[p] = body.ends[p - 1] + Length(body, p)
        /\ body.ends[p - 1] \in Nat /\ Length(body, p) \in Nat
    BY <1>1, Layout
  <2> QED
    BY <1>4, <2>1
<1> QED
  BY <1>2, <1>4, <1>5, <1>6, ReturnStep

LEMMA MalformedSteps == IInv /\ (LenMalformed \/ TrMalformed) => IInv'
<1> SUFFICES ASSUME IInv, LenMalformed \/ TrMalformed PROVE IInv'
  OBVIOUS
<1>1. TypeOK /\ Place /\ Scanned /\ body \in Bodies /\ off \in Nat /\ MaxDigits \in Nat
  BY Types DEF IInv
<1>2. result = "scan" /\ Return("EINVAL")
  BY DEF LenMalformed, TrMalformed, In
<1>3. ASSUME body.good PROVE FALSE
  <2>1. CASE LenMalformed
    <3>1. PICK p \in Parts(body) : AtLine(p)
      BY <1>1, <1>2, <2>1 DEF Place, LenMalformed, In
    <3>2. /\ at = "digits" => off < MaxDigits /\ (off = 0 => Byte \in Hex)
          /\ at = "lf" => Byte = "lf"
      BY <1>1, <1>3, <3>1, LineAccepted
    <3> QED
      BY <1>1, <2>1, <3>2 DEF LenMalformed
  <2>2. CASE TrMalformed
    <3>1. state = "TR" /\ Avail # 0 /\ ~Matches
      BY <1>1, <2>2, Types DEF TrMalformed, In
    <3>2. PICK p \in Parts(body) : AtEnd(p)
      BY <1>1, <1>2, <3>1 DEF Place
    <3>3. body.roles[p] = "wrong"
      BY <1>1, <3>1, <3>2, EndsRight DEF AtEnd
    <3> QED
      BY <1>1, <1>3, <3>3, Roles
  <2> QED
    BY <2>1, <2>2
<1> QED
  BY <1>2, <1>3, ReturnStep

LEMMA ExceedsSteps == IInv /\ (LenExceeds \/ TrExceeds) => IInv'
<1> SUFFICES ASSUME IInv, LenExceeds \/ TrExceeds PROVE IInv'
  OBVIOUS
<1>1. /\ TypeOK /\ Place /\ Scanned /\ body \in Bodies
      /\ off \in Nat /\ consumed \in Nat /\ limit \in Nat
  BY Types DEF IInv
<1>2. result = "scan" /\ Return("E2BIG") /\ state # "INIT"
  BY DEF LenExceeds, TrExceeds, In
<1>3. tot_len_raw = consumed /\ max_len = limit + 1
  BY <1>2 DEF IInv, DecodedRight, Within
<1>4. ASSUME body.good PROVE Whole(body) > limit
  <2>1. CASE LenExceeds
    <3>1. PICK p \in Parts(body) : AtLine(p)
      BY <1>1, <1>2, <2>1 DEF Place, LenExceeds, In
    <3>2. off < Length(body, p) /\ Length(body, p) \in Nat
      BY <1>1, <3>1, Unfinished, Layout
    <3>3. consumed + off + 1 > limit
      BY <1>1, <1>3, <2>1 DEF LenExceeds, TooLong
    <3>4. consumed + Length(body, p) <= Whole(body) /\ Whole(body) \in Nat
      BY <1>1, <3>1, Layout DEF AtLine
    <3> QED
      BY <1>1, <3>2, <3>3, <3>4
  <2>2. CASE TrExceeds
    <3>1. PICK p \in Parts(body) : AtEnd(p)
      BY <1>1, <1>2, <2>2 DEF Place, TrExceeds, In
    <3>2. body.roles[p] = "end"
      BY <1>1, <1>4, <3>1, Roles DEF AtEnd
    <3>3. Length(body, p) = 2
      BY <1>1, <3>2, Roles
    <3>4. consumed + 2 <= Whole(body) /\ Whole(body) \in Nat
      BY <1>1, <3>1, <3>3, Layout DEF AtEnd
    <3> QED
      BY <1>1, <1>3, <2>2, <3>4 DEF TrExceeds, TooLong
  <2> QED
    BY <2>1, <2>2
<1> QED
  BY <1>2, <1>4, ReturnStep

\* One more byte of a line is looked at, or its size ends.
LEMMA AdvanceStep == IInv /\ LenAdvance => IInv'
<1> SUFFICES ASSUME IInv, LenAdvance PROVE IInv'
  OBVIOUS
<1>1. /\ TypeOK /\ Place /\ Scanned /\ Within /\ DecodedRight
      /\ off \in Nat /\ consumed \in Nat /\ arrived \in Nat /\ consumed + Avail = arrived
      /\ Avail \in Nat /\ MaxDigits \in Nat
  BY Types DEF IInv
<1>2. /\ UNCHANGED <<body, limit, counting, arrived, room, consumed, state, found_zero_len,
                     rem_len, tot_len, tot_len_raw, max_len, out, result>>
      /\ result = "scan" /\ state = "LEN" /\ consumed + off < arrived
  BY DEF LenAdvance, input, count, In, HasByte
<1>3. Byte = Seen(off + 1)
  BY <1>1 DEF Byte, Seen
<1>4. \/ /\ at = "digits" /\ off < MaxDigits /\ Byte \in Hex
         /\ off' = off + 1 /\ at' = "digits"
      \/ /\ at = "digits" /\ off \in 1 .. MaxDigits - 1 /\ Byte \notin Hex
         /\ off' = off /\ at' = "ext"
      \/ /\ at = "ext" /\ Byte # "lf"
         /\ off' = off + 1 /\ at' = IF Byte = "cr" THEN "lf" ELSE "ext"
  BY DEF LenAdvance
<1>5. \A k : Seen(k)' = Seen(k)
  BY <1>2 DEF Seen, Stream
<1>6. TypeOK'
  <2>1. off' \in 0 .. Avail
    BY <1>1, <1>2, <1>4
  <2>2. Avail' = Avail /\ Stream' = Stream
    BY <1>2 DEF Avail, Stream
  <2> QED
    BY <1>1, <1>2, <1>4, <2>1, <2>2 DEF TypeOK
<1>7. Place'
  <2>1. \A p : (AtLine(p) => AtLine(p)') /\ (AtData(p) => AtData(p)') /\ (AtEnd(p) => AtEnd(p)')
    BY <1>2 DEF AtLine, AtData, AtEnd, Before
  <2> QED
    BY <1>1, <1>2, <2>1 DEF Place
<1>8. Scanned'
  <2>1. CASE at = "digits" /\ at' = "digits"
    <3>1. \A k \in 1 .. off' : k \in 1 .. off \/ k = off + 1
      BY <1>1, <1>4, <2>1
    <3>2. off' <= MaxDigits /\ \A k \in 1 .. off' : Seen(k) \in Hex
      BY <1>1, <1>3, <1>4, <2>1, <3>1 DEF Scanned
    <3>3. \A k \in 1 .. off' : Seen(k) # "lf" /\ Seen(k) # "cr"
      BY <3>2 DEF Hex
    <3> QED
      BY <1>2, <1>5, <2>1, <3>2, <3>3 DEF Scanned
  <2>2. CASE at = "digits" /\ at' = "ext"
    <3>1. off' = off /\ off \in 1 .. MaxDigits - 1 /\ Seen(off + 1) \notin Hex
      BY <1>3, <1>4, <2>2
    <3>2. \A k \in 1 .. off : Seen(k) \in Hex
      BY <2>2, <1>1 DEF Scanned
    <3>3. Seen(1) \in Hex
      BY <3>1, <3>2
    <3>4. \A k \in 1 .. off : Seen(k) # "lf" /\ Seen(k) # "cr"
      BY <3>2 DEF Hex
    <3> QED
      BY <1>2, <1>5, <2>2, <3>1, <3>3, <3>4 DEF Scanned
  <2>3. CASE at = "ext"
    <3>1. /\ off' = off + 1 /\ Seen(off + 1) # "lf"
          /\ at' = IF Seen(off + 1) = "cr" THEN "lf" ELSE "ext"
      BY <1>3, <1>4, <2>3
    <3>2. \A k \in 1 .. off' : (k \in 1 .. off /\ k # off') \/ k = off'
      BY <1>1, <3>1
    <3>3. \A k \in 1 .. off : Seen(k) # "lf" /\ Seen(k) # "cr"
      BY <1>1, <2>3 DEF Scanned
    <3>4. \A k \in 1 .. off' : Seen(k) # "lf" /\ (Seen(k) = "cr" <=> k = off' /\ at' = "lf")
      BY <3>1, <3>2, <3>3
    <3>5. at' # "digits" /\ off' >= 1
      BY <1>1, <3>1
    <3>6. Seen(1) \in Hex /\ \E d \in 1 .. MaxDigits - 1 : Seen(d + 1) \notin Hex
      BY <1>1, <2>3 DEF Scanned
    <3> QED
      BY <1>2, <1>5, <3>4, <3>5, <3>6 DEF Scanned
  <2> QED
    BY <1>4, <2>1, <2>2, <2>3
<1>9. Within' /\ PredictionHolds'
  BY <1>1, <1>2 DEF IInv, Within, PredictionHolds
<1>10. DecodedRight'
  BY <1>1, <1>2 DEF DecodedRight
<1>11. RefusedRight' /\ LimitKept' /\ AgainHonest'
  BY <1>2 DEF RefusedRight, LimitKept, AgainHonest
<1> QED
  BY <1>6, <1>7, <1>8, <1>9, <1>10, <1>11 DEF IInv

\* A size line is consumed whole, and what it announces follows or is refused.
LEMMA LenDoneStep == IInv /\ LenDone => IInv'
<1> SUFFICES ASSUME IInv, LenDone PROVE IInv'
  OBVIOUS
<1> DEFINE size == SizeOf(Peek(off + 1))
<1>1. /\ TypeOK /\ Place /\ Scanned /\ Within /\ DecodedRight /\ body \in Bodies
      /\ off \in Nat /\ consumed \in Nat /\ arrived \in Nat /\ limit \in Nat /\ limit >= 1
      /\ limit \in Limits
  BY Types DEF IInv, TypeOK
<1>2. /\ UNCHANGED <<body, limit, counting, arrived, room, tot_len, max_len, out>>
      /\ result = "scan" /\ state = "LEN" /\ consumed + off < arrived
      /\ Byte = "lf" /\ at # "digits"
      /\ consumed' = consumed + off + 1 /\ tot_len_raw' = tot_len_raw + off + 1
      /\ off' = 0 /\ at' = "digits" /\ rem_len' = size
  BY DEF LenDone, input, In, HasByte
<1>3. IF Predicted(size)
      THEN result' = "E2BIG" /\ state' = state /\ found_zero_len' = found_zero_len
      ELSE /\ state' = (IF size = 0 THEN "TR" ELSE "DATA")
           /\ found_zero_len' = (size = 0)
           /\ result' = "scan"
  BY <1>2 DEF LenDone
<1> HIDE DEF size
<1>4. PICK p \in Parts(body) : AtLine(p)
  BY <1>1, <1>2 DEF Place
<1>5. body.roles[p] = "size" /\ Length(body, p) = off + 1 /\ size = SizeOf(Part(body, p))
  BY <1>1, <1>2, <1>4, LineEnds DEF size
<1>6. /\ size \in Nat /\ p < Count(body)
      /\ \/ size = 0 /\ p + 1 = Count(body) /\ body.roles[p + 1] \in {"end", "wrong"}
         \/ body.roles[p + 1] = "data" /\ size = Length(body, p + 1) /\ p + 1 < Count(body)
         \/ body.roles[p + 1] = "data" /\ ~body.good /\ size >= limit
  BY <1>1, <1>5, Roles DEF Announces
<1> PICK c \in Nat : c = consumed + off + 1
  BY <1>1
<1>7. /\ p + 1 \in Parts(body) /\ (p + 1) - 1 = p /\ p \in Nat /\ p >= 1
      /\ body.ends[p] = c /\ c >= 1 /\ c <= arrived /\ consumed' = c
      /\ body.decoded[p] = tot_len
  <2>1. body.decoded[p] = body.decoded[p - 1]
    BY <1>1, <1>5, Decoding
  <2>2. body.ends[p] = body.ends[p - 1] + (off + 1)
    BY <1>1, <1>5, Layout
  <2>3. p + 1 \in Parts(body) /\ (p + 1) - 1 = p /\ p \in Nat /\ p >= 1
    BY <1>1, <1>6, Layout
  <2> QED
    BY <1>1, <1>2, <1>4, <2>1, <2>2, <2>3 DEF AtLine
<1>8. /\ body.ends[p + 1] = c + Length(body, p + 1)
      /\ body.decoded[p + 1] = tot_len + (IF body.roles[p + 1] = "data" THEN Length(body, p + 1) ELSE 0)
      /\ Length(body, p + 1) \in Nat \ {0}
      /\ Whole(body) \in Nat /\ body.ends[p + 1] <= Whole(body)
  <2>1. /\ body.ends[p + 1] = body.ends[(p + 1) - 1] + Length(body, p + 1)
        /\ Length(body, p + 1) \in Nat \ {0}
        /\ Whole(body) \in 0 .. Len(Stream) /\ body.ends[p + 1] <= Whole(body)
    BY <1>1, <1>7, Layout, Zenon
  <2>2. /\ body.roles[p + 1] # "data" => body.decoded[p + 1] = body.decoded[(p + 1) - 1]
        /\ body.roles[p + 1] = "data" =>
             body.decoded[p + 1] = body.decoded[(p + 1) - 1] + Length(body, p + 1)
    BY <1>1, <1>7, Decoding, Zenon
  <2>3. tot_len \in Nat /\ Len(Stream) \in Nat
    BY <1>1, <1>4, Layout DEF AtLine
  <2> QED
    BY <1>7, <2>1, <2>2, <2>3
<1>9. Predicted(size) <=> c + size >= limit + 1
  <2>1. tot_len_raw = consumed /\ max_len = limit + 1
    BY <1>1, <1>2 DEF DecodedRight, Within
  <2> QED
    BY <1>1, <1>2, <1>6, <2>1 DEF Predicted, TooLong
<1>10. Predicted(size) <=> result' = "E2BIG"
  BY <1>3
\* A size beyond every limit is refused, and 0 and the end of the body are one.
<1>11. ASSUME ~Predicted(size)
       PROVE  \/ size = 0 /\ AtEnd(p + 1)' /\ state' = "TR"
              \/ size # 0 /\ AtData(p + 1)' /\ state' = "DATA"
  <2>1. c + size < limit + 1
    BY <1>1, <1>6, <1>9, <1>11
  <2>2. p + 1 # 1 /\ body.roles[(p + 1) - 1] = "size"
    BY <1>5, <1>7
  <2>3. CASE size = 0
    <3>1. body.roles[p + 1] \in {"end", "wrong"}
      BY <1>1, <1>6, <1>8, <2>3
    <3>2. Before(body, p + 1) = "size" /\ found_zero_len' = TRUE
      BY <1>3, <1>11, <2>2, <2>3 DEF Before
    <3> QED
      BY <1>2, <1>3, <1>7, <1>11, <2>3, <3>1, <3>2 DEF AtEnd
  <2>4. CASE size # 0
    <3>1. body.roles[p + 1] = "data" /\ size = Length(body, p + 1) /\ p + 1 < Count(body)
      BY <1>1, <1>6, <1>7, <2>1, <2>4
    <3>2. size \in 1 .. size /\ c = body.ends[p + 1] - size /\ tot_len = body.decoded[p + 1] - size
      <4>1. tot_len \in Nat
        BY <1>1, <1>4, Layout DEF AtLine
      <4> QED
        BY <1>6, <1>7, <1>8, <2>4, <3>1, <4>1
    <3>3. found_zero_len' = FALSE
      BY <1>3, <1>11, <2>4
    <3>4. /\ body' = body /\ rem_len' = size /\ tot_len' = tot_len /\ state' = "DATA"
      BY <1>2, <1>3, <1>11, <2>4
    <3> QED
      BY <1>7, <2>4, <3>1, <3>2, <3>3, <3>4 DEF AtData
  <2> QED
    BY <2>3, <2>4
<1>12. TypeOK'
  <2>1. c \in 0 .. arrived
    BY <1>1, <1>7
  <2>2. 0 \in 0 .. arrived - c
    BY <1>1, <1>7
  <2>3. off' \in 0 .. Avail'
    BY <1>2, <1>7, <2>2 DEF Avail
  <2>4. state' \in {"LEN", "DATA", "TR"} /\ result' \in {"scan", "E2BIG"} /\ found_zero_len' \in BOOLEAN
    BY <1>1, <1>2, <1>3 DEF TypeOK
  <2> QED
    BY <1>1, <1>2, <1>6, <1>7, <2>1, <2>3, <2>4 DEF TypeOK, Stream
<1>13. Place'
  <2>1. state' # "INIT" /\ state' # "DONE" /\ result' # "none" /\ result' # "ok"
    BY <1>2, <1>3
  <2>2. CASE Predicted(size)
    BY <1>10, <2>1, <2>2 DEF Place
  <2>3. CASE ~Predicted(size)
    BY <1>2, <1>7, <1>11, <2>1, <2>3 DEF Place
  <2> QED
    BY <2>2, <2>3
<1>14. Scanned'
  BY <1>2, <1>1, GrammarAssumption DEF Scanned
<1>15. tot_len_raw' = c /\ consumed' = c /\ max_len' = limit + 1 /\ state' # "INIT"
  BY <1>1, <1>2, <1>3, <1>7 DEF DecodedRight, Within
<1>16. Within'
  <2>1. result' # "E2BIG" => c < limit + 1
    BY <1>1, <1>6, <1>7, <1>9, <1>10
  <2> QED
    BY <1>2, <1>15, <2>1 DEF Within
<1>17. PredictionHolds'
  <2>1. state' = "DATA" => c + size < limit + 1
    BY <1>1, <1>2, <1>3, <1>6, <1>7, <1>9
  <2> QED
    BY <1>2, <1>15, <2>1 DEF PredictionHolds
<1>18. DecodedRight'
  <2>1. result' # "ok" /\ c # Whole(body)
    BY <1>3, <1>7, <1>8
  <2>2. LET rest == body.ends[p] - c
        IN /\ rest \in 0 .. Length(body, p) - 1 /\ tot_len = body.decoded[p] - rest
           /\ body.roles[p] # "wrong"
           /\ body.roles[p] # "data" => rest = 0
    <3>1. body.ends[p] - c = 0 /\ 0 \in 0 .. Length(body, p) - 1
      BY <1>1, <1>5, <1>7
    <3>2. tot_len = body.decoded[p] - 0
      BY <1>1, <1>7, Layout
    <3> QED
      BY <1>5, <3>1, <3>2
  <2> QED
    BY <1>1, <1>2, <1>15, <2>1, <2>2 DEF DecodedRight
<1>19. LimitKept'
  <2> SUFFICES ASSUME Predicted(size), body.good PROVE Whole(body) > limit
    BY <1>2, <1>3 DEF LimitKept
  <2>1. size = 0 \/ size = Length(body, p + 1)
    BY <1>6
  <2> QED
    BY <1>1, <1>6, <1>7, <1>8, <1>9, <2>1
<1>20. RefusedRight' /\ AgainHonest'
  BY <1>3 DEF RefusedRight, AgainHonest
<1> QED
  BY <1>12, <1>13, <1>14, <1>16, <1>17, <1>18, <1>19, <1>20 DEF IInv

\* Data is appended where it belongs, and never beyond the limit.
LEMMA DataStep == IInv /\ Data => IInv'
<1> SUFFICES ASSUME IInv, Data PROVE IInv'
  OBVIOUS
<1>1. /\ TypeOK /\ Place /\ Scanned /\ Within /\ DecodedRight /\ PredictionHolds /\ body \in Bodies
      /\ consumed \in Nat /\ arrived \in Nat /\ consumed + Avail = arrived /\ Avail \in Nat
      /\ limit \in Nat /\ room \in Nat /\ room <= MaxRoom /\ MaxRoom \in Nat
  BY Types DEF IInv
<1> PICK c \in Nat : c = CopyLen /\ c <= rem_len /\ c <= Avail /\ (~counting => c <= room)
  BY <1>1, Copies
<1>2. result = "scan" /\ state = "DATA" /\ c # 0
  BY DEF Data, In
<1>3. PICK p \in Parts(body) : AtData(p)
  BY <1>1, <1>2 DEF Place
<1> DEFINE before == Length(body, p) - rem_len
<1>4. /\ rem_len \in Nat /\ rem_len >= 1 /\ before \in Nat /\ before + rem_len = Length(body, p)
      /\ consumed = body.ends[p - 1] + before /\ tot_len = body.decoded[p - 1] + before
      /\ consumed + rem_len = body.ends[p] /\ tot_len + rem_len = body.decoded[p]
      /\ tot_len \in Nat
  <2>1. /\ body.ends[p] = body.ends[p - 1] + Length(body, p) /\ Length(body, p) \in Nat
        /\ body.ends[p - 1] \in Nat /\ body.decoded[p - 1] \in Nat
    BY <1>1, Layout
  <2>2. body.decoded[p] = body.decoded[p - 1] + Length(body, p)
    BY <1>1, <1>3, Decoding DEF AtData
  <2> QED
    BY <1>3, <2>1, <2>2 DEF AtData
<1> HIDE DEF before
<1>5. tot_len_raw = consumed /\ max_len = limit + 1 /\ consumed + rem_len < limit + 1
  BY <1>1, <1>2 DEF DecodedRight, Within, PredictionHolds
<1>6. ~TooLong(c)
  BY <1>1, <1>4, <1>5 DEF TooLong
<1>7. /\ UNCHANGED <<body, limit, counting, arrived, found_zero_len, off, at, max_len, result>>
      /\ out' = (IF counting THEN out ELSE out \o Peek(c))
      /\ room' = (IF counting THEN room ELSE room - c)
      /\ consumed' = consumed + c /\ tot_len' = tot_len + c /\ tot_len_raw' = tot_len_raw + c
      /\ rem_len' = rem_len - c
      /\ state' = IF rem_len - c = 0 THEN "TR" ELSE "DATA"
  BY <1>2, <1>6 DEF Data, input, line
<1>8. /\ p + 1 \in Parts(body) /\ (p + 1) - 1 = p /\ p \in Nat /\ p >= 1 /\ p < Count(body)
      /\ body.roles[p] = "data" /\ body.roles[p + 1] \in {"end", "wrong"} /\ ~found_zero_len
      /\ body.ends[p] < Whole(body)
  <2>1. body.roles[p] = "data" /\ p < Count(body) /\ ~found_zero_len
    BY <1>3 DEF AtData
  <2>2. p + 1 \in Parts(body) /\ (p + 1) - 1 = p /\ p \in Nat /\ p >= 1
    BY <1>1, <2>1, Layout
  <2>3. body.roles[p + 1] \in {"end", "wrong"}
    BY <1>1, <2>1, Roles
  <2>4. body.ends[p] < Whole(body)
    <3>1. /\ body.ends[p + 1] = body.ends[(p + 1) - 1] + Length(body, p + 1)
          /\ Length(body, p + 1) \in Nat \ {0}
          /\ Whole(body) \in 0 .. Len(Stream) /\ body.ends[p + 1] <= Whole(body)
      BY <1>1, <2>2, Layout, Zenon
    <3>2. body.ends[p] \in Nat /\ Len(Stream) \in Nat
      BY <1>1, Layout
    <3> QED
      BY <2>2, <3>1, <3>2
  <2> QED
    BY <2>1, <2>2, <2>3, <2>4
<1>9. TypeOK'
  <2>1. consumed + c \in 0 .. arrived /\ rem_len - c \in Nat
    BY <1>1, <1>4
  <2>2. room' \in 0 .. MaxRoom
    <3>1. CASE counting
      BY <1>1, <1>7, <3>1
    <3>2. CASE ~counting
      <4>1. room - c \in 0 .. MaxRoom
        BY <1>1, <3>2
      <4> QED
        BY <1>7, <3>2, <4>1
    <3> QED
      BY <3>1, <3>2
  <2>3. off' \in 0 .. Avail'
    <3>1. 0 \in 0 .. arrived - (consumed + c)
      BY <1>1
    <3>2. off = 0
      BY <1>1, <1>2 DEF Scanned
    <3> QED
      BY <1>7, <3>1, <3>2 DEF Avail
  <2> QED
    BY <1>1, <1>7, <2>1, <2>2, <2>3 DEF TypeOK, Stream
<1>10. Place'
  <2>1. CASE rem_len - c = 0
    <3>1. consumed + c = body.ends[p] /\ tot_len + c = body.decoded[p]
      BY <1>1, <1>4, <2>1
    <3>2. Before(body, p + 1) = "data"
      BY <1>8 DEF Before
    <3>3. AtEnd(p + 1)'
      BY <1>7, <1>8, <3>1, <3>2 DEF AtEnd
    <3> QED
      BY <1>2, <1>7, <1>8, <2>1, <3>3 DEF Place
  <2>2. CASE rem_len - c # 0
    <3>1. /\ rem_len - c \in 1 .. Length(body, p)
          /\ consumed + c = body.ends[p] - (rem_len - c)
          /\ tot_len + c = body.decoded[p] - (rem_len - c)
      BY <1>1, <1>4, <2>2
    <3>2. AtData(p)'
      BY <1>7, <1>8, <3>1 DEF AtData
    <3> QED
      BY <1>2, <1>7, <2>2, <3>2 DEF Place
  <2> QED
    BY <2>1, <2>2
<1>11. Scanned'
  <2>1. off = 0 /\ at = "digits" /\ MaxDigits \in Nat
    BY <1>1, <1>2, Types DEF Scanned
  <2> QED
    BY <1>7, <2>1 DEF Scanned
<1>12. Within'
  <2>1. consumed + c < limit + 1
    BY <1>1, <1>4, <1>5
  <2> QED
    BY <1>5, <1>7, <2>1 DEF Within
<1>13. PredictionHolds'
  <2>1. (consumed + c) + (rem_len - c) < limit + 1
    BY <1>1, <1>4, <1>5
  <2> QED
    BY <1>5, <1>7, <2>1 DEF PredictionHolds
<1>14. out' = IF counting THEN <<>> ELSE SubSeq(body.payload, 1, tot_len + c)
  <2>1. CASE counting
    BY <1>1, <1>7, <2>1 DEF DecodedRight
  <2>2. CASE ~counting
    <3>1. /\ body.payload \in Seq(Alphabet) /\ Stream \in Seq(Alphabet)
          /\ body.decoded[p] <= Len(body.payload) /\ body.ends[p] <= Len(Stream)
          /\ Len(body.payload) \in Nat /\ Len(Stream) \in Nat
          /\ body.decoded[p] \in Nat /\ body.ends[p] \in Nat
      BY <1>1, Layout
    <3>2. tot_len + c <= Len(body.payload) /\ consumed + c <= Len(Stream)
      <4>1. \A t, r, d, l \in Nat : c <= r /\ t + r = d /\ d <= l => t + c <= l
        OBVIOUS
      <4> QED
        BY <1>1, <1>4, <3>1, <4>1, Zenon
    <3>3. \A k \in 1 .. c : body.payload[tot_len + k] = Stream[consumed + k]
      <4> TAKE k \in 1 .. c
      <4>1. before + k \in 1 .. Length(body, p)
        BY <1>4
      <4>2. body.payload[body.decoded[p - 1] + (before + k)] = At(body, p, before + k)
        BY <1>1, <1>8, <4>1, Decoding
      <4>3. /\ body.decoded[p - 1] + (before + k) = tot_len + k
            /\ body.ends[p - 1] + (before + k) = consumed + k
        <5>1. body.decoded[p - 1] \in Nat /\ body.ends[p - 1] \in Nat
          BY <1>1, Layout
        <5> QED
          BY <1>4, <5>1
      <4> QED
        BY <4>2, <4>3 DEF At, Stream
    <3>4. SubSeq(body.payload, 1, tot_len) \o SubSeq(Stream, consumed + 1, consumed + c)
            = SubSeq(body.payload, 1, tot_len + c)
      <4>1. tot_len \in Nat /\ consumed \in Nat /\ c \in Nat
        BY <1>1, <1>4
      <4>2. body.payload \in Seq(Alphabet) /\ Stream \in Seq(Alphabet)
        BY <3>1
      <4>3. \A t, m, n \in Nat :
              /\ t + n <= Len(body.payload) /\ m + n <= Len(Stream)
              /\ \A k \in 1 .. n : body.payload[t + k] = Stream[m + k]
              => SubSeq(body.payload, 1, t) \o SubSeq(Stream, m + 1, m + n)
                   = SubSeq(body.payload, 1, t + n)
        BY <4>2, Appended, Zenon
      <4> QED
        BY <3>2, <3>3, <4>1, <4>3, Zenon
    <3> QED
      BY <1>1, <1>7, <2>2, <3>4 DEF DecodedRight, Peek
  <2> QED
    BY <2>1, <2>2
<1>15. DecodedRight'
  <2>1. consumed + c # Whole(body)
    <3>1. Whole(body) \in Nat /\ body.ends[p] \in Nat
      BY <1>1, Layout
    <3> QED
      BY <1>1, <1>4, <1>8, <3>1
  <2>2. LET rest == body.ends[p] - (consumed + c)
        IN /\ rest \in 0 .. Length(body, p) - 1 /\ tot_len + c = body.decoded[p] - rest
           /\ body.roles[p] # "wrong"
           /\ body.roles[p] # "data" => rest = 0
    <3>1. body.ends[p] - (consumed + c) = rem_len - c
      BY <1>1, <1>4
    <3>2. rem_len - c \in 0 .. Length(body, p) - 1 /\ tot_len + c = body.decoded[p] - (rem_len - c)
      BY <1>2, <1>4
    <3> QED
      BY <1>8, <3>1, <3>2
  <2>3. result' # "ok"
    BY <1>2, <1>7
  <2> QED
    BY <1>5, <1>7, <1>14, <2>1, <2>2, <2>3 DEF DecodedRight
<1>16. RefusedRight' /\ LimitKept' /\ AgainHonest'
  BY <1>2, <1>7 DEF RefusedRight, LimitKept, AgainHonest
<1> QED
  BY <1>9, <1>10, <1>11, <1>12, <1>13, <1>15, <1>16 DEF IInv

\* A line end that matches is one: it ends a chunk, or the body.
LEMMA TrDoneStep == IInv /\ TrDone => IInv'
<1> SUFFICES ASSUME IInv, TrDone PROVE IInv'
  OBVIOUS
<1>1. /\ TypeOK /\ Place /\ Scanned /\ Within /\ DecodedRight /\ body \in Bodies
      /\ consumed \in Nat /\ arrived \in Nat /\ consumed + Avail = arrived /\ Avail \in Nat
      /\ limit \in Nat
  BY Types DEF IInv
<1>2. /\ UNCHANGED <<body, limit, counting, arrived, room, found_zero_len, rem_len, tot_len,
                     max_len, off, at, out>>
      /\ result = "scan" /\ state = "TR" /\ Avail >= 2 /\ ~TooLong(2) /\ Matches
      /\ consumed' = consumed + 2 /\ tot_len_raw' = tot_len_raw + 2
      /\ state' = (IF found_zero_len THEN "DONE" ELSE "LEN")
      /\ result' = IF state' = "DONE" THEN "ok" ELSE "scan"
  BY DEF TrDone, In, AfterEnd, input, line
<1>3. PICK p \in Parts(body) : AtEnd(p)
  BY <1>1, <1>2 DEF Place
<1>4. body.roles[p] = "end"
  BY <1>1, <1>2, <1>3, EndsRight DEF AtEnd
<1>5. /\ \/ found_zero_len /\ p = Count(body) /\ body.good
         \/ ~found_zero_len /\ p < Count(body)
      /\ body.ends[p] = consumed + 2 /\ body.decoded[p] = tot_len /\ tot_len \in Nat
      /\ Length(body, p) = 2
  <2>1. /\ Length(body, p) = 2
        /\ \/ Before(body, p) = "size" /\ p = Count(body)
           \/ Before(body, p) = "data" /\ p < Count(body)
    BY <1>1, <1>4, Roles
  <2>2. p = Count(body) => body.good
    BY <1>1, <1>4, Roles
  <2>3. body.ends[p] = body.ends[p - 1] + 2 /\ body.decoded[p] = body.decoded[p - 1]
        /\ body.decoded[p - 1] \in Nat
    BY <1>1, <1>4, <2>1, Layout, Decoding
  <2> QED
    BY <1>3, <2>1, <2>2, <2>3 DEF AtEnd
<1>6. tot_len_raw = consumed /\ max_len = limit + 1 /\ consumed + 2 < limit + 1
  <2>1. tot_len_raw = consumed /\ max_len = limit + 1
    BY <1>1, <1>2 DEF DecodedRight, Within
  <2> QED
    BY <1>1, <1>2, <2>1 DEF TooLong
<1>7. off = 0 /\ at = "digits"
  BY <1>1, <1>2 DEF Scanned
<1>8. TypeOK'
  <2>1. consumed + 2 \in 0 .. arrived /\ 0 \in 0 .. arrived - (consumed + 2)
    BY <1>1, <1>2
  <2>2. off' \in 0 .. Avail'
    BY <1>2, <1>7, <2>1 DEF Avail
  <2> QED
    BY <1>1, <1>2, <2>1, <2>2 DEF TypeOK, Stream
<1>9. Whole(body) \in Nat /\ Whole(body) >= consumed + 2
      /\ (found_zero_len <=> Whole(body) = consumed + 2)
  <2>1. Whole(body) \in Nat /\ Whole(body) >= consumed + 2
    BY <1>1, <1>5, Layout
  <2>2. found_zero_len => Whole(body) = consumed + 2
    BY <1>5 DEF Whole
  <2>3. ASSUME ~found_zero_len PROVE Whole(body) # consumed + 2
    <3>1. p + 1 \in Parts(body) /\ (p + 1) - 1 = p
      BY <1>1, <1>5, <2>3, Layout
    <3>2. /\ body.ends[p + 1] = body.ends[(p + 1) - 1] + Length(body, p + 1)
          /\ Length(body, p + 1) \in Nat \ {0} /\ body.ends[p + 1] <= Whole(body)
      BY <1>1, <3>1, Layout, Zenon
    <3> QED
      BY <1>1, <1>5, <2>1, <3>1, <3>2
  <2> QED
    BY <2>1, <2>2, <2>3
<1>10. Place'
  <2>1. CASE found_zero_len
    BY <1>2, <1>5, <1>9, <2>1 DEF Place
  <2>2. CASE ~found_zero_len
    <3>1. p + 1 \in Parts(body) /\ (p + 1) - 1 = p /\ p >= 1 /\ p \in Nat
      BY <1>1, <1>5, <2>2, Layout
    <3>2. Before(body, p + 1) = "end"
      BY <1>4, <3>1 DEF Before
    <3>3. AtLine(p + 1)'
      BY <1>2, <1>5, <3>1, <3>2 DEF AtLine
    <3> QED
      BY <1>2, <2>2, <3>1, <3>3 DEF Place
  <2> QED
    BY <2>1, <2>2
<1>11. Scanned'
  <2>1. MaxDigits \in Nat
    BY GrammarAssumption
  <2> QED
    BY <1>2, <1>7, <2>1 DEF Scanned
<1>12. Within' /\ PredictionHolds'
  BY <1>1, <1>2, <1>6 DEF Within, PredictionHolds
<1>13. DecodedRight'
  <2>1. LET rest == body.ends[p] - (consumed + 2)
        IN /\ rest \in 0 .. Length(body, p) - 1 /\ tot_len = body.decoded[p] - rest
           /\ body.roles[p] # "wrong"
           /\ body.roles[p] # "data" => rest = 0
    <3>1. body.ends[p] - (consumed + 2) = 0 /\ 0 \in 0 .. Length(body, p) - 1
      BY <1>1, <1>5
    <3>2. tot_len = body.decoded[p] - 0
      BY <1>5
    <3> QED
      BY <1>4, <3>1, <3>2
  <2>2. result' = "ok" <=> (body.good /\ consumed + 2 = Whole(body))
    BY <1>2, <1>5, <1>9
  <2> QED
    BY <1>1, <1>2, <1>6, <2>1, <2>2 DEF DecodedRight
<1>14. LimitKept'
  <2>1. result' = "ok" => Whole(body) <= limit
    BY <1>1, <1>2, <1>6, <1>9
  <2> QED
    BY <1>2, <2>1 DEF LimitKept
<1>15. RefusedRight' /\ AgainHonest'
  BY <1>2 DEF RefusedRight, AgainHonest
<1> QED
  BY <1>8, <1>10, <1>11, <1>12, <1>13, <1>14, <1>15 DEF IInv

-----------------------------------------------------------------------------
(* The theorems.                                                           *)

LEMMA StutterStep == IInv /\ UNCHANGED vars => IInv'
<1> SUFFICES ASSUME IInv, UNCHANGED vars PROVE IInv'
  OBVIOUS
<1>1. UNCHANGED <<body, limit, counting, arrived, room, consumed, state, found_zero_len,
                  rem_len, tot_len, tot_len_raw, max_len, off, at, out, result>>
  BY DEF vars, input, count, line
<1>2. TypeOK' /\ Scanned' /\ Within' /\ DecodedRight'
  BY <1>1 DEF IInv, TypeOK, Scanned, Within, DecodedRight, Stream, Avail, Seen
<1>3. Place'
  BY <1>1 DEF IInv, Place, AtLine, AtData, AtEnd, Before
<1>4. RefusedRight' /\ LimitKept' /\ PredictionHolds' /\ AgainHonest'
  BY <1>1 DEF IInv, RefusedRight, LimitKept, PredictionHolds, AgainHonest
<1> QED
  BY <1>2, <1>3, <1>4 DEF IInv

\* Every reachable state satisfies the invariant.
THEOREM Invariant == Spec => []IInv
<1>1. IInv /\ [Next]_vars => IInv'
  BY CallStep, StarveSteps, AdvanceStep, ExceedsSteps, MalformedSteps, LenDoneStep, DataFullStep,
     DataStep, TrDoneStep, StutterStep DEF Next, Parser
<1> QED
  BY <1>1, InitHolds, PTL DEF Spec

\* The variables have their types, and dst is never written beyond its room.
THEOREM TypeCorrect == Spec => []TypeOK
<1>1. IInv => TypeOK
  BY DEF IInv
<1> QED
  BY <1>1, Invariant, PTL

\* gwnet_http_body_parse_chunked decodes exactly the data, however bytes and
\* room are cut into calls, and is done at the end of the body and only there.
THEOREM DecodesRight == Spec => []DecodedRight
<1>1. IInv => DecodedRight
  BY DEF IInv
<1> QED
  BY <1>1, Invariant, PTL

\* It refuses no well-formed body as malformed.
THEOREM RefusesRight == Spec => []RefusedRight
<1>1. IInv => RefusedRight
  BY DEF IInv
<1> QED
  BY <1>1, Invariant, PTL

\* It accepts and refuses by the limit, and asks for nothing beyond it.
THEOREM KeepsLimit == Spec => []LimitKept
<1>1. IInv => LimitKept
  BY DEF IInv
<1> QED
  BY <1>1, Invariant, PTL

\* It refuses a chunk for its length by its size line or not at all.
THEOREM PredictsRight == Spec => []PredictionHolds
<1>1. IInv => PredictionHolds
  BY DEF IInv
<1> QED
  BY <1>1, Invariant, PTL

\* It asks for bytes or room only if it has used what it could.
THEOREM AsksHonestly == Spec => []AgainHonest
<1>1. IInv => AgainHonest
  BY DEF IInv
<1> QED
  BY <1>1, Invariant, PTL
=============================================================================
