-------------------------- MODULE HdrParserProofs --------------------------
(* What the parsers of headers consume, make and refuse, and where they   *)
(* read: for every stream that HdrGrammar allows, every limit, both habits *)
(* of setting it, and however the bytes are cut into calls.                *)
EXTENDS HdrParser, TLAPS, SequenceTheorems, FiniteSetTheorems

-----------------------------------------------------------------------------
(* What the parser expects behind the first j bytes of a line l with marks *)
(* q. This speaks of places in the line where the parser has its edges.    *)

\* Behind the CR or the LF of the end of line; s is expected behind a CR.
EndStands(l, q, j, p, s) ==
  /\ j = q.eol + 1 => /\ l[j] = "cr" => s = p
                      /\ l[j] = "lf" => s = "line"
  /\ j = q.eol + 2 => s = "line"

RequestStands(l, q, j, s) ==
  /\ j = 0 => s = "method"
  /\ j = 1 => s = IF l[1] = "O" THEN "gap_any" ELSE "space"
  /\ j = 2 => s = IF l[1] = "O" THEN "any" ELSE "slash"
  /\ j \in 3 .. q.eol - 3 => s = "uri"
  /\ j = q.eol - 2 => s = IF l[j] = "sp" THEN "prefix" ELSE "unfit"
  /\ j = q.eol - 1 => s = "digit"
  /\ j = q.eol => s = "eol"
  /\ EndStands(l, q, j, "lf", s)

StatusStands(l, q, j, s) ==
  /\ j = 0 => s = "status"
  /\ j = 1 => s = "version"
  /\ j = 2 => s = "gap"
  /\ j = 3 => s = "code1"
  /\ j = 4 => s = "code2"
  /\ j = 5 => s = "code3"
  /\ j = 6 => s = "behind"
  /\ j \in 7 .. q.eol => s = IF j <= q.from \/ q.from = q.upto THEN "blank" ELSE "reason"
  /\ EndStands(l, q, j, "val_lf", s)
  /\ j = q.eol + 1 /\ l[j] \notin {"cr", "lf"} => s = "unfit"

FieldStands(l, q, j, s) ==
  /\ j = 0 => s = "start"
  /\ j \in 1 .. q.begin => s = "bare"
  /\ j \in q.begin + 1 .. q.key => s = "key"
  /\ j = q.key + 1 => s = "colon"
  /\ j \in q.key + 2 .. q.eol => s = IF j <= q.from \/ q.from = q.upto THEN "ws" ELSE "val"
  /\ EndStands(l, q, j, "val_lf", s)

LastStands(l, j, s) ==
  s = IF j = 0 THEN "start" ELSE IF j = Len(l) THEN "end" ELSE "bare"

-----------------------------------------------------------------------------
(* The edges.                                                              *)

LEMMA RequestEdges ==
  \A c, t :
    /\ Goes("method", c, t) <=> (c = "M" /\ t = "space") \/ (c = "O" /\ t = "gap_any")
    /\ Goes("space", c, t)   <=> c = "sp" /\ t = "slash"
    /\ Goes("gap_any", c, t) <=> c = "sp" /\ t = "any"
    /\ Goes("slash", c, t)   <=> c = "/"  /\ t = "uri"
    /\ Goes("any", c, t) <=> \/ c \in Vchar \ {"sp"} /\ t = "uri"
                             \/ c = "sp" /\ t = "prefix"
    /\ Goes("uri", c, t) <=> \/ c \in Vchar \ {"sp"} /\ t = "uri"
                             \/ c = "sp" /\ t = "prefix"
                             \/ c \notin Vchar /\ t = "unfit"
    /\ Goes("prefix", c, t) <=> c = "P" /\ t = "digit"
    /\ Goes("digit", c, t)  <=> c = "1" /\ t = "eol"
    /\ Goes("eol", c, t) <=> (c = "cr" /\ t = "lf") \/ (c = "lf" /\ t = "line")
    /\ Goes("lf", c, t)  <=> c = "lf" /\ t = "line"
    /\ ~Goes("unfit", c, t)
BY DEF Goes, RequestGoes, StatusGoes, FieldGoes, Vchar

LEMMA StatusEdges ==
  \A c, t :
    /\ Goes("status", c, t)  <=> c = "P"  /\ t = "version"
    /\ Goes("version", c, t) <=> c = "1"  /\ t = "gap"
    /\ Goes("gap", c, t)     <=> c = "sp" /\ t = "code1"
    /\ Goes("code1", c, t)   <=> c = "1"  /\ t = "code2"
    /\ Goes("code2", c, t)   <=> c \in {"1", "9"} /\ t = "code3"
    /\ Goes("code3", c, t)   <=> c \in {"1", "9"} /\ t = "behind"
    /\ Goes("behind", c, t)  <=> c = "sp" /\ t = "blank"
    /\ \A s \in {"blank", "reason"} :
         Goes(s, c, t) <=> \/ c = "sp" /\ t = s
                           \/ c \in Vchar \ {"sp"} /\ t = "reason"
                           \/ c = "cr" /\ t = "val_lf"
                           \/ c = "lf" /\ t = "line"
                           \/ c = "x"  /\ t = "unfit"
    /\ Goes("val_lf", c, t) <=> c = "lf" /\ t = "line"
    /\ ~Goes("unfit", c, t)
BY DEF Goes, RequestGoes, StatusGoes, FieldGoes

LEMMA FieldEdges ==
  \A c, t :
    /\ Goes("start", c, t) <=> \/ c = "cr" /\ t = "bare"
                               \/ c = "lf" /\ t = "end"
                               \/ c \in Tchar /\ t = "key"
    /\ Goes("bare", c, t) <=> (c = "lf" /\ t = "end") \/ (c \in Tchar /\ t = "key")
    /\ Goes("key", c, t)  <=> (c \in Tchar /\ t = "key") \/ (c = ":" /\ t = "colon")
    /\ \A s \in {"colon", "ws", "val"} :
         Goes(s, c, t) <=> \/ c = "sp" /\ t = IF s = "val" THEN "val" ELSE "ws"
                           \/ c \in Vchar \ {"sp"} /\ t = "val"
                           \/ c = "cr" /\ t = "val_lf"
                           \/ c = "lf" /\ t = "line"
    /\ Goes("val_lf", c, t) <=> c = "lf" /\ t = "line"
BY DEF Goes, RequestGoes, StatusGoes, FieldGoes

-----------------------------------------------------------------------------
(* First lines of requests.                                                *)

LEMMA RequestPlaces ==
  \A j, n, e \in Nat : e >= 5 /\ n <= e + 2 /\ j < n =>
    \/ j = 0 \/ j = 1 \/ j = 2 \/ j \in 3 .. e - 4
    \/ (j = e - 3 /\ j > 2) \/ j = e - 2 \/ j = e - 1 \/ j = e \/ j = e + 1
OBVIOUS

LEMMA RequestMoves ==
  ASSUME NEW l \in Text, NEW q \in Marks, IsRequest(l, q) \/ NoRequest(l, q),
         NEW j \in Nat, j < Len(l), NEW s, NEW t,
         RequestStands(l, q, j, s), Goes(s, l[j + 1], t)
  PROVE  /\ RequestStands(l, q, j + 1, t)
         /\ NoRequest(l, q) /\ j + 1 = Len(l) => t = "unfit"
<1> DEFINE b  == l[j + 1]
           w  == l[1]
           no == NoRequest(l, q) /\ j + 1 = Len(l)
<1>1. /\ q.eol \in Nat /\ q.eol >= 5 /\ Len(l) \in Nat /\ Len(l) <= q.eol + 2
      /\ w = "M" => q.eol >= 6
      BY DEF Text, Marks, IsRequest, NoRequest, Ended, Cut, LeastEol
<1>2. /\ j + 1 = q.eol + 2 => l[j] = "cr"
      /\ RequestFits(w, q, j + 1, b) \/ no
      /\ no => /\ ~RequestFits(w, q, j + 1, b)
               /\ j + 1 \notin 4 .. q.eol - 3
               /\ j + 1 = q.eol - 2 => b \notin Vchar
               /\ j + 1 = 3 /\ w = "O" => b \notin Vchar
      /\ j > 0 => RequestFits(w, q, 1, w)
  <2>1. CASE IsRequest(l, q) /\ ~no
        BY <1>1, <2>1 DEF IsRequest, Ended, Text
  <2>2. CASE NoRequest(l, q) /\ ~no
        BY <1>1, <2>2 DEF NoRequest, Cut
  <2>3. CASE no
        BY <1>1, <2>3 DEF NoRequest, Cut, Free
  <2> QED BY <2>1, <2>2, <2>3
<1>5. j > 0 => w \in {"M", "O"}
      BY <1>2 DEF RequestFits
<1>6. j = 0 => w = b
      OBVIOUS
<1>7. /\ j = 0 => s = "method"
      /\ j = 1 => s = IF w = "O" THEN "gap_any" ELSE "space"
      /\ j = 2 => s = IF w = "O" THEN "any" ELSE "slash"
      BY DEF RequestStands
<1>8. \A k \in Nat : RequestStands(l, q, k, t) <=>
        /\ k = 0 => t = "method"
        /\ k = 1 => t = IF w = "O" THEN "gap_any" ELSE "space"
        /\ k = 2 => t = IF w = "O" THEN "any" ELSE "slash"
        /\ k \in 3 .. q.eol - 3 => t = "uri"
        /\ k = q.eol - 2 => t = IF l[k] = "sp" THEN "prefix" ELSE "unfit"
        /\ k = q.eol - 1 => t = "digit"
        /\ k = q.eol => t = "eol"
        /\ EndStands(l, q, k, "lf", t)
      BY DEF RequestStands
<1> HIDE DEF b, no, w
<1>4. \/ j = 0 \/ j = 1 \/ j = 2 \/ j \in 3 .. q.eol - 4
      \/ (j = q.eol - 3 /\ j > 2) \/ j = q.eol - 2 \/ j = q.eol - 1 \/ j = q.eol \/ j = q.eol + 1
      BY <1>1, RequestPlaces, Zenon
<1>3. RequestStands(l, q, j + 1, t) /\ (no => t = "unfit")
  <2> SUFFICES /\ RequestStands(l, q, j + 1, t)
               /\ no => t = "unfit"
      OBVIOUS
  <2> USE RequestEdges, <1>1, <1>2
  <2>1. Goes(s, b, t) /\ b = l[j + 1]
        BY DEF b
  <2>2. CASE j = 0
    <3>1. (b = "M" /\ t = "space") \/ (b = "O" /\ t = "gap_any")
          BY <1>7, <2>1, <2>2
    <3>2. RequestFits(w, q, j + 1, b)
          BY <2>2, <3>1 DEF RequestFits, EndFits
    <3> QED BY <1>6, <1>8, <2>2, <3>1, <3>2 DEF EndStands
  <2>3. CASE j = 1
    <3>1. b = "sp" /\ t = IF w = "O" THEN "any" ELSE "slash"
          BY <1>7, <2>1, <2>3
    <3>2. RequestFits(w, q, j + 1, b)
          BY <2>3, <3>1 DEF RequestFits, EndFits
    <3> QED BY <1>8, <2>3, <3>1, <3>2 DEF EndStands
  <2>4. CASE j = 2
    <3>1. CASE w = "M"
      <4>1. b = "/" /\ t = "uri" /\ q.eol >= 6
            BY <1>7, <2>1, <2>4, <3>1
      <4>5. "/" \in Vchar \ {"sp"}
            BY DEF Vchar
      <4>3. j + 1 = 3 /\ b \in Vchar \ {"sp"}
            BY <2>4, <4>1, <4>5
      <4>4. j + 1 \notin {1, 2, q.eol - 2, q.eol - 1, q.eol, q.eol + 1, q.eol + 2}
            BY <4>1, <4>3
      <4>2. RequestFits(w, q, j + 1, b)
            BY <4>1, <4>3, <4>4 DEF RequestFits, EndFits
      <4> QED BY <1>8, <2>4, <4>1, <4>2 DEF EndStands
    <3>2. CASE w = "O"
      <4>1. (b \in Vchar \ {"sp"} /\ t = "uri") \/ (b = "sp" /\ t = "prefix")
            BY <1>7, <2>1, <2>4, <3>2
      <4>6. "sp" \in Vchar
            BY DEF Vchar
      <4>2. b \in Vchar /\ ~no
            BY <2>4, <3>2, <4>1, <4>6
      <4>3. (3 \in 3 .. q.eol - 3 => b # "sp") /\ (3 = q.eol - 2 => b = "sp")
            BY <2>4, <4>2 DEF RequestFits
      <4>4. CASE q.eol = 5
            BY <1>8, <2>1, <2>4, <4>1, <4>2, <4>3, <4>4 DEF EndStands
      <4>5. CASE q.eol > 5
            BY <1>8, <2>1, <2>4, <4>1, <4>2, <4>3, <4>5 DEF EndStands
      <4> QED BY <4>4, <4>5
    <3> QED BY <1>5, <2>4, <3>1, <3>2
  <2>5. CASE j \in 3 .. q.eol - 4
    <3>1. s = "uri" /\ j + 1 \in 4 .. q.eol - 3 /\ j + 1 \in 3 .. q.eol - 3
          BY <2>5 DEF RequestStands
    <3>2. ~no
          BY <3>1
    <3>3. b \in Vchar \ {"sp"}
          BY <3>1, <3>2 DEF RequestFits
    <3>4. t = "uri"
          BY <2>1, <3>1, <3>3 DEF Vchar
    <3> QED BY <1>8, <2>5, <3>2, <3>4 DEF EndStands
  <2>6. CASE j = q.eol - 3 /\ j > 2
    <3>1. s = "uri" /\ j + 1 = q.eol - 2
          BY <2>6 DEF RequestStands
    <3>2. (no => b \notin Vchar) /\ (~no => b = "sp")
          BY <3>1, <2>6 DEF RequestFits
    <3>3. "sp" \in Vchar
          BY DEF Vchar
    <3>4. (b = "sp" /\ t = "prefix") \/ (b \notin Vchar /\ t = "unfit")
          BY <2>1, <3>1, <3>2
    <3>5. /\ j + 1 \notin {0, 1, 2, q.eol - 1, q.eol, q.eol + 1, q.eol + 2}
          /\ j + 1 \notin 3 .. q.eol - 3
          BY <2>6
    <3>6. (no => t = "unfit") /\ t = IF l[j + 1] = "sp" THEN "prefix" ELSE "unfit"
          BY <2>1, <3>2, <3>3, <3>4
    <3> QED BY <3>5, <3>6 DEF RequestStands, EndStands
  <2>7. CASE j = q.eol - 2
    <3>1. (s = "prefix" \/ s = "unfit") /\ j + 1 = q.eol - 1
          BY <2>7 DEF RequestStands
    <3>2. b = "P" /\ t = "digit"
          BY <2>1, <3>1
    <3>3. /\ j + 1 \notin {0, 1, 2, 3} /\ j + 1 \notin 3 .. q.eol - 3
          /\ j + 1 # q.eol - 2 /\ j + 1 # q.eol /\ j + 1 # q.eol + 1 /\ j + 1 # q.eol + 2
      <4>1. \A e \in Nat : e >= 5 =>
              /\ e - 2 + 1 \notin {0, 1, 2, 3} /\ e - 2 + 1 \notin 3 .. e - 3
              /\ e - 2 + 1 # e - 2 /\ e - 2 + 1 # e /\ e - 2 + 1 # e + 1 /\ e - 2 + 1 # e + 2
            OBVIOUS
      <4> QED BY <2>7, <4>1
    <3>4. no => ~RequestFits(w, q, j + 1, b)
          BY <1>2
    <3>5. RequestFits(w, q, j + 1, b)
          BY <3>1, <3>2, <3>3 DEF RequestFits, EndFits
    <3> QED BY <3>1, <3>2, <3>3, <3>4, <3>5 DEF RequestStands, EndStands
  <2>8. CASE j = q.eol - 1
    <3>1. s = "digit" /\ j + 1 = q.eol
          BY <2>8 DEF RequestStands
    <3>2. b = "1" /\ t = "eol"
          BY <2>1, <3>1
    <3>4. j + 1 \notin {1, 2, 3} /\ j + 1 \notin 3 .. q.eol - 3 /\ j + 1 # q.eol - 2
          /\ j + 1 # q.eol - 1 /\ j + 1 # q.eol + 1 /\ j + 1 # q.eol + 2
      <4>1. \A e \in Nat : e >= 5 =>
              /\ e \notin {1, 2, 3} /\ e \notin 3 .. e - 3
              /\ e # e - 2 /\ e # e - 1 /\ e # e + 1 /\ e # e + 2
            OBVIOUS
      <4> QED BY <3>1, <4>1
    <3>3. RequestFits(w, q, j + 1, b)
          BY <3>1, <3>2, <3>4 DEF RequestFits, EndFits
    <3>5. RequestStands(l, q, j + 1, t)
          BY <1>8, <3>1, <3>2, <3>4 DEF EndStands
    <3> QED BY <3>3, <3>5
  <2>9. CASE j = q.eol
    <3>1. s = "eol" /\ j + 1 = q.eol + 1
          BY <2>9 DEF RequestStands
    <3>2. (b = "cr" /\ t = "lf") \/ (b = "lf" /\ t = "line")
          BY <2>1, <3>1
    <3> QED BY <2>1, <2>9, <3>1, <3>2 DEF RequestStands, RequestFits, EndStands, EndFits
  <2>10. CASE j = q.eol + 1
    <3>1. s = "lf" /\ j + 1 = q.eol + 2
          BY <2>10 DEF RequestStands, EndStands
    <3>2. b = "lf" /\ t = "line"
          BY <2>1, <3>1
    <3> QED BY <2>10, <3>1, <3>2 DEF RequestStands, RequestFits, EndStands, EndFits
  <2> QED BY <1>4, <2>2, <2>3, <2>4, <2>5, <2>6, <2>7, <2>8, <2>9, <2>10, Zenon
<1> QED BY <1>3 DEF no

LEMMA RequestGoesOn ==
  ASSUME NEW l \in Text, NEW q \in Marks, IsRequest(l, q),
         NEW j \in Nat, j < Len(l), NEW s, RequestStands(l, q, j, s)
  PROVE  \E t \in Places : Goes(s, l[j + 1], t)
<1> DEFINE b == l[j + 1]
           w == l[1]
<1>1. /\ q.eol \in Nat /\ q.eol >= 5 /\ Len(l) \in Nat /\ Len(l) <= q.eol + 2
      /\ w = "M" => q.eol >= 6
      /\ j + 1 = q.eol + 2 => l[j] = "cr"
      /\ RequestFits(w, q, j + 1, b) /\ RequestFits(w, q, 1, w)
      BY DEF Text, Marks, IsRequest, Ended, LeastEol
<1>2. /\ j \in 3 .. q.eol - 4 => b \in Vchar \ {"sp"}
      /\ j = q.eol - 3 => b = "sp"
      BY <1>1 DEF RequestFits
<1>5. w \in {"M", "O"}
      BY <1>1 DEF RequestFits
<1>6. j = 0 => w = b
      OBVIOUS
<1>7. /\ j = 0 => s = "method"
      /\ j = 1 => s = IF w = "O" THEN "gap_any" ELSE "space"
      /\ j = 2 => s = IF w = "O" THEN "any" ELSE "slash"
      BY DEF RequestStands
<1> HIDE DEF b, w
<1>3. \/ s = "method" /\ b \in {"M", "O"}
      \/ s \in {"space", "gap_any"} /\ b = "sp"
      \/ s = "slash"  /\ b = "/"
      \/ s \in {"any", "uri"} /\ (b = "sp" \/ b \in Vchar \ {"sp"})
      \/ s = "prefix" /\ b = "P"
      \/ s = "digit"  /\ b = "1"
      \/ s = "eol"    /\ b \in {"cr", "lf"}
      \/ s = "lf"     /\ b = "lf"
  <2>1. CASE j = 0
        BY <1>5, <1>6, <1>7, <2>1
  <2>2. CASE j = 1
    <3>1. b = "sp"
          BY <1>1, <2>2 DEF RequestFits
    <3> QED BY <1>7, <2>2, <3>1
  <2>3. CASE j = 2 /\ w = "M"
    <3>1. b = "/"
          BY <1>1, <2>3 DEF RequestFits, Free
    <3> QED BY <1>7, <2>3, <3>1
  <2>4. CASE j = 2 /\ w = "O"
    <3>1. 3 = q.eol - 2 \/ 3 \in 3 .. q.eol - 3
          BY <1>1
    <3>2. b = "sp" \/ b \in Vchar \ {"sp"}
          BY <1>1, <2>4, <3>1 DEF RequestFits
    <3> QED BY <1>7, <2>4, <3>2
  <2>5. CASE j \in 3 .. q.eol - 3
        BY <1>1, <1>2, <2>5 DEF RequestStands
  <2>6. CASE j = q.eol - 2
    <3>1. l[j] = "sp"
          BY <1>1, <2>6 DEF IsRequest, RequestFits
    <3>2. s = "prefix"
          BY <1>1, <2>6, <3>1 DEF RequestStands
    <3>3. b = "P"
          BY <1>1, <2>6 DEF RequestFits
    <3> QED BY <3>2, <3>3
  <2>7. CASE j = q.eol - 1
        BY <1>1, <2>7 DEF RequestStands, RequestFits
  <2>8. CASE j = q.eol
        BY <1>1, <2>8 DEF RequestStands, RequestFits, EndFits
  <2>9. CASE j = q.eol + 1
        BY <1>1, <2>9 DEF RequestStands, EndStands, RequestFits, EndFits
  <2>10. \/ j = 0 \/ j = 1 \/ j = 2 \/ j \in 3 .. q.eol - 3
         \/ j = q.eol - 2 \/ j = q.eol - 1 \/ j = q.eol \/ j = q.eol + 1
        BY <1>1
  <2> QED BY <1>5, <2>1, <2>2, <2>3, <2>4, <2>5, <2>6, <2>7, <2>8, <2>9, <2>10, Zenon
<1>4. \/ Goes(s, b, "space") \/ Goes(s, b, "slash") \/ Goes(s, b, "uri")
      \/ Goes(s, b, "gap_any") \/ Goes(s, b, "any")
      \/ Goes(s, b, "prefix") \/ Goes(s, b, "digit") \/ Goes(s, b, "eol")
      \/ Goes(s, b, "lf") \/ Goes(s, b, "line")
      BY <1>3, RequestEdges
<1> QED BY <1>4 DEF b, Places

LEMMA RequestEnds ==
  ASSUME NEW l \in Text, NEW q \in Marks,
         NEW j \in 0 .. Len(l), NEW s, RequestStands(l, q, j, s)
  PROVE  /\ IsRequest(l, q) => /\ s # "end"
                               /\ s = "line" <=> j = Len(l)
                               /\ s = "digit" => j + 2 <= Len(l)
                               /\ s = "prefix" => j = q.eol - 2
         /\ NoRequest(l, q) /\ (j = Len(l) => s = "unfit") =>
              /\ s \notin {"line", "end"}
              /\ s = "prefix" => j = q.eol - 2
<1>1. q.eol \in Nat /\ Len(l) \in Nat /\ j \in Nat
      BY DEF Text, Marks
<1>2. ASSUME q.eol >= 5, Len(l) <= q.eol + 2, j <= q.eol
      PROVE  /\ s \notin {"line", "end"}
             /\ s = "digit" => j = q.eol - 1
             /\ s = "prefix" => j = q.eol - 2
  <2>1. CASE j < 3
        BY <1>1, <1>2, <2>1 DEF RequestStands
  <2>2. CASE j \in 3 .. q.eol - 3
        BY <1>1, <1>2, <2>2 DEF RequestStands
  <2>3. CASE j = q.eol - 2
        BY <1>1, <1>2, <2>3 DEF RequestStands
  <2>4. CASE j = q.eol - 1 \/ j = q.eol
        BY <1>1, <1>2, <2>4 DEF RequestStands
  <2> QED BY <1>1, <1>2, <2>1, <2>2, <2>3, <2>4
<1>3. ASSUME IsRequest(l, q)
      PROVE  /\ s # "end"
             /\ s = "line" <=> j = Len(l)
             /\ s = "digit" => j + 2 <= Len(l)
             /\ s = "prefix" => j = q.eol - 2
  <2>1. /\ q.eol >= 5
        /\ \/ Len(l) = q.eol + 1 /\ l[q.eol + 1] = "lf"
           \/ Len(l) = q.eol + 2 /\ l[q.eol + 1] = "cr"
        BY <1>1, <1>3 DEF IsRequest, Ended, LeastEol
  <2>2. CASE j <= q.eol
        BY <1>1, <1>2, <2>1, <2>2
  <2>3. CASE j = q.eol + 1
        BY <1>1, <2>1, <2>3 DEF RequestStands, EndStands
  <2>4. CASE j = q.eol + 2
        BY <1>1, <2>1, <2>4 DEF RequestStands, EndStands
  <2> QED BY <1>1, <2>1, <2>2, <2>3, <2>4
<1>4. ASSUME NoRequest(l, q), j = Len(l) => s = "unfit"
      PROVE  s \notin {"line", "end"} /\ (s = "prefix" => j = q.eol - 2)
  <2>1. q.eol >= 5 /\ Len(l) <= q.eol + 2 /\ (Len(l) = q.eol + 2 => l[q.eol + 1] = "cr")
        BY <1>1, <1>4 DEF NoRequest, Cut, LeastEol
  <2>2. CASE j <= q.eol
        BY <1>1, <1>2, <2>1, <2>2
  <2>3. CASE j = q.eol + 1 /\ j < Len(l)
        BY <1>1, <2>1, <2>3 DEF RequestStands, EndStands
  <2> QED BY <1>1, <1>4, <2>1, <2>2, <2>3
<1> QED BY <1>3, <1>4

-----------------------------------------------------------------------------
(* First lines of responses.                                               *)

LEMMA BehindStatus ==
  \A e \in Nat : 7 <= e => /\ e + 1 \notin {0, 1, 2, 3, 4, 5, 6, e + 2} /\ e + 1 \notin 7 .. e
OBVIOUS

LEMMA StatusMoves ==
  ASSUME NEW l \in Text, NEW q \in Marks, IsStatus(l, q) \/ NoStatus(l, q),
         NEW j \in Nat, j < Len(l), NEW s, NEW t,
         StatusStands(l, q, j, s), Goes(s, l[j + 1], t)
  PROVE  /\ StatusStands(l, q, j + 1, t)
         /\ NoStatus(l, q) /\ j + 1 = Len(l) => t = "unfit"
<1> DEFINE b == l[j + 1]
           no == NoStatus(l, q) /\ j + 1 = Len(l)
<1>1. /\ q.eol \in Nat /\ q.from \in Nat /\ q.upto \in Nat
      /\ 7 <= q.from /\ q.from <= q.upto /\ q.upto <= q.eol
      /\ Len(l) \in Nat /\ Len(l) <= q.eol + 2
      BY DEF Text, Marks, IsStatus, NoStatus, Ended, Cut
<1>2. /\ j + 1 = q.eol + 2 => l[j] = "cr"
      /\ ~no => StatusFits(q, j + 1, b)
      /\ no => /\ ~StatusFits(q, j + 1, b)
               /\ j + 1 \notin 8 .. q.eol
               /\ j + 1 = q.eol + 1 => b \notin Vchar
  <2>1. CASE IsStatus(l, q) /\ ~no
        BY <1>1, <2>1 DEF IsStatus, Ended, Text
  <2>2. CASE NoStatus(l, q) /\ ~no
        BY <1>1, <2>2 DEF NoStatus, Cut
  <2>3. CASE no
        BY <1>1, <2>3 DEF NoStatus, Cut
  <2> QED BY <2>1, <2>2, <2>3
<1>3. b \in AnyByte /\ b = l[j + 1] /\ Goes(s, b, t)
      BY DEF Text
<1> HIDE DEF b, no
<1>4. j < 7 \/ j >= q.eol => TextFits(q, 7, j + 1, b)
      BY <1>1 DEF TextFits
<1>5. StatusStands(l, q, j + 1, t) /\ (no => t = "unfit")
  <2>1. CASE j = 0
    <3>1. s = "status"
          BY <2>1 DEF StatusStands
    <3>2. b = "P" /\ t = "version"
          BY <3>1, <1>3, StatusEdges
    <3>3. StatusFits(q, j + 1, b)
          BY <1>1, <1>4, <2>1, <3>2 DEF StatusFits, EndFits
    <3> QED BY <1>1, <1>2, <2>1, <3>2, <3>3 DEF StatusStands, EndStands
  <2>2. CASE j = 1
    <3>1. s = "version"
          BY <2>2 DEF StatusStands
    <3>2. b = "1" /\ t = "gap"
          BY <3>1, <1>3, StatusEdges
    <3>3. StatusFits(q, j + 1, b)
          BY <1>1, <1>4, <2>2, <3>2 DEF StatusFits, EndFits
    <3> QED BY <1>1, <1>2, <2>2, <3>2, <3>3 DEF StatusStands, EndStands
  <2>3. CASE j = 2
    <3>1. s = "gap"
          BY <2>3 DEF StatusStands
    <3>2. b = "sp" /\ t = "code1"
          BY <3>1, <1>3, StatusEdges
    <3>3. StatusFits(q, j + 1, b)
          BY <1>1, <1>4, <2>3, <3>2 DEF StatusFits, EndFits
    <3> QED BY <1>1, <1>2, <2>3, <3>2, <3>3 DEF StatusStands, EndStands
  <2>4. CASE j = 3
    <3>1. s = "code1"
          BY <2>4 DEF StatusStands
    <3>2. b = "1" /\ t = "code2"
          BY <3>1, <1>3, StatusEdges
    <3>3. StatusFits(q, j + 1, b)
          BY <1>1, <1>4, <2>4, <3>2 DEF StatusFits, EndFits
    <3> QED BY <1>1, <1>2, <2>4, <3>2, <3>3 DEF StatusStands, EndStands
  <2>5. CASE j = 4
    <3>1. s = "code2"
          BY <2>5 DEF StatusStands
    <3>2. b \in {"1", "9"} /\ t = "code3"
          BY <3>1, <1>3, StatusEdges
    <3>3. StatusFits(q, j + 1, b)
          BY <1>1, <1>4, <2>5, <3>2 DEF StatusFits, EndFits
    <3> QED BY <1>1, <1>2, <2>5, <3>2, <3>3 DEF StatusStands, EndStands
  <2>6. CASE j = 5
    <3>1. s = "code3"
          BY <2>6 DEF StatusStands
    <3>2. b \in {"1", "9"} /\ t = "behind"
          BY <3>1, <1>3, StatusEdges
    <3>3. StatusFits(q, j + 1, b)
          BY <1>1, <1>4, <2>6, <3>2 DEF StatusFits, EndFits
    <3> QED BY <1>1, <1>2, <2>6, <3>2, <3>3 DEF StatusStands, EndStands
  <2>7. CASE j = 6
    <3>1. s = "behind"
          BY <2>7 DEF StatusStands
    <3>2. b = "sp" /\ t = "blank"
          BY <3>1, <1>3, StatusEdges
    <3>3. StatusFits(q, j + 1, b)
          BY <1>1, <1>4, <2>7, <3>2 DEF StatusFits, EndFits
    <3> QED BY <1>1, <1>2, <2>7, <3>2, <3>3 DEF StatusStands, EndStands
  <2>8. CASE j \in 7 .. q.eol - 1
    <3>1. s = IF j <= q.from \/ q.from = q.upto THEN "blank" ELSE "reason"
          BY <1>1, <2>8 DEF StatusStands
    <3>2. ~no /\ TextFits(q, 7, j + 1, b)
          BY <1>1, <1>2, <2>8 DEF StatusFits
    <3>3. b = "sp" \/ b \in Vchar
      <4>1. CASE j + 1 \in q.from + 1 .. q.upto
            BY <3>2, <4>1 DEF TextFits
      <4>2. CASE j + 1 \notin q.from + 1 .. q.upto
            BY <1>1, <2>8, <3>2, <4>2 DEF TextFits
      <4> QED BY <4>1, <4>2
    <3>4. \/ b = "sp" /\ t = s
          \/ b # "sp" /\ t = "reason"
      <4>1. s \in {"blank", "reason"}
            BY <3>1
      <4>2. b # "cr" /\ b # "lf" /\ b # "x"
            BY <3>3 DEF Vchar, Tchar
      <4> QED BY <1>3, <4>1, <4>2, StatusEdges
    <3>5. /\ j + 1 <= q.from \/ q.from = q.upto => b = "sp"
          /\ j = q.from /\ q.from < q.upto => b # "sp"
          BY <1>1, <2>8, <3>2 DEF TextFits
    <3>6. t = IF j + 1 <= q.from \/ q.from = q.upto THEN "blank" ELSE "reason"
          BY <1>1, <2>8, <3>1, <3>4, <3>5
    <3> QED BY <1>1, <2>8, <3>2, <3>6 DEF StatusStands, EndStands
  <2>9. CASE j = q.eol
    <3>1. s \in {"blank", "reason"}
          BY <1>1, <2>9 DEF StatusStands
    <3>2. b \in {"cr", "lf"} \/ (no /\ b = "x")
          BY <1>1, <1>2, <1>3, <2>9 DEF StatusFits, EndFits, AnyByte
    <3>3. b \in {"cr", "lf"} => StatusFits(q, j + 1, b)
          BY <1>1, <1>4, <2>9 DEF StatusFits, EndFits
    <3>4. \/ b = "cr" /\ t = "val_lf"
          \/ b = "lf" /\ t = "line"
          \/ b = "x"  /\ t = "unfit"
      <4>1. b # "sp" /\ b \notin Vchar
            BY <3>2 DEF Vchar, Tchar
      <4> QED BY <1>3, <3>1, <4>1, StatusEdges
    <3>5. no => t = "unfit"
          BY <1>2, <3>2, <3>3, <3>4
    <3>6. /\ j + 1 \notin {0, 1, 2, 3, 4, 5, 6, q.eol + 2} /\ j + 1 \notin 7 .. q.eol
          /\ j + 1 = q.eol + 1
      <4>1. q.eol \in Nat /\ 7 <= q.eol
            BY <1>1
      <4> QED BY <2>9, <4>1, BehindStatus, Zenon
    <3> QED BY <1>3, <3>4, <3>5, <3>6 DEF StatusStands, EndStands
  <2>10. CASE j = q.eol + 1
    <3>1. s = "val_lf"
          BY <1>1, <1>2, <2>10 DEF StatusStands, EndStands
    <3>2. b = "lf" /\ t = "line"
          BY <1>3, <3>1, StatusEdges
    <3>3. StatusFits(q, j + 1, b)
          BY <1>1, <1>4, <2>10, <3>2 DEF StatusFits, EndFits
    <3> QED BY <1>1, <1>2, <2>10, <3>2, <3>3 DEF StatusStands, EndStands
  <2> QED BY <1>1, <2>1, <2>2, <2>3, <2>4, <2>5, <2>6, <2>7, <2>8, <2>9, <2>10
<1> QED BY <1>5 DEF no

LEMMA StatusGoesOn ==
  ASSUME NEW l \in Text, NEW q \in Marks, IsStatus(l, q),
         NEW j \in Nat, j < Len(l), NEW s, StatusStands(l, q, j, s)
  PROVE  \E t \in Places : Goes(s, l[j + 1], t)
<1> DEFINE b == l[j + 1]
<1>1. /\ q.eol \in Nat /\ q.from \in Nat /\ q.upto \in Nat
      /\ 7 <= q.from /\ q.from <= q.upto /\ q.upto <= q.eol
      /\ Len(l) \in Nat /\ Len(l) <= q.eol + 2
      BY DEF Text, Marks, IsStatus, Ended
<1>2. /\ j + 1 = q.eol + 2 => l[j] = "cr"
      /\ StatusFits(q, j + 1, b)
      BY <1>1 DEF Text, IsStatus, Ended
<1> HIDE DEF b
<1>3. \/ s = "status"  /\ b = "P"
      \/ s = "version" /\ b = "1"
      \/ s = "gap"     /\ b = "sp"
      \/ s = "code1"   /\ b = "1"
      \/ s = "code2"   /\ b \in {"1", "9"}
      \/ s = "code3"   /\ b \in {"1", "9"}
      \/ s = "behind"  /\ b = "sp"
      \/ s \in {"blank", "reason"} /\ (b \in {"sp", "cr", "lf"} \/ b \in Vchar \ {"sp"})
      \/ s = "val_lf"  /\ b = "lf"
  <2>1. CASE j < 7
        BY <1>1, <1>2, <2>1 DEF StatusStands, StatusFits
  <2>2. CASE j \in 7 .. q.eol - 1
    <3>1. TextFits(q, 7, j + 1, b)
          BY <1>2 DEF StatusFits
    <3>2. CASE j + 1 \in q.from + 1 .. q.upto
          BY <1>1, <2>2, <3>1, <3>2 DEF StatusStands, TextFits
    <3>3. CASE j + 1 \notin q.from + 1 .. q.upto
          BY <1>1, <2>2, <3>1, <3>3 DEF StatusStands, TextFits
    <3> QED BY <3>2, <3>3
  <2>3. CASE j = q.eol
        BY <1>1, <1>2, <2>3 DEF StatusStands, StatusFits, EndFits
  <2>4. CASE j = q.eol + 1
        BY <1>1, <1>2, <2>4 DEF StatusStands, EndStands, StatusFits, EndFits
  <2> QED BY <1>1, <2>1, <2>2, <2>3, <2>4
<1>4. \/ Goes(s, b, "version") \/ Goes(s, b, "gap") \/ Goes(s, b, "code1")
      \/ Goes(s, b, "code2") \/ Goes(s, b, "code3") \/ Goes(s, b, "behind")
      \/ Goes(s, b, "blank") \/ Goes(s, b, "reason") \/ Goes(s, b, "val_lf")
      \/ Goes(s, b, "line")
      BY <1>3, StatusEdges
<1> QED BY <1>4 DEF b, Places

LEMMA StatusEnds ==
  ASSUME NEW l \in Text, NEW q \in Marks,
         NEW j \in 0 .. Len(l), NEW s, StatusStands(l, q, j, s)
  PROVE  /\ IsStatus(l, q) => /\ s \notin {"end", "digit", "prefix"}
                              /\ s = "line" <=> j = Len(l)
         /\ NoStatus(l, q) /\ (j = Len(l) => s = "unfit") => s \notin {"line", "end", "prefix"}
<1>1. q.eol \in Nat /\ Len(l) \in Nat /\ j \in Nat
      BY DEF Text, Marks
<1>2. ASSUME q.eol >= 7, j <= q.eol
      PROVE  s \notin {"line", "end", "digit", "prefix"}
  <2>1. CASE j < 7
        BY <1>1, <1>2, <2>1 DEF StatusStands
  <2>2. CASE j \in 7 .. q.eol
        BY <1>1, <1>2, <2>2 DEF StatusStands
  <2> QED BY <1>1, <1>2, <2>1, <2>2
<1>3. ASSUME IsStatus(l, q)
      PROVE  s \notin {"end", "digit", "prefix"} /\ (s = "line" <=> j = Len(l))
  <2>1. /\ q.eol >= 7
        /\ \/ Len(l) = q.eol + 1 /\ l[q.eol + 1] = "lf"
           \/ Len(l) = q.eol + 2 /\ l[q.eol + 1] = "cr"
        BY <1>3 DEF IsStatus, Ended, Marks
  <2>2. CASE j <= q.eol
        BY <1>1, <1>2, <2>1, <2>2
  <2>3. CASE j = q.eol + 1
        BY <1>1, <2>1, <2>3 DEF StatusStands, EndStands
  <2>4. CASE j = q.eol + 2
        BY <1>1, <2>1, <2>4 DEF StatusStands, EndStands
  <2> QED BY <1>1, <2>1, <2>2, <2>3, <2>4
<1>4. ASSUME NoStatus(l, q), j = Len(l) => s = "unfit"
      PROVE  s \notin {"line", "end", "prefix"}
  <2>1. q.eol >= 7 /\ Len(l) <= q.eol + 2 /\ (Len(l) = q.eol + 2 => l[q.eol + 1] = "cr")
        BY <1>1, <1>4 DEF NoStatus, Cut, Marks
  <2>2. CASE j <= q.eol
        BY <1>1, <1>2, <2>1, <2>2
  <2>3. CASE j = q.eol + 1 /\ j < Len(l)
        BY <1>1, <2>1, <2>3 DEF StatusStands, EndStands
  <2> QED BY <1>1, <1>4, <2>1, <2>2, <2>3
<1> QED BY <1>3, <1>4

-----------------------------------------------------------------------------
(* Fields, and the empty line.                                             *)

\* The places of a field's line, and where the next one of each is not.
FieldPlaced(j, g, k, e) ==
  /\ \/ j < g \/ j = g \/ j \in g + 1 .. k - 1 \/ j = k
     \/ j \in k + 1 .. e - 1 \/ j = e \/ j = e + 1
  /\ j < g => /\ j + 1 # 0 /\ j + 1 \notin g + 1 .. k /\ j + 1 # k + 1
              /\ j + 1 \notin k + 2 .. e /\ j + 1 # e + 1 /\ j + 1 # e + 2
  /\ j = g => /\ j + 1 # 0 /\ j + 1 \notin 1 .. g /\ j + 1 # k + 1
              /\ j + 1 \notin k + 2 .. e /\ j + 1 # e + 1 /\ j + 1 # e + 2
  /\ j \in g + 1 .. k - 1 => /\ j \in g + 1 .. k /\ j + 1 \in g + 1 .. k /\ j + 1 \in g + 2 .. k
                             /\ j + 1 # 0 /\ j + 1 \notin 1 .. g /\ j + 1 # k + 1
                             /\ j + 1 \notin k + 2 .. e /\ j + 1 # e + 1 /\ j + 1 # e + 2
  /\ j = k => /\ j + 1 # 0 /\ j + 1 \notin 1 .. g /\ j + 1 \notin g + 1 .. k
              /\ j + 1 \notin k + 2 .. e /\ j + 1 # e + 1 /\ j + 1 # e + 2
  /\ j \in k + 1 .. e - 1 => /\ j + 1 # 0 /\ j + 1 \notin 1 .. g /\ j + 1 \notin g + 1 .. k
                             /\ j + 1 # k + 1 /\ j + 1 # e + 1 /\ j + 1 # e + 2
  /\ j = e => /\ j + 1 # 0 /\ j + 1 \notin 1 .. g /\ j + 1 \notin g + 1 .. k
              /\ j + 1 # k + 1 /\ j + 1 \notin k + 2 .. e /\ j + 1 # e + 2
  /\ j = e + 1 => /\ j + 1 # 0 /\ j + 1 \notin 1 .. g /\ j + 1 \notin g + 1 .. k
                  /\ j + 1 # k + 1 /\ j + 1 \notin k + 2 .. e /\ j + 1 # e + 1

\* The same of the text in it, which begins behind place f and ends at u.
TextPlaced(j, k, f, u, e) ==
  /\ j <= k \/ j >= e => /\ j + 1 \notin (k + 1) + 1 .. f /\ j + 1 \notin f + 1 .. u
                         /\ j + 1 \notin u + 1 .. e
  /\ j \in k + 1 .. e - 1 =>
       /\ j + 1 \in (k + 1) + 1 .. f \/ j + 1 \in f + 1 .. u \/ j + 1 \in u + 1 .. e
       /\ j + 1 <= f \/ f = u => j + 1 \in (k + 1) + 1 .. f \/ j + 1 \in u + 1 .. e
       /\ j = f /\ f < u => j + 1 \in f + 1 .. u /\ j + 1 \in {f + 1, u}

LEMMA TextPlaces ==
  \A j, k, f, u, e \in Nat : k < f /\ f <= u /\ u <= e => TextPlaced(j, k, f, u, e)
BY DEF TextPlaced

LEMMA TextEdges ==
  \A k, f, u, e \in Nat : k < f /\ f < u /\ u <= e =>
    \A j \in {f + 1, u} : j \in f + 1 .. u /\ j \in k + 2 .. e
OBVIOUS

LEMMA FieldPlaces ==
  \A j, g, k, e \in Nat : g < k /\ k < e /\ j <= e + 1 => FieldPlaced(j, g, k, e)
BY DEF FieldPlaced

LEMMA FieldMoves ==
  ASSUME NEW l \in Text, NEW q \in Marks, IsField(l, q) \/ NoField(l, q),
         NEW j \in Nat, j < Len(l), NEW s, NEW t,
         FieldStands(l, q, j, s), Goes(s, l[j + 1], t)
  PROVE  /\ FieldStands(l, q, j + 1, t)
         /\ ~(NoField(l, q) /\ j + 1 = Len(l))
<1> DEFINE b == l[j + 1]
           no == NoField(l, q) /\ j + 1 = Len(l)
<1>1. /\ q.begin \in {0, 1} /\ q.key \in Nat /\ q.eol \in Nat /\ q.from \in Nat /\ q.upto \in Nat
      /\ q.begin < q.key /\ q.key < q.from /\ q.from <= q.upto /\ q.upto <= q.eol
      /\ Len(l) \in Nat /\ Len(l) <= q.eol + 2
      /\ q.begin \in Nat /\ q.key < q.eol /\ j <= q.eol + 1
      BY DEF Text, Marks, IsField, NoField, Ended, Cut
<1>2. /\ j + 1 = q.eol + 2 => l[j] = "cr"
      /\ ~no => FieldFits(q, j + 1, b)
      /\ no => /\ ~FieldFits(q, j + 1, b)
               /\ j + 1 = q.begin + 1 => b # "lf" /\ (q.begin = 0 => b # "cr")
               /\ j + 1 = q.key + 1 => b \notin Tchar
               /\ j + 1 = q.eol + 1 => b \notin Vchar
               /\ j + 1 \notin 1 .. q.begin \cup (q.begin + 2 .. q.key) \cup (q.key + 2 .. q.eol)
  <2>1. CASE IsField(l, q) /\ ~no
        BY <1>1, <2>1 DEF IsField, Ended, Text
  <2>2. CASE NoField(l, q) /\ ~no
        BY <1>1, <2>2 DEF NoField, Cut
  <2>3. CASE no
        BY <1>1, <2>3 DEF NoField, Cut
  <2> QED BY <2>1, <2>2, <2>3
<1>3. b \in AnyByte /\ b = l[j + 1] /\ Goes(s, b, t)
      BY DEF Text
<1> HIDE DEF b, no
<1>7. TextPlaced(j, q.key, q.from, q.upto, q.eol)
      BY <1>1, TextPlaces, Zenon
<1>4. j <= q.key \/ j >= q.eol => TextFits(q, q.key + 1, j + 1, b)
  <2>1. SUFFICES ASSUME j <= q.key \/ j >= q.eol
                 PROVE  TextFits(q, q.key + 1, j + 1, b)
        OBVIOUS
  <2>2. /\ j + 1 \notin (q.key + 1) + 1 .. q.from /\ j + 1 \notin q.from + 1 .. q.upto
        /\ j + 1 \notin q.upto + 1 .. q.eol
        BY <1>7, <2>1 DEF TextPlaced
  <2> QED BY <2>2 DEF TextFits
<1>6. FieldPlaced(j, q.begin, q.key, q.eol)
      BY <1>1, FieldPlaces, Zenon
<1>5. FieldStands(l, q, j + 1, t) /\ ~no
  <2>1. CASE j < q.begin
    <3>1. ~no /\ b = "cr" /\ s = "start"
          BY <1>1, <1>2, <2>1 DEF FieldStands, FieldFits
    <3>2. b \notin Tchar /\ b # "lf"
          BY <3>1 DEF Tchar
    <3>3. t = "bare"
      <4>1. Goes("start", b, t)
            BY <1>3, <3>1
      <4> QED BY <3>2, <4>1, FieldEdges
    <3>4. /\ j + 1 # 0 /\ j + 1 \notin q.begin + 1 .. q.key /\ j + 1 # q.key + 1
          /\ j + 1 \notin q.key + 2 .. q.eol /\ j + 1 # q.eol + 1 /\ j + 1 # q.eol + 2
          BY <1>6, <2>1 DEF FieldPlaced
    <3> QED BY <3>1, <3>3, <3>4 DEF FieldStands, EndStands
  <2>2. CASE j = q.begin
    <3>1. IF j = 0 THEN s = "start" ELSE s = "bare"
          BY <1>1, <2>2 DEF FieldStands
    <3>2. ~no => b \in Tchar
          BY <1>1, <1>2, <2>2 DEF FieldFits
    <3>3. b \in Tchar => FieldFits(q, j + 1, b)
      <4>0. j <= q.key /\ j + 1 # q.eol + 1 /\ j + 1 # q.eol + 2
            BY <1>1, <1>6, <2>2 DEF FieldPlaced
      <4>1. TextFits(q, q.key + 1, j + 1, b) /\ EndFits(q, j + 1, b)
            BY <1>4, <4>0 DEF EndFits
      <4>2. j + 1 \notin 1 .. q.begin /\ j + 1 # q.key + 1
            BY <1>6, <2>2 DEF FieldPlaced
      <4> QED BY <4>1, <4>2 DEF FieldFits
    <3>4. b \in Tchar => b \notin {"cr", "lf"}
          BY DEF Tchar
    <3>5. b \in Tchar /\ t = "key"
      <4>1. CASE j = 0
            BY <1>2, <1>3, <2>2, <3>1, <3>2, <3>4, <4>1, FieldEdges
      <4>2. CASE j # 0
            BY <1>2, <1>3, <2>2, <3>1, <3>2, <3>4, <4>2, FieldEdges
      <4> QED BY <4>1, <4>2
    <3>6. /\ j + 1 # 0 /\ j + 1 \notin 1 .. q.begin /\ j + 1 # q.key + 1
          /\ j + 1 \notin q.key + 2 .. q.eol /\ j + 1 # q.eol + 1 /\ j + 1 # q.eol + 2
          BY <1>6, <2>2 DEF FieldPlaced
    <3>7. ~no
          BY <1>2, <3>3, <3>5
    <3> QED BY <3>5, <3>6, <3>7 DEF FieldStands, EndStands
  <2>3. CASE j \in q.begin + 1 .. q.key - 1
    <3>0. j \in q.begin + 1 .. q.key /\ j + 1 \in q.begin + 1 .. q.key /\ j + 1 \in q.begin + 2 .. q.key
          BY <1>6, <2>3 DEF FieldPlaced
    <3>1. ~no /\ b \in Tchar /\ s = "key"
          BY <1>2, <3>0 DEF FieldStands, FieldFits
    <3>2. t = "key"
          BY <1>3, <3>1, FieldEdges DEF Tchar
    <3>3. /\ j + 1 # 0 /\ j + 1 \notin 1 .. q.begin /\ j + 1 # q.key + 1
          /\ j + 1 \notin q.key + 2 .. q.eol /\ j + 1 # q.eol + 1 /\ j + 1 # q.eol + 2
          BY <1>6, <2>3 DEF FieldPlaced
    <3> QED BY <3>1, <3>2, <3>3 DEF FieldStands, EndStands
  <2>4. CASE j = q.key
    <3>1. s = "key"
          BY <1>1, <2>4 DEF FieldStands
    <3>2. (~no => b = ":") /\ (no => b \notin Tchar)
          BY <1>1, <1>2, <2>4 DEF FieldFits
    <3>3. b = ":" /\ t = "colon"
          BY <1>3, <3>1, <3>2, FieldEdges DEF Tchar
    <3>4. FieldFits(q, j + 1, b)
          BY <1>1, <1>4, <2>4, <3>3 DEF FieldFits, EndFits
    <3>5. /\ j + 1 # 0 /\ j + 1 \notin 1 .. q.begin /\ j + 1 \notin q.begin + 1 .. q.key
          /\ j + 1 \notin q.key + 2 .. q.eol /\ j + 1 # q.eol + 1 /\ j + 1 # q.eol + 2
          BY <1>6, <2>4 DEF FieldPlaced
    <3>6. ~no
          BY <1>2, <3>4
    <3> QED BY <3>3, <3>5, <3>6 DEF FieldStands, EndStands
  <2>5. CASE j \in q.key + 1 .. q.eol - 1
    <3>1. s = IF j = q.key + 1 THEN "colon"
              ELSE IF j <= q.from \/ q.from = q.upto THEN "ws" ELSE "val"
          BY <1>1, <2>5 DEF FieldStands
    <3>2. ~no /\ TextFits(q, q.key + 1, j + 1, b)
          BY <1>1, <1>2, <2>5 DEF FieldFits
    <3>3. b = "sp" \/ b \in Vchar
      <4>1. CASE j + 1 \in q.from + 1 .. q.upto
            BY <3>2, <4>1 DEF TextFits
      <4>2. CASE j + 1 \in (q.key + 1) + 1 .. q.from \/ j + 1 \in q.upto + 1 .. q.eol
            BY <3>2, <4>2 DEF TextFits
      <4>3. \/ j + 1 \in (q.key + 1) + 1 .. q.from \/ j + 1 \in q.from + 1 .. q.upto
            \/ j + 1 \in q.upto + 1 .. q.eol
            BY <1>7, <2>5 DEF TextPlaced
      <4> QED BY <4>1, <4>2, <4>3
    <3>4. \/ b = "sp" /\ t = IF s = "val" THEN "val" ELSE "ws"
          \/ b # "sp" /\ t = "val"
      <4>1. s \in {"colon", "ws", "val"}
            BY <3>1
      <4>2. b # "cr" /\ b # "lf"
            BY <3>3 DEF Vchar, Tchar
      <4> QED BY <1>3, <4>1, <4>2, FieldEdges
    <3>5. /\ j + 1 <= q.from \/ q.from = q.upto => b = "sp"
          /\ j = q.from /\ q.from < q.upto => b # "sp"
      <4>1. j + 1 <= q.from \/ q.from = q.upto
            => j + 1 \in (q.key + 1) + 1 .. q.from \/ j + 1 \in q.upto + 1 .. q.eol
            BY <1>7, <2>5 DEF TextPlaced
      <4>2. j = q.from /\ q.from < q.upto
            => j + 1 \in q.from + 1 .. q.upto /\ j + 1 \in {q.from + 1, q.upto}
            BY <1>7, <2>5 DEF TextPlaced
      <4> QED BY <3>2, <4>1, <4>2 DEF TextFits
    <3>6. t = IF j + 1 <= q.from \/ q.from = q.upto THEN "ws" ELSE "val"
          BY <1>1, <2>5, <3>1, <3>4, <3>5
    <3>7. /\ j + 1 # 0 /\ j + 1 \notin 1 .. q.begin /\ j + 1 \notin q.begin + 1 .. q.key
          /\ j + 1 # q.key + 1 /\ j + 1 # q.eol + 1 /\ j + 1 # q.eol + 2
          BY <1>6, <2>5 DEF FieldPlaced
    <3> QED BY <3>2, <3>6, <3>7 DEF FieldStands, EndStands
  <2>6. CASE j = q.eol
    <3>0. j = q.key + 1 \/ j \in q.key + 2 .. q.eol
          BY <1>1, <2>6
    <3>1. s \in {"colon", "ws", "val"}
          BY <3>0 DEF FieldStands
    <3>2. b \in {"cr", "lf"} \/ (no /\ b = "x")
          BY <1>1, <1>2, <1>3, <2>6 DEF FieldFits, EndFits, AnyByte
    <3>3. b \in {"cr", "lf"} => FieldFits(q, j + 1, b)
      <4>1. j >= q.eol /\ TextFits(q, q.key + 1, j + 1, b)
            BY <1>1, <1>4, <2>6
      <4>2. j + 1 \notin 1 .. q.begin /\ j + 1 \notin q.begin + 1 .. q.key /\ j + 1 # q.key + 1
            BY <1>6, <2>6 DEF FieldPlaced
      <4>3. b \in {"cr", "lf"} => EndFits(q, j + 1, b)
            BY <1>1, <2>6 DEF EndFits
      <4> QED BY <4>1, <4>2, <4>3 DEF FieldFits
    <3>4. \/ b = "cr" /\ t = "val_lf"
          \/ b = "lf" /\ t = "line"
      <4>1. b # "sp" /\ b \notin Vchar
            BY <3>2 DEF Vchar, Tchar
      <4> QED BY <1>3, <3>1, <4>1, FieldEdges
    <3>5. ~no
          BY <1>2, <3>3, <3>4
    <3>6. /\ j + 1 # 0 /\ j + 1 \notin 1 .. q.begin /\ j + 1 \notin q.begin + 1 .. q.key
          /\ j + 1 # q.key + 1 /\ j + 1 \notin q.key + 2 .. q.eol /\ j + 1 # q.eol + 2
          BY <1>6, <2>6 DEF FieldPlaced
    <3> QED BY <1>3, <3>4, <3>5, <3>6 DEF FieldStands, EndStands
  <2>7. CASE j = q.eol + 1
    <3>1. s = "val_lf"
          BY <1>1, <1>2, <2>7 DEF FieldStands, EndStands
    <3>2. b = "lf" /\ t = "line"
          BY <1>3, <3>1, FieldEdges
    <3>3. /\ j + 1 # 0 /\ j + 1 \notin 1 .. q.begin /\ j + 1 \notin q.begin + 1 .. q.key
          /\ j + 1 # q.key + 1 /\ j + 1 \notin q.key + 2 .. q.eol /\ j + 1 # q.eol + 1
          BY <1>6, <2>7 DEF FieldPlaced
    <3>4. FieldFits(q, j + 1, b)
      <4>1. TextFits(q, q.key + 1, j + 1, b)
            BY <1>1, <1>4, <2>7
      <4> QED BY <3>2, <3>3, <4>1 DEF FieldFits, EndFits
    <3>5. ~no
          BY <1>2, <3>4
    <3> QED BY <3>2, <3>3, <3>5 DEF FieldStands, EndStands
  <2>8. \/ j < q.begin \/ j = q.begin \/ j \in q.begin + 1 .. q.key - 1 \/ j = q.key
        \/ j \in q.key + 1 .. q.eol - 1 \/ j = q.eol \/ j = q.eol + 1
        BY <1>6 DEF FieldPlaced
  <2> QED BY <2>1, <2>2, <2>3, <2>4, <2>5, <2>6, <2>7, <2>8, Zenon
<1> QED BY <1>5, Zenon DEF no

LEMMA FieldGoesOn ==
  ASSUME NEW l \in Text, NEW q \in Marks, IsField(l, q),
         NEW j \in Nat, j < Len(l), NEW s, FieldStands(l, q, j, s)
  PROVE  \E t \in Places : Goes(s, l[j + 1], t)
<1> DEFINE b == l[j + 1]
<1>1. /\ q.begin \in {0, 1} /\ q.key \in Nat /\ q.eol \in Nat /\ q.from \in Nat /\ q.upto \in Nat
      /\ q.begin < q.key /\ q.key < q.from /\ q.from <= q.upto /\ q.upto <= q.eol
      /\ Len(l) \in Nat /\ Len(l) <= q.eol + 2
      BY DEF Text, Marks, IsField, Ended
<1>2. /\ j + 1 = q.eol + 2 => l[j] = "cr"
      /\ FieldFits(q, j + 1, b)
      BY <1>1 DEF Text, IsField, Ended
<1> HIDE DEF b
<1>3. \/ s = "start" /\ (b = "cr" \/ b \in Tchar)
      \/ s = "bare"  /\ b \in Tchar
      \/ s = "key"   /\ (b = ":" \/ b \in Tchar)
      \/ s \in {"colon", "ws", "val"} /\ (b \in {"sp", "cr", "lf"} \/ b \in Vchar \ {"sp"})
      \/ s = "val_lf"  /\ b = "lf"
  <2>1. CASE j < q.begin
        BY <1>1, <1>2, <2>1 DEF FieldStands, FieldFits
  <2>2. CASE j \in q.begin .. q.key - 1
    <3>1. b \in Tchar
          BY <1>1, <1>2, <2>2 DEF FieldFits
    <3>2. s \in {"start", "bare", "key"}
          BY <1>1, <2>2 DEF FieldStands
    <3> QED BY <3>1, <3>2
  <2>3. CASE j = q.key
        BY <1>1, <1>2, <2>3 DEF FieldStands, FieldFits
  <2>4. CASE j \in q.key + 1 .. q.eol - 1
    <3>1. TextFits(q, q.key + 1, j + 1, b)
          BY <1>2 DEF FieldFits
    <3>2. s \in {"colon", "ws", "val"}
          BY <1>1, <2>4 DEF FieldStands
    <3>3. CASE j + 1 \in q.from + 1 .. q.upto
          BY <3>1, <3>2, <3>3 DEF TextFits
    <3>4. CASE j + 1 \notin q.from + 1 .. q.upto
          BY <1>1, <2>4, <3>1, <3>2, <3>4 DEF TextFits
    <3> QED BY <3>3, <3>4
  <2>5. CASE j = q.eol
        BY <1>1, <1>2, <2>5 DEF FieldStands, FieldFits, EndFits
  <2>6. CASE j = q.eol + 1
        BY <1>1, <1>2, <2>6 DEF FieldStands, EndStands, FieldFits, EndFits
  <2> QED BY <1>1, <2>1, <2>2, <2>3, <2>4, <2>5, <2>6
<1>4. \/ Goes(s, b, "bare") \/ Goes(s, b, "key") \/ Goes(s, b, "colon")
      \/ Goes(s, b, "ws") \/ Goes(s, b, "val") \/ Goes(s, b, "val_lf") \/ Goes(s, b, "line")
      BY <1>3, FieldEdges
<1> QED BY <1>4 DEF b, Places

LEMMA FieldEnds ==
  ASSUME NEW l \in Text, NEW q \in Marks,
         NEW j \in 0 .. Len(l), NEW s, FieldStands(l, q, j, s)
  PROVE  /\ IsField(l, q) => /\ s \notin {"end", "digit", "prefix"}
                             /\ s = "line" <=> j = Len(l)
         /\ NoField(l, q) /\ (j = Len(l) => s = "unfit") => s \notin {"line", "end", "prefix"}
<1>1. q \in Marks /\ q.eol \in Nat /\ q.key \in Nat /\ Len(l) \in Nat /\ j \in Nat
      BY DEF Text, Marks
<1>2. ASSUME q.begin \in {0, 1}, q.begin < q.key, q.key < q.eol, j <= q.eol
      PROVE  s \notin {"line", "end", "digit", "prefix"}
  <2>1. CASE j <= q.begin
        BY <1>1, <1>2, <2>1 DEF FieldStands
  <2>2. CASE j \in q.begin + 1 .. q.key + 1
        BY <1>1, <1>2, <2>2 DEF FieldStands
  <2>3. CASE j \in q.key + 2 .. q.eol
        BY <1>1, <1>2, <2>3 DEF FieldStands
  <2> QED BY <1>1, <1>2, <2>1, <2>2, <2>3
<1>3. ASSUME IsField(l, q)
      PROVE  s \notin {"end", "digit", "prefix"} /\ (s = "line" <=> j = Len(l))
  <2>1. /\ q.begin \in {0, 1} /\ q.begin < q.key /\ q.key < q.eol
        /\ \/ Len(l) = q.eol + 1 /\ l[q.eol + 1] = "lf"
           \/ Len(l) = q.eol + 2 /\ l[q.eol + 1] = "cr"
        BY <1>3 DEF IsField, Ended, Marks
  <2>2. CASE j <= q.eol
        BY <1>1, <1>2, <2>1, <2>2
  <2>3. CASE j = q.eol + 1
    <3>1. j # 0 /\ j \notin 1 .. q.begin /\ j \notin q.begin + 1 .. q.key /\ j # q.key + 1
          BY <1>1, <2>1, <2>3
    <3> QED BY <1>1, <2>1, <2>3, <3>1 DEF FieldStands, EndStands
  <2>4. CASE j = q.eol + 2
        BY <1>1, <2>1, <2>4 DEF FieldStands, EndStands
  <2> QED BY <1>1, <2>1, <2>2, <2>3, <2>4
<1>4. ASSUME NoField(l, q), j = Len(l) => s = "unfit"
      PROVE  s \notin {"line", "end", "prefix"}
  <2>1. /\ q.begin \in {0, 1} /\ q.begin < q.key /\ q.key < q.eol
        /\ Len(l) <= q.eol + 2 /\ (Len(l) = q.eol + 2 => l[q.eol + 1] = "cr")
        BY <1>1, <1>4 DEF NoField, Cut, Marks
  <2>2. CASE j <= q.eol
        BY <1>1, <1>2, <2>1, <2>2
  <2>3. CASE j = q.eol + 1 /\ j < Len(l)
        BY <1>1, <2>1, <2>3 DEF FieldStands, EndStands
  <2> QED BY <1>1, <1>4, <2>1, <2>2, <2>3
<1> QED BY <1>3, <1>4

LEMMA LastBytes ==
  ASSUME NEW l, IsLast(l)
  PROVE  \/ Len(l) = 1 /\ l[1] = "lf"
         \/ Len(l) = 2 /\ l[1] = "cr" /\ l[2] = "lf"
BY DEF IsLast

LEMMA LastMoves ==
  ASSUME NEW l, IsLast(l), NEW j \in Nat, j < Len(l), NEW s, LastStands(l, j, s)
  PROVE  /\ \A t : Goes(s, l[j + 1], t) => LastStands(l, j + 1, t)
         /\ \E t \in Places : Goes(s, l[j + 1], t)
<1>1. Goes("start", "cr", "bare") /\ Goes("start", "lf", "end") /\ Goes("bare", "lf", "end")
      BY FieldEdges
<1>2. \A t : /\ Goes("start", "cr", t) => t = "bare"
             /\ Goes("start", "lf", t) \/ Goes("bare", "lf", t) => t = "end"
      BY FieldEdges DEF Tchar
<1>3. "bare" \in Places /\ "end" \in Places
      BY DEF Places
<1>4. CASE Len(l) = 1 /\ l[1] = "lf"
  <2>1. j = 0 /\ s = "start" /\ l[j + 1] = "lf"
        BY <1>4 DEF LastStands
  <2> QED BY <1>1, <1>2, <1>3, <1>4, <2>1 DEF LastStands
<1>5. CASE Len(l) = 2 /\ l[1] = "cr" /\ l[2] = "lf"
  <2>1. CASE j = 0
    <3>1. s = "start" /\ l[j + 1] = "cr"
          BY <1>5, <2>1 DEF LastStands
    <3> QED BY <1>1, <1>2, <1>3, <1>5, <2>1, <3>1 DEF LastStands
  <2>2. CASE j = 1
    <3>1. s = "bare" /\ l[j + 1] = "lf"
          BY <1>5, <2>2 DEF LastStands
    <3> QED BY <1>1, <1>2, <1>3, <1>5, <2>2, <3>1 DEF LastStands
  <2> QED BY <1>5, <2>1, <2>2
<1> QED BY <1>4, <1>5, LastBytes

LEMMA LastEnds ==
  ASSUME NEW l, IsLast(l), NEW j \in 0 .. Len(l), NEW s, LastStands(l, j, s)
  PROVE  s \notin {"line", "digit", "prefix"} /\ (s = "end" <=> j = Len(l))
BY LastBytes DEF LastStands

-----------------------------------------------------------------------------
(* What a line means.                                                      *)

LEMMA Least ==
  ASSUME NEW S \in SUBSET Int, NEW x \in S, \A y \in S : x <= y
  PROVE  Min(S) = x
<1>1. Min(S) \in S /\ \A y \in S : Min(S) <= y
      BY DEF Min
<1>2. Min(S) <= x /\ x <= Min(S) /\ x \in Int /\ Min(S) \in Int
      BY <1>1
<1> QED BY <1>2

LEMMA Greatest ==
  ASSUME NEW S \in SUBSET Int, NEW x \in S, \A y \in S : x >= y
  PROVE  Max(S) = x
<1>1. Max(S) \in S /\ \A y \in S : Max(S) >= y
      BY DEF Max
<1>2. Max(S) >= x /\ x >= Max(S) /\ x \in Int /\ Max(S) \in Int
      BY <1>1
<1> QED BY <1>2

LEMMA TrimmedIs ==
  ASSUME NEW l \in Text, NEW p \in Nat, NEW f \in Nat, NEW u \in Nat,
         p <= f, f <= u, u <= Len(l),
         \A j \in p + 1 .. f : l[j] = "sp",
         \A j \in u + 1 .. Len(l) : l[j] \in {"sp", "cr", "lf"},
         f < u => l[f + 1] \notin {"sp", "cr", "lf"} /\ l[u] \notin {"sp", "cr", "lf"}
  PROVE  Trimmed(l, p) = SubSeq(l, f + 1, u)
<1> DEFINE I == {j \in p + 1 .. Len(l) : l[j] \notin {"sp", "cr", "lf"}}
<1>1. Len(l) \in Nat
      BY DEF Text
<1>2. \A j \in I : j \in Int /\ f + 1 <= j /\ j <= u
      BY <1>1
<1>3. I \in SUBSET Int
      BY <1>2
<1>4. Trimmed(l, p) = IF I = {} THEN <<>> ELSE SubSeq(l, Min(I), Max(I))
      BY DEF Trimmed
<1>5. CASE f = u
  <2>1. I = {}
        BY <1>2, <1>5
  <2>2. SubSeq(l, f + 1, u) = <<>>
        BY <1>5, SubSeqEmpty
  <2> QED BY <1>4, <2>1, <2>2
<1>6. CASE f < u
  <2>1. f + 1 \in I /\ u \in I
        BY <1>1, <1>6
  <2> HIDE DEF I
  <2>2. Min(I) = f + 1 /\ Max(I) = u
        BY <1>2, <1>3, <2>1, Least, Greatest
  <2> QED BY <1>4, <2>1, <2>2
<1> QED BY <1>5, <1>6

LEMMA FieldMeans ==
  ASSUME NEW l \in Text, NEW q \in Marks, IsField(l, q)
  PROVE  Key(l) = KeyIn(l, q) /\ Val(l) = ValIn(l, q)
<1> DEFINE C == {j \in DOMAIN l : l[j] = ":"}
<1>1. /\ q.begin \in {0, 1} /\ q.key \in Nat /\ q.eol \in Nat /\ q.from \in Nat /\ q.upto \in Nat
      /\ q.begin < q.key /\ q.key < q.from /\ q.from <= q.upto /\ q.upto <= q.eol
      /\ Len(l) \in Nat /\ q.eol + 1 <= Len(l) /\ Len(l) <= q.eol + 2 /\ DOMAIN l = 1 .. Len(l)
      BY DEF Text, Marks, IsField, Ended
<1>2. \A j \in 1 .. Len(l) : FieldFits(q, j, l[j])
      BY <1>1 DEF IsField
<1>3. First(l, ":") = q.key + 1
  <2>1. \A j \in 1 .. q.key : l[j] # ":"
    <3>1. SUFFICES ASSUME NEW j \in 1 .. q.key PROVE l[j] # ":"
          OBVIOUS
    <3>2. FieldFits(q, j, l[j]) /\ (j \in 1 .. q.begin \/ j \in q.begin + 1 .. q.key)
          BY <1>1, <1>2
    <3>3. l[j] = "cr" \/ l[j] \in Tchar
          BY <3>2 DEF FieldFits
    <3> QED BY <3>3 DEF Tchar
  <2>2. q.key + 1 \in C /\ C \in SUBSET Int /\ \A j \in C : q.key + 1 <= j
    <3>1. q.key + 1 \in 1 .. Len(l)
          BY <1>1
    <3>2. l[q.key + 1] = ":"
          BY <1>1, <1>2, <3>1 DEF FieldFits
    <3>3. q.key + 1 \in C /\ C \in SUBSET Int
          BY <1>1, <3>1, <3>2
    <3>4. \A j \in C : j \in 1 .. Len(l) /\ j \notin 1 .. q.key
          BY <1>1, <2>1
    <3>5. \A j \in C : q.key + 1 <= j
          BY <1>1, <3>4
    <3> QED BY <3>3, <3>5
  <2> HIDE DEF C
  <2>3. Min(C) = q.key + 1
        BY <2>2, Least
  <2> QED BY <2>3 DEF First, C
<1>4. (IF l[1] = "cr" THEN 2 ELSE 1) = q.begin + 1
      BY <1>1, <1>2 DEF FieldFits, Tchar
<1>5. Trimmed(l, q.key + 1) = SubSeq(l, q.from + 1, q.upto)
  <2>1. \A j \in q.key + 2 .. q.eol : TextFits(q, q.key + 1, j, l[j])
        BY <1>1, <1>2 DEF FieldFits
  <2>2. \A j \in q.key + 2 .. q.from : l[j] = "sp"
        BY <1>1, <2>1 DEF TextFits
  <2>3. \A j \in q.upto + 1 .. q.eol : l[j] = "sp"
        BY <1>1, <2>1 DEF TextFits
  <2>4. \A j \in q.eol + 1 .. Len(l) : l[j] \in {"cr", "lf"}
        BY <1>1, <1>2 DEF FieldFits, EndFits
  <2>5. \A j \in {q.from + 1, q.upto} : q.from < q.upto => l[j] \in Vchar \ {"sp"}
    <3>1. SUFFICES ASSUME NEW j \in {q.from + 1, q.upto}, q.from < q.upto
                   PROVE  l[j] \in Vchar \ {"sp"}
          OBVIOUS
    <3>2. j \in q.from + 1 .. q.upto /\ TextFits(q, q.key + 1, j, l[j])
      <4>1. j \in q.from + 1 .. q.upto /\ j \in q.key + 2 .. q.eol
        <5>1. /\ q.key \in Nat /\ q.from \in Nat /\ q.upto \in Nat /\ q.eol \in Nat
              /\ q.key < q.from /\ q.from < q.upto /\ q.upto <= q.eol
              BY <1>1, <3>1
        <5>2. \A i \in {q.from + 1, q.upto} : i \in q.from + 1 .. q.upto /\ i \in q.key + 2 .. q.eol
              BY <5>1, TextEdges
        <5> QED BY <5>2, <3>1
      <4> QED BY <2>1, <4>1
    <3> QED BY <3>1, <3>2 DEF TextFits
  <2>6. \A j \in {q.from + 1, q.upto} : q.from < q.upto => l[j] \notin {"sp", "cr", "lf"}
        BY <2>5 DEF Vchar, Tchar
  <2>7. /\ q.key + 1 \in Nat /\ q.key + 1 <= q.from /\ q.upto <= Len(l) /\ (q.key + 1) + 1 = q.key + 2
        /\ \A j \in q.upto + 1 .. Len(l) : l[j] \in {"sp", "cr", "lf"}
    <3>1. ASSUME NEW j \in q.upto + 1 .. Len(l)
          PROVE  l[j] \in {"sp", "cr", "lf"}
      <4>1. j \in q.upto + 1 .. q.eol \/ j \in q.eol + 1 .. Len(l)
            BY <1>1
      <4> QED BY <2>3, <2>4, <4>1
    <3>2. q.key + 1 \in Nat /\ q.key + 1 <= q.from /\ q.upto <= Len(l) /\ (q.key + 1) + 1 = q.key + 2
          BY <1>1
    <3> QED BY <3>1, <3>2
  <2>8. /\ \A j \in (q.key + 1) + 1 .. q.from : l[j] = "sp"
        /\ q.from < q.upto => l[q.from + 1] \notin {"sp", "cr", "lf"} /\ l[q.upto] \notin {"sp", "cr", "lf"}
        BY <2>2, <2>6, <2>7
  <2> DEFINE p == q.key + 1
  <2> HIDE DEF p
  <2>9. /\ p \in Nat /\ p <= q.from /\ q.upto <= Len(l)
        /\ \A j \in p + 1 .. q.from : l[j] = "sp"
        /\ \A j \in q.upto + 1 .. Len(l) : l[j] \in {"sp", "cr", "lf"}
        /\ q.from < q.upto => l[q.from + 1] \notin {"sp", "cr", "lf"} /\ l[q.upto] \notin {"sp", "cr", "lf"}
        BY <2>7, <2>8 DEF p
  <2>10. Trimmed(l, p) = SubSeq(l, q.from + 1, q.upto)
    <3>1. q.from \in Nat /\ q.upto \in Nat /\ q.from <= q.upto
          BY <1>1
    <3> QED BY <2>9, <3>1, TrimmedIs, ZenonT(40)
  <2> QED BY <2>10 DEF p
<1>6. (q.key + 1) - 1 = q.key
      BY <1>1
<1> QED BY <1>3, <1>4, <1>5, <1>6 DEF Key, Val, KeyIn, ValIn

LEMMA StatusMeans ==
  ASSUME NEW l \in Text, NEW q \in Marks, IsStatus(l, q)
  PROVE  StatusOf(l) = [key |-> KeyIn(l, q), val |-> ValIn(l, q)]
<1>1. /\ q.begin = 3 /\ q.key = 6 /\ q.eol \in Nat /\ q.from \in Nat /\ q.upto \in Nat
      /\ 7 <= q.from /\ q.from <= q.upto /\ q.upto <= q.eol
      /\ Len(l) \in Nat /\ q.eol + 1 <= Len(l) /\ Len(l) <= q.eol + 2 /\ DOMAIN l = 1 .. Len(l)
      BY DEF Text, Marks, IsStatus, Ended
<1>2. \A j \in 1 .. Len(l) : StatusFits(q, j, l[j])
      BY <1>1 DEF IsStatus
<1>3. Trimmed(l, 7) = SubSeq(l, q.from + 1, q.upto)
  <2>1. \A j \in 8 .. q.eol : TextFits(q, 7, j, l[j])
        BY <1>1, <1>2 DEF StatusFits
  <2>2. \A j \in 8 .. q.from : l[j] = "sp"
        BY <1>1, <2>1 DEF TextFits
  <2>3. \A j \in q.upto + 1 .. q.eol : l[j] = "sp"
        BY <1>1, <2>1 DEF TextFits
  <2>4. \A j \in q.eol + 1 .. Len(l) : l[j] \in {"cr", "lf"}
        BY <1>1, <1>2 DEF StatusFits, EndFits
  <2>5. \A j \in {q.from + 1, q.upto} : q.from < q.upto => l[j] \in Vchar \ {"sp"}
    <3>1. SUFFICES ASSUME NEW j \in {q.from + 1, q.upto}, q.from < q.upto
                   PROVE  l[j] \in Vchar \ {"sp"}
          OBVIOUS
    <3>2. j \in q.from + 1 .. q.upto /\ TextFits(q, 7, j, l[j])
          BY <1>1, <2>1, <3>1
    <3> QED BY <3>1, <3>2 DEF TextFits
  <2>6. \A j \in {q.from + 1, q.upto} : q.from < q.upto => l[j] \notin {"sp", "cr", "lf"}
        BY <2>5 DEF Vchar, Tchar
  <2> DEFINE p == 7
  <2>7. /\ p \in Nat /\ p <= q.from /\ q.upto <= Len(l)
        /\ \A j \in p + 1 .. q.from : l[j] = "sp"
        /\ \A j \in q.upto + 1 .. Len(l) : l[j] \in {"sp", "cr", "lf"}
        BY <1>1, <2>2, <2>3, <2>4
  <2>8. q.from < q.upto => l[q.from + 1] \notin {"sp", "cr", "lf"} /\ l[q.upto] \notin {"sp", "cr", "lf"}
        BY <2>6
  <2> HIDE DEF p
  <2>9. Trimmed(l, p) = SubSeq(l, q.from + 1, q.upto)
    <3>1. q.from \in Nat /\ q.upto \in Nat /\ q.from <= q.upto
          BY <1>1
    <3> QED BY <2>7, <2>8, <3>1, TrimmedIs, ZenonT(40)
  <2> QED BY <2>9 DEF p
<1>4. q.begin + 1 = 4
      BY <1>1
<1> QED BY <1>1, <1>3, <1>4 DEF StatusOf, KeyIn, ValIn

\* A set of whole numbers that is bounded has a greatest and a least one:
\* otherwise adding one would map what is below a member one to one to itself
\* without its least.
LEMMA Bounded ==
  ASSUME NEW a \in Int, NEW b \in Int, NEW S \in SUBSET (a .. b), S # {}
  PROVE  \E x \in S : \A y \in S : x >= y
<1> SUFFICES ASSUME \A x \in S : \E y \in S : y > x
             PROVE  FALSE
    OBVIOUS
<1> DEFINE T  == {x \in a .. b : \E y \in S : y >= x}
           up == [x \in T |-> x + 1]
<1>1. T \in SUBSET (a .. b) /\ a \in T
  <2>1. PICK y \in S : TRUE
        OBVIOUS
  <2>2. y \in Int /\ y >= a /\ a <= b
        BY <2>1
  <2> QED BY <2>2
<1>2. \A x \in T : x + 1 \in T \ {a}
  <2> SUFFICES ASSUME NEW x \in a .. b, NEW y \in S, y >= x
               PROVE  x + 1 \in T \ {a}
      OBVIOUS
  <2>1. PICK z \in S : z > y
        OBVIOUS
  <2>2. x \in Int /\ x >= a /\ y \in Int /\ z \in Int /\ z <= b
        BY <2>1
  <2>3. z >= x + 1 /\ x + 1 # a /\ x + 1 \in a .. b
        BY <2>1, <2>2
  <2> QED BY <2>1, <2>3
<1>3. up \in Injection(T, T \ {a})
  <2>1. \A x \in T : x \in Int /\ up[x] = x + 1
        OBVIOUS
  <2>2. \A x, y \in T : up[x] = up[y] => x = y
        BY <2>1
  <2>3. up \in [T -> T \ {a}]
        BY <1>2, Zenon
  <2> QED BY <2>2, <2>3, Zenon DEF Injection, IsInjective
<1> HIDE DEF T, up
<1>4. IsFiniteSet(T)
  <2>1. IsFiniteSet(a .. b)
        BY FS_Interval
  <2> QED BY <1>1, <2>1, FS_Subset
<1>5. IsFiniteSet(T \ {a}) /\ Cardinality(T \ {a}) = Cardinality(T) - 1 /\ Cardinality(T) \in Nat
      BY <1>1, <1>4, FS_RemoveElement, FS_CardinalityType
<1>6. Cardinality(T) <= Cardinality(T \ {a})
      BY <1>3, <1>5, FS_Injection
<1> QED BY <1>5, <1>6

LEMMA MaxOf ==
  ASSUME NEW a \in Int, NEW b \in Int, NEW S \in SUBSET (a .. b), S # {}
  PROVE  Max(S) \in S /\ \A y \in S : Max(S) >= y
BY Bounded DEF Max

LEMMA MinOf ==
  ASSUME NEW a \in Int, NEW b \in Int, NEW S \in SUBSET (a .. b), S # {}
  PROVE  Min(S) \in S /\ \A y \in S : Min(S) <= y
<1> DEFINE N == {-x : x \in S}
<1>1. N \in SUBSET (-b .. -a) /\ N # {} /\ -a \in Int /\ -b \in Int
  <2>1. \A x \in a .. b : -x \in -b .. -a
        OBVIOUS
  <2>2. N \in SUBSET (-b .. -a)
        BY <2>1
  <2>3. -a \in Int /\ -b \in Int
        OBVIOUS
  <2>4. N # {}
        OBVIOUS
  <2> HIDE DEF N
  <2> QED BY <2>2, <2>3, <2>4
<1>2. PICK n \in N : \A y \in N : n >= y
  <2> HIDE DEF N
  <2> QED BY <1>1, Bounded
<1>3. PICK x \in S : n = -x
      OBVIOUS
<1>4. \A y \in S : x <= y
      BY <1>2, <1>3
<1> QED BY <1>4 DEF Min

\* The URI of a line, or of a part of one, whose bytes from 3 to e - 3 are no
\* spaces and whose byte at e - 2 is one.
UriTo(x, e) ==
  /\ x \in Text /\ e \in Nat /\ e >= 5 /\ e - 2 <= Len(x)
  /\ \A j \in 3 .. e - 3 : x[j] # "sp"
  /\ x[e - 2] = "sp"

LEMMA UriEnds ==
  ASSUME NEW x, NEW e, UriTo(x, e)
  PROVE  UriEnd(x) = e - 3 /\ UriMarks(x) = {j \in 3 .. e - 3 : x[j] = "?"}
<1> DEFINE S == {j \in 3 .. Len(x) : x[j] = "sp"}
<1>1. x \in Text /\ Len(x) \in Nat /\ e \in Nat /\ e >= 5 /\ e - 2 <= Len(x)
      BY DEF UriTo, Text
<1>2. e - 2 \in S /\ S \in SUBSET Int /\ \A j \in S : e - 2 <= j
      BY <1>1 DEF UriTo
<1>3. UriEnd(x) = Min(S) - 1
      BY DEF UriEnd
<1> HIDE DEF S
<1>4. Min(S) = e - 2
      BY <1>2, Least
<1>5. UriEnd(x) = e - 3
      BY <1>1, <1>3, <1>4
<1> QED BY <1>5 DEF UriMarks

\* path_len, qs and qs_len are numbers.
LEMMA UriLens ==
  ASSUME NEW x, NEW e, UriTo(x, e)
  PROVE  /\ PathLen(x) \in Int /\ PathLen(x) <= e - 5
         /\ QsBegin(x) \in Nat /\ QsLen(x) \in Nat
<1> DEFINE M == {j \in 3 .. e - 3 : x[j] = "?"}
<1>1. e \in Nat /\ e >= 5
      BY DEF UriTo
<1>2. UriEnd(x) = e - 3 /\ UriMarks(x) = M
      BY UriEnds
<1>3. M \in SUBSET (3 .. e - 3) /\ e - 3 \in Int /\ 3 \in Int
      BY <1>1
<1> HIDE DEF M
<1>4. CASE M = {}
      BY <1>1, <1>2, <1>4 DEF PathLen, QsBegin, QsLen
<1>5. CASE M # {}
  <2>1. Min(M) \in 3 .. e - 3 /\ Max(M) \in 3 .. e - 3
        BY <1>3, <1>5, MinOf, MaxOf
  <2>2. IsFiniteSet(M) /\ Cardinality(M) \in Nat
    <3>1. IsFiniteSet(3 .. e - 3)
          BY <1>3, FS_Interval
    <3>2. IsFiniteSet(M)
          BY <1>3, <3>1, FS_Subset
    <3> QED BY <3>2, FS_CardinalityType
  <2>3. /\ PathLen(x) = Min(M) - 2 - Cardinality(M)
        /\ QsBegin(x) = Max(M) /\ QsLen(x) = e - 3 - Min(M)
        BY <1>2, <1>5 DEF PathLen, QsBegin, QsLen
  <2> QED BY <1>1, <2>1, <2>2, <2>3
<1> QED BY <1>4, <1>5

\* With at most one question mark the path is what is in front of it or of the
\* end, f; the query what is behind it.
LEMMA SimpleLens ==
  ASSUME NEW x, NEW e, UriTo(x, e), NEW f,
         LET M == {j \in 3 .. e - 3 : x[j] = "?"}
         IN f \in M \cup {e - 2} /\ M \subseteq {f} /\ (f = e - 2 <=> M = {})
  PROVE  /\ PathLen(x) = f - 3 /\ f \in 3 .. e - 2
         /\ f = e - 2 => QsLen(x) = 0 /\ QsBegin(x) = 0
         /\ f # e - 2 => QsLen(x) = e - 3 - f /\ QsBegin(x) = f
<1> DEFINE M == {j \in 3 .. e - 3 : x[j] = "?"}
<1>1. e \in Nat /\ e >= 5
      BY DEF UriTo
<1>2. UriEnd(x) = e - 3 /\ UriMarks(x) = M
      BY UriEnds
<1>3. M \in SUBSET (3 .. e - 3) /\ f \in M \cup {e - 2} /\ M \subseteq {f} /\ (f = e - 2 <=> M = {})
      OBVIOUS
<1> HIDE DEF M
<1>4. CASE f = e - 2
      BY <1>1, <1>2, <1>3, <1>4 DEF PathLen, QsBegin, QsLen
<1>5. CASE f # e - 2
  <2>1. M = {f} /\ f \in 3 .. e - 3 /\ f \in Int
    <3>1. f \in M
          BY <1>3, <1>5
    <3>2. f \in 3 .. e - 3 /\ \A y \in M : y = f
          BY <1>3, <3>1
    <3>3. f \in Int
          BY <1>1, <3>2
    <3>4. M = {f}
          BY <3>1, <3>2, Zenon
    <3> QED BY <3>2, <3>3, <3>4
  <2>2. Cardinality({f}) = 1
        BY FS_Singleton
  <2>3. Min({f}) = f /\ Max({f}) = f
    <3>1. {f} \in SUBSET Int /\ f \in {f} /\ \A y \in {f} : f <= y /\ f >= y
          BY <2>1
    <3> QED BY <3>1, Least, Greatest
  <2>4. /\ PathLen(x) = f - 2 - 1
        /\ QsBegin(x) = f /\ QsLen(x) = e - 3 - f
        BY <1>2, <2>1, <2>2, <2>3 DEF PathLen, QsBegin, QsLen
  <2> QED BY <1>1, <1>5, <2>1, <2>4
<1> QED BY <1>4, <1>5

\* A plain URI is read and copied inside.
LEMMA PlainInside ==
  ASSUME NEW l \in Text, NEW q \in Marks, IsPlain(l, q), NEW x, UriTo(x, q.eol),
         \A j \in 3 .. q.eol - 3 : x[j] = l[j]
  PROVE  PathLen(x) > 0 /\ QsBegin(x) + QsLen(x) <= q.eol - 3
<1> DEFINE e == q.eol
           M == {j \in 3 .. e - 3 : x[j] = "?"}
<1>1. e \in Nat /\ e >= 6 /\ M = QMarks(l, q) /\ 3 \notin M /\ \A i, j \in M : i = j
      BY DEF IsPlain, IsSimple, QMarks, Marks
<1>2. M \in SUBSET (3 .. e - 3)
      OBVIOUS
<1>3. PICK f : f \in M \cup {e - 2} /\ M \subseteq {f} /\ (f = e - 2 <=> M = {})
  <2> HIDE DEF M, e
  <2>1. CASE M = {}
        BY <2>1
  <2>2. CASE M # {}
    <3>1. PICK f \in M : TRUE
          BY <2>2
    <3>2. M \subseteq {f} /\ f # e - 2
          BY <1>1, <1>2, <3>1
    <3> QED BY <2>2, <3>1, <3>2
  <2> QED BY <2>1, <2>2
<1>4. UriTo(x, e)
      OBVIOUS
<1>5. /\ PathLen(x) = f - 3 /\ f \in 3 .. e - 2
      /\ f = e - 2 => QsLen(x) = 0 /\ QsBegin(x) = 0
      /\ f # e - 2 => QsLen(x) = e - 3 - f /\ QsBegin(x) = f
  <2> HIDE DEF e
  <2> QED BY <1>3, <1>4, SimpleLens
<1>6. f # 3
      BY <1>1, <1>3
<1> HIDE DEF e, M
<1>7. PathLen(x) > 0 /\ QsBegin(x) + QsLen(x) <= e - 3
      BY <1>1, <1>5, <1>6
<1> QED BY <1>7 DEF e

LEMMA RequestUri ==
  ASSUME NEW l \in Text, NEW q \in Marks, IsRequest(l, q)
  PROVE  UriTo(l, q.eol) /\ q.eol + 1 <= Len(l)
<1>1. /\ q.eol \in Nat /\ q.eol >= 5 /\ Len(l) \in Nat /\ q.eol + 1 <= Len(l)
      /\ \A j \in 1 .. Len(l) : RequestFits(l[1], q, j, l[j])
      BY DEF Text, Marks, IsRequest, Ended, LeastEol
<1>2. \A j \in 3 .. q.eol - 3 : l[j] # "sp"
      BY <1>1 DEF RequestFits
<1>3. l[q.eol - 2] = "sp"
      BY <1>1 DEF RequestFits
<1> QED BY <1>1, <1>2, <1>3 DEF UriTo

LEMMA RequestMeans ==
  ASSUME NEW l \in Text, NEW q \in Marks, IsRequest(l, q), IsSimple(l, q),
         \A j \in 1 .. Len(l) : Held(j) = l[j]
  PROVE  UriOf(l) = [key |-> KeyIn(l, q), val |-> ValIn(l, q)]
<1> DEFINE Q == QMarks(l, q)
           K == {2} \cup {j \in 3 .. 2 + PathLen(l) : j = 3 \/ l[j] # "/"}
<1>1. /\ q.begin = 2 /\ q.eol \in Nat /\ q.eol >= 5
      /\ q.key \in Nat /\ q.from \in Nat /\ q.upto \in Nat
      /\ Len(l) \in Nat /\ q.eol + 1 <= Len(l)
      BY DEF Text, Marks, IsRequest, Ended, LeastEol
<1>2. UriTo(l, q.eol) /\ UriMarked(l, q)
      BY RequestUri DEF IsRequest
<1>3. PICK f \in Q \cup {q.eol - 2} :
        /\ Q \subseteq {f}
        /\ q.key \in 2 .. f - 1 /\ (q.key = 2 <=> f = 3)
        /\ q.key > 3 => l[q.key] # "/"
        /\ \A j \in q.key + 1 .. f - 1 : l[j] = "/"
        /\ IF Q = {} THEN q.from = q.upto ELSE q.from = f /\ q.upto = q.eol - 3
      BY <1>2 DEF UriMarked
<1>4. Q = {j \in 3 .. q.eol - 3 : l[j] = "?"} /\ (f = q.eol - 2 <=> Q = {})
      BY <1>1, <1>3 DEF QMarks
<1>5. /\ PathLen(l) = f - 3 /\ f \in 3 .. q.eol - 2
      /\ f = q.eol - 2 => QsLen(l) = 0 /\ QsBegin(l) = 0
      /\ f # q.eol - 2 => QsLen(l) = q.eol - 3 - f /\ QsBegin(l) = f
      BY <1>2, <1>3, <1>4, SimpleLens
<1> HIDE DEF Q
<1>6. Max(K) = q.key
  <2>1. 2 + PathLen(l) = f - 1 /\ f \in Int
        BY <1>5
  <2>2. \A j \in K : j \in Int /\ q.key >= j
        BY <1>1, <1>3, <2>1
  <2>3. q.key \in K
        BY <1>1, <1>3, <2>1
  <2> HIDE DEF K
  <2> QED BY <2>2, <2>3, Greatest
<1> DEFINE v == [j \in 1 .. QsLen(l) |-> Held(QsBegin(l) + j)]
<1>7. v = SubSeq(l, q.from + 1, q.upto)
  <2>1. CASE f = q.eol - 2
    <3>1. SubSeq(l, q.from + 1, q.upto) = <<>>
          BY <1>1, <1>3, <1>4, <2>1, SubSeqEmpty
    <3>2. v = <<>>
          BY <1>5, <2>1
    <3> QED BY <3>1, <3>2
  <2>2. CASE f # q.eol - 2
    <3>1. q.from = f /\ q.upto = q.eol - 3 /\ f \in Nat /\ f <= q.upto /\ q.upto <= Len(l)
          BY <1>1, <1>3, <1>4, <1>5, <2>2
    <3> DEFINE u == q.upto
    <3>2. u \in Nat /\ f <= u /\ u <= Len(l) /\ QsLen(l) = u - f /\ QsBegin(l) = f
          BY <1>1, <1>5, <2>2, <3>1
    <3> HIDE DEF u
    <3>3. \A j \in 1 .. u - f : f + j \in 1 .. Len(l) /\ (f + 1) + j - 1 = f + j
          BY <1>1, <3>1, <3>2
    <3>4. v = [j \in 1 .. u - f |-> l[f + j]]
          BY <3>2, <3>3
    <3>5. SubSeq(l, f + 1, u) = [j \in 1 .. u - f |-> l[f + j]]
      <4>1. u - (f + 1) + 1 = u - f
            BY <3>1, <3>2
      <4>2. \A j \in f + 1 .. u : l[j] \in AnyByte
            BY <1>1, <3>1, <3>2 DEF Text
      <4>3. /\ SubSeq(l, f + 1, u) \in Seq(AnyByte)
            /\ Len(SubSeq(l, f + 1, u)) = IF f + 1 <= u THEN u - (f + 1) + 1 ELSE 0
            /\ \A j \in 1 .. u - (f + 1) + 1 : SubSeq(l, f + 1, u)[j] = l[(f + 1) + j - 1]
            BY <3>1, <3>2, <4>2, SubSeqProperties
      <4>4. Len(SubSeq(l, f + 1, u)) = u - f
            BY <3>1, <3>2, <4>1, <4>3
      <4>5. \A j \in 1 .. u - f : SubSeq(l, f + 1, u)[j] = l[f + j]
            BY <3>3, <4>1, <4>3
      <4> QED BY <4>3, <4>4, <4>5
    <3> QED BY <3>1, <3>4, <3>5 DEF u
  <2> QED BY <2>1, <2>2
<1>8. UriOf(l) = [key |-> SubSeq(l, 3, Max(K)), val |-> v]
      BY DEF UriOf
<1>9. q.begin + 1 = 3
      BY <1>1
<1> HIDE DEF K, v
<1> QED BY <1>6, <1>7, <1>8, <1>9 DEF KeyIn, ValIn

LEMMA HeldByte ==
  ASSUME Stream \in Text, consumed \in Nat, arrived \in 0 .. Len(Stream), NEW n \in Nat, n >= 1
  PROVE  Held(n) \in AnyByte \cup {"old"}
<1>1. CASE consumed + n <= arrived
  <2>1. consumed + n \in 1 .. Len(Stream)
    <3>1. Len(Stream) \in Nat /\ arrived \in Nat /\ arrived <= Len(Stream)
          BY DEF Text
    <3> HIDE DEF Stream
    <3> QED BY <1>1, <3>1
  <2>2. Stream[consumed + n] \in AnyByte
        BY <2>1 DEF Text
  <2> QED BY <1>1, <2>2 DEF Held
<1>2. CASE ~(consumed + n <= arrived)
      BY <1>2 DEF Held
<1> QED BY <1>1, <1>2

\* What is made of any URI: a path, and a query that may have been left over
\* from something else.
LEMMA UriType ==
  ASSUME NEW x, NEW e, UriTo(x, e), PathLen(x) >= 0, Stream \in Text, consumed \in Nat,
         arrived \in 0 .. Len(Stream)
  PROVE  UriOf(x) \in [key : Text, val : Seq(AnyByte \cup {"old"})]
<1> DEFINE K == {2} \cup {j \in 3 .. 2 + PathLen(x) : j = 3 \/ x[j] # "/"}
           v == [j \in 1 .. QsLen(x) |-> Held(QsBegin(x) + j)]
<1>1. /\ PathLen(x) \in Nat /\ PathLen(x) <= e - 5
      /\ QsBegin(x) \in Nat /\ QsLen(x) \in Nat
      BY UriLens
<1>2. x \in Text /\ Len(x) \in Nat /\ e \in Nat /\ e - 2 <= Len(x)
      BY DEF UriTo, Text
<1>3. SubSeq(x, 3, Max(K)) \in Text
  <2>1. K \in SUBSET (2 .. 2 + PathLen(x)) /\ K # {} /\ 2 + PathLen(x) \in Int
        BY <1>1
  <2> HIDE DEF K
  <2>2. Max(K) \in 2 .. 2 + PathLen(x)
    <3> DEFINE n == 2 + PathLen(x)
    <3>1. K \in SUBSET (2 .. n) /\ K # {} /\ n \in Int /\ 2 \in Int
          BY <2>1
    <3> HIDE DEF n
    <3>2. Max(K) \in K
          BY <3>1, MaxOf
    <3> QED BY <3>1, <3>2 DEF n
  <2>3. Max(K) \in Int /\ \A j \in 3 .. Max(K) : j \in 1 .. Len(x)
        BY <1>1, <1>2, <2>2
  <2>4. \A j \in 3 .. Max(K) : x[j] \in AnyByte
        BY <1>2, <2>3 DEF Text
  <2> QED BY <2>3, <2>4, SubSeqProperties DEF Text
<1>4. v \in Seq(AnyByte \cup {"old"})
  <2>1. \A j \in 1 .. QsLen(x) : Held(QsBegin(x) + j) \in AnyByte \cup {"old"}
    <3> SUFFICES ASSUME NEW j \in 1 .. QsLen(x)
                 PROVE  Held(QsBegin(x) + j) \in AnyByte \cup {"old"}
        OBVIOUS
    <3> DEFINE n == QsBegin(x) + j
    <3>1. n \in Nat /\ n >= 1
          BY <1>1
    <3> HIDE DEF n
    <3>2. Held(n) \in AnyByte \cup {"old"}
          BY <3>1, HeldByte
    <3> QED BY <3>2 DEF n
  <2> QED BY <1>1, <2>1
<1>5. UriOf(x) = [key |-> SubSeq(x, 3, Max(K)), val |-> v]
      BY DEF UriOf
<1> HIDE DEF K, v
<1> QED BY <1>3, <1>4, <1>5

-----------------------------------------------------------------------------
(* Any line of a message.                                                  *)

\* What is expected behind the first j bytes of line i; behind one that is no
\* line nothing fits.
Stands(m, i, j, s) ==
  LET l == LineOf(m, i)
      q == m.marks[i]
  IN /\ m.roles[i] = "last" => LastStands(l, j, s)
     /\ m.roles[i] # "last" /\ i > 1 => FieldStands(l, q, j, s)
     /\ i = 1 => IF m.kind = "request" THEN RequestStands(l, q, j, s)
                                       ELSE StatusStands(l, q, j, s)
     /\ m.roles[i] = "wrong" /\ j = Length(m, i) => s = "unfit"

-----------------------------------------------------------------------------
(* The inductive invariant.                                                *)

FirstRight ==
  (msg.kind = "request" => IsSimple(LineOf(msg, 1), msg.marks[1]))
  => first = [key |-> KeyOf(msg, 1), val |-> ValOf(msg, 1)]

\* A call is in line i, or the next one begins there.
Standing(i) ==
  /\ consumed = msg.ends[i - 1] /\ tot_len = consumed
  /\ i = 1 <=> state \in {"INIT", "FIRST_LINE"}
  /\ state # "INIT" => off <= Length(msg, i) /\ Stands(msg, i, off, at)
  /\ i > 1 => FirstRight
  /\ FieldsRight(i - 1)

\* The limit is what the caller asks for, or one more.
Limited ==
  state # "INIT" => max_len \in {MaxLen, MaxLen + 1} /\ (max_len = MaxLen => resets)

Accepted ==
  result = "ok" => /\ Good(msg) /\ consumed = Whole(msg)
                   /\ FirstRight /\ FieldsRight(Count(msg))

IInv ==
  /\ TypeOK
  /\ result \in {"idle", "scan"} => state # "DONE" /\ \E i \in Lines(msg) : Standing(i)
  /\ result = "scan" => state # "INIT"
  /\ Limited /\ Accepted /\ RefusedRight /\ LimitKept /\ ReadsInside

-----------------------------------------------------------------------------
(* Where the lines are.                                                    *)

LEMMA Layout ==
  ASSUME NEW m \in Messages, NEW i \in Lines(m)
  PROVE  /\ Count(m) \in Nat /\ i \in Nat /\ i >= 1 /\ i <= Count(m)
         /\ m.bytes \in Text /\ Len(m.bytes) \in Nat
         /\ m.ends[i - 1] \in 0 .. Len(m.bytes) /\ m.ends[i] \in 0 .. Len(m.bytes)
         /\ Length(m, i) \in Nat \ {0}
         /\ m.ends[i] = m.ends[i - 1] + Length(m, i)
         /\ m.ends[0] = 0
         /\ Whole(m) \in 0 .. Len(m.bytes) /\ m.ends[i] <= Whole(m)
         /\ m.marks[i] \in Marks
         /\ i < Count(m) => i + 1 \in Lines(m) /\ (i + 1) - 1 = i
         /\ i = Count(m) => m.ends[i] = Whole(m)
<1>1. Laid(m)
      BY GrammarAssumption
<1> DEFINE n == Count(m)
<1>2. n \in Nat /\ i \in 1 .. n /\ i - 1 \in 0 .. n /\ i \in 0 .. n /\ n \in 0 .. n /\ 0 \in 0 .. n
      BY <1>1 DEF Laid, Count, Lines
<1>3. m.bytes \in Text /\ Len(m.bytes) \in Nat
      BY <1>1 DEF Laid, Text
<1>4. /\ m.ends[i - 1] \in 0 .. Len(m.bytes) /\ m.ends[i] \in 0 .. Len(m.bytes)
      /\ m.ends[n] \in 0 .. Len(m.bytes) /\ m.ends[0] = 0
      /\ m.marks[i] \in Marks
      BY <1>1, <1>2, Zenon DEF Laid
<1>5. m.ends[i - 1] < m.ends[i]
  <2>1. i - 1 < i
        BY <1>2
  <2> QED BY <1>1, <1>2, <2>1, Zenon DEF Laid
<1>6. m.ends[i] <= m.ends[n]
  <2>1. i < n => m.ends[i] < m.ends[n]
        BY <1>1, <1>2, Zenon DEF Laid
  <2> QED BY <1>2, <1>3, <1>4, <2>1
<1>7. Length(m, i) \in Nat \ {0} /\ m.ends[i] = m.ends[i - 1] + Length(m, i)
      BY <1>3, <1>4, <1>5 DEF Length
<1>8. i < n => i + 1 \in 1 .. n /\ (i + 1) - 1 = i
      BY <1>2
<1>9. i >= 1 /\ i <= n
      BY <1>2
<1> QED BY <1>2, <1>3, <1>4, <1>6, <1>7, <1>8, <1>9 DEF Whole, Lines

LEMMA Roles ==
  ASSUME NEW m \in Messages, NEW i \in Lines(m)
  PROVE  /\ m.kind \in {"request", "response"}
         /\ m.roles[i] \in {"first", "field", "last", "again", "wrong"}
         /\ m.roles[i] = "first" => i = 1
         /\ m.roles[i] \in {"first", "wrong"} \/ i > 1
         /\ m.roles[i] \in {"last", "again", "wrong"} <=> i = Count(m)
         /\ Good(m) => m.roles[i] \in {"first", "field", "last"}
<1>1. Laid(m) /\ i \in 1 .. Count(m)
      BY GrammarAssumption DEF Lines
<1>2. m.roles \in Seq({"first", "field", "last", "again", "wrong"}) /\ Count(m) = Len(m.roles)
      BY <1>1 DEF Laid, Count
<1>3. m.roles[i] \in {"first", "field", "last", "again", "wrong"}
      BY <1>1, <1>2
<1>4. m.roles[i] \in {"last", "again", "wrong"} <=> i = Count(m)
      BY <1>1, Zenon DEF Laid
<1>5. m.roles[i] = "first" => i = 1
      BY <1>1, Zenon DEF Laid
<1>6. m.roles[i] \in {"first", "wrong"} \/ i > 1
      BY <1>1, Zenon DEF Laid
<1>7. m.kind \in {"request", "response"}
      BY <1>1, Zenon DEF Laid
<1> QED BY <1>3, <1>4, <1>5, <1>6, <1>7 DEF Good

\* The bytes of a line.
LEMMA LineBytes ==
  ASSUME NEW m \in Messages, NEW i \in Lines(m)
  PROVE  /\ LineOf(m, i) \in Text /\ Len(LineOf(m, i)) = Length(m, i)
         /\ \A j \in Nat : j < Length(m, i) => LineOf(m, i)[j + 1] = m.bytes[m.ends[i - 1] + j + 1]
<1> DEFINE s == m.bytes
           a == m.ends[i - 1]
           b == m.ends[i]
           n == Length(m, i)
<1>1. s \in Text /\ a \in 0 .. Len(s) /\ b \in 0 .. Len(s) /\ n \in Nat \ {0} /\ b = a + n
      BY Layout, Zenon
<1>2. LineOf(m, i) = SubSeq(s, a + 1, b)
      BY DEF LineOf
<1> HIDE DEF s, a, b, n
<1>3. a \in Nat /\ b \in Nat /\ a + 1 \in Int /\ b \in Int /\ a + 1 <= b /\ b - (a + 1) + 1 = n
      BY <1>1 DEF Text
<1>4. \A k \in a + 1 .. b : s[k] \in AnyByte
      BY <1>1, <1>3 DEF Text
<1>5. /\ SubSeq(s, a + 1, b) \in Seq(AnyByte)
      /\ Len(SubSeq(s, a + 1, b)) = IF a + 1 <= b THEN b - (a + 1) + 1 ELSE 0
      /\ \A k \in 1 .. b - (a + 1) + 1 : SubSeq(s, a + 1, b)[k] = s[(a + 1) + k - 1]
      BY <1>3, <1>4, SubSeqProperties
<1>6. \A j \in Nat : j < n => SubSeq(s, a + 1, b)[j + 1] = s[a + j + 1]
      BY <1>3, <1>5
<1>7. LineOf(m, i) \in Text
      BY <1>2, <1>5 DEF Text
<1>8. Len(LineOf(m, i)) = n
      BY <1>2, <1>3, <1>5
<1>9. \A j \in Nat : j < n => LineOf(m, i)[j + 1] = s[a + j + 1]
  <2> SUFFICES ASSUME NEW j \in Nat, j < n
               PROVE  LineOf(m, i)[j + 1] = s[a + j + 1]
      OBVIOUS
  <2>1. SubSeq(s, a + 1, b)[j + 1] = s[a + j + 1]
        BY <1>6
  <2> QED BY <1>2, <2>1, Zenon
<1> QED BY <1>7, <1>8, <1>9, Zenon DEF s, a, n

\* What each line is.
LEMMA LineIs ==
  ASSUME NEW m \in Messages, NEW i \in Lines(m)
  PROVE  /\ m.roles[i] = "last" => i > 1 /\ IsLast(LineOf(m, i))
         /\ m.roles[i] \in {"field", "again"} => i > 1 /\ IsField(LineOf(m, i), m.marks[i])
         /\ m.roles[i] = "first" => i = 1 /\ IsFirst(m, i)
         /\ m.roles[i] = "wrong" =>
              IF i = 1 THEN NoFirst(m, i) ELSE i > 1 /\ NoField(LineOf(m, i), m.marks[i])
<1>1. Grammar(m)
      BY GrammarAssumption
<1>2. /\ m.roles[i] = "first" => i = 1
      /\ m.roles[i] \in {"first", "wrong"} \/ i > 1
      BY Roles, Zenon
<1>3. i \in Nat /\ i >= 1
      BY Layout, Zenon
<1>4. /\ m.roles[i] = "first" => IsFirst(m, i)
      /\ m.roles[i] = "field" => IsField(LineOf(m, i), m.marks[i])
      /\ m.roles[i] = "last"  => IsLast(LineOf(m, i))
      /\ m.roles[i] = "again" => IsField(LineOf(m, i), m.marks[i])
      /\ m.roles[i] = "wrong" => IF i = 1 THEN NoFirst(m, i) ELSE NoField(LineOf(m, i), m.marks[i])
      BY <1>1, Zenon DEF Grammar
<1> QED BY <1>2, <1>3, <1>4

-----------------------------------------------------------------------------
(* The parser in a line.                                                   *)

LEMMA Moves ==
  ASSUME NEW m \in Messages, NEW i \in Lines(m), NEW j \in Nat, j < Length(m, i),
         NEW s, NEW t, Stands(m, i, j, s), Goes(s, LineOf(m, i)[j + 1], t)
  PROVE  Stands(m, i, j + 1, t)
<1> DEFINE l == LineOf(m, i)
           q == m.marks[i]
<1>1. l \in Text /\ Len(l) = Length(m, i)
      BY LineBytes, Zenon
<1>2. q \in Marks /\ i \in Nat /\ i >= 1
      BY Layout, Zenon
<1>3. /\ m.roles[i] = "last" => i > 1 /\ IsLast(l)
      /\ m.roles[i] \in {"field", "again"} => i > 1 /\ IsField(l, q)
      /\ m.roles[i] = "first" => i = 1 /\ IsFirst(m, i)
      /\ m.roles[i] = "wrong" => IF i = 1 THEN NoFirst(m, i) ELSE i > 1 /\ NoField(l, q)
      BY LineIs, Zenon
<1>4. /\ m.kind \in {"request", "response"}
      /\ m.roles[i] \in {"first", "field", "last", "again", "wrong"}
      BY Roles, Zenon
<1>5. /\ IsFirst(m, i) => IF m.kind = "request" THEN IsRequest(l, q) ELSE IsStatus(l, q)
      /\ NoFirst(m, i) => IF m.kind = "request" THEN NoRequest(l, q) ELSE NoStatus(l, q)
      BY DEF IsFirst, NoFirst
<1>6. /\ m.roles[i] = "last" => LastStands(l, j, s)
      /\ m.roles[i] # "last" /\ i > 1 => FieldStands(l, q, j, s)
      /\ i = 1 => IF m.kind = "request" THEN RequestStands(l, q, j, s) ELSE StatusStands(l, q, j, s)
      BY DEF Stands
<1> HIDE DEF l, q
<1>7. j < Len(l) /\ Goes(s, l[j + 1], t)
      BY <1>1 DEF l
<1>8. CASE m.roles[i] = "last"
  <2>1. LastStands(l, j + 1, t)
        BY <1>3, <1>6, <1>7, <1>8, LastMoves
  <2> QED BY <1>3, <1>8, <2>1 DEF Stands, l
<1>9. CASE m.roles[i] # "last" /\ i > 1
  <2>1. IsField(l, q) \/ NoField(l, q)
        BY <1>3, <1>4, <1>9
  <2>2. FieldStands(l, q, j + 1, t) /\ ~(NoField(l, q) /\ j + 1 = Len(l))
        BY <1>1, <1>2, <1>6, <1>7, <1>9, <2>1, FieldMoves
  <2>3. ~(m.roles[i] = "wrong" /\ j + 1 = Length(m, i))
        BY <1>1, <1>3, <1>9, <2>2
  <2> QED BY <1>9, <2>2, <2>3 DEF Stands, l, q
<1>10. CASE i = 1 /\ m.kind = "request"
  <2>1. m.roles[i] # "last" /\ (IsRequest(l, q) \/ NoRequest(l, q)) /\ (m.roles[i] = "wrong" => NoRequest(l, q))
        BY <1>3, <1>4, <1>5, <1>10
  <2>2. RequestStands(l, q, j + 1, t) /\ (NoRequest(l, q) /\ j + 1 = Len(l) => t = "unfit")
        BY <1>1, <1>2, <1>6, <1>7, <1>10, <2>1, RequestMoves
  <2> QED BY <1>1, <1>10, <2>1, <2>2 DEF Stands, l, q
<1>11. CASE i = 1 /\ m.kind # "request"
  <2>1. m.roles[i] # "last" /\ (IsStatus(l, q) \/ NoStatus(l, q)) /\ (m.roles[i] = "wrong" => NoStatus(l, q))
        BY <1>3, <1>4, <1>5, <1>11
  <2>2. StatusStands(l, q, j + 1, t) /\ (NoStatus(l, q) /\ j + 1 = Len(l) => t = "unfit")
        BY <1>1, <1>2, <1>6, <1>7, <1>11, <2>1, StatusMoves
  <2> QED BY <1>1, <1>11, <2>1, <2>2 DEF Stands, l, q
<1> QED BY <1>2, <1>8, <1>9, <1>10, <1>11

LEMMA GoesOn ==
  ASSUME NEW m \in Messages, NEW i \in Lines(m), NEW j \in Nat, j < Length(m, i),
         NEW s, Stands(m, i, j, s), m.roles[i] # "wrong"
  PROVE  \E t \in Places : Goes(s, LineOf(m, i)[j + 1], t)
<1> DEFINE l == LineOf(m, i)
           q == m.marks[i]
<1>1. l \in Text /\ Len(l) = Length(m, i)
      BY LineBytes, Zenon
<1>2. q \in Marks /\ i \in Nat /\ i >= 1
      BY Layout, Zenon
<1>3. /\ m.roles[i] = "last" => i > 1 /\ IsLast(l)
      /\ m.roles[i] \in {"field", "again"} => i > 1 /\ IsField(l, q)
      /\ m.roles[i] = "first" => i = 1 /\ IsFirst(m, i)
      BY LineIs, Zenon
<1>4. m.roles[i] \in {"first", "field", "last", "again", "wrong"}
      BY Roles, Zenon
<1>5. IsFirst(m, i) => IF m.kind = "request" THEN IsRequest(l, q) ELSE IsStatus(l, q)
      BY DEF IsFirst
<1>6. /\ m.roles[i] = "last" => LastStands(l, j, s)
      /\ m.roles[i] # "last" /\ i > 1 => FieldStands(l, q, j, s)
      /\ i = 1 => IF m.kind = "request" THEN RequestStands(l, q, j, s) ELSE StatusStands(l, q, j, s)
      BY DEF Stands
<1> HIDE DEF l, q
<1>7. j < Len(l)
      BY <1>1
<1>8. \E t \in Places : Goes(s, l[j + 1], t)
  <2>1. CASE m.roles[i] = "last"
        BY <1>3, <1>6, <1>7, <2>1, LastMoves
  <2>2. CASE m.roles[i] \in {"field", "again"}
        BY <1>1, <1>2, <1>3, <1>6, <1>7, <2>2, FieldGoesOn
  <2>3. CASE m.roles[i] = "first" /\ m.kind = "request"
        BY <1>1, <1>2, <1>3, <1>5, <1>6, <1>7, <2>3, RequestGoesOn
  <2>4. CASE m.roles[i] = "first" /\ m.kind # "request"
        BY <1>1, <1>2, <1>3, <1>5, <1>6, <1>7, <2>4, StatusGoesOn
  <2> QED BY <1>4, <2>1, <2>2, <2>3, <2>4
<1> QED BY <1>8 DEF l

LEMMA LineEnds ==
  ASSUME NEW m \in Messages, NEW i \in Lines(m), NEW j \in Nat, j <= Length(m, i),
         NEW s, Stands(m, i, j, s)
  PROVE  /\ s = "end" => m.roles[i] = "last" /\ j = Length(m, i)
         /\ s = "line" => m.roles[i] \in {"first", "field", "again"} /\ j = Length(m, i)
         /\ j = Length(m, i) => s \in {"line", "end", "unfit"} /\ (m.roles[i] # "wrong" => s # "unfit")
         /\ s = "digit" /\ m.roles[i] # "wrong" => j + 2 <= Length(m, i)
         /\ s = "prefix" => i = 1 /\ m.kind = "request" /\ j = m.marks[i].eol - 2
<1> DEFINE l == LineOf(m, i)
           q == m.marks[i]
<1>1. l \in Text /\ Len(l) = Length(m, i)
      BY LineBytes, Zenon
<1>2. q \in Marks /\ i \in Nat /\ i >= 1
      BY Layout, Zenon
<1>3. /\ m.roles[i] = "last" => i > 1 /\ IsLast(l)
      /\ m.roles[i] \in {"field", "again"} => i > 1 /\ IsField(l, q)
      /\ m.roles[i] = "first" => i = 1 /\ IsFirst(m, i)
      /\ m.roles[i] = "wrong" => IF i = 1 THEN NoFirst(m, i) ELSE i > 1 /\ NoField(l, q)
      BY LineIs, Zenon
<1>4. m.roles[i] \in {"first", "field", "last", "again", "wrong"}
      BY Roles, Zenon
<1>5. /\ IsFirst(m, i) => IF m.kind = "request" THEN IsRequest(l, q) ELSE IsStatus(l, q)
      /\ NoFirst(m, i) => IF m.kind = "request" THEN NoRequest(l, q) ELSE NoStatus(l, q)
      BY DEF IsFirst, NoFirst
<1>6. /\ m.roles[i] = "last" => LastStands(l, j, s)
      /\ m.roles[i] # "last" /\ i > 1 => FieldStands(l, q, j, s)
      /\ i = 1 => IF m.kind = "request" THEN RequestStands(l, q, j, s) ELSE StatusStands(l, q, j, s)
      /\ m.roles[i] = "wrong" /\ j = Len(l) => s = "unfit"
      BY <1>1 DEF Stands
<1>7. j \in 0 .. Len(l) /\ Len(l) \in Nat
      BY <1>1 DEF Text
<1> HIDE DEF l, q
<1>8. CASE m.roles[i] = "last"
  <2>1. s \notin {"line", "digit", "prefix"} /\ (s = "end" <=> j = Len(l))
        BY <1>3, <1>6, <1>7, <1>8, LastEnds
  <2> QED BY <1>1, <1>8, <2>1
<1>9. CASE m.roles[i] \in {"field", "again"}
  <2>1. s \notin {"end", "digit", "prefix"} /\ (s = "line" <=> j = Len(l))
        BY <1>1, <1>2, <1>3, <1>6, <1>7, <1>9, FieldEnds
  <2> QED BY <1>1, <1>9, <2>1
<1>10. CASE m.roles[i] = "first"
  <2>1. /\ s # "end" /\ (s = "line" <=> j = Len(l)) /\ (s = "digit" => j + 2 <= Len(l))
        /\ s = "prefix" => m.kind = "request" /\ j = q.eol - 2
    <3>1. CASE m.kind = "request"
          BY <1>1, <1>2, <1>3, <1>5, <1>6, <1>7, <1>10, <3>1, RequestEnds
    <3>2. CASE m.kind # "request"
          BY <1>1, <1>2, <1>3, <1>5, <1>6, <1>7, <1>10, <3>2, StatusEnds
    <3> QED BY <3>1, <3>2
  <2> QED BY <1>1, <1>3, <1>10, <2>1 DEF q
<1>11. CASE m.roles[i] = "wrong"
  <2>1. /\ s \notin {"line", "end"}
        /\ s = "prefix" => i = 1 /\ m.kind = "request" /\ j = q.eol - 2
    <3>1. CASE i > 1
          BY <1>1, <1>2, <1>3, <1>6, <1>7, <1>11, <3>1, FieldEnds
    <3>2. CASE i = 1 /\ m.kind = "request"
          BY <1>1, <1>2, <1>3, <1>5, <1>6, <1>7, <1>11, <3>2, RequestEnds
    <3>3. CASE i = 1 /\ m.kind # "request"
          BY <1>1, <1>2, <1>3, <1>5, <1>6, <1>7, <1>11, <3>3, StatusEnds
    <3> QED BY <1>2, <3>1, <3>2, <3>3
  <2> QED BY <1>1, <1>6, <1>11, <2>1 DEF q
<1> QED BY <1>4, <1>8, <1>9, <1>10, <1>11

\* Where the URI has been read.
LEMMA PrefixUri ==
  ASSUME NEW m \in Messages, NEW i \in Lines(m), NEW j \in Nat, j <= Length(m, i),
         Stands(m, i, j, "prefix")
  PROVE  /\ i = 1 /\ m.kind = "request" /\ j = m.marks[i].eol - 2 /\ m.marks[i].eol >= 5
         /\ LineOf(m, i)[m.marks[i].eol - 2] = "sp"
         /\ \A k \in 3 .. m.marks[i].eol - 3 : LineOf(m, i)[k] # "sp"
<1> DEFINE l == LineOf(m, i)
           q == m.marks[i]
<1>1. i = 1 /\ m.kind = "request" /\ j = q.eol - 2
      BY LineEnds
<1>2. l \in Text /\ Len(l) = Length(m, i) /\ q \in Marks
      BY LineBytes, Layout, Zenon
<1>3. IsRequest(l, q) \/ NoRequest(l, q)
  <2>1. /\ m.roles[i] = "last" => i > 1
        /\ m.roles[i] \in {"field", "again"} => i > 1
        /\ m.roles[i] = "first" => IsFirst(m, i)
        /\ m.roles[i] = "wrong" /\ i = 1 => NoFirst(m, i)
        BY LineIs, Zenon
  <2>2. m.roles[i] \in {"first", "field", "last", "again", "wrong"}
        BY Roles, Zenon
  <2>3. ~(i > 1)
        BY <1>1
  <2> QED BY <1>1, <2>1, <2>2, <2>3 DEF IsFirst, NoFirst
<1>4. RequestStands(l, q, j, "prefix")
      BY <1>1 DEF Stands
<1> HIDE DEF l, q
<1>5. /\ q.eol \in Nat /\ q.eol >= 5 /\ Len(l) \in Nat /\ q.eol - 2 <= Len(l)
      /\ \A k \in 1 .. Len(l) - 1 : RequestFits(l[1], q, k, l[k])
  <2>1. q.eol \in Nat /\ q.eol >= 5 /\ Len(l) \in Nat
        BY <1>2, <1>3 DEF Text, Marks, IsRequest, NoRequest, LeastEol
  <2>2. q.eol - 2 <= Len(l)
        BY <1>1, <1>2
  <2>3. \A k \in 1 .. Len(l) - 1 : RequestFits(l[1], q, k, l[k])
        BY <1>3, <2>1 DEF IsRequest, NoRequest
  <2> QED BY <2>1, <2>2, <2>3
<1>6. l[q.eol - 2] = "sp"
      BY <1>1, <1>4, <1>5 DEF RequestStands
<1>7. \A k \in 3 .. q.eol - 3 : l[k] # "sp"
  <2>1. \A k \in 3 .. q.eol - 3 : k \in 1 .. Len(l) - 1
        BY <1>5
  <2> QED BY <1>5, <2>1 DEF RequestFits
<1> QED BY <1>1, <1>5, <1>6, <1>7 DEF l, q

\* At the start of a line.
LEMMA Begins ==
  ASSUME NEW m \in Messages, NEW i \in Lines(m)
  PROVE  Stands(m, i, 0, IF i = 1 THEN FirstOf(m.kind) ELSE "start")
<1> DEFINE l == LineOf(m, i)
           q == m.marks[i]
<1>1. q \in Marks /\ i \in Nat /\ i >= 1 /\ Length(m, i) \in Nat \ {0}
      BY Layout, Zenon
<1>2. /\ m.roles[i] = "last" => i > 1
      /\ i = 1 => IsFirst(m, i) \/ NoFirst(m, i)
  <2>1. /\ m.roles[i] = "last" => i > 1
        /\ m.roles[i] \in {"field", "again"} => i > 1
        /\ m.roles[i] = "first" => IsFirst(m, i)
        /\ m.roles[i] = "wrong" /\ i = 1 => NoFirst(m, i)
        BY LineIs, Zenon
  <2>2. m.roles[i] \in {"first", "field", "last", "again", "wrong"}
        BY Roles, Zenon
  <2> QED BY <1>1, <2>1, <2>2
<1>3. i = 1 /\ m.kind = "request" => q.eol >= 5
  <2>1. i = 1 /\ m.kind = "request" => IsRequest(l, q) \/ NoRequest(l, q)
        BY <1>2 DEF IsFirst, NoFirst
  <2> HIDE DEF l, q
  <2> QED BY <1>1, <2>1 DEF IsRequest, NoRequest, LeastEol, Marks
<1> HIDE DEF l, q
<1>4. q.begin \in Nat /\ q.key \in Nat /\ q.from \in Nat /\ q.eol \in Nat
      BY <1>1 DEF Marks
<1>5. /\ q.eol >= 5 => RequestStands(l, q, 0, "method")
      /\ StatusStands(l, q, 0, "status") /\ FieldStands(l, q, 0, "start") /\ LastStands(l, 0, "start")
  <2>1. 0 # q.eol + 1 /\ 0 # q.eol + 2 /\ 0 # q.key + 1 /\ 0 \notin q.key + 2 .. q.eol
        /\ 0 \notin q.begin + 1 .. q.key
        BY <1>4
  <2>2. /\ StatusStands(l, q, 0, "status") /\ FieldStands(l, q, 0, "start") /\ LastStands(l, 0, "start")
        BY <1>4, <2>1 DEF StatusStands, FieldStands, LastStands, EndStands
  <2> QED BY <1>4, <2>1, <2>2 DEF RequestStands, EndStands
<1> QED BY <1>1, <1>2, <1>3, <1>5 DEF Stands, FirstOf, l, q

-----------------------------------------------------------------------------
(* What the fields are given.                                              *)

LEMMA KeyText ==
  ASSUME NEW m \in Messages, NEW i \in Lines(m)
  PROVE  /\ i > 1 /\ m.roles[i] # "last" /\ m.roles[i] # "wrong" =>
              /\ KeyOf(m, i) \in Text /\ ValOf(m, i) \in Text
              /\ Key(LineOf(m, i)) = KeyOf(m, i) /\ Val(LineOf(m, i)) = ValOf(m, i)
         /\ m.roles[i] = "first" =>
              /\ /\ m.kind = "request" /\ IsSimple(LineOf(m, i), m.marks[i])
                 /\ \A j \in 1 .. Len(LineOf(m, i)) : Held(j) = LineOf(m, i)[j]
                 => UriOf(LineOf(m, i)) = [key |-> KeyOf(m, i), val |-> ValOf(m, i)]
              /\ m.kind # "request" =>
                   /\ StatusOf(LineOf(m, i)) = [key |-> KeyOf(m, i), val |-> ValOf(m, i)]
                   /\ KeyOf(m, i) \in Text /\ ValOf(m, i) \in Text
<1> DEFINE l == LineOf(m, i)
           q == m.marks[i]
<1>1. l \in Text /\ q \in Marks /\ i \in Nat
      BY LineBytes, Layout, Zenon
<1>2. /\ m.roles[i] \in {"first", "field", "last", "again", "wrong"}
      /\ m.roles[i] = "first" => i = 1
      BY Roles, Zenon
<1>3. /\ m.roles[i] \in {"field", "again"} => IsField(l, q)
      /\ m.roles[i] = "first" => IsFirst(m, i)
      BY LineIs, Zenon
<1>4. IsFirst(m, i) => IF m.kind = "request" THEN IsRequest(l, q) ELSE IsStatus(l, q)
      BY DEF IsFirst
<1>5. KeyOf(m, i) = KeyIn(l, q) /\ ValOf(m, i) = ValIn(l, q)
      BY DEF KeyOf, ValOf
<1> HIDE DEF l, q
<1>6. IsField(l, q) => /\ KeyIn(l, q) \in Text /\ ValIn(l, q) \in Text
                       /\ Key(l) = KeyIn(l, q) /\ Val(l) = ValIn(l, q)
  <2>1. SUFFICES ASSUME IsField(l, q)
                 PROVE  KeyIn(l, q) \in Text /\ ValIn(l, q) \in Text
        BY <1>1, FieldMeans
  <2>2. /\ q.begin + 1 \in Int /\ q.key \in Int /\ q.from + 1 \in Int /\ q.upto \in Int
        /\ \A j \in q.begin + 1 .. q.key : l[j] \in AnyByte
        /\ \A j \in q.from + 1 .. q.upto : l[j] \in AnyByte
    <3>1. /\ q.begin \in Nat /\ q.key \in Nat /\ q.eol \in Nat /\ q.from \in Nat /\ q.upto \in Nat
          /\ q.key <= q.eol /\ q.upto <= q.eol
          /\ Len(l) \in Nat /\ q.eol + 1 <= Len(l)
          BY <1>1, <2>1 DEF Text, Marks, IsField, Ended
    <3>2. \A j \in 1 .. Len(l) : l[j] \in AnyByte
          BY <1>1 DEF Text
    <3>3. q.begin + 1 \in Int /\ q.key \in Int /\ q.from + 1 \in Int /\ q.upto \in Int
          BY <3>1
    <3>4. \A j \in q.begin + 1 .. q.key : j \in 1 .. Len(l)
          BY <3>1
    <3>5. \A j \in q.from + 1 .. q.upto : j \in 1 .. Len(l)
          BY <3>1
    <3> QED BY <3>2, <3>3, <3>4, <3>5
  <2>3. SubSeq(l, q.begin + 1, q.key) \in Seq(AnyByte) /\ SubSeq(l, q.from + 1, q.upto) \in Seq(AnyByte)
        BY <2>2, SubSeqProperties
  <2> QED BY <2>3 DEF KeyIn, ValIn, Text
<1>7. IsRequest(l, q) /\ IsSimple(l, q) /\ (\A j \in 1 .. Len(l) : Held(j) = l[j])
      => UriOf(l) = [key |-> KeyIn(l, q), val |-> ValIn(l, q)]
      BY <1>1, RequestMeans
<1>8. IsStatus(l, q) => /\ StatusOf(l) = [key |-> KeyIn(l, q), val |-> ValIn(l, q)]
                        /\ KeyIn(l, q) \in Text /\ ValIn(l, q) \in Text
  <2>1. SUFFICES ASSUME IsStatus(l, q)
                 PROVE  KeyIn(l, q) \in Text /\ ValIn(l, q) \in Text
        BY <1>1, StatusMeans
  <2>2. /\ q.begin = 3 /\ q.key = 6 /\ q.from \in Nat /\ q.upto \in Nat /\ q.eol \in Nat
        /\ q.eol >= 7 /\ q.upto <= q.eol /\ Len(l) \in Nat /\ q.eol + 1 <= Len(l)
        /\ \A j \in 1 .. Len(l) : l[j] \in AnyByte
        BY <1>1, <2>1 DEF Text, Marks, IsStatus, Ended
  <2>3. \A j \in q.begin + 1 .. q.key : j \in 1 .. Len(l)
        BY <2>2
  <2>4. \A j \in q.from + 1 .. q.upto : j \in 1 .. Len(l)
        BY <2>2
  <2>5. q.begin + 1 \in Int /\ q.key \in Int /\ q.from + 1 \in Int /\ q.upto \in Int
        BY <2>2
  <2>6. SubSeq(l, q.begin + 1, q.key) \in Seq(AnyByte) /\ SubSeq(l, q.from + 1, q.upto) \in Seq(AnyByte)
        BY <2>2, <2>3, <2>4, <2>5, SubSeqProperties
  <2> QED BY <2>6 DEF KeyIn, ValIn, Text
<1> QED BY <1>1, <1>2, <1>3, <1>4, <1>5, <1>6, <1>7, <1>8 DEF l, q

LEMMA NoKeys ==
  ASSUME NEW m
  PROVE  Keys(m, 0) = {}
BY DEF Keys, FieldsTo

LEMMA KeysGrow ==
  ASSUME NEW m \in Messages, NEW i \in Lines(m)
  PROVE  Keys(m, i) = Keys(m, i - 1) \cup (IF m.roles[i] = "field" THEN {KeyOf(m, i)} ELSE {})
<1>1. i \in Nat /\ i >= 1
      BY Layout, Zenon
<1>2. FieldsTo(m, i) = FieldsTo(m, i - 1) \cup (IF m.roles[i] = "field" THEN {i} ELSE {})
      BY <1>1 DEF FieldsTo
<1> QED BY <1>2 DEF Keys

\* What a line does to the values.
LEMMA ValuesGrow ==
  ASSUME NEW m \in Messages, NEW i \in Lines(m)
  PROVE  /\ \A k \in Keys(m, i) : m.values[i][k] \in Text
         /\ \A k \in Keys(m, i - 1) :
              /\ m.values[i - 1][k] \in Text
              /\ m.roles[i] # "field" \/ k # KeyOf(m, i) => m.values[i][k] = m.values[i - 1][k]
              /\ m.roles[i] = "field" /\ k = KeyOf(m, i) =>
                   /\ IsList(k)
                   /\ m.values[i][k] = Joined(m.values[i - 1][k], ValOf(m, i))
         /\ m.roles[i] = "field" /\ KeyOf(m, i) \notin Keys(m, i - 1) =>
              m.values[i][KeyOf(m, i)] = ValOf(m, i)
         /\ m.roles[i] = "again" => KeyOf(m, i) \in Keys(m, i - 1)
<1>1. Valued(m) /\ Grammar(m)
      BY GrammarAssumption
<1>2. i \in 0 .. Count(m) /\ i - 1 \in 0 .. Count(m)
  <2>1. i \in Nat /\ i >= 1 /\ i <= Count(m) /\ Count(m) \in Nat
        BY Layout, Zenon
  <2> QED BY <2>1
<1>3. \A n \in 0 .. Count(m) : \A k \in Keys(m, n) : m.values[n][k] \in Text
      BY <1>1, Zenon DEF Valued
<1>4. m.roles[i] = "field" /\ KeyOf(m, i) \notin Keys(m, i - 1) => m.values[i][KeyOf(m, i)] = ValOf(m, i)
      BY <1>1, Zenon DEF Valued
<1>5. /\ m.roles[i] = "field" /\ KeyOf(m, i) \in Keys(m, i - 1) => IsList(KeyOf(m, i))
      /\ m.roles[i] = "again" => KeyOf(m, i) \in Keys(m, i - 1)
      BY <1>1, Zenon DEF Grammar
<1>6. ASSUME NEW k \in Keys(m, i - 1)
      PROVE  m.values[i][k] = IF m.roles[i] # "field" \/ k # KeyOf(m, i) THEN m.values[i - 1][k]
                              ELSE Joined(m.values[i - 1][k], ValOf(m, i))
  <2>1. IF m.roles[i] # "field" \/ k # KeyOf(m, i) \/ ValOf(m, i) = <<>> THEN m.values[i][k] = m.values[i - 1][k]
        ELSE m.values[i][k] = IF m.values[i - 1][k] = <<>> THEN ValOf(m, i)
                              ELSE m.values[i - 1][k] \o <<",">> \o ValOf(m, i)
        BY <1>1 DEF Valued
  <2> QED BY <2>1 DEF Joined
<1>7. \A k \in Keys(m, i - 1) : m.values[i - 1][k] \in Text
      BY <1>2, <1>3
<1>8. \A k \in Keys(m, i) : m.values[i][k] \in Text
      BY <1>2, <1>3
<1> QED BY <1>4, <1>5, <1>6, <1>7, <1>8

Record == [key : Text, val : Text]

\* FieldsRight of any list of fields and any message.
FieldsAre(f, m, n) ==
  /\ \A x, y \in DOMAIN f : f[x].key = f[y].key => x = y
  /\ {f[x].key : x \in DOMAIN f} = Keys(m, n)
  /\ \A x \in DOMAIN f : f[x].val = m.values[n][f[x].key]

LEMMA Found ==
  ASSUME NEW n, FieldsRight(n), fields \in Seq(Record), NEW k
  PROVE  /\ IndexOf(k) # 0 <=> k \in Keys(msg, n)
         /\ IndexOf(k) # 0 => IndexOf(k) \in DOMAIN fields /\ fields[IndexOf(k)].key = k
<1>1. k \in Keys(msg, n) <=> \E x \in DOMAIN fields : fields[x].key = k
      BY DEF FieldsRight
<1>2. DOMAIN fields = 1 .. Len(fields) /\ Len(fields) \in Nat
      OBVIOUS
<1>3. CASE \E x \in DOMAIN fields : fields[x].key = k
  <2>1. IndexOf(k) \in DOMAIN fields /\ fields[IndexOf(k)].key = k
        BY <1>3, Zenon DEF IndexOf
  <2> QED BY <1>1, <1>2, <1>3, <2>1
<1>4. CASE ~\E x \in DOMAIN fields : fields[x].key = k
  <2>1. IndexOf(k) = 0
        BY <1>4, Zenon DEF IndexOf
  <2> QED BY <1>1, <1>4, <2>1
<1> QED BY <1>3, <1>4

\* A field of the message is added as it should be.
LEMMA AddedRight ==
  ASSUME msg \in Messages, fields \in Seq(Record), NEW i \in Lines(msg),
         i > 1, msg.roles[i] = "field", FieldsRight(i - 1)
  PROVE  /\ Added(KeyOf(msg, i), ValOf(msg, i)) \in Seq(Record)
         /\ FieldsAre(Added(KeyOf(msg, i), ValOf(msg, i)), msg, i)
<1> DEFINE k == KeyOf(msg, i)
           v == ValOf(msg, i)
           S == Keys(msg, i - 1)
           old == msg.values[i - 1]
           new == msg.values[i]
           x == IndexOf(k)
           g == Added(k, v)
<1>1. k \in Text /\ v \in Text
      BY KeyText
<1>2. Keys(msg, i) = S \cup {k}
      BY KeysGrow
<1>3. /\ \A c \in S : old[c] \in Text /\ (c # k => new[c] = old[c])
      /\ k \in S => IsList(k) /\ new[k] = Joined(old[k], v)
      /\ k \notin S => new[k] = v
      /\ \A c \in S \cup {k} : new[c] \in Text
      BY <1>2, ValuesGrow
<1>4. /\ \A a, b \in DOMAIN fields : fields[a].key = fields[b].key => a = b
      /\ {fields[a].key : a \in DOMAIN fields} = S
      /\ \A a \in DOMAIN fields : fields[a].val = old[fields[a].key]
      BY DEF FieldsRight
<1>5. /\ x # 0 <=> k \in S
      /\ x # 0 => x \in DOMAIN fields /\ fields[x].key = k
      BY Found
<1>6. /\ x = 0 => g = Append(fields, [key |-> k, val |-> v])
      /\ x # 0 => g = [fields EXCEPT ![x] = [key |-> @.key, val |-> IF IsList(k) THEN Joined(@.val, v) ELSE v]]
      BY DEF Added
<1> HIDE DEF k, v, S, old, new, x, g
<1>7. DOMAIN fields = 1 .. Len(fields) /\ Len(fields) \in Nat /\ \A a \in DOMAIN fields : fields[a] \in Record
      OBVIOUS
<1>8. CASE x = 0
  <2> DEFINE r == [key |-> k, val |-> v]
             n == Len(fields)
  <2>1. r \in Record /\ r.key = k /\ r.val = v
        BY <1>1 DEF Record
  <2>2. g = Append(fields, r)
        BY <1>6, <1>8
  <2> HIDE DEF r
  <2>3. /\ g \in Seq(Record) /\ Len(g) = n + 1 /\ DOMAIN g = 1 .. n + 1
        /\ \A a \in 1 .. n : g[a] = fields[a]
        /\ g[n + 1] = r
        BY <1>7, <2>1, <2>2, AppendProperties
  <2> HIDE DEF n
  <2>4. n \in Nat /\ DOMAIN fields = 1 .. n /\ \A a \in 1 .. n + 1 : a \in 1 .. n \/ a = n + 1
        BY <1>7 DEF n
  <2>5. k \notin S /\ \A a \in 1 .. n : fields[a].key \in S /\ fields[a].key # k
        BY <1>4, <1>5, <1>8, <2>4
  <2>6. \A a, b \in DOMAIN g : g[a].key = g[b].key => a = b
    <3>1. SUFFICES ASSUME NEW a \in 1 .. n + 1, NEW b \in 1 .. n + 1, g[a].key = g[b].key
                   PROVE  a = b
          BY <2>3
    <3>2. CASE a = n + 1 \/ b = n + 1
          BY <2>1, <2>3, <2>4, <2>5, <3>1, <3>2
    <3>3. CASE a \in 1 .. n /\ b \in 1 .. n
          BY <1>4, <2>3, <2>4, <3>1, <3>3
    <3> QED BY <2>4, <3>2, <3>3
  <2>7. {g[a].key : a \in DOMAIN g} = S \cup {k}
    <3>1. \A c \in S : \E a \in 1 .. n : fields[a].key = c
          BY <1>4, <2>4
    <3>2. n + 1 \in DOMAIN g /\ \A a \in 1 .. n : a \in DOMAIN g
          BY <2>3, <2>4
    <3>3. \A c \in S \cup {k} : \E a \in DOMAIN g : g[a].key = c
          BY <2>1, <2>3, <3>1, <3>2
    <3>4. \A a \in DOMAIN g : g[a].key \in S \cup {k}
          BY <2>1, <2>3, <2>4, <2>5
    <3> QED BY <3>3, <3>4
  <2>8. \A a \in DOMAIN g : g[a].val = new[g[a].key]
    <3>1. \A a \in 1 .. n : fields[a].val = new[fields[a].key]
          BY <1>3, <1>4, <2>4, <2>5
    <3> QED BY <1>3, <2>1, <2>3, <2>4, <2>5, <3>1
  <2> QED BY <1>2, <2>3, <2>6, <2>7, <2>8 DEF FieldsAre, g, k, v, S, new
<1>9. CASE x # 0
  <2> DEFINE w == Joined(fields[x].val, v)
             r == [key |-> k, val |-> w]
  <2>1. /\ x \in DOMAIN fields /\ fields[x].key = k /\ k \in S /\ IsList(k)
        /\ w = new[k] /\ w \in Text
        BY <1>3, <1>4, <1>5, <1>9
  <2>2. r \in Record /\ r.key = k /\ r.val = w
        BY <1>1, <2>1 DEF Record
  <2>3. g = [fields EXCEPT ![x] = r]
        BY <1>6, <1>9, <2>1
  <2> HIDE DEF r, w
  <2>4. /\ g \in Seq(Record) /\ DOMAIN g = DOMAIN fields
        /\ \A a \in DOMAIN fields : g[a] = IF a = x THEN r ELSE fields[a]
        BY <1>7, <2>1, <2>2, <2>3
  <2>5. \A a \in DOMAIN fields : g[a].key = fields[a].key
        BY <2>1, <2>2, <2>4
  <2>6. \A a, b \in DOMAIN g : g[a].key = g[b].key => a = b
        BY <1>4, <2>4, <2>5
  <2>7. {g[a].key : a \in DOMAIN g} = S \cup {k}
    <3>1. {g[a].key : a \in DOMAIN g} = S
          BY <1>4, <2>4, <2>5
    <3> QED BY <2>1, <3>1
  <2>8. \A a \in DOMAIN g : g[a].val = new[g[a].key]
    <3>1. SUFFICES ASSUME NEW a \in DOMAIN fields
                   PROVE  g[a].val = new[g[a].key]
          BY <2>4
    <3>2. CASE a = x
          BY <2>1, <2>2, <2>4, <3>2
    <3>3. CASE a # x
      <4>1. g[a] = fields[a] /\ fields[a].key # k /\ fields[a].key \in S
            BY <1>4, <2>1, <2>4, <3>3
      <4> QED BY <1>3, <1>4, <4>1
    <3> QED BY <3>2, <3>3
  <2> QED BY <1>2, <2>4, <2>6, <2>7, <2>8 DEF FieldsAre, g, k, v, S, new
<1> QED BY <1>8, <1>9

\* Lines that are no fields leave them as they are.
LEMMA KeptRight ==
  ASSUME NEW m \in Messages, NEW i \in Lines(m), m.roles[i] # "field", NEW f
  PROVE  FieldsAre(f, m, i - 1) => FieldsAre(f, m, i)
<1>1. Keys(m, i) = Keys(m, i - 1)
  <2>1. Keys(m, i) = Keys(m, i - 1) \cup (IF m.roles[i] = "field" THEN {KeyOf(m, i)} ELSE {})
        BY KeysGrow, Zenon
  <2> QED BY <2>1
<1>2. \A k \in Keys(m, i - 1) : m.values[i][k] = m.values[i - 1][k]
      BY ValuesGrow
<1>3. SUFFICES ASSUME FieldsAre(f, m, i - 1)
               PROVE  FieldsAre(f, m, i)
      OBVIOUS
<1>4. \A x \in DOMAIN f : f[x].key \in Keys(m, i - 1)
      BY <1>3 DEF FieldsAre
<1> QED BY <1>1, <1>2, <1>3, <1>4 DEF FieldsAre

LEMMA OverwrittenType ==
  ASSUME NEW k \in Text, NEW v \in Text, ~IsList(k), fields \in Seq(Record)
  PROVE  Added(k, v) \in Seq(Record)
<1> DEFINE x == IndexOf(k)
           r == [key |-> k, val |-> v]
<1>1. r \in Record
      BY DEF Record
<1>2. x = 0 \/ (x \in DOMAIN fields /\ fields[x].key = k)
  <2>1. CASE \E y \in DOMAIN fields : fields[y].key = k
        BY <2>1, Zenon DEF IndexOf
  <2>2. CASE ~\E y \in DOMAIN fields : fields[y].key = k
    <3>1. IndexOf(k) = 0
          BY <2>2, Zenon DEF IndexOf
    <3> QED BY <3>1
  <2> QED BY <2>1, <2>2
<1>3. /\ x = 0 => Added(k, v) = Append(fields, r)
      /\ x # 0 => Added(k, v) = [fields EXCEPT ![x] = [key |-> @.key, val |-> IF IsList(k) THEN Joined(@.val, v) ELSE v]]
      BY DEF Added
<1> HIDE DEF x
<1>4. x # 0 => Added(k, v) = [fields EXCEPT ![x] = r]
      BY <1>2, <1>3
<1> HIDE DEF r
<1>5. Append(fields, r) \in Seq(Record)
      BY <1>1, AppendProperties
<1>6. x \in DOMAIN fields => [fields EXCEPT ![x] = r] \in Seq(Record)
      BY <1>1
<1> QED BY <1>2, <1>3, <1>4, <1>5, <1>6

-----------------------------------------------------------------------------
(* The steps.                                                              *)

\* The next byte, and a complete line.
LEMMA LineAt ==
  ASSUME msg \in Messages, NEW i \in Lines(msg), consumed = msg.ends[i - 1], off \in Nat
  PROVE  /\ off < Length(msg, i) => Byte = LineOf(msg, i)[off + 1]
         /\ off = Length(msg, i) => Line(off) = LineOf(msg, i) /\ consumed + off = msg.ends[i]
<1>1. \A j \in Nat : j < Length(msg, i) => LineOf(msg, i)[j + 1] = msg.bytes[msg.ends[i - 1] + j + 1]
      BY LineBytes, Zenon
<1>2. msg.ends[i] = msg.ends[i - 1] + Length(msg, i)
      BY Layout, Zenon
<1>3. Byte = msg.bytes[msg.ends[i - 1] + off + 1]
      BY DEF Byte, Stream
<1>4. off = Length(msg, i) => Line(off) = LineOf(msg, i) /\ consumed + off = msg.ends[i]
      BY <1>2 DEF Line, LineOf, Stream
<1> QED BY <1>1, <1>3, <1>4, Zenon

LEMMA InitStep == Init => IInv
<1> SUFFICES ASSUME Init PROVE IInv
    OBVIOUS
<1> USE DEF Init
<1>1. msg \in Messages /\ Laid(msg)
      BY GrammarAssumption
<1>2. /\ msg.bytes \in Text /\ Len(msg.bytes) \in Nat /\ msg.ends[0] = 0
      /\ Count(msg) \in Nat /\ Count(msg) >= 1
      BY <1>1 DEF Laid, Text, Count
<1>3. 1 \in Lines(msg) /\ 1 - 1 = 0
      BY <1>2 DEF Lines
<1>4. TypeOK
  <2>1. <<>> \in Seq([key : Text, val : Text])
        BY EmptySeq
  <2> QED BY <1>1, <1>2, <2>1, HdrParserAssumption DEF TypeOK, Stream
<1>5. Standing(1)
  <2>1. DOMAIN fields = {}
        OBVIOUS
  <2>2. FieldsRight(0)
        BY <2>1, NoKeys DEF FieldsRight
  <2> QED BY <1>2, <1>3, <2>2 DEF Standing
<1> QED BY <1>3, <1>4, <1>5 DEF IInv, Limited, Accepted, RefusedRight, LimitKept, ReadsInside

\* What is unchanged by a step that consumes nothing.
LEMMA Stays ==
  ASSUME NEW i, Standing(i), UNCHANGED <<msg, consumed, tot_len, first, fields>>,
         i = 1 <=> state' \in {"INIT", "FIRST_LINE"},
         state' # "INIT" => off' <= Length(msg, i) /\ Stands(msg, i, off', at')
  PROVE  Standing(i)'
BY DEF Standing, FirstRight, FieldsRight

LEMMA CallStep ==
  ASSUME IInv, Call
  PROVE  IInv'
<1>1. msg \in Messages /\ result = "idle" /\ state # "DONE" /\ TypeOK
      BY DEF IInv, Call, TypeOK
<1>2. PICK i \in Lines(msg) : Standing(i)
      BY <1>1 DEF IInv
<1>3. /\ UNCHANGED <<msg, resets, consumed, tot_len, first, fields>>
      /\ off' = 0 /\ result' = "scan" /\ at' = Resume(state') /\ max_len' = Prepare
      /\ state' = IF state = "INIT" THEN "FIRST_LINE" ELSE state
      /\ arrived' \in arrived .. Len(Stream)
      BY DEF Call, input
<1>4. i = 1 <=> state' = "FIRST_LINE"
      BY <1>2, <1>3 DEF Standing
<1>5. state' \in {"FIRST_LINE", "FIELDS"}
      BY <1>1, <1>3 DEF TypeOK
<1>6. at' = IF i = 1 THEN FirstOf(msg.kind) ELSE "start"
      BY <1>3, <1>4, <1>5 DEF Resume
<1>7. Stands(msg, i, off', at')
  <2>1. Stands(msg, i, 0, IF i = 1 THEN FirstOf(msg.kind) ELSE "start")
        BY <1>1, Begins
  <2> QED BY <1>3, <1>6, <2>1
<1>8. Length(msg, i) \in Nat \ {0}
      BY <1>1, Layout, Zenon
<1>9. Standing(i)'
  <2>1. /\ i = 1 <=> state' \in {"INIT", "FIRST_LINE"}
        /\ off' <= Length(msg, i)
        BY <1>3, <1>4, <1>5, <1>8
  <2> QED BY <1>2, <1>3, <1>7, <2>1, Stays
<1>10. TypeOK'
  <2>1. at' \in Places
        BY <1>6 DEF FirstOf, Places
  <2>2. /\ arrived' \in 0 .. Len(Stream) /\ consumed' \in 0 .. arrived' /\ off' \in 0 .. arrived' - consumed'
        /\ Stream' = Stream
    <3>1. Len(Stream) \in Nat
          BY <1>1, Layout, Zenon DEF Stream
    <3>2. arrived \in 0 .. Len(Stream) /\ consumed \in 0 .. arrived
          BY <1>1 DEF TypeOK
    <3>3. arrived' \in arrived .. Len(Stream) /\ consumed' = consumed /\ off' = 0 /\ Stream' = Stream
          BY <1>3 DEF Stream
    <3> HIDE DEF Stream
    <3>4. \A n \in Nat : \A a \in 0 .. n : \A c \in 0 .. a : \A b \in a .. n :
            b \in 0 .. n /\ c \in 0 .. b /\ 0 \in 0 .. b - c
          OBVIOUS
    <3>5. /\ arrived' \in 0 .. Len(Stream) /\ consumed \in 0 .. arrived'
          /\ 0 \in 0 .. arrived' - consumed
          BY <3>1, <3>2, <3>3, <3>4, Zenon
    <3> QED BY <3>3, <3>5, Zenon
  <2>3. max_len' \in 0 .. MaxLen + 1
    <3>1. max_len \in 0 .. MaxLen + 1 /\ max_len' = Prepare
          BY <1>1, <1>3 DEF TypeOK
    <3>2. Prepare \in {MaxLen + 1, MaxLen, max_len}
          BY Zenon DEF Prepare
    <3>3. MaxLen \in 0 .. MaxLen + 1 /\ MaxLen + 1 \in 0 .. MaxLen + 1
          BY HdrParserAssumption
    <3> QED BY <3>1, <3>2, <3>3, Zenon
  <2> QED BY <1>1, <1>3, <1>5, <2>1, <2>2, <2>3 DEF TypeOK
<1>11. Limited'
      BY <1>1, <1>3, HdrParserAssumption DEF IInv, Limited, Prepare
<1> QED BY <1>3, <1>5, <1>9, <1>10, <1>11 DEF IInv, Accepted, RefusedRight, LimitKept, ReadsInside

\* In a call.
LEMMA InScan ==
  ASSUME IInv, result = "scan"
  PROVE  /\ TypeOK /\ msg \in Messages /\ state \in {"FIRST_LINE", "FIELDS"}
         /\ off \in Nat /\ consumed \in Nat
         /\ max_len \in {MaxLen, MaxLen + 1} /\ (max_len = MaxLen => resets)
         /\ \E i \in Lines(msg) :
              /\ Standing(i) /\ tot_len = consumed /\ off <= Length(msg, i)
              /\ Stands(msg, i, off, at)
<1>1. TypeOK /\ state # "DONE" /\ state # "INIT" /\ Limited /\ \E i \in Lines(msg) : Standing(i)
      BY DEF IInv
<1>2. /\ msg \in Messages /\ state \in {"INIT", "FIRST_LINE", "FIELDS", "DONE"}
      /\ arrived \in 0 .. Len(Stream) /\ consumed \in 0 .. arrived /\ off \in 0 .. arrived - consumed
      BY <1>1 DEF TypeOK
<1>3. off \in Nat /\ consumed \in Nat
      BY <1>2
<1>4. \A i : Standing(i) => tot_len = consumed /\ off <= Length(msg, i) /\ Stands(msg, i, off, at)
      BY <1>1 DEF Standing
<1> QED BY <1>1, <1>2, <1>3, <1>4 DEF Limited

LEMMA ReturnType ==
  ASSUME TypeOK, NEW r \in {"idle", "ok", "EINVAL", "E2BIG", "ENOMEM", "undefined"}, Return(r)
  PROVE  TypeOK'
BY DEF TypeOK, Return, input, Stream

LEMMA StarveStep ==
  ASSUME IInv, Starve
  PROVE  IInv'
<1>1. result = "scan" /\ Return("idle")
      BY DEF Starve, Scanning
<1>2. TypeOK /\ state \in {"FIRST_LINE", "FIELDS"} /\ Limited
      BY <1>1, InScan DEF IInv
<1>3. PICK i \in Lines(msg) : Standing(i)
      BY <1>1, InScan
<1>4. /\ UNCHANGED <<msg, resets, state, max_len, consumed, tot_len, off, at, first, fields>>
      /\ result' = "idle"
      BY <1>1 DEF Return, input
<1>5. Standing(i)'
      BY <1>3, <1>4 DEF Standing, FirstRight, FieldsRight
<1>6. TypeOK'
      BY <1>1, <1>2, ReturnType
<1> QED BY <1>2, <1>3, <1>4, <1>5, <1>6 DEF IInv, Limited, Accepted, RefusedRight, LimitKept, ReadsInside

\* What is found too long is too long.
LEMMA TooLongStep ==
  ASSUME IInv, result = "scan", NEW n \in Nat, TooLong(n), Return("E2BIG"),
         \A i \in Lines(msg) : Good(msg) /\ Standing(i) => n <= Length(msg, i)
  PROVE  IInv'
<1>1. /\ TypeOK /\ msg \in Messages /\ consumed \in Nat /\ Limited
      /\ max_len \in {MaxLen, MaxLen + 1} /\ (max_len = MaxLen => resets)
      BY InScan DEF IInv
<1>2. PICK i \in Lines(msg) : Standing(i) /\ tot_len = consumed
      BY InScan
<1>3. /\ msg.ends[i] = msg.ends[i - 1] + Length(msg, i) /\ msg.ends[i] <= Whole(msg)
      /\ Length(msg, i) \in Nat \ {0} /\ Whole(msg) \in 0 .. Len(msg.bytes) /\ Len(msg.bytes) \in Nat
      BY <1>1, Layout, Zenon
<1>4. Good(msg) => Whole(msg) > MaxLen \/ (resets /\ Whole(msg) = MaxLen)
  <2>1. Good(msg) => n <= Length(msg, i)
        BY <1>2
  <2>2. consumed = msg.ends[i - 1] /\ consumed + n >= max_len
        BY <1>2 DEF Standing, TooLong
  <2>3. Good(msg) => Whole(msg) >= max_len
        BY <1>1, <1>3, <2>1, <2>2, HdrParserAssumption
  <2> QED BY <1>1, <1>3, <2>3, HdrParserAssumption
<1>5. UNCHANGED <<msg, resets, state, max_len>> /\ result' = "E2BIG"
      BY DEF Return, input
<1>6. TypeOK'
      BY <1>1, ReturnType
<1> QED BY <1>1, <1>4, <1>5, <1>6 DEF IInv, Limited, Accepted, RefusedRight, LimitKept, ReadsInside

LEMMA ExceedStep ==
  ASSUME IInv, Exceed
  PROVE  IInv'
<1> DEFINE n == IF at = "digit" THEN off + 2 ELSE off
<1>1. result = "scan" /\ Return("E2BIG") /\ TooLong(n)
      BY DEF Exceed, Exceeds, Scanning
<1>2. /\ msg \in Messages /\ off \in Nat /\ state \in {"FIRST_LINE", "FIELDS"}
      BY <1>1, InScan
<1>3. n \in Nat
      BY <1>2
<1>4. ASSUME NEW i \in Lines(msg), Good(msg), Standing(i)
      PROVE  n <= Length(msg, i)
  <2>1. off <= Length(msg, i) /\ Stands(msg, i, off, at)
        BY <1>2, <1>4 DEF Standing
  <2>2. at = "digit" /\ msg.roles[i] # "wrong" => off + 2 <= Length(msg, i)
        BY <1>2, <2>1, LineEnds
  <2>3. msg.roles[i] # "wrong"
    <3>1. msg.roles[i] \in {"first", "field", "last"}
          BY <1>2, <1>4, Roles
    <3> QED BY <3>1
  <2> QED BY <2>1, <2>2, <2>3
<1> HIDE DEF n
<1> QED BY <1>1, <1>3, <1>4, TooLongStep

LEMMA LineExceedsStep ==
  ASSUME IInv, LineExceeds
  PROVE  IInv'
<1>1. result = "scan" /\ Return("E2BIG") /\ TooLong(off)
      BY DEF LineExceeds, Complete
<1>2. off \in Nat /\ state \in {"FIRST_LINE", "FIELDS"}
      BY <1>1, InScan
<1>3. \A i \in Lines(msg) : Good(msg) /\ Standing(i) => off <= Length(msg, i)
      BY <1>2 DEF Standing
<1> QED BY <1>1, <1>2, <1>3, TooLongStep

LEMMA NomemStep ==
  ASSUME IInv, Nomem
  PROVE  IInv'
<1>1. Return("ENOMEM") /\ TypeOK /\ Limited
      BY DEF Nomem, IInv
<1>2. UNCHANGED <<msg, resets, state, max_len>> /\ result' = "ENOMEM"
      BY <1>1 DEF Return, input
<1>3. TypeOK'
      BY <1>1, ReturnType
<1> QED BY <1>1, <1>2, <1>3 DEF IInv, Limited, Accepted, RefusedRight, LimitKept, ReadsInside

LEMMA MalformedStep ==
  ASSUME IInv, Malformed
  PROVE  IInv'
<1>1. /\ result = "scan" /\ at \notin {"line", "end"} /\ Return("EINVAL")
      /\ \A t \in Places : ~Goes(at, Byte, t)
      BY DEF Malformed, Scanning
<1>2. msg \in Messages /\ off \in Nat /\ TypeOK /\ Limited
      BY <1>1, InScan DEF IInv
<1>3. PICK i \in Lines(msg) : Standing(i) /\ off <= Length(msg, i) /\ Stands(msg, i, off, at)
      BY <1>1, InScan
<1>4. ASSUME Good(msg)
      PROVE  FALSE
  <2>1. msg.roles[i] \in {"first", "field", "last"}
        BY <1>2, <1>4, Roles
  <2>2. off # Length(msg, i)
        BY <1>1, <1>2, <1>3, <2>1, LineEnds
  <2>3. off < Length(msg, i)
    <3>1. Length(msg, i) \in Nat \ {0}
          BY <1>2, Layout, Zenon
    <3> QED BY <1>2, <1>3, <2>2, <3>1
  <2>4. consumed = msg.ends[i - 1]
        BY <1>3 DEF Standing
  <2>5. Byte = LineOf(msg, i)[off + 1]
        BY <1>2, <2>3, <2>4, LineAt
  <2>6. \E t \in Places : Goes(at, LineOf(msg, i)[off + 1], t)
        BY <1>2, <1>3, <2>1, <2>3, GoesOn
  <2> QED BY <1>1, <2>5, <2>6
<1>5. UNCHANGED <<msg, resets, state, max_len>> /\ result' = "EINVAL"
      BY <1>1 DEF Return, input
<1>6. TypeOK'
      BY <1>1, <1>2, ReturnType
<1> QED BY <1>2, <1>4, <1>5, <1>6 DEF IInv, Limited, Accepted, RefusedRight, LimitKept, ReadsInside

LEMMA AdvanceStep ==
  ASSUME IInv, Advance
  PROVE  IInv'
<1>1. /\ result = "scan" /\ at \notin {"line", "end"} /\ HasByte /\ off' = off + 1
      /\ UNCHANGED <<msg, resets, arrived, consumed, state, tot_len, max_len, first, fields, result>>
      BY DEF Advance, Scanning, input
<1>2. PICK t \in Places : Goes(at, Byte, t) /\ at' = t
      BY DEF Advance
<1>3. msg \in Messages /\ off \in Nat /\ consumed \in Nat /\ state \in {"FIRST_LINE", "FIELDS"}
      /\ TypeOK /\ Limited
      BY <1>1, InScan DEF IInv
<1>4. PICK i \in Lines(msg) : Standing(i) /\ off <= Length(msg, i) /\ Stands(msg, i, off, at)
      BY <1>1, InScan
<1>5. Length(msg, i) \in Nat \ {0}
      BY <1>3, Layout, Zenon
<1>6. off < Length(msg, i)
  <2>1. SUFFICES ASSUME off = Length(msg, i)
                 PROVE  FALSE
        BY <1>3, <1>4, <1>5
  <2>2. at \in {"line", "end", "unfit"}
        BY <1>3, <1>4, <2>1, LineEnds
  <2>3. at = "unfit"
        BY <1>1, <2>2
  <2> QED BY <1>2, <2>3, RequestEdges
<1>7. Stands(msg, i, off + 1, t)
  <2>1. consumed = msg.ends[i - 1]
        BY <1>4 DEF Standing
  <2>2. Byte = LineOf(msg, i)[off + 1]
        BY <1>3, <1>6, <2>1, LineAt
  <2>3. Goes(at, LineOf(msg, i)[off + 1], t)
        BY <1>2, <2>2
  <2> QED BY <1>3, <1>4, <1>6, <2>3, Moves
<1>8. Standing(i)'
  <2>1. off' <= Length(msg, i) /\ Stands(msg, i, off', at')
        BY <1>1, <1>2, <1>3, <1>5, <1>6, <1>7
  <2>2. i = 1 <=> state' \in {"INIT", "FIRST_LINE"}
        BY <1>1, <1>4 DEF Standing
  <2> QED BY <1>1, <1>4, <2>1, <2>2, Stays
<1>9. TypeOK'
  <2>1. arrived \in Nat /\ off + 1 \in 0 .. arrived - consumed
    <3>1. Len(Stream) \in Nat
          BY <1>3, Layout, Zenon DEF Stream
    <3>2. arrived \in Nat
          BY <1>3, <3>1 DEF TypeOK
    <3>3. consumed + off < arrived
          BY <1>1 DEF HasByte
    <3> QED BY <1>3, <3>2, <3>3
  <2> QED BY <1>1, <1>2, <1>3, <2>1 DEF TypeOK, Stream
<1> QED BY <1>1, <1>3, <1>4, <1>8, <1>9 DEF IInv, Limited, Accepted, RefusedRight, LimitKept, ReadsInside

\* A line is complete when it is.
LEMMA AtEnd ==
  ASSUME IInv, Complete
  PROVE  \E i \in Lines(msg) :
           /\ Standing(i) /\ tot_len = consumed /\ off = Length(msg, i)
           /\ Line(off) = LineOf(msg, i) /\ consumed + off = msg.ends[i]
           /\ at = "line" => msg.roles[i] \in {"first", "field", "again"}
           /\ at = "end" => msg.roles[i] = "last"
<1>1. result = "scan" /\ at \in {"line", "end"}
      BY DEF Complete
<1>2. msg \in Messages /\ off \in Nat
      BY <1>1, InScan
<1>3. PICK i \in Lines(msg) :
        Standing(i) /\ tot_len = consumed /\ off <= Length(msg, i) /\ Stands(msg, i, off, at)
      BY <1>1, InScan
<1>4. /\ at = "end" => msg.roles[i] = "last" /\ off = Length(msg, i)
      /\ at = "line" => msg.roles[i] \in {"first", "field", "again"} /\ off = Length(msg, i)
      BY <1>2, <1>3, LineEnds
<1>5. consumed = msg.ends[i - 1]
      BY <1>3 DEF Standing
<1>6. Line(off) = LineOf(msg, i) /\ consumed + off = msg.ends[i]
      BY <1>1, <1>2, <1>4, <1>5, LineAt
<1> QED BY <1>1, <1>3, <1>4, <1>6

\* Behind a consumed line the parser is at the start of the next.
LEMMA Behind ==
  ASSUME msg \in Messages, NEW i \in Lines(msg), msg.roles[i] \in {"first", "field"}
  PROVE  /\ i + 1 \in Lines(msg) /\ (i + 1) - 1 = i /\ i + 1 > 1
         /\ Stands(msg, i + 1, 0, "start") /\ 0 <= Length(msg, i + 1)
<1>1. i # Count(msg)
  <2>1. msg.roles[i] \in {"last", "again", "wrong"} <=> i = Count(msg)
        BY Roles, Zenon
  <2> QED BY <2>1
<1>2. i \in Nat /\ i >= 1 /\ i <= Count(msg) /\ Count(msg) \in Nat
      /\ (i < Count(msg) => i + 1 \in Lines(msg) /\ (i + 1) - 1 = i)
      BY Layout, Zenon
<1>3. i + 1 \in Lines(msg) /\ (i + 1) - 1 = i /\ i + 1 > 1 /\ i + 1 # 1
      BY <1>1, <1>2
<1>4. Stands(msg, i + 1, 0, IF i + 1 = 1 THEN FirstOf(msg.kind) ELSE "start")
      BY <1>3, Begins
<1>5. Length(msg, i + 1) \in Nat \ {0}
      BY <1>3, Layout, Zenon
<1> QED BY <1>3, <1>4, <1>5

FirstLines == {<<>>} \cup [key : Text, val : Seq(AnyByte \cup {"old"})]

\* The types behind a consumed line.
LEMMA ConsumeType ==
  ASSUME TypeOK, tot_len = consumed, tot_len' \in {tot_len, tot_len + off},
         consumed' = consumed + off, off' = 0,
         at' \in Places, state' \in {"FIELDS", "DONE"}, result' \in {"scan", "ok"},
         first' \in FirstLines, fields' \in Seq(Record),
         UNCHANGED <<msg, resets, arrived, max_len>>
  PROVE  TypeOK'
<1>1. /\ arrived \in 0 .. Len(Stream) /\ consumed \in 0 .. arrived /\ off \in 0 .. arrived - consumed
      /\ msg \in Messages /\ resets \in BOOLEAN /\ max_len \in 0 .. MaxLen + 1
      BY DEF TypeOK
<1>2. arrived \in Nat /\ consumed \in Nat /\ off \in Nat /\ consumed + off <= arrived
      BY <1>1
<1>3. /\ consumed + off \in 0 .. arrived /\ 0 \in 0 .. arrived - (consumed + off)
      /\ tot_len' \in 0 .. consumed + off
      BY <1>2
<1>4. Stream' = Stream
      BY DEF Stream
<1> QED BY <1>1, <1>3, <1>4 DEF TypeOK, Record, FirstLines

LEMMA BehindStands ==
  ASSUME msg \in Messages, NEW i \in Lines(msg), msg.roles[i] \in {"first", "field"},
         msg' = msg, consumed' = msg.ends[i], tot_len' = consumed', state' = "FIELDS",
         at' = "start", off' = 0, FirstRight', FieldsAre(fields', msg, i)
  PROVE  i + 1 \in Lines(msg) /\ Standing(i + 1)'
<1>1. /\ i + 1 \in Lines(msg) /\ (i + 1) - 1 = i /\ i + 1 > 1
      /\ Stands(msg, i + 1, 0, "start") /\ 0 <= Length(msg, i + 1)
      BY Behind
<1>2. i + 1 # 1
  <2>1. i \in Nat /\ i >= 1
        BY Layout, Zenon
  <2> QED BY <2>1
<1> DEFINE n == i + 1
<1> HIDE DEF n
<1>3. /\ n \in Lines(msg) /\ n - 1 = i /\ n # 1
      /\ Stands(msg, n, 0, "start") /\ 0 <= Length(msg, n)
      BY <1>1, <1>2 DEF n
<1>4. FieldsRight(i)'
      BY DEF FieldsRight, FieldsAre
<1>5. FieldsRight(n - 1)'
      BY <1>3, <1>4
<1>6. Standing(n)'
  <2>1. consumed' = msg'.ends[n - 1]
        BY <1>3
  <2>2. off' <= Length(msg', n) /\ Stands(msg', n, off', at')
        BY <1>3
  <2> QED BY <1>3, <1>5, <2>1, <2>2 DEF Standing
<1> QED BY <1>3, <1>6 DEF n

\* A complete line has arrived.
LEMMA LineHeld ==
  ASSUME msg \in Messages, TypeOK, NEW i \in Lines(msg), Standing(i), consumed + off = msg.ends[i]
  PROVE  \A j \in 1 .. Len(LineOf(msg, i)) : Held(j) = LineOf(msg, i)[j]
<1>1. /\ consumed = msg.ends[i - 1] /\ Length(msg, i) \in Nat
      /\ msg.ends[i] = msg.ends[i - 1] + Length(msg, i)
  <2>1. Length(msg, i) \in Nat \ {0} /\ msg.ends[i] = msg.ends[i - 1] + Length(msg, i)
        BY Layout, Zenon
  <2> QED BY <2>1 DEF Standing
<1>2. /\ arrived \in Nat /\ consumed \in Nat /\ off \in Nat /\ consumed + off <= arrived
  <2>1. Len(Stream) \in Nat
        BY Layout, Zenon DEF Stream
  <2>2. arrived \in 0 .. Len(Stream) /\ consumed \in 0 .. arrived /\ off \in 0 .. arrived - consumed
        BY DEF TypeOK
  <2> QED BY <2>1, <2>2
<1> SUFFICES ASSUME NEW j \in 1 .. Length(msg, i)
             PROVE  Held(j) = LineOf(msg, i)[j]
  <2>1. Len(LineOf(msg, i)) = Length(msg, i)
        BY LineBytes, Zenon
  <2> QED BY <2>1
<1>3. consumed + j <= arrived
      BY <1>1, <1>2
<1> DEFINE k == j - 1
<1>4. k \in Nat /\ k < Length(msg, i) /\ k + 1 = j
      BY <1>1
<1>5. LineOf(msg, i)[k + 1] = msg.bytes[msg.ends[i - 1] + k + 1]
  <2> HIDE DEF k
  <2> QED BY <1>4, LineBytes, Zenon
<1>6. msg.ends[i - 1] + k + 1 = consumed + j
      BY <1>1, <1>2
<1> QED BY <1>3, <1>4, <1>5, <1>6 DEF Held, Stream

\* The URI of a complete first line.
LEMMA FirstUri ==
  ASSUME msg \in Messages, NEW i \in Lines(msg), msg.roles[i] = "first", msg.kind = "request"
  PROVE  /\ UriTo(LineOf(msg, i), msg.marks[i].eol) /\ LineOf(msg, i) \in Text
         /\ msg.marks[i] \in Marks /\ msg.marks[i].eol + 1 <= Length(msg, i)
<1>1. LineOf(msg, i) \in Text /\ msg.marks[i] \in Marks /\ Len(LineOf(msg, i)) = Length(msg, i)
      BY LineBytes, Layout, Zenon
<1>2. IsRequest(LineOf(msg, i), msg.marks[i])
  <2>1. IsFirst(msg, i)
        BY LineIs, Zenon
  <2> QED BY <2>1 DEF IsFirst
<1> QED BY <1>1, <1>2, RequestUri

\* The part of a line that has been looked at.
LEMMA LinePart ==
  ASSUME msg \in Messages, NEW i \in Lines(msg), consumed = msg.ends[i - 1],
         off \in Nat, off <= Length(msg, i)
  PROVE  /\ Line(off) \in Text /\ Len(Line(off)) = off
         /\ \A j \in 1 .. off : Line(off)[j] = LineOf(msg, i)[j]
<1> DEFINE a == consumed
           n == Length(msg, i)
<1>1. /\ msg.bytes \in Text /\ Len(msg.bytes) \in Nat /\ a \in Nat /\ n \in Nat
      /\ a + n <= Len(msg.bytes)
  <2>1. /\ msg.bytes \in Text /\ Len(msg.bytes) \in Nat
        /\ msg.ends[i - 1] \in 0 .. Len(msg.bytes) /\ msg.ends[i] \in 0 .. Len(msg.bytes)
        /\ Length(msg, i) \in Nat \ {0} /\ msg.ends[i] = msg.ends[i - 1] + Length(msg, i)
        BY Layout, Zenon
  <2> QED BY <2>1
<1>2. Line(off) = SubSeq(msg.bytes, a + 1, a + off)
      BY DEF Line, Stream
<1>3. \A j \in Nat : j < n => LineOf(msg, i)[j + 1] = msg.bytes[a + j + 1]
      BY LineBytes, Zenon
<1>4. off <= n
      OBVIOUS
<1> HIDE DEF a, n
<1>5. \A k \in a + 1 .. a + off : msg.bytes[k] \in AnyByte
      BY <1>1, <1>4 DEF Text
<1>6. a + 1 \in Int /\ a + off \in Int /\ (a + off) - (a + 1) + 1 = off /\ (a + 1 <= a + off <=> off # 0)
      BY <1>1
<1>7. /\ SubSeq(msg.bytes, a + 1, a + off) \in Seq(AnyByte)
      /\ Len(SubSeq(msg.bytes, a + 1, a + off))
           = IF a + 1 <= a + off THEN (a + off) - (a + 1) + 1 ELSE 0
      /\ \A k \in 1 .. (a + off) - (a + 1) + 1 :
           SubSeq(msg.bytes, a + 1, a + off)[k] = msg.bytes[(a + 1) + k - 1]
      BY <1>5, <1>6, SubSeqProperties
<1>8. ASSUME NEW j \in 1 .. off
      PROVE  Line(off)[j] = LineOf(msg, i)[j]
  <2> DEFINE k == j - 1
  <2>1. k \in Nat /\ k < n /\ k + 1 = j /\ (a + 1) + j - 1 = a + k + 1
        BY <1>1, <1>4
  <2>2. Line(off)[j] = msg.bytes[(a + 1) + j - 1]
        BY <1>2, <1>6, <1>7
  <2> HIDE DEF k
  <2>3. LineOf(msg, i)[k + 1] = msg.bytes[a + k + 1]
        BY <1>3, <2>1
  <2> QED BY <2>1, <2>2, <2>3
<1> QED BY <1>2, <1>6, <1>7, <1>8 DEF Text

\* Only where a URI is not plain is anything read outside.
LEMMA UndefinedStep ==
  ASSUME IInv, Return("undefined"), msg.kind = "request", ~IsPlain(LineOf(msg, 1), msg.marks[1])
  PROVE  IInv'
<1>1. TypeOK /\ Limited
      BY DEF IInv
<1>2. UNCHANGED <<msg, resets, state, max_len>> /\ result' = "undefined"
      BY DEF Return, input
<1>3. TypeOK'
      BY <1>1, ReturnType
<1> QED BY <1>1, <1>2, <1>3 DEF IInv, Limited, Accepted, RefusedRight, LimitKept, ReadsInside

LEMMA ReadOutsideStep ==
  ASSUME IInv, ReadOutside
  PROVE  IInv'
<1>1. result = "scan" /\ at = "prefix" /\ PathLen(Line(off)) <= 0 /\ Return("undefined")
      BY DEF ReadOutside, Scanning
<1>2. msg \in Messages /\ off \in Nat /\ state \in {"FIRST_LINE", "FIELDS"}
      BY <1>1, InScan
<1>3. PICK i \in Lines(msg) : Standing(i) /\ off <= Length(msg, i) /\ Stands(msg, i, off, at)
      BY <1>1, InScan
<1> DEFINE l == LineOf(msg, i)
           q == msg.marks[i]
           x == Line(off)
<1>4. /\ i = 1 /\ msg.kind = "request" /\ off = q.eol - 2 /\ q.eol >= 5
      /\ l[q.eol - 2] = "sp" /\ \A k \in 3 .. q.eol - 3 : l[k] # "sp"
      BY <1>1, <1>2, <1>3, PrefixUri
<1>5. x \in Text /\ Len(x) = off /\ \A j \in 1 .. off : x[j] = l[j]
  <2>1. consumed = msg.ends[i - 1]
        BY <1>3 DEF Standing
  <2> QED BY <1>2, <1>3, <2>1, LinePart
<1>6. l \in Text /\ q \in Marks
      BY <1>2, LineBytes, Layout, Zenon
<1>7. ~IsPlain(l, q)
  <2> HIDE DEF l, q, x
  <2>1. q.eol \in Nat
        BY <1>6 DEF Marks
  <2>2. UriTo(x, q.eol) /\ \A j \in 3 .. q.eol - 3 : x[j] = l[j]
        BY <1>4, <1>5, <2>1 DEF UriTo
  <2>3. IsPlain(l, q) => PathLen(x) > 0
        BY <1>6, <2>2, PlainInside
  <2>4. PathLen(x) \in Int
        BY <2>2, UriLens
  <2> QED BY <1>1, <2>3, <2>4 DEF x
<1> QED BY <1>1, <1>4, <1>7, UndefinedStep

LEMMA CopyOutsideStep ==
  ASSUME IInv, CopyOutside
  PROVE  IInv'
<1>1. /\ Complete /\ at = "line" /\ state = "FIRST_LINE" /\ msg.kind = "request" /\ result = "scan"
      /\ CopiesPath(Line(off)) \/ CopiesQuery(Line(off))
      /\ Return("undefined")
      BY DEF CopyOutside, Complete
<1>2. msg \in Messages /\ TypeOK /\ off \in Nat /\ consumed \in Nat
      BY <1>1, InScan
<1>3. PICK i \in Lines(msg) :
        /\ Standing(i) /\ off = Length(msg, i) /\ Line(off) = LineOf(msg, i)
        /\ msg.roles[i] \in {"first", "field", "again"}
      BY <1>1, AtEnd
<1>4. i = 1 /\ msg.roles[i] = "first"
  <2>1. i = 1
        BY <1>1, <1>3 DEF Standing
  <2>2. msg.roles[i] \in {"first", "wrong"} \/ i > 1
        BY <1>2, Roles, Zenon
  <2> QED BY <1>3, <2>1, <2>2
<1> DEFINE l == LineOf(msg, i)
           q == msg.marks[i]
<1>5. UriTo(l, q.eol) /\ l \in Text /\ q \in Marks /\ q.eol + 1 <= off
      BY <1>1, <1>2, <1>3, <1>4, FirstUri
<1>6. consumed + off <= arrived /\ arrived \in Nat
  <2>1. Len(Stream) \in Nat
        BY <1>2, Layout, Zenon DEF Stream
  <2>2. arrived \in 0 .. Len(Stream) /\ consumed \in 0 .. arrived /\ off \in 0 .. arrived - consumed
        BY <1>2 DEF TypeOK
  <2> QED BY <2>1, <2>2
<1>7. ~IsPlain(l, q)
  <2>1. Line(off) = l
        BY <1>3
  <2> HIDE DEF l, q
  <2>2. PathLen(l) \in Int /\ QsBegin(l) \in Nat /\ QsLen(l) \in Nat /\ q.eol \in Nat
        BY <1>5, UriLens DEF Marks
  <2>3. PathLen(l) <= 0 \/ consumed + QsBegin(l) + QsLen(l) > arrived
        BY <1>1, <2>1 DEF CopiesPath, CopiesQuery
  <2>4. IsPlain(l, q) => PathLen(l) > 0 /\ QsBegin(l) + QsLen(l) <= q.eol - 3
        BY <1>5, PlainInside
  <2> QED BY <1>2, <1>5, <1>6, <2>2, <2>3, <2>4
<1> QED BY <1>1, <1>4, <1>7, UndefinedStep

LEMMA FirstLineStep ==
  ASSUME IInv, FirstLine
  PROVE  IInv'
<1>1. /\ Complete /\ at = "line" /\ state = "FIRST_LINE" /\ result = "scan"
      /\ msg.kind = "request" => PathLen(Line(off)) >= 0
      /\ first' = IF msg.kind = "request" THEN UriOf(Line(off)) ELSE StatusOf(Line(off))
      /\ consumed' = consumed + off /\ tot_len' = tot_len + off
      /\ state' = "FIELDS" /\ at' = "start" /\ off' = 0
      /\ UNCHANGED <<msg, resets, arrived, max_len, fields, result>>
      BY DEF FirstLine, Complete, Consume, input
<1>2. msg \in Messages /\ TypeOK /\ Limited
      BY <1>1, InScan DEF IInv
<1>3. PICK i \in Lines(msg) :
        /\ Standing(i) /\ tot_len = consumed /\ Line(off) = LineOf(msg, i)
        /\ consumed + off = msg.ends[i] /\ msg.roles[i] \in {"first", "field", "again"}
      BY <1>1, AtEnd
<1>4. i = 1 /\ msg.roles[i] = "first"
  <2>1. i = 1
        BY <1>1, <1>3 DEF Standing
  <2>2. msg.roles[i] \in {"first", "wrong"} \/ i > 1
        BY <1>2, Roles, Zenon
  <2> QED BY <1>3, <2>1, <2>2
<1>5. FirstRight'
  <2>1. /\ msg.kind = "request" /\ IsSimple(LineOf(msg, i), msg.marks[i]) =>
             UriOf(LineOf(msg, i)) = [key |-> KeyOf(msg, i), val |-> ValOf(msg, i)]
        /\ msg.kind # "request" =>
             StatusOf(LineOf(msg, i)) = [key |-> KeyOf(msg, i), val |-> ValOf(msg, i)]
    <3>1. \A j \in 1 .. Len(LineOf(msg, i)) : Held(j) = LineOf(msg, i)[j]
          BY <1>2, <1>3, LineHeld
    <3> QED BY <1>2, <1>4, <3>1, KeyText
  <2>2. (msg.kind = "request" => IsSimple(LineOf(msg, 1), msg.marks[1]))
        => first' = [key |-> KeyOf(msg, 1), val |-> ValOf(msg, 1)]
        BY <1>1, <1>3, <1>4, <2>1
  <2> QED BY <1>1, <2>2 DEF FirstRight
<1>6. FieldsAre(fields', msg, i)
  <2>1. FieldsAre(fields, msg, i - 1)
        BY <1>3 DEF Standing, FieldsRight, FieldsAre
  <2>2. FieldsAre(fields, msg, i)
        BY <1>2, <1>4, <2>1, KeptRight
  <2> QED BY <1>1, <2>2
<1>7. i + 1 \in Lines(msg) /\ Standing(i + 1)'
  <2>1. consumed' = msg.ends[i] /\ tot_len' = consumed'
        BY <1>1, <1>3
  <2> QED BY <1>1, <1>2, <1>4, <1>5, <1>6, <2>1, BehindStands
<1>8. TypeOK'
  <2>1. fields' \in Seq(Record)
        BY <1>1, <1>2 DEF TypeOK, Record
  <2>2. at' \in Places /\ first' \in FirstLines
    <3>1. msg.kind = "request" => UriOf(Line(off)) \in [key : Text, val : Seq(AnyByte \cup {"old"})]
      <4>1. SUFFICES ASSUME msg.kind = "request"
                     PROVE  UriOf(Line(off)) \in [key : Text, val : Seq(AnyByte \cup {"old"})]
            OBVIOUS
      <4>2. UriTo(Line(off), msg.marks[i].eol)
            BY <1>2, <1>3, <1>4, <4>1, FirstUri
      <4>3. Stream \in Text /\ consumed \in Nat /\ arrived \in 0 .. Len(Stream)
        <5>1. Stream \in Text
              BY <1>2, Layout, Zenon DEF Stream
        <5> QED BY <1>2, <5>1 DEF TypeOK
      <4> QED BY <1>1, <4>1, <4>2, <4>3, UriType
    <3>2. msg.kind # "request" => StatusOf(Line(off)) \in [key : Text, val : Seq(AnyByte \cup {"old"})]
      <4>1. msg.kind # "request" =>
              /\ StatusOf(Line(off)) = [key |-> KeyOf(msg, i), val |-> ValOf(msg, i)]
              /\ KeyOf(msg, i) \in Text /\ ValOf(msg, i) \in Text
            BY <1>2, <1>3, <1>4, KeyText
      <4>2. Text \subseteq Seq(AnyByte \cup {"old"})
            BY DEF Text
      <4> QED BY <4>1, <4>2
    <3> QED BY <1>1, <3>1, <3>2 DEF Places, FirstLines
  <2> QED BY <1>1, <1>2, <1>3, <2>1, <2>2, ConsumeType
<1>9. Limited'
      BY <1>1, <1>2 DEF Limited
<1>10. \E k \in Lines(msg') : Standing(k)'
      BY <1>1, <1>7
<1> QED BY <1>1, <1>8, <1>9, <1>10 DEF IInv, Accepted, RefusedRight, LimitKept, ReadsInside

LEMMA FieldLineStep ==
  ASSUME IInv, FieldLine
  PROVE  IInv'
<1> DEFINE k == Key(Line(off))
           v == Val(Line(off))
<1>1. /\ Complete /\ at = "line" /\ state = "FIELDS" /\ result = "scan"
      /\ fields' = Added(k, v)
      /\ Repeated(k) => result' = "EINVAL" /\ UNCHANGED <<consumed, tot_len, at, off>>
      /\ ~Repeated(k) => /\ consumed' = consumed + off /\ tot_len' = tot_len + off
                         /\ at' = "start" /\ off' = 0 /\ result' = "scan"
      /\ UNCHANGED <<msg, resets, arrived, state, max_len, first>>
      BY DEF FieldLine, Complete, Consume, input
<1>2. msg \in Messages /\ TypeOK /\ Limited /\ fields \in Seq(Record)
  <2>1. msg \in Messages /\ TypeOK /\ Limited
        BY <1>1, InScan DEF IInv
  <2> QED BY <2>1 DEF TypeOK, Record
<1>3. PICK i \in Lines(msg) :
        /\ Standing(i) /\ tot_len = consumed /\ Line(off) = LineOf(msg, i)
        /\ consumed + off = msg.ends[i] /\ msg.roles[i] \in {"first", "field", "again"}
      BY <1>1, AtEnd
<1>4. i > 1 /\ msg.roles[i] \in {"field", "again"} /\ FirstRight /\ FieldsRight(i - 1)
  <2>1. i # 1 /\ FieldsRight(i - 1)
        BY <1>1, <1>3 DEF Standing
  <2>2. i \in Nat /\ i >= 1
        BY <1>2, Layout, Zenon
  <2>3. i > 1 /\ (msg.roles[i] = "first" => i = 1)
        BY <1>2, <2>1, <2>2, Roles
  <2> QED BY <1>3, <2>1, <2>3 DEF Standing
<1>5. k = KeyOf(msg, i) /\ v = ValOf(msg, i) /\ k \in Text /\ v \in Text
      BY <1>2, <1>3, <1>4, KeyText
<1> HIDE DEF k, v
<1>6. Repeated(k) <=> k \in Keys(msg, i - 1) /\ ~IsList(k)
      BY <1>2, <1>4, Found DEF Repeated
<1>7. CASE Repeated(k)
  <2>1. msg.roles[i] = "again"
    <3>1. msg.roles[i] = "field" => IsList(k)
      <4>1. \A c \in Keys(msg, i - 1) : msg.roles[i] = "field" /\ c = KeyOf(msg, i) => IsList(c)
            BY <1>2, ValuesGrow
      <4> QED BY <1>5, <1>6, <1>7, <4>1
    <3> QED BY <1>4, <1>6, <1>7, <3>1
  <2>2. ~Good(msg)
    <3>1. Good(msg) => msg.roles[i] \in {"first", "field", "last"}
          BY <1>2, Roles, Zenon
    <3> QED BY <2>1, <3>1
  <2>3. fields' \in Seq([key : Text, val : Text])
        BY <1>1, <1>2, <1>5, <1>6, <1>7, OverwrittenType DEF Record
  <2>4. TypeOK'
        BY <1>1, <1>2, <1>7, <2>3 DEF TypeOK, Stream
  <2>5. result' = "EINVAL" /\ Limited' /\ msg' = msg
        BY <1>1, <1>2, <1>7 DEF Limited
  <2> QED BY <2>2, <2>4, <2>5 DEF IInv, Accepted, RefusedRight, LimitKept, ReadsInside
<1>8. CASE ~Repeated(k)
  <2>1. msg.roles[i] = "field"
    <3>1. msg.roles[i] = "again" => k \in Keys(msg, i - 1)
          BY <1>2, <1>5, ValuesGrow
    <3>2. msg.roles[i] = "again" => ~IsList(k)
          BY <1>2, <1>5, GrammarAssumption DEF Grammar
    <3> QED BY <1>4, <1>6, <1>8, <3>1, <3>2
  <2>2. fields' \in Seq(Record) /\ FieldsAre(fields', msg, i)
        BY <1>1, <1>2, <1>4, <1>5, <2>1, AddedRight
  <2>3. FirstRight'
        BY <1>1, <1>4 DEF FirstRight
  <2>4. /\ consumed' = consumed + off /\ tot_len' = tot_len + off
        /\ at' = "start" /\ off' = 0 /\ result' = "scan"
        BY <1>1, <1>8
  <2>5. i + 1 \in Lines(msg) /\ Standing(i + 1)'
    <3>1. consumed' = msg.ends[i] /\ tot_len' = consumed'
          BY <1>3, <2>4
    <3> QED BY <1>1, <1>2, <2>1, <2>2, <2>3, <2>4, <3>1, BehindStands
  <2>6. TypeOK'
    <3>1. at' \in Places /\ first' \in FirstLines
          BY <1>1, <1>2, <2>4 DEF Places, TypeOK, FirstLines
    <3> QED BY <1>1, <1>2, <1>3, <2>2, <2>4, <3>1, ConsumeType
  <2>7. Limited'
        BY <1>1, <1>2 DEF Limited
  <2>8. \E n \in Lines(msg') : Standing(n)'
        BY <1>1, <2>5
  <2> QED BY <1>1, <2>4, <2>6, <2>7, <2>8 DEF IInv, Accepted, RefusedRight, LimitKept, ReadsInside
<1> QED BY <1>7, <1>8

LEMMA LastLineStep ==
  ASSUME IInv, LastLine
  PROVE  IInv'
<1>1. /\ Complete /\ at = "end" /\ result = "scan" /\ ~TooLong(off)
      /\ consumed' = consumed + off /\ state' = "DONE" /\ result' = "ok" /\ off' = 0
      /\ UNCHANGED <<msg, resets, arrived, tot_len, max_len, at, first, fields>>
      BY DEF LastLine, Complete, input
<1>2. msg \in Messages /\ TypeOK /\ Limited /\ max_len \in {MaxLen, MaxLen + 1}
      BY <1>1, InScan DEF IInv
<1>3. PICK i \in Lines(msg) :
        Standing(i) /\ tot_len = consumed /\ consumed + off = msg.ends[i] /\ msg.roles[i] = "last"
      BY <1>1, AtEnd
<1>4. i = Count(msg) /\ i > 1 /\ msg.ends[i] = Whole(msg) /\ Good(msg)
  <2>1. i = Count(msg)
    <3>1. msg.roles[i] \in {"last", "again", "wrong"} <=> i = Count(msg)
          BY <1>2, Roles, Zenon
    <3> QED BY <1>3, <3>1
  <2>2. msg.roles[i] \in {"first", "wrong"} \/ i > 1
        BY <1>2, Roles, Zenon
  <2> QED BY <1>3, <2>1, <2>2 DEF Whole, Good
<1>5. Accepted'
  <2>1. FirstRight /\ FieldsAre(fields, msg, i - 1)
        BY <1>3, <1>4 DEF Standing, FieldsRight, FieldsAre
  <2>2. FieldsAre(fields, msg, i)
        BY <1>2, <1>3, <2>1, KeptRight
  <2>3. FirstRight' /\ FieldsRight(Count(msg))'
        BY <1>1, <1>4, <2>1, <2>2 DEF FirstRight, FieldsRight, FieldsAre
  <2> QED BY <1>1, <1>3, <1>4, <2>3 DEF Accepted
<1>6. Whole(msg) <= MaxLen
  <2>1. Whole(msg) = consumed + off /\ ~(consumed + off >= max_len)
        BY <1>1, <1>3, <1>4 DEF TooLong
  <2>2. consumed + off \in Nat
    <3>1. arrived \in 0 .. Len(Stream) /\ consumed \in 0 .. arrived /\ off \in 0 .. arrived - consumed
          BY <1>2 DEF TypeOK
    <3> QED BY <3>1
  <2> DEFINE n == consumed + off
  <2> HIDE DEF n
  <2>3. n \in Nat /\ ~(n >= max_len) /\ Whole(msg) = n
        BY <2>1, <2>2 DEF n
  <2> QED BY <1>2, <2>3, HdrParserAssumption
<1>7. TypeOK'
  <2>1. fields' \in Seq(Record)
        BY <1>1, <1>2 DEF TypeOK, Record
  <2>2. at' \in Places /\ first' \in FirstLines
        BY <1>1, <1>2 DEF Places, TypeOK, FirstLines
  <2> QED BY <1>1, <1>2, <1>3, <2>1, <2>2, ConsumeType
<1>8. Limited'
      BY <1>1, <1>2, InScan DEF Limited
<1> QED BY <1>1, <1>5, <1>6, <1>7, <1>8 DEF IInv, RefusedRight, LimitKept, ReadsInside

LEMMA StutterStep == IInv /\ UNCHANGED vars => IInv'
<1> SUFFICES ASSUME IInv, UNCHANGED vars PROVE IInv'
    OBVIOUS
<1>1. UNCHANGED <<msg, resets, arrived, consumed, state, tot_len, max_len, off, at, first, fields, result>>
      BY DEF vars, input
<1>2. TypeOK'
      BY <1>1 DEF IInv, TypeOK, Stream
<1>3. \A i : Standing(i) => Standing(i)'
      BY <1>1 DEF Standing, FirstRight, FieldsRight
<1>4. (\E i \in Lines(msg) : Standing(i)) => \E i \in Lines(msg') : Standing(i)'
      BY <1>1, <1>3
<1>5. Limited' /\ Accepted' /\ RefusedRight' /\ LimitKept' /\ ReadsInside'
  <2>1. Limited /\ Accepted /\ RefusedRight /\ LimitKept /\ ReadsInside
        BY DEF IInv
  <2> QED BY <1>1, <2>1 DEF Limited, Accepted, RefusedRight, LimitKept, ReadsInside, FirstRight, FieldsRight
<1> QED BY <1>1, <1>2, <1>4, <1>5 DEF IInv

-----------------------------------------------------------------------------
(* The theorems.                                                           *)

\* Where the parser stands, the limit it has and what it has made of the lines
\* it consumed are kept by every step.
THEOREM Invariant == Spec => []IInv
<1>1. Init => IInv
      BY InitStep
<1>2. IInv /\ [Next]_vars => IInv'
  <2> SUFFICES ASSUME IInv, [Next]_vars PROVE IInv'
      OBVIOUS
  <2>1. CASE Call
        BY <2>1, CallStep
  <2>2. CASE Starve
        BY <2>2, StarveStep
  <2>3. CASE Exceed
        BY <2>3, ExceedStep
  <2>4. CASE Malformed
        BY <2>4, MalformedStep
  <2>5. CASE Advance
        BY <2>5, AdvanceStep
  <2>6. CASE LineExceeds
        BY <2>6, LineExceedsStep
  <2>7. CASE Nomem
        BY <2>7, NomemStep
  <2>8. CASE FirstLine
        BY <2>8, FirstLineStep
  <2>9. CASE FieldLine
        BY <2>9, FieldLineStep
  <2>10. CASE LastLine
        BY <2>10, LastLineStep
  <2>11. CASE ReadOutside
        BY <2>11, ReadOutsideStep
  <2>12. CASE CopyOutside
        BY <2>12, CopyOutsideStep
  <2>13. CASE UNCHANGED vars
        BY <2>13, StutterStep
  <2> QED BY <2>1, <2>2, <2>3, <2>4, <2>5, <2>6, <2>7, <2>8, <2>9, <2>10, <2>11, <2>12, <2>13 DEF Next
<1> QED BY <1>1, <1>2, PTL DEF Spec

\* What the parser has consumed follows from where it stands.
LEMMA Parsed == IInv => ParsedRight
<1> SUFFICES ASSUME IInv, result \in {"idle", "scan", "ok"}
             PROVE  \E n \in 0 .. Count(msg) :
                      /\ consumed = msg.ends[n]
                      /\ \A i \in 1 .. n : msg.roles[i] \in {"first", "field", "last"}
                      /\ n = Count(msg) <=> result = "ok"
                      /\ n >= 1 => FirstRight
                      /\ FieldsRight(n)
    BY DEF ParsedRight, FirstRight
<1>1. msg \in Messages
      BY DEF IInv, TypeOK
<1>2. \A i \in Lines(msg) :
        /\ Count(msg) \in Nat /\ i \in Nat /\ i >= 1 /\ i <= Count(msg)
        /\ msg.roles[i] \in {"first", "field", "last", "again", "wrong"}
        /\ msg.roles[i] \in {"last", "again", "wrong"} <=> i = Count(msg)
        /\ Good(msg) => msg.roles[i] \in {"first", "field", "last"}
  <2> SUFFICES ASSUME NEW i \in Lines(msg)
               PROVE  /\ Count(msg) \in Nat /\ i \in Nat /\ i >= 1 /\ i <= Count(msg)
                      /\ msg.roles[i] \in {"first", "field", "last", "again", "wrong"}
                      /\ msg.roles[i] \in {"last", "again", "wrong"} <=> i = Count(msg)
                      /\ Good(msg) => msg.roles[i] \in {"first", "field", "last"}
      OBVIOUS
  <2>1. Count(msg) \in Nat /\ i \in Nat /\ i >= 1 /\ i <= Count(msg)
        BY <1>1, Layout, Zenon
  <2>2. /\ msg.roles[i] \in {"first", "field", "last", "again", "wrong"}
        /\ msg.roles[i] \in {"last", "again", "wrong"} <=> i = Count(msg)
        /\ Good(msg) => msg.roles[i] \in {"first", "field", "last"}
        BY <1>1, Roles, Zenon
  <2> QED BY <2>1, <2>2
<1>3. CASE result = "ok"
  <2>1. Good(msg) /\ consumed = Whole(msg) /\ FirstRight /\ FieldsRight(Count(msg))
        BY <1>3 DEF IInv, Accepted
  <2>2. Count(msg) \in Nat
        BY <1>1, GrammarAssumption DEF Laid, Count
  <2>3. \A i \in 1 .. Count(msg) : msg.roles[i] \in {"first", "field", "last"}
        BY <1>2, <2>1 DEF Lines
  <2> QED BY <1>3, <2>1, <2>2, <2>3 DEF Whole
<1>4. CASE result \in {"idle", "scan"}
  <2>1. PICK i \in Lines(msg) : Standing(i)
        BY <1>4 DEF IInv
  <2>2. /\ Count(msg) \in Nat /\ i \in Nat /\ i >= 1 /\ i <= Count(msg)
        BY <1>2
  <2>3. \A j \in 1 .. i - 1 : msg.roles[j] \in {"first", "field", "last"}
    <3>1. SUFFICES ASSUME NEW j \in 1 .. i - 1
                   PROVE  msg.roles[j] \in {"first", "field", "last"}
          OBVIOUS
    <3>2. j \in Lines(msg) /\ j # Count(msg)
          BY <2>2 DEF Lines
    <3> QED BY <1>2, <3>2
  <2>4. consumed = msg.ends[i - 1] /\ FieldsRight(i - 1) /\ (i > 1 => FirstRight)
        BY <2>1 DEF Standing
  <2> DEFINE n == i - 1
  <2>5. n \in 0 .. Count(msg) /\ n # Count(msg) /\ (n >= 1 => i > 1)
        BY <2>2
  <2> HIDE DEF n
  <2>6. /\ consumed = msg.ends[n] /\ FieldsRight(n) /\ (n >= 1 => FirstRight)
        /\ \A j \in 1 .. n : msg.roles[j] \in {"first", "field", "last"}
        BY <2>3, <2>4, <2>5 DEF n
  <2> QED BY <1>4, <2>5, <2>6
<1> QED BY <1>3, <1>4

\* Theorem: the variables have their types: what is consumed has arrived, and
\* so has the part of the next line that the parser has passed; tot_len is not
\* beyond what is consumed. Of the two reads that look elsewhere, behind the
\* path and for the query, ReadsStayInside speaks.
THEOREM TypeCorrect == Spec => []TypeOK
<1>1. IInv => TypeOK
      BY DEF IInv
<1> QED BY <1>1, Invariant, PTL

\* Theorem: whatever a peer sends and however it is cut, the path's last byte is
\* looked for where there is none, and the query copied from behind the line,
\* only for a request of OPTIONS or CONNECT without a path, or for one whose
\* target has several question marks (parse_hdr_req_first_line,
\* gwnet_http1.c:256-263, 297-306, 364-385). For all others the lines above
\* prove that path_len is positive there and that the query ends in the line.
THEOREM ReadsStayInside == Spec => []ReadsInside
<1>1. IInv => ReadsInside
      BY DEF IInv
<1> QED BY <1>1, Invariant, PTL

\* Theorem: for every stream, however it is cut into calls, a parser that has not
\* read outside its buffer has consumed whole lines only, all of them
\* well-formed, and has made of them what they mean: code and reason; path and
\* query, if the target has at most one question mark; and each field once with
\* all its values (gwnet_http_req_hdr_parse, gwnet_http_res_hdr_parse). It says
\* nothing of a request behind such a read, and of path and query with several
\* question marks: the query that is copied then goes on behind the target.
THEOREM ParsesRight == Spec => []ParsedRight
BY Invariant, Parsed, PTL

\* Theorem: no cut into calls makes a well-formed header be refused as
\* malformed.
THEOREM RefusesRight == Spec => []RefusedRight
<1>1. IInv => RefusedRight
      BY DEF IInv
<1> QED BY <1>1, Invariant, PTL

\* Theorem: an accepted header keeps the limit, a well-formed one that is
\* refused as too long exceeds it, or reaches it where the caller sets max_len
\* at every call.
THEOREM KeepsLimit == Spec => []LimitKept
<1>1. IInv => LimitKept
      BY DEF IInv
<1> QED BY <1>1, Invariant, PTL
=============================================================================
