--------------------------- MODULE ChunkedGrammar ---------------------------
(***************************************************************************)
(* Chunked bodies as a peer may send them: a stream of bytes with its      *)
(* parts marked.                                                           *)
(*   bytes    the whole stream; what follows the last part is not the      *)
(*            body's                                                       *)
(*   roles    of each part: "size" for a size line, "data", "end" for a    *)
(*            line end behind data or behind the last size line, "wrong"   *)
(*            for what cannot follow; nothing is said of what follows that *)
(*   ends     where each part ends, with 0 in front                        *)
(*   decoded  how many bytes of data there are up to each end              *)
(*   payload  the data                                                     *)
(*   good     it is well-formed: the last part is the last line end        *)
(* A byte is a hexadecimal digit, "cr", "lf" or "x". Any stream is one of  *)
(* these, cut off somewhere.                                               *)
(***************************************************************************)
EXTENDS Integers, Sequences

LOCAL INSTANCE SequencesExt

CONSTANTS
  Bodies,     \* what a peer may send
  Limits,     \* limits a caller asks for
  MaxDigits   \* a size has fewer digits (16)

Alphabet == {"0", "1", "2", "3", "f", "cr", "lf", "x"}
Hex == {"0", "1", "2", "3", "f"}
ValueOf(d) == CASE d = "0" -> 0 [] d = "1" -> 1 [] d = "2" -> 2 [] d = "3" -> 3 [] d = "f" -> 15

\* strtoull of the digits before the extension.
SizeOf(l) ==
  LET n == SelectInSeq(l, LAMBDA c : c \notin Hex) - 1
  IN FoldLeft(LAMBDA v, d : 16 * v + ValueOf(d), 0, SubSeq(l, 1, n))

-----------------------------------------------------------------------------
(* The parts of a body.                                                    *)

Count(b)    == Len(b.roles)
Parts(b)    == 1 .. Count(b)
Length(b, i) == b.ends[i] - b.ends[i - 1]
At(b, i, k) == b.bytes[b.ends[i - 1] + k]
Part(b, i)  == SubSeq(b.bytes, b.ends[i - 1] + 1, b.ends[i])
Whole(b)    == b.ends[Count(b)]

\* Behind which part it comes; the first one as if behind a line end.
Before(b, i) == IF i = 1 THEN "end" ELSE b.roles[i - 1]

Laid(b) ==
  LET n == Count(b)
  IN /\ b.roles \in Seq({"size", "data", "end", "wrong"}) /\ n >= 1
     /\ b.good \in BOOLEAN
     /\ b.bytes \in Seq(Alphabet) /\ b.payload \in Seq(Alphabet)
     /\ b.ends \in [0 .. n -> 0 .. Len(b.bytes)] /\ b.ends[0] = 0
     /\ \A i, j \in 0 .. n : i < j => b.ends[i] < b.ends[j]
     /\ b.decoded \in [0 .. n -> 0 .. Len(b.payload)] /\ b.decoded[0] = 0
     /\ \A i \in 1 .. n :
          b.decoded[i] = b.decoded[i - 1] + IF b.roles[i] = "data" THEN Length(b, i) ELSE 0
     /\ \A i \in 1 .. n : b.roles[i] = "data" =>
          \A k \in 1 .. Length(b, i) : b.payload[b.decoded[i - 1] + k] = At(b, i, k)

-----------------------------------------------------------------------------
(* What each part may be.                                                  *)

\* Digits, fewer than MaxDigits, an extension without line ends, and LF or CR LF.
Line(b, i) ==
  LET n == Length(b, i)
  IN /\ \A k \in 1 .. n : At(b, i, k) = "lf" <=> k = n
     /\ \A k \in 1 .. n : At(b, i, k) = "cr" => k = n - 1
     /\ \E d \in 1 .. MaxDigits - 1 :
          /\ d < n /\ At(b, i, d + 1) \notin Hex
          /\ \A k \in 1 .. d : At(b, i, k) \in Hex

\* A size is 0 in front of the last line end, that of the data, or beyond every
\* limit.
Announces(b, i) ==
  LET size == SizeOf(Part(b, i))
  IN /\ size \in Nat /\ i < Count(b)
     /\ \/ size = 0 /\ i + 1 = Count(b) /\ b.roles[i + 1] \in {"end", "wrong"}
        \/ b.roles[i + 1] = "data" /\ size = Length(b, i + 1) /\ i + 1 < Count(b)
        \/ b.roles[i + 1] = "data" /\ ~b.good /\ \A l \in Limits : size >= l

\* No size: no digit, too many of them, or CR without LF behind them.
NoLine(b, i) ==
  LET n == Length(b, i)
  IN \/ At(b, i, 1) \notin Hex
     \/ n > MaxDigits /\ \A k \in 1 .. MaxDigits : At(b, i, k) \in Hex
     \/ \E c \in 1 .. n - 1 :
          /\ At(b, i, c) = "cr"
          /\ \A k \in 1 .. c + 1 : At(b, i, k) # "lf"

NoEnd(b, i) == At(b, i, 1) # "cr" \/ (Length(b, i) >= 2 /\ At(b, i, 2) # "lf")

Grammar(b) ==
  /\ b.good <=> b.roles[Count(b)] = "end"
  /\ \A i \in Parts(b) :
       /\ b.roles[i] = "size"  => Before(b, i) = "end" /\ Line(b, i) /\ Announces(b, i)
       /\ b.roles[i] = "data"  => /\ Before(b, i) = "size"
                                  /\ i < Count(b) => b.roles[i + 1] \in {"end", "wrong"}
       /\ b.roles[i] = "end"   => /\ Length(b, i) = 2 /\ At(b, i, 1) = "cr" /\ At(b, i, 2) = "lf"
                                  /\ \/ Before(b, i) = "size" /\ i = Count(b)
                                     \/ /\ Before(b, i) = "data" /\ i < Count(b)
                                        /\ b.roles[i + 1] \in {"size", "wrong"}
       /\ b.roles[i] = "wrong" => /\ i = Count(b)
                                  /\ IF Before(b, i) = "end" THEN NoLine(b, i) ELSE NoEnd(b, i)

ASSUME GrammarAssumption ==
  /\ Limits \subseteq Nat \ {0} /\ MaxDigits \in Nat \ {0}
  /\ \A b \in Bodies : Laid(b) /\ Grammar(b)
=============================================================================
