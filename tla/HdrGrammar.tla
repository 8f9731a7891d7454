----------------------------- MODULE HdrGrammar -----------------------------
(***************************************************************************)
(* Headers of requests and responses as a peer may send them: a stream of  *)
(* bytes with its lines marked.                                            *)
(*   kind    "request" or "response"                                       *)
(*   bytes   the whole stream; what follows the last line is not the       *)
(*           header's                                                      *)
(*   roles   of each line: "first"; "field"; "last" for the empty line;    *)
(*           "again" for a field that is there already and may not be      *)
(*           repeated; "wrong" for what is no line; nothing is said of     *)
(*           what follows one of the last three                            *)
(*   ends    where each line ends, with 0 in front                         *)
(*   marks   places in each line: before and behind the key, which of a    *)
(*           first line is the path or the code, before and behind the     *)
(*           value, which is the query or the reason, and before the end   *)
(*           of line                                                       *)
(*   values  what each key has been given up to each end                   *)
(* Any stream is one of these, cut off somewhere.                          *)
(*                                                                         *)
(* Of a byte its class is kept: "O" is the word OPTIONS or CONNECT, "M"    *)
(* another method word, "P" is "HTTP/1.", "1" is the digit one, "9" a      *)
(* digit that neither ends a version nor begins a status; "a", "b" and "l" *)
(* are letters, "l" the name of a field that may be repeated; "sp" is a    *)
(* space; "x" is a byte that is allowed nowhere. There is no tab, which    *)
(* the parsers take for a space.                                           *)
(***************************************************************************)
EXTENDS Integers, Sequences, FiniteSets

CONSTANT Messages   \* what a peer may send

Tchar == {"a", "b", "l", "M", "O", "1", "9"}
Vchar == Tchar \cup {"/", "?", ":", ",", "P", "sp"}
AnyByte == Vchar \cup {"x", "cr", "lf"}
Text == Seq(AnyByte)
Marks == [begin : Nat, key : Nat, from : Nat, upto : Nat, eol : Nat]

IsList(key) == key = <<"l">>

-----------------------------------------------------------------------------
(* The lines of a message.                                                 *)

LineOf(m, i) == SubSeq(m.bytes, m.ends[i - 1] + 1, m.ends[i])
Count(m)     == Len(m.roles)
Lines(m)     == 1 .. Count(m)
Length(m, i) == m.ends[i] - m.ends[i - 1]
Whole(m)     == m.ends[Count(m)]
Good(m)      == m.roles[Count(m)] = "last"

KeyIn(l, q) == SubSeq(l, q.begin + 1, q.key)
ValIn(l, q) == SubSeq(l, q.from + 1, q.upto)
KeyOf(m, i) == KeyIn(LineOf(m, i), m.marks[i])
ValOf(m, i) == ValIn(LineOf(m, i), m.marks[i])

FieldsTo(m, i) == {j \in 1 .. i : m.roles[j] = "field"}
Keys(m, i)     == {KeyOf(m, j) : j \in FieldsTo(m, i)}

Laid(m) ==
  LET n == Count(m)
  IN /\ m.kind \in {"request", "response"}
     /\ m.bytes \in Text
     /\ m.roles \in Seq({"first", "field", "last", "again", "wrong"}) /\ n >= 1
     /\ m.ends \in [0 .. n -> 0 .. Len(m.bytes)] /\ m.ends[0] = 0
     /\ \A i, j \in 0 .. n : i < j => m.ends[i] < m.ends[j]
     /\ m.marks \in [1 .. n -> Marks]
     /\ \A i \in 1 .. n :
          /\ m.roles[i] = "first" => i = 1
          /\ m.roles[i] \in {"first", "wrong"} \/ i > 1
          /\ m.roles[i] \in {"last", "again", "wrong"} <=> i = n

-----------------------------------------------------------------------------
(* What may stand where.                                                   *)

\* Blanks behind place p, the value, blanks, and CR LF or LF.
TextFits(q, p, j, b) ==
  /\ j \in p + 1 .. q.from => b = "sp"
  /\ j \in q.from + 1 .. q.upto => b \in Vchar
  /\ j \in {q.from + 1, q.upto} \cap (q.from + 1 .. q.upto) => b # "sp"
  /\ j \in q.upto + 1 .. q.eol => b = "sp"

EndFits(q, j, b) ==
  /\ j = q.eol + 1 => b \in {"cr", "lf"}
  /\ j = q.eol + 2 => b = "lf"

\* The target of OPTIONS and CONNECT begins with anything, and may be empty.
Free(method) == method = "O"
LeastEol(method) == IF method = "M" THEN 6 ELSE 5

RequestFits(method, q, j, b) ==
  /\ j = 1 => b \in {"M", "O"}
  /\ j = 2 => b = "sp"
  /\ j = 3 /\ ~Free(method) => b = "/"
  /\ j \in 3 .. q.eol - 3 => b \in Vchar \ {"sp"}
  /\ j = q.eol - 2 => b = "sp"
  /\ j = q.eol - 1 => b = "P"
  /\ j = q.eol => b = "1"
  /\ EndFits(q, j, b)

StatusFits(q, j, b) ==
  /\ j = 1 => b = "P"
  /\ j \in {2, 4} => b = "1"
  /\ j \in {3, 7} => b = "sp"
  /\ j \in {5, 6} => b \in {"1", "9"}
  /\ TextFits(q, 7, j, b) /\ EndFits(q, j, b)

FieldFits(q, j, b) ==
  /\ j \in 1 .. q.begin => b = "cr"
  /\ j \in q.begin + 1 .. q.key => b \in Tchar
  /\ j = q.key + 1 => b = ":"
  /\ TextFits(q, q.key + 1, j, b) /\ EndFits(q, j, b)

\* A line ends with its LF, which no CR or one is in front of.
Ended(l, q) ==
  \/ Len(l) = q.eol + 1 /\ l[q.eol + 1] = "lf"
  \/ Len(l) = q.eol + 2 /\ l[q.eol + 1] = "cr"

\* Something wrong goes wrong with its last byte.
Cut(l, q) == Len(l) \in 1 .. q.eol + 2 /\ (Len(l) = q.eol + 2 => l[q.eol + 1] = "cr")

-----------------------------------------------------------------------------
(* What each line may be.                                                  *)

\* Path and query, if there is at most one question mark: what is in front of
\* it, without the slashes at its end, of which the first byte is none; and what
\* is behind it.
QMarks(l, q) == {j \in 3 .. q.eol - 3 : l[j] = "?"}
IsSimple(l, q) == \A i, j \in QMarks(l, q) : i = j
UriMarked(l, q) ==
  IsSimple(l, q) =>
    \E f \in QMarks(l, q) \cup {q.eol - 2} :
      /\ QMarks(l, q) \subseteq {f}
      /\ q.key \in 2 .. f - 1 /\ (q.key = 2 <=> f = 3)
      /\ q.key > 3 => l[q.key] # "/"
      /\ \A j \in q.key + 1 .. f - 1 : l[j] = "/"
      /\ IF QMarks(l, q) = {} THEN q.from = q.upto ELSE q.from = f /\ q.upto = q.eol - 3

\* A path that is there, and at most one question mark.
IsPlain(l, q) == IsSimple(l, q) /\ 3 \notin QMarks(l, q) /\ q.eol >= 6

IsRequest(l, q) ==
  /\ q.begin = 2 /\ q.eol >= LeastEol(l[1]) /\ UriMarked(l, q)
  /\ Ended(l, q) /\ \A j \in DOMAIN l : RequestFits(l[1], q, j, l[j])

IsStatus(l, q) ==
  /\ q.begin = 3 /\ q.key = 6
  /\ 7 <= q.from /\ q.from <= q.upto /\ q.upto <= q.eol
  /\ Ended(l, q) /\ \A j \in DOMAIN l : StatusFits(q, j, l[j])

IsField(l, q) ==
  /\ q.begin \in {0, 1} /\ q.begin < q.key /\ q.key < q.from
  /\ q.from <= q.upto /\ q.upto <= q.eol
  /\ Ended(l, q) /\ \A j \in DOMAIN l : FieldFits(q, j, l[j])

IsLast(l) == l = <<"lf">> \/ l = <<"cr", "lf">>

\* Of something wrong the last byte fits neither what the marks say nor any
\* other line that begins as this one.
NoRequest(l, q) ==
  LET n == Len(l)
  IN /\ q.eol >= LeastEol(l[1]) /\ Cut(l, q)
     /\ \A j \in 1 .. n - 1 : RequestFits(l[1], q, j, l[j])
     /\ ~RequestFits(l[1], q, n, l[n])
     /\ n \notin 4 .. q.eol - 3
     /\ n = q.eol - 2 \/ (n = 3 /\ Free(l[1])) => l[n] \notin Vchar

NoStatus(l, q) ==
  LET n == Len(l)
  IN /\ 7 <= q.from /\ q.from <= q.upto /\ q.upto <= q.eol /\ Cut(l, q)
     /\ \A j \in 1 .. n - 1 : StatusFits(q, j, l[j])
     /\ ~StatusFits(q, n, l[n])
     /\ n \notin 8 .. q.eol
     /\ n = q.eol + 1 => l[n] \notin Vchar

NoField(l, q) ==
  LET n == Len(l)
  IN /\ q.begin \in {0, 1} /\ q.begin < q.key /\ q.key < q.from
     /\ q.from <= q.upto /\ q.upto <= q.eol /\ Cut(l, q)
     /\ \A j \in 1 .. n - 1 : FieldFits(q, j, l[j])
     /\ ~FieldFits(q, n, l[n])
     /\ n = q.begin + 1 => l[n] # "lf" /\ (q.begin = 0 => l[n] # "cr")
     /\ n = q.key + 1 => l[n] \notin Tchar
     /\ n = q.eol + 1 => l[n] \notin Vchar
     /\ n \notin 1 .. q.begin \cup (q.begin + 2 .. q.key) \cup (q.key + 2 .. q.eol)

-----------------------------------------------------------------------------
(* The lines of a header, and what its fields are given.                   *)

IsFirst(m, i)  == IF m.kind = "request" THEN IsRequest(LineOf(m, i), m.marks[i])
                                        ELSE IsStatus(LineOf(m, i), m.marks[i])
NoFirst(m, i)  == IF m.kind = "request" THEN NoRequest(LineOf(m, i), m.marks[i])
                                        ELSE NoStatus(LineOf(m, i), m.marks[i])

Grammar(m) ==
  \A i \in Lines(m) :
    /\ m.roles[i] = "first" => IsFirst(m, i)
    /\ m.roles[i] = "field" => /\ IsField(LineOf(m, i), m.marks[i])
                               /\ KeyOf(m, i) \in Keys(m, i - 1) => IsList(KeyOf(m, i))
    /\ m.roles[i] = "last"  => IsLast(LineOf(m, i))
    /\ m.roles[i] = "again" => /\ IsField(LineOf(m, i), m.marks[i])
                               /\ KeyOf(m, i) \in Keys(m, i - 1) /\ ~IsList(KeyOf(m, i))
    /\ m.roles[i] = "wrong" => IF i = 1 THEN NoFirst(m, i) ELSE NoField(LineOf(m, i), m.marks[i])

\* Values of one key are listed with commas, the empty ones left out.
Valued(m) ==
  /\ DOMAIN m.values = 0 .. Count(m)
  /\ \A i \in 0 .. Count(m) :
       DOMAIN m.values[i] = Keys(m, i) /\ \A k \in Keys(m, i) : m.values[i][k] \in Text
  /\ \A i \in Lines(m) : \A k \in Keys(m, i - 1) :
       LET old == m.values[i - 1][k]
           new == m.values[i][k]
           val == ValOf(m, i)
       IN IF m.roles[i] # "field" \/ k # KeyOf(m, i) \/ val = <<>> THEN new = old
          ELSE new = IF old = <<>> THEN val ELSE old \o <<",">> \o val
  /\ \A i \in Lines(m) :
       m.roles[i] = "field" /\ KeyOf(m, i) \notin Keys(m, i - 1)
       => m.values[i][KeyOf(m, i)] = ValOf(m, i)

ASSUME GrammarAssumption == \A m \in Messages : Laid(m) /\ Grammar(m) /\ Valued(m)
=============================================================================
