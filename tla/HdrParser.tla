----------------------------- MODULE HdrParser -----------------------------
(***************************************************************************)
(* The resumable parsers of request and response headers of                *)
(* http_parser/gwnet_http1.c, with the way http.c calls the first. A call  *)
(* sees the bytes that have arrived and are not consumed; it consumes      *)
(* whole lines, and a call that ends inside a line leaves that line to the *)
(* next call.                                                              *)
(*                                                                         *)
(* One step looks at one byte; HdrGrammar says what a byte is.             *)
(***************************************************************************)
EXTENDS HdrGrammar, FiniteSetsExt

CONSTANT MaxLen   \* the limit that the caller asks for (4096)

ASSUME HdrParserAssumption == MaxLen \in Nat \ {0}

VARIABLES
  msg,        \* the message
  resets,     \* the caller sets max_len before every call, as http.c does
  arrived,    \* bytes of it that have arrived
  consumed,   \* bytes of it that are consumed: the sum of ctx->off
  state, tot_len, max_len,   \* ctx->state, tot_len, max_len
  off, at,    \* offset in the line, and what the parser expects there
  first,      \* path and query, or code and reason, of the header; or <<>>
  fields,     \* hdr->fields
  result      \* "idle", "scan" during a call, or what ends the header

input == <<msg, resets>>
vars  == <<input, arrived, consumed, state, tot_len, max_len, off, at, first, fields, result>>

Init ==
  /\ msg \in Messages
  /\ resets \in BOOLEAN
  /\ arrived = 0 /\ consumed = 0
  /\ state = "INIT" /\ tot_len = 0 /\ max_len = 0
  /\ off = 0 /\ at = "none"
  /\ first = <<>> /\ fields = <<>>
  /\ result = "idle"

Stream == msg.bytes

-----------------------------------------------------------------------------
(* The grammar of a line, from what is expected, over a byte, to what is   *)
(* expected behind it. A line ends at "line", the header at "end"; "unfit" *)
(* is behind a byte that is found wrong only when the next one is there.   *)

RequestGoes(s, c, t) ==
  \/ s = "method" /\ c = "M"  /\ t = "space"
  \/ s = "method" /\ c = "O"  /\ t = "gap_any"
  \/ s = "space"   /\ c = "sp" /\ t = "slash"
  \/ s = "gap_any" /\ c = "sp" /\ t = "any"
  \/ s = "slash"  /\ c = "/"  /\ t = "uri"
  \/ s \in {"any", "uri"} /\ c \in Vchar \ {"sp"} /\ t = "uri"
  \/ s \in {"any", "uri"} /\ c = "sp" /\ t = "prefix"
  \/ s = "uri"    /\ c \notin Vchar /\ t = "unfit"
  \/ s = "prefix" /\ c = "P"  /\ t = "digit"
  \/ s = "digit"  /\ c = "1"  /\ t = "eol"
  \/ s = "eol"    /\ c = "cr" /\ t = "lf"
  \/ s \in {"eol", "lf"} /\ c = "lf" /\ t = "line"

StatusGoes(s, c, t) ==
  \/ s = "status"  /\ c = "P"  /\ t = "version"
  \/ s = "version" /\ c = "1"  /\ t = "gap"
  \/ s = "gap"     /\ c = "sp" /\ t = "code1"
  \/ s = "code1"   /\ c = "1"  /\ t = "code2"
  \/ s = "code2"   /\ c \in {"1", "9"} /\ t = "code3"
  \/ s = "code3"   /\ c \in {"1", "9"} /\ t = "behind"
  \/ s \in {"behind", "blank"} /\ c = "sp" /\ t = "blank"
  \/ s = "reason"  /\ c = "sp" /\ t = "reason"
  \/ s \in {"blank", "reason"} /\ c \in Vchar \ {"sp"} /\ t = "reason"
  \/ s \in {"blank", "reason"} /\ c = "cr" /\ t = "val_lf"
  \/ s \in {"blank", "reason"} /\ c = "lf" /\ t = "line"
  \/ s \in {"blank", "reason"} /\ c = "x"  /\ t = "unfit"

FieldGoes(s, c, t) ==
  \/ s = "start" /\ c = "cr" /\ t = "bare"
  \/ s \in {"start", "bare"} /\ c = "lf" /\ t = "end"
  \/ s \in {"start", "bare", "key"} /\ c \in Tchar /\ t = "key"
  \/ s = "key" /\ c = ":"  /\ t = "colon"
  \/ s \in {"colon", "ws"} /\ c = "sp" /\ t = "ws"
  \/ s = "val" /\ c = "sp" /\ t = "val"
  \/ s \in {"colon", "ws", "val"} /\ c \in Vchar \ {"sp"} /\ t = "val"
  \/ s \in {"colon", "ws", "val"} /\ c = "cr" /\ t = "val_lf"
  \/ s \in {"colon", "ws", "val"} /\ c = "lf" /\ t = "line"
  \/ s = "val_lf" /\ c = "lf" /\ t = "line"

Goes(s, c, t) == RequestGoes(s, c, t) \/ StatusGoes(s, c, t) \/ FieldGoes(s, c, t)

Places ==
  {"method", "space", "gap_any", "slash", "any", "uri", "prefix", "digit", "eol", "lf",
   "status", "version", "gap", "code1", "code2", "code3", "behind", "blank", "reason",
   "start", "bare", "key", "colon", "ws", "val", "val_lf", "unfit", "line", "end"}

\* Where the length is not checked before the byte is looked at.
Unchecked ==
  {"method", "space", "gap_any", "eol", "lf", "colon", "status", "code2", "code3", "behind"}

-----------------------------------------------------------------------------
(* gwnet_http_hdr_fields_addl, and what a line means.                      *)

JoinedAlways(old, v) == old \o <<",">> \o v
Joined(old, v) == IF v = <<>> THEN old ELSE IF old = <<>> THEN v ELSE old \o <<",">> \o v

\* The index of a field, 0 if there is none.
IndexOf(key) ==
  IF \E i \in DOMAIN fields : fields[i].key = key
  THEN CHOOSE i \in DOMAIN fields : fields[i].key = key ELSE 0

Added(key, v) ==
  LET i == IndexOf(key)
  IN IF i = 0 THEN Append(fields, [key |-> key, val |-> v])
     ELSE [fields EXCEPT ![i] = [key |-> @.key, val |-> IF IsList(key) THEN Joined(@.val, v) ELSE v]]

\* EEXIST, which parse_hdr_fields makes -EINVAL.
Repeated(key) == IndexOf(key) # 0 /\ ~IsList(key)

\* The n bytes behind the consumed ones.
Line(n) == SubSeq(Stream, consumed + 1, consumed + n)

\* The place of the first byte c.
First(l, c) == Min({j \in DOMAIN l : l[j] = c})

\* What is behind place p in a line, without the blanks around it.
Trimmed(l, p) ==
  LET I == {j \in p + 1 .. Len(l) : l[j] \notin {"sp", "cr", "lf"}}
  IN IF I = {} THEN <<>> ELSE SubSeq(l, Min(I), Max(I))

\* Name and value of the field in a line, code and reason of a status line.
Key(l) == SubSeq(l, IF l[1] = "cr" THEN 2 ELSE 1, First(l, ":") - 1)
Val(l) == Trimmed(l, First(l, ":"))
StatusOf(l) == [key |-> SubSeq(l, 4, 6), val |-> Trimmed(l, 7)]

\* The URI of a request line: its end, question marks, path_len, qs and qs_len.
\* A question mark shortens the path by one each; the length of the query counts
\* from the first, its pointer is behind the last.
UriEnd(l)   == Min({j \in 3 .. Len(l) : l[j] = "sp"}) - 1
UriMarks(l) == {j \in 3 .. UriEnd(l) : l[j] = "?"}
PathLenSwapped(l) ==
  IF UriMarks(l) = {} THEN UriEnd(l) - 2 ELSE Min(UriMarks(l)) - 3 - Cardinality(UriMarks(l))
PathLen(l) ==
  IF UriMarks(l) = {} THEN UriEnd(l) - 2 ELSE Min(UriMarks(l)) - 2 - Cardinality(UriMarks(l))
QsBegin(l) == IF UriMarks(l) = {} THEN 0 ELSE Max(UriMarks(l))
QsLen(l)   == IF UriMarks(l) = {} THEN 0 ELSE UriEnd(l) - Min(UriMarks(l))

\* The j-th byte of the buffer. Behind what has arrived it is left over from
\* something else.
Held(j) == IF consumed + j <= arrived THEN Stream[consumed + j] ELSE "old"

\* Path and query: of the slashes at the end of the path one is kept at its
\* beginning.
UriOf(l) ==
  [key |-> SubSeq(l, 3, Max({2} \cup {j \in 3 .. 2 + PathLen(l) : j = 3 \/ l[j] # "/"})),
   val |-> [j \in 1 .. QsLen(l) |-> Held(QsBegin(l) + j)]]

-----------------------------------------------------------------------------
(* The caller: handle_req_state_recv_hdr                                   *)

\* More bytes arrive, or none, and the parser is called. Its first call, which
\* may find nothing, adds one to the limit that it was given.
PrepareEach ==
  IF state = "INIT" \/ resets THEN MaxLen + 1 ELSE max_len + 1
Prepare ==
  IF state = "INIT" THEN MaxLen + 1 ELSE IF resets THEN MaxLen ELSE max_len

\* A call goes on at the start of a line, of which the state tells the kind.
FirstOf(kind) == IF kind = "request" THEN "method" ELSE "status"
ResumeFirst(s) == FirstOf(msg.kind)
Resume(s) == IF s = "FIRST_LINE" THEN FirstOf(msg.kind) ELSE "start"

Call ==
  /\ result = "idle"
  /\ arrived' \in arrived .. Len(Stream)
  /\ max_len' = Prepare
  /\ state' = IF state = "INIT" THEN "FIRST_LINE" ELSE state
  /\ at' = Resume(state')
  /\ off' = 0
  /\ result' = "scan"
  /\ UNCHANGED <<input, consumed, tot_len, first, fields>>

-----------------------------------------------------------------------------
(* parse_hdr_req_first_line, parse_hdr_res_first_line, parse_hdr_fields    *)

Byte == Stream[consumed + off + 1]
HasByte == consumed + off < arrived
TooLong(n) == tot_len + n >= max_len

\* The check comes before the byte is there only behind the first space of a
\* first line; a request's version is checked together with its end of line.
Exceeds ==
  /\ at \notin Unchecked
  /\ HasByte \/ at \in {"slash", "any", "code1"}
  /\ at = "start" => Byte # "cr"
  /\ TooLong(IF at = "digit" THEN off + 2 ELSE off)

Return(r) ==
  /\ result' = r
  /\ UNCHANGED <<input, arrived, consumed, state, tot_len, max_len, off, at, first, fields>>

Scanning == result = "scan" /\ at \notin {"line", "end"}

Starve == Scanning /\ ~HasByte /\ ~Exceeds /\ Return("idle")

Exceed == Scanning /\ Exceeds /\ Return("E2BIG")

Malformed ==
  /\ Scanning /\ HasByte /\ ~Exceeds
  /\ \A t \in Places : ~Goes(at, Byte, t)
  /\ Return("EINVAL")

Advance ==
  /\ Scanning /\ HasByte /\ ~Exceeds
  /\ \E t \in Places : Goes(at, Byte, t) /\ at' = t
  /\ off' = off + 1
  /\ UNCHANGED <<input, arrived, consumed, state, tot_len, max_len, first, fields, result>>

\* The trimming of a path of no bytes, or less than none, for path_len is
\* unsigned, looks for slashes 4 GiB behind it. (The call goes on as well: what
\* is there need not be a slash.)
ReadOutside ==
  /\ Scanning /\ HasByte /\ ~Exceeds
  /\ at = "prefix" /\ PathLen(Line(off)) <= 0
  /\ Return("undefined")

\* A line is complete.
Complete == result = "scan" /\ at \in {"line", "end"}

LineExceeds == Complete /\ TooLong(off) /\ Return("E2BIG")

Nomem == Complete /\ at = "line" /\ ~TooLong(off) /\ Return("ENOMEM")

\* What is left of a consumed line: nothing, its length, the next line's start.
ConsumeUncounted == consumed' = consumed + off /\ UNCHANGED tot_len
Consume == consumed' = consumed + off /\ tot_len' = tot_len + off

\* A path of less than no bytes, or of none behind which slashes were found, is
\* copied with its wrapped length, or the query from behind what has arrived.
CopiesPath(l)  == PathLen(l) <= 0
CopiesQuery(l) == consumed + QsBegin(l) + QsLen(l) > arrived
CopyOutside ==
  /\ Complete /\ ~TooLong(off)
  /\ at = "line" /\ state = "FIRST_LINE" /\ msg.kind = "request"
  /\ CopiesPath(Line(off)) \/ CopiesQuery(Line(off))
  /\ Return("undefined")

FirstLine ==
  /\ Complete /\ ~TooLong(off)
  /\ at = "line" /\ state = "FIRST_LINE"
  /\ msg.kind = "request" => PathLen(Line(off)) >= 0
  /\ first' = IF msg.kind = "request" THEN UriOf(Line(off)) ELSE StatusOf(Line(off))
  /\ Consume
  /\ state' = "FIELDS" /\ at' = "start" /\ off' = 0
  /\ UNCHANGED <<input, arrived, max_len, fields, result>>

\* A field that may not be repeated is overwritten before it is refused.
FieldLine ==
  /\ Complete /\ ~TooLong(off)
  /\ at = "line" /\ state = "FIELDS"
  /\ LET k == Key(Line(off))
     IN /\ fields' = Added(k, Val(Line(off)))
        /\ IF Repeated(k)
           THEN result' = "EINVAL" /\ UNCHANGED <<consumed, tot_len, at, off>>
           ELSE Consume /\ at' = "start" /\ off' = 0 /\ UNCHANGED result
  /\ UNCHANGED <<input, arrived, state, max_len, first>>

\* The empty line is consumed; tot_len does not count it.
LastLine ==
  /\ Complete /\ ~TooLong(off)
  /\ at = "end"
  /\ consumed' = consumed + off
  /\ state' = "DONE"
  /\ result' = "ok"
  /\ off' = 0
  /\ UNCHANGED <<input, arrived, tot_len, max_len, at, first, fields>>

Next ==
  \/ Call \/ Starve \/ Exceed \/ Malformed \/ Advance \/ ReadOutside
  \/ LineExceeds \/ Nomem \/ CopyOutside \/ FirstLine \/ FieldLine \/ LastLine

Spec == Init /\ [][Next]_vars

-----------------------------------------------------------------------------
(* Properties.                                                             *)

\* The types of the variables.
TypeOK ==
  /\ msg \in Messages /\ resets \in BOOLEAN
  /\ arrived \in 0 .. Len(Stream) /\ consumed \in 0 .. arrived
  /\ off \in 0 .. arrived - consumed
  /\ state \in {"INIT", "FIRST_LINE", "FIELDS", "DONE"} /\ at \in Places \cup {"none"}
  /\ tot_len \in 0 .. consumed /\ max_len \in 0 .. MaxLen + 1
  /\ first \in {<<>>} \cup [key : Text, val : Seq(AnyByte \cup {"old"})]
  /\ fields \in Seq([key : Text, val : Text])
  /\ result \in {"idle", "scan", "ok", "EINVAL", "E2BIG", "ENOMEM", "undefined"}

\* The fields are those of the first n lines, each once, with all its values.
FieldsRight(n) ==
  /\ \A i, j \in DOMAIN fields : fields[i].key = fields[j].key => i = j
  /\ {fields[i].key : i \in DOMAIN fields} = Keys(msg, n)
  /\ \A i \in DOMAIN fields : fields[i].val = msg.values[n][fields[i].key]

\* However the bytes are cut into calls, at every moment the parser has
\* consumed whole lines, all of them well-formed, and has made of them what
\* they mean; it is done exactly after the header's last line, and what follows
\* the header is left alone. This is said of every header that is parsed without
\* a read outside the buffer, but path and query only of a URI with at most one
\* question mark: with more, the copied query goes on behind the URI.
ParsedRight ==
  result \in {"idle", "scan", "ok"} =>
    \E n \in 0 .. Count(msg) :
      /\ consumed = msg.ends[n]
      /\ \A i \in 1 .. n : msg.roles[i] \in {"first", "field", "last"}
      /\ (n = Count(msg)) <=> (result = "ok")
      /\ n >= 1 /\ (msg.kind = "request" => IsSimple(LineOf(msg, 1), msg.marks[1]))
           => first = [key |-> KeyOf(msg, 1), val |-> ValOf(msg, 1)]
      /\ FieldsRight(n)

\* Whatever a peer sends, and however it is cut, the parser reads outside its
\* buffer only in a request for OPTIONS or CONNECT that has no path, as in
\* "OPTIONS ?x", or in one whose target has several question marks.
ReadsInside ==
  result = "undefined" => msg.kind = "request" /\ ~IsPlain(LineOf(msg, 1), msg.marks[1])

\* However the bytes are cut, only a header with a malformed line is refused
\* as malformed.
RefusedRight == result = "EINVAL" => ~Good(msg)

\* However the bytes are cut, a header that is accepted keeps the limit, and a
\* well-formed one that is refused as too long exceeds it, or reaches it when
\* the caller gives the limit anew at every call: the parser adds one to it at
\* the first only.
LimitKept ==
  /\ result = "ok" => Whole(msg) <= MaxLen
  /\ result = "E2BIG" /\ Good(msg) => Whole(msg) > MaxLen \/ (resets /\ Whole(msg) = MaxLen)
=============================================================================
