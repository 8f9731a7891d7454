---------------------------- MODULE MCHdrParser ----------------------------
(* Header lines, well-formed and not, and messages made of them.           *)
EXTENDS HdrParser, SequencesExt

\* A line: first lines of requests and responses, fields.
L(role, bytes, begin, key, from, upto, eol) ==
  [role |-> role, bytes |-> bytes,
   marks |-> [begin |-> begin, key |-> key, from |-> from, upto |-> upto, eol |-> eol]]
Request(bytes, key, from, upto, eol) == L("first", bytes, 2, key, from, upto, eol)
Response(bytes, from, upto, eol)     == L("first", bytes, 3, 6, from, upto, eol)
Field(bytes, begin, key, from, upto, eol) == L("field", bytes, begin, key, from, upto, eol)
Wrong(line) == [line EXCEPT !.role = "wrong"]

Get    == Request(<<"M", "sp", "/", "sp", "P", "1", "cr", "lf">>, 3, 0, 0, 6)
Query  == Request(<<"M", "sp", "/", "a", "/", "?", "b", "sp", "P", "1", "lf">>, 4, 6, 7, 10)
Slash  == Request(<<"M", "sp", "/", "?", "b", "sp", "P", "1", "lf">>, 3, 4, 5, 8)
Twice  == Request(<<"M", "sp", "/", "a", "?", "b", "?", "l", "sp", "P", "1", "lf">>, 0, 0, 0, 11)
\* Of OPTIONS and CONNECT: a path, a query only, nothing.
Host80 == Request(<<"O", "sp", "a", "/", "?", "b", "sp", "P", "1", "lf">>, 3, 5, 6, 9)
NoPath == Request(<<"O", "sp", "?", "b", "sp", "P", "1", "lf">>, 2, 3, 4, 7)
NoUri  == Request(<<"O", "sp", "sp", "P", "1", "cr", "lf">>, 2, 0, 0, 5)
\* Question marks that take away the path and more; a query that ends behind the
\* line.
Marked(n) ==
  Request(<<"M", "sp", "/">> \o [i \in 1 .. n |-> "?"] \o <<"sp", "P", "1", "lf">>, 0, 0, 0, n + 6)
Behind == Request(<<"M", "sp", "/", "?", "a", "b", "l", "a", "?", "sp", "P", "1", "lf">>, 0, 0, 0, 12)
Firsts == {Get, Query, Host80}
Others == {Slash, Twice, NoPath, NoUri, Marked(2), Marked(3), Behind}
\* First lines whose last bytes reach the limit, in the URI and behind it.
Long(n) ==
  LET u == [i \in 1 .. n |-> IF i = 1 THEN "/" ELSE "a"]
  IN Request(<<"M", "sp">> \o u \o <<"sp", "P", "1", "cr", "lf">>, n + 2, 0, 0, n + 5)
BadFirsts ==
  {Wrong(Request(l, 3, 0, 0, 6)) : l \in
    {<<"x">>, <<"M", "M">>, <<"O", "1">>, <<"M", "sp", "a">>, <<"O", "sp", "lf">>,
     <<"M", "sp", "/", "x">>, <<"O", "sp", "a", "cr">>, <<"O", "sp", "?", "sp", "P", "9">>,
     <<"M", "sp", "/", "sp", "1">>, <<"M", "sp", "/", "sp", "P", "a">>,
     <<"M", "sp", "/", "sp", "P", "1", "cr", "sp">>}}

Status == Response(<<"P", "1", "sp", "1", "9", "9", "sp", "sp", "a", "sp", "b", "sp", "cr", "lf">>, 8, 11, 12)
Plain  == Response(<<"P", "1", "sp", "1", "1", "9", "sp", "lf">>, 7, 7, 7)
LongStatus(n) ==
  LET r == [i \in 1 .. n |-> "a"]
  IN Response(<<"P", "1", "sp", "1", "1", "9", "sp">> \o r \o <<"cr", "lf">>, 7, 7 + n, 7 + n)
BadStatuses ==
  {Wrong(Response(l, 7, 7, 7)) : l \in
    {<<"M">>, <<"P", "9">>, <<"P", "1", "1">>, <<"P", "1", "sp", "9">>, <<"P", "1", "sp", "1", "a">>,
     <<"P", "1", "sp", "1", "9", "sp">>, <<"P", "1", "sp", "1", "9", "9", "cr">>,
     <<"P", "1", "sp", "1", "9", "9", "sp", "x">>}}
  \cup {Wrong(Response(<<"P", "1", "sp", "1", "1", "1", "sp", "a">> \o l, 7, 8, 8)) :
         l \in {<<"x">>, <<"cr", "a">>}}

\* A field that may not be repeated, one that may, one behind a CR, which the
\* parser accepts, and an empty one.
Host   == Field(<<"a", ":", "sp", "b", "sp", "cr", "lf">>, 0, 1, 3, 4, 5)
List   == Field(<<"l", ":", "b", "sp", "a", "lf">>, 0, 1, 2, 5, 5)
Bare   == Field(<<"cr", "a", "b", ":", "a", "lf">>, 1, 3, 4, 5, 5)
Empty  == Field(<<"l", ":", "sp", "sp", "lf">>, 0, 1, 4, 4, 4)
Fields == {<<>>, <<Host>>, <<List, Empty, List>>, <<Empty, Bare, List>>, <<Bare, Host>>}
BadFields ==
  {<<Host, [Host EXCEPT !.role = "again"]>>, <<Wrong(Field(<<":">>, 0, 1, 2, 2, 2))>>,
   <<Wrong(Field(<<"a", "sp">>, 0, 1, 2, 2, 2))>>, <<List, Wrong(Field(<<"a", ":", "x">>, 0, 1, 2, 2, 2))>>,
   <<Wrong(Field(<<"a", ":", "b", "cr", "a">>, 0, 1, 2, 3, 3))>>}

Ends   == {L("last", <<"cr", "lf">>, 0, 0, 0, 0, 0), L("last", <<"lf">>, 0, 0, 0, 0, 0)}
Tails  == {<<>>, <<"M", "sp">>}

\* A message of lines, and bytes behind it.
Bytes(lines) == FlattenSeq([i \in DOMAIN lines |-> lines[i].bytes])
Name(l)    == KeyIn(l.bytes, l.marks)
ValueOf(key, lines) ==
  LET of   == SelectSeq(lines, LAMBDA l : l.role = "field" /\ Name(l) = key)
      vals == SelectSeq([i \in DOMAIN of |-> ValIn(of[i].bytes, of[i].marks)], LAMBDA v : v # <<>>)
  IN FlattenSeq([i \in DOMAIN vals |-> IF i = 1 THEN vals[i] ELSE <<",">> \o vals[i]])
Values(lines) ==
  [key \in {Name(lines[i]) : i \in {j \in DOMAIN lines : lines[j].role = "field"}}
     |-> ValueOf(key, lines)]
Message(kind, lines, tail) ==
  LET n == Len(lines)
  IN [kind   |-> kind,
      bytes  |-> Bytes(lines) \o tail,
      roles  |-> [i \in 1 .. n |-> lines[i].role],
      ends   |-> [i \in 0 .. n |-> Len(Bytes(SubSeq(lines, 1, i)))],
      marks  |-> [i \in 1 .. n |-> lines[i].marks],
      values |-> [i \in 0 .. n |-> Values(SubSeq(lines, 1, i))]]

Accepted(kind, firsts) ==
  {Message(kind, <<f>> \o fs \o <<e>>, tail) : f \in firsts, fs \in Fields, e \in Ends, tail \in Tails}
Refused(kind, firsts, bad) ==
  {Message(kind, <<f>> \o fs, <<"lf">>) : f \in firsts, fs \in BadFields}
  \cup {Message(kind, <<f>>, <<"lf">>) : f \in bad}
AtLimit ==
  {Message("request", <<Long(MaxLen - i), e>>, <<>>) : i \in 1 .. 10, e \in Ends}
  \cup {Message("response", <<LongStatus(MaxLen - i), e>>, <<>>) : i \in 5 .. 13, e \in Ends}
Computed ==
  Accepted("request", Firsts \cup Others) \cup Accepted("response", {Status, Plain}) \cup AtLimit
  \cup Refused("request", Firsts, BadFirsts) \cup Refused("response", {Plain}, BadStatuses)

\* TLC does not keep the value of what is given to a constant, but of this.
AllMessages == Computed
=============================================================================
