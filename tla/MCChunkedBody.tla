--------------------------- MODULE MCChunkedBody ---------------------------
(* Chunks, well-formed and not, and bodies made of them.                   *)
EXTENDS ChunkedBody, SequencesExt

P(role, bytes) == [role |-> role, bytes |-> bytes]
Eol == P("end", <<"cr", "lf">>)
Bad(bytes) == <<P("wrong", bytes)>>

\* Of two bytes; of one, with a leading zero and an extension; of three that
\* look like a size line; and the last, ended without CR.
Two   == <<P("size", <<"2", "cr", "lf">>), P("data", <<"x", "1">>), Eol>>
One   == <<P("size", <<"0", "1", "x", "lf">>), P("data", <<"cr">>), Eol>>
Three == <<P("size", <<"3", "lf">>), P("data", <<"1", "cr", "lf">>), Eol>>
Zero  == <<P("size", <<"0", "x", "1", "cr", "lf">>), Eol>>
Nil   == <<P("size", <<"0", "lf">>), Eol>>

\* A body of parts, and bytes behind it.
Bytes(parts) == FlattenSeq([i \in DOMAIN parts |-> parts[i].bytes])
DataOf(parts) == SelectSeq(parts, LAMBDA p : p.role = "data")
Body(parts, tail) ==
  LET n == Len(parts)
  IN [bytes   |-> Bytes(parts) \o tail,
      roles   |-> [i \in 1 .. n |-> parts[i].role],
      ends    |-> [i \in 0 .. n |-> Len(Bytes(SubSeq(parts, 1, i)))],
      decoded |-> [i \in 0 .. n |-> Len(Bytes(DataOf(SubSeq(parts, 1, i))))],
      payload |-> Bytes(DataOf(parts)),
      good    |-> parts[n].role = "end"]

Good == {Body(parts, tail) : parts \in {Zero, Two \o Nil, One \o Three \o Nil},
                             tail \in {<<>>, <<"1", "lf">>}}

\* No digit, too many, a size beyond every limit, CR without LF, a wrong end of
\* a chunk, and a trailer, which is not supported.
Wrong == {Body(parts, <<"cr", "lf">>) : parts \in
           {Bad(<<"x">>), Bad(<<"0", "0", "0", "1">>), <<P("size", <<"f", "f", "cr", "lf">>), P("data", <<"x">>)>>,
            Two \o Bad(<<"2", "cr", "1">>), SubSeq(Two, 1, 2) \o Bad(<<"1">>),
            SubSeq(One, 1, 2) \o Bad(<<"cr", "x">>),
            Two \o SubSeq(Nil, 1, 1) \o Bad(<<"x">>)}}

AllBodies == Good \cup Wrong
AllLimits == 1 .. 18
=============================================================================
