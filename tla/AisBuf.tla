------------------------------- MODULE AisBuf -------------------------------
(***************************************************************************)
(* The growing byte buffer of libaishttpd/buf.c. A buffer is a record: off *)
(* is b->buf - b->orig_buf, the bytes consumed by soft advances and not    *)
(* yet moved away; len and cap are the fields of that name. The allocation *)
(* holds cap bytes from orig_buf on, so the data is inside it only while   *)
(* off + len <= cap.                                                       *)
(***************************************************************************)
EXTENDS Integers

Bufs == [off : Nat, len : Nat, cap : Nat]

\* ais_buf_init, and what ais_buf_free leaves.
NewBuf(cap) == [off |-> 0, len |-> 0, cap |-> cap]
Freed == NewBuf(0)

\* Bytes that fit behind the data as the code computes it.
Room(b) == b.cap - b.len

\* ais_buf_set_cap; it reallocates b->buf, which only a buffer without a soft
\* advance may ask for.
SetCap(b, cap) ==
  [off |-> 0, len |-> IF b.len > cap THEN cap ELSE b.len, cap |-> cap]

Increase(b, inc) == SetCap(b, b.cap + inc)

SoftAdvance(b, n) == [off |-> b.off + n, len |-> b.len - n, cap |-> b.cap]

\* Move the data to the front; without data the buffer is freed.
Sync(b) ==
  IF b.off = 0 THEN b
  ELSE IF b.len = 0 THEN Freed
  ELSE [b EXCEPT !.off = 0]

\* The loop of ais_buf_prepare_need: what it has doubled after each of n turns,
\* and where it stops, once n bytes fit.
Doublings(cap, n) ==
  LET d[i \in 0 .. n] == IF i = 0 THEN (cap + 1) * 2 ELSE d[i - 1] * 2
  IN d
DoubledCap(cap, n) ==
  LET d == Doublings(cap, n)
  IN d[CHOOSE i \in 0 .. n : d[i] >= n /\ \A j \in 0 .. i - 1 : d[j] < n]

PrepareUnsynced(b, need) ==
  IF need <= Room(b) THEN b ELSE SetCap(b, DoubledCap(b.cap, b.len + need))
PrepareIgnoresLen(b, need) ==
  LET s == Sync(b)
  IN IF need <= s.cap THEN s ELSE SetCap(s, DoubledCap(s.cap, need))
PrepareNeed(b, need) ==
  LET s == Sync(b)
  IN IF need <= Room(s) THEN s ELSE SetCap(s, DoubledCap(s.cap, s.len + need))

\* ais_buf_append, and ais_buf_apfmt up to the terminator it makes room for.
AppendTo(b, n) == LET s == PrepareNeed(b, n) IN [s EXCEPT !.len = @ + n]

\* The data lies inside the allocation.
Inside(b) == b.off + b.len <= b.cap
=============================================================================
