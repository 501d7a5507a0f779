----------------------------- MODULE ByteReader -----------------------------
(***************************************************************************)
(* BinaryReader of binary.py.  A reader has a stream with a cursor and, if *)
(* it was given one, an immutable buffer with the same bytes; what a       *)
(* custom decoder writes goes to the stream only.  Absolute reads use the  *)
(* buffer when there is one.  The unit is the word of four bytes.          *)
(*                                                                         *)
(* An operation takes a reader and returns it as the call leaves it: `val` *)
(* is what was read, `out` is "ok" or the exception raised.                *)
(***************************************************************************)
EXTENDS Integers, Sequences

VARIABLE data   \* the words of the catalog

Fail(r, error) == [r EXCEPT !.out = error, !.val = <<>>]

\* The next call is made only if this one has returned.
Then(r, Call(_)) == IF r.out = "ok" THEN Call(r) ELSE r

Available(r) == IF r.cursor < Len(data) THEN Len(data) - r.cursor ELSE 0

StreamWords(r, n) ==
    [i \in 1..n |-> LET p == r.cursor + i - 1
                    IN IF p \in DOMAIN r.written THEN r.written[p] ELSE data[p + 1]]

Seek(r, p) == IF p < 0 THEN Fail(r, "read") ELSE [r EXCEPT !.cursor = p]

\* A short read leaves the cursor at the end.
ReadExact(r, n) ==
    IF n < 0 THEN Fail(r, "read")
    ELSE IF n > Available(r) THEN Fail([r EXCEPT !.cursor = @ + Available(r)], "read")
    ELSE [r EXCEPT !.cursor = @ + n, !.val = StreamWords(r, n)]

ReadAfterSeek(r, n, p) == Then(Seek(r, p), LAMBDA q : ReadExact(q, n))

\* Seeded fault: the last word of the buffer is out of bounds.
FromBuffer_Short(r, n, p) ==
    IF p < 0 \/ p + n >= Len(data) THEN Fail(r, "read")
    ELSE [r EXCEPT !.val = SubSeq(data, p + 1, p + n)]

FromBuffer(r, n, p) ==
    IF p < 0 \/ p + n > Len(data) THEN Fail(r, "read")
    ELSE [r EXCEPT !.val = SubSeq(data, p + 1, p + n)]

ReadStructFrom(r, n, p) ==
    IF r.buffered THEN FromBuffer(r, n, p) ELSE ReadAfterSeek(r, n, p)

\* Seeded fault: the cursor is put back only after a read that succeeded.
ReadStructAt_NoFinally(r, n, p) ==
    IF r.buffered THEN FromBuffer(r, n, p)
    ELSE Then(ReadAfterSeek(r, n, p), LAMBDA q : [q EXCEPT !.cursor = r.cursor])

ReadStructAt(r, n, p) ==
    IF r.buffered THEN FromBuffer(r, n, p)
    ELSE [ReadAfterSeek(r, n, p) EXCEPT !.cursor = r.cursor]

ReadBytesAt(r, n, p) == IF n < 0 THEN Fail(r, "read") ELSE ReadStructAt(r, n, p)
=============================================================================
