------------------------------ MODULE CtBuffer ------------------------------
(***************************************************************************)
(* The byte buffer of src/src/ct/buffer.c: what was put and not yet taken  *)
(* lies at head .. tail of an area of fixed size.  Taking leaves a hole in *)
(* front, which only ct_buf_compact gives back.                            *)
(***************************************************************************)
EXTENDS Naturals, Sequences

\* data is the part from head to tail; the elements stand for bytes.
BufInit(n) == [size |-> n, head |-> 0, data |-> <<>>]

BufAvail(b) == Len(b.data)

BufTailroom(b) == b.size - b.head - Len(b.data)

BufCompact(b) == [b EXCEPT !.head = 0]

\* A refused BufPut leaves the buffer compacted, and nothing of s in it.
BufFits(b, s) == Len(s) <= BufTailroom(b) \/ Len(s) <= BufTailroom(BufCompact(b))

BufPut(b, s) ==
    LET c == IF Len(s) > BufTailroom(b) THEN BufCompact(b) ELSE b
    IN  IF Len(s) > BufTailroom(c) THEN c ELSE [c EXCEPT !.data = @ \o s]

BufGet(b, n) ==
    IF n > Len(b.data)
    THEN b
    ELSE [b EXCEPT !.head = @ + n, !.data = SubSeq(@, n + 1, Len(@))]
=============================================================================
