-------------------------------- MODULE Tlv ---------------------------------
(***************************************************************************)
(* The tagged items in which commands and answers are written              *)
(* (src/src/ct/tlv.c): a tag, the number of bytes in one byte, or in two   *)
(* when the tag is marked large, and the bytes.                            *)
(***************************************************************************)
EXTENDS CtBuffer, Integers, TLC

CONSTANTS
    ByteBase,     \* values of a byte: 256
    SmallLimit    \* the builder's limit for an item with one length byte: 266

TagByte(t, large) == <<t, large>>

LengthBytes(large, n) ==
    IF large THEN <<(n \div ByteBase) % ByteBase, n % ByteBase>>
             ELSE <<n % ByteBase>>

\* at: where the open item's length stands in buf.data, 0 when none is open.
Builder(buf, large) ==
    [error |-> FALSE, large |-> large, buf |-> buf, len |-> 0, at |-> 0]

\* What fits of tag and length stays in the buffer when the rest does not.
PutTag(b, t) ==
    LET head == <<TagByte(t, b.large)>> \o LengthBytes(b.large, 0)
        room == BufTailroom(b.buf)
    IN  IF b.error THEN b
        ELSE [b EXCEPT !.buf   = BufPut(@, SubSeq(head, 1, IF room < Len(head) THEN room ELSE Len(head))),
                       !.error = room < Len(head),
                       !.len   = 0,
                       !.at    = Len(b.buf.data) + 2]

\* Bytes that do not fit leave the length at what was put before them.
AddBytes(b, s) ==
    LET n == b.len + Len(s)
        limit == IF b.large THEN ByteBase * ByteBase - 1 ELSE SmallLimit
        added == BufPut(b.buf, s)
        lengthAt(i) == LengthBytes(b.large, n)[i - b.at + 1]
        last == IF b.large THEN b.at + 1 ELSE b.at
    IN  IF b.error THEN b
        ELSE IF b.at = 0 \/ ~BufFits(b.buf, s) THEN [b EXCEPT !.error = TRUE]
        ELSE IF n > limit THEN [b EXCEPT !.error = TRUE, !.buf = added]
        ELSE [b EXCEPT !.len = n,
                       !.buf = [added EXCEPT !.data =
                           [i \in DOMAIN @ |-> IF i \in b.at .. last THEN lengthAt(i) ELSE @[i]]]]

PutOpaque(b, t, s) ==
    IF b.error THEN b ELSE [AddBytes(PutTag(b, t), s) EXCEPT !.at = 0]

\* The bytes of v, the highest first and no leading zeros.
BytesOf[v \in Nat] ==
    IF v < ByteBase THEN <<v>> ELSE Append(BytesOf[v \div ByteBase], v % ByteBase)

\* Byte by byte: what fits stays in the buffer when the rest does not.
PutInt(b, t, v) ==
    LET put[i \in 0 .. Len(BytesOf[v])] ==
            IF i = 0 THEN PutTag(b, t) ELSE AddBytes(put[i - 1], <<BytesOf[v][i]>>)
    IN  IF b.error THEN b ELSE [put[Len(BytesOf[v])] EXCEPT !.at = 0]

-----------------------------------------------------------------------------
(* ct_tlv_parse: val maps the tags found to their bytes; a tag that comes  *)
(* twice counts as it came last.                                           *)
NoTags == [t \in {} |-> <<>>]

Parse(s) ==
    LET refused == [ok |-> FALSE, large |-> FALSE, val |-> NoTags]
        from[i \in 1 .. Len(s) + 1] ==
            LET left   == Len(s) - i + 1
                large  == s[i][2]
                header == IF large THEN 3 ELSE 2
                len    == IF large THEN s[i + 1] * ByteBase + s[i + 2] ELSE s[i + 1]
                rest   == from[i + header + len]
            IN  IF left = 0 THEN [ok |-> TRUE, large |-> FALSE, val |-> NoTags]
                ELSE IF left < 2 THEN refused
                ELSE IF left < header THEN refused
                ELSE IF len = 0 \/ header + len > left THEN refused
                ELSE [ok    |-> rest.ok,
                      large |-> large \/ rest.large,
                      val   |-> rest.val @@ (s[i][1] :> SubSeq(s, i + header, i + header + len - 1))]
    IN  from[1]

Has(p, t) == t \in DOMAIN p.val

GetOpaque(p, t) == p.val[t]

GetInt_NoShift(p, t) == p.val[t][Len(p.val[t])]

GetInt(p, t) ==
    LET value[i \in 0 .. Len(p.val[t])] ==
            IF i = 0 THEN 0 ELSE value[i - 1] * ByteBase + p.val[t][i]
    IN  value[Len(p.val[t])]

\* ct_tlv_get_bytes and ct_tlv_get_string copy as much as the caller has room for.
GetBytes(p, t, size) ==
    SubSeq(p.val[t], 1, IF Len(p.val[t]) > size THEN size ELSE Len(p.val[t]))
=============================================================================
