--------------------------------- MODULE Atr --------------------------------
(***************************************************************************)
(* The answer to reset, as four places of the program take it apart: the   *)
(* loop that reads it byte by byte (src/src/ifd/reader.c), the test        *)
(* whether it is complete, the choice of the protocol                      *)
(* (src/src/ifd/protocol.c), and ifd_atr_parse (src/src/ifd/atr.c).        *)
(***************************************************************************)
EXTENDS Integers, Sequences, FiniteSets

CONSTANT None

(* A byte of an ATR is the record of its nibbles: hi the set of the bits in  *)
(* the high one that announce TA, TB, TC and TD ("A" .. "D"), lo the low one. *)
(* The first byte is TS, the second T0.                                      *)

Bits(b) == Cardinality(b.hi)

AtrByte == [hi : SUBSET {"A", "B", "C", "D"}, lo : 0 .. 15]

\* An answer to reset by the standard: td are the places of T0, TD1, TD2 ...; the
\* protocols are offered in ascending order, a check byte is there unless T=0 is the
\* only one, and 32 bytes may follow the first.
IsAtr(atr) ==
    /\ atr \in Seq(AtrByte) /\ Len(atr) \in 2 .. 33
    /\ \E k \in 1 .. Len(atr) : \E td \in [1 .. k -> 2 .. Len(atr)] :
          /\ td[1] = 2
          /\ \A j \in 1 .. k - 1 : "D" \in atr[td[j]].hi /\ td[j + 1] = td[j] + Bits(atr[td[j]])
          /\ "D" \notin atr[td[k]].hi
          /\ \A i, j \in 2 .. k : i <= j => atr[td[i]].lo <= atr[td[j]].lo
          /\ Len(atr) = td[k] + Bits(atr[td[k]]) + atr[2].lo
                        + (IF \A j \in 2 .. k : atr[td[j]].lo = 0 THEN 0 ELSE 1)

\* Position of the byte that ends the chain T0, TD1, TD2 ... begun at n.
LastTD(atr) ==
    LET from[n \in 2 .. Len(atr)] ==
            IF "D" \notin atr[n].hi \/ n + Bits(atr[n]) > Len(atr) THEN n
            ELSE from[n + Bits(atr[n])]
    IN  from[2]

\* Bytes ifd_card_request reads: what T0 and the TDs announce, the historical
\* bytes, and a check byte unless the last protocol named is T=0.
AtrExpected_NoCheck(atr) ==
    LET last == LastTD(atr) IN last + Bits(atr[last]) + atr[2].lo

AtrExpected(atr) ==
    LET last == LastTD(atr)
        check == IF last > 2 /\ atr[last].lo # 0 THEN 1 ELSE 0
    IN  last + Bits(atr[last]) + atr[2].lo + check

\* ifd_atr_complete on the first n bytes.
AtrComplete(atr, n) ==
    /\ n >= 2
    /\ LET seen == SubSeq(atr, 1, n)
           last == LastTD(seen)
       IN  /\ ~("D" \in seen[last].hi)
           /\ n >= AtrExpected(seen)

\* ifd_protocol_select: the first protocol named, T=0 if there is none.
AtrProtocol(atr) ==
    LET len == Len(atr) - atr[2].lo
        first == 2 + Bits(atr[2])
    IN  IF "D" \in atr[2].hi /\ first < len THEN atr[first].lo ELSE 0

Named(atr) ==
    LET len == Len(atr) - atr[2].lo
        from[n \in 2 .. Len(atr)] ==
            LET next == n + Bits(atr[n])
            IN  IF "D" \in atr[n].hi /\ next < len
                THEN {atr[next].lo} \cup from[next] ELSE {}
    IN  from[2]

(* ifd_atr_parse: protocols in the order named, TA1 and TC1.  A TD that      *)
(* announces nothing, a TD4, missing bytes and bytes left over make it     *)
(* invalid.                                                                *)
AtrParse(atr) ==
    LET len == Len(atr) - atr[2].lo
        bad == [ok |-> FALSE, prots |-> <<>>, left |-> 0]
        from[n \in 2 .. Len(atr)] ==
            LET next == n + Bits(atr[n])
                own  == IF n = 2 THEN <<>> ELSE <<atr[n].lo>>
                rest == from[next]
            IN  IF n >= len THEN [ok |-> TRUE, prots |-> <<>>, left |-> 0]
                ELSE IF Bits(atr[n]) = 0 \/ next > len THEN bad
                ELSE IF "D" \in atr[n].hi THEN [rest EXCEPT !.prots = own \o @]
                ELSE [ok |-> TRUE, prots |-> own, left |-> len - next]
        chain == from[2]
        named == {chain.prots[i] : i \in DOMAIN chain.prots}
        interface(i, c) ==
            IF c \in atr[2].hi /\ 2 < len THEN atr[i] ELSE None
    IN  [ok    |-> /\ len >= 2
                   /\ chain.ok
                   /\ Len(chain.prots) <= 3
                   /\ chain.left <= (IF named \subseteq {0} THEN 0 ELSE 1),
         default   |-> IF named = {} THEN 0 ELSE chain.prots[1],
         supported |-> IF named = {} THEN {0} ELSE named,
         TA1       |-> interface(3, "A"),
         TC1       |-> interface(2 + Cardinality(atr[2].hi \cap {"A", "B", "C"}), "C")]
=============================================================================
