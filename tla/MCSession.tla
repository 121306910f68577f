------------------------------ MODULE MCSession -----------------------------
(* A short command of each case; cards with and without an ATR; a memory card *)
(* of one page and a byte.                                                    *)
EXTENDS Session

B(hi, lo) == [hi |-> hi, lo |-> lo]
Async(inverse, tail) == [kind |-> "async", inverse |-> inverse, atr |-> <<B({}, 11)>> \o tail]
Plain(kind) == [kind |-> kind, inverse |-> FALSE, atr |-> <<>>]

\* T=0 without a word, a byte TA1, a historical byte; a TD1 for T=1 that announces
\* nothing; T=1 named twice; TA1, TC1 and two protocols.  The last three have a
\* check byte.
MCCards ==
    {Async(TRUE, <<B({"A"}, 1), B({}, 1), B({}, 7)>>),
     Async(FALSE, <<B({"D"}, 0), B({}, 1), B({}, 9)>>),
     Async(FALSE, <<B({"D"}, 0), B({"D"}, 1), B({"B"}, 1), B({}, 4), B({}, 9)>>),
     Async(FALSE, <<B({"A", "C", "D"}, 1), B({}, 1), B({}, 0), B({"D"}, 0), B({"B"}, 1), B({}, 4), B({}, 5), B({}, 9)>>)}
    \cup {Plain(k) : k \in MemoryKinds \cup {"mute"}}

MCApdus ==
    {ApduCase(0, 0, 0), ApduCase(1, 2, 0), ApduCase(3, 2, 0), ApduCase(3, 1, 1)}

MCContents == {<<1, 2, 0>>}
MCWrites == {[addr |-> 1, data |-> <<3, 1>>], [addr |-> 0, data |-> <<2, 2>>]}
MCIds == 1 .. 2
=============================================================================
