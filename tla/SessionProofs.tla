----------------------------- MODULE SessionProofs -----------------------------
(***************************************************************************************)
(* Proofs about a slot from reset to reset, for any cards, commands, delays and        *)
(* failures of the driver:                                                             *)
(*   - answers to reset: how the program reads them agrees with the standard;          *)
(*   - memory cards keep what was written (SessionMemoryKept);                         *)
(*   - T=0: the handler and the card take turns, and what a command returns is its own *)
(*     answer, whole (SessionTypeCorrect, SessionHeaderNotData, SessionAnswersInTurn); *)
(*   - a reset leaves the whole ATR and nothing else (SessionResetIsClean).            *)
(***************************************************************************************)
EXTENDS Session, SequenceTheorems, FiniteSetTheorems, WellFoundedInduction, TLAPS

-------------------------------------------------------------------------------
(* Answers to reset.                                                         *)

LEMMA BitsType ==
  ASSUME NEW b \in AtrByte
  PROVE  /\ Bits(b) \in Nat /\ IsFiniteSet(b.hi)
         /\ "D" \in b.hi => Bits(b) > 0
<1>1. IsFiniteSet({"A", "B", "C", "D"})
  <2>1. PICK a, c, d, e : a = {"A"} /\ c = a \cup {"B"} /\ d = c \cup {"C"} /\ e = d \cup {"D"}
    OBVIOUS
  <2>2. IsFiniteSet(a) /\ IsFiniteSet(c) /\ IsFiniteSet(d) /\ IsFiniteSet(e)
    BY <2>1, FS_Singleton, FS_AddElement
  <2>3. e = {"A", "B", "C", "D"}
    BY <2>1
  <2> QED BY <2>2, <2>3
<1>2. IsFiniteSet(b.hi)
  BY <1>1, FS_Subset DEF AtrByte
<1>3. "D" \in b.hi => Bits(b) # 0
  BY <1>2, FS_EmptySet DEF Bits
<1> QED BY <1>2, <1>3, FS_CardinalityType DEF Bits

\* A set of numbers has a least one.
LEMMA Least ==
  ASSUME NEW S, S \subseteq Nat, S # {}
  PROVE  \E n \in S : \A m \in S : n <= m
<1>1. PICK R : R = {s \in Nat \X Nat : s[1] < s[2]}
  OBVIOUS
<1>2. IsWellFoundedOn(R, Nat)
  <2>1. IsWellFoundedOn({s \in Nat \X Nat : s[1] < s[2]}, Nat)
    BY NatLessThanWellFounded DEF OpToRel
  <2> QED BY <2>1, <1>1, Zenon
<1>3. PICK n \in S : \A m \in S : <<m, n>> \notin R
  BY <1>2, WFMin
<1>4. \A m \in S : ~(m < n)
  BY <1>1, <1>3
<1> QED BY <1>3, <1>4

\* Induction, over a set instead of a predicate.
LEMMA Everywhere ==
  ASSUME NEW lo \in Int, NEW hi \in Int, NEW T,
         \A n \in lo .. hi : (\A m \in n + 1 .. hi : m \in T) => n \in T
  PROVE  \A n \in lo .. hi : n \in T
<1> SUFFICES ASSUME NEW n \in lo .. hi, n \notin T PROVE FALSE
  OBVIOUS
<1>1. PICK S : S = {k \in Nat : k <= hi - lo /\ hi - k \notin T}
  OBVIOUS
<1>2. hi - n \in S /\ S \subseteq Nat
  BY <1>1
<1>3. PICK k \in S : \A m \in S : k <= m
  BY <1>2, Least
<1>4. hi - k \in lo .. hi /\ hi - k \notin T
  BY <1>1, <1>3
<1>5. \A m \in (hi - k) + 1 .. hi : m \in T
  <2> SUFFICES ASSUME NEW m \in (hi - k) + 1 .. hi, m \notin T PROVE FALSE
    OBVIOUS
  <2>1. hi - m \in Nat /\ hi - m < k /\ hi - m <= hi - lo /\ hi - (hi - m) = m
    BY <1>1, <1>3, <1>4
  <2> QED BY <1>1, <1>3, <2>1
<1> QED BY <1>4, <1>5

\* From every place up to hi either one goes on to a later one, and adds something to what
\* comes of that, or one ends.
GoesOn(lo, hi, V, ends, next, end, add) ==
  /\ lo \in Int /\ hi \in Int
  /\ \A n \in lo .. hi : n \in ends => end[n] \in V
  /\ \A n \in lo .. hi : n \notin ends => next[n] \in n + 1 .. hi /\ add[n] \in [V -> V]

Along(f, lo, hi, V, ends, next, end, add) ==
  /\ f \in [lo .. hi -> V]
  /\ \A n \in lo .. hi : f[n] = IF n \in ends THEN end[n] ELSE add[n][f[next[n]]]

LEMMA GoesAlong ==
  ASSUME NEW lo, NEW hi, NEW V, NEW ends, NEW next, NEW end, NEW add,
         GoesOn(lo, hi, V, ends, next, end, add)
  PROVE  \E f : Along(f, lo, hi, V, ends, next, end, add)
<1> USE DEF GoesOn, Along
<1> DEFINE Good(k, g) == /\ g \in [k .. hi -> V]
                         /\ \A n \in k .. hi : g[n] = IF n \in ends THEN end[n] ELSE add[n][g[next[n]]]
<1>1. PICK T : T = {k \in lo .. hi + 1 : \E g : Good(k, g)}
  OBVIOUS
<1>2. ASSUME NEW k \in lo .. hi, k + 1 \in T
      PROVE  k \in T
  <2>1. PICK g : Good(k + 1, g)
    BY <1>1, <1>2
  <2>2. PICK v : v = IF k \in ends THEN end[k] ELSE add[k][g[next[k]]]
    OBVIOUS
  <2>3. v \in V
    <3>1. k \notin ends => next[k] \in k + 1 .. hi /\ add[k] \in [V -> V]
      OBVIOUS
    <3>2. k \notin ends => g[next[k]] \in V
      BY <2>1, <3>1
    <3> QED BY <2>2, <3>1, <3>2
  <2>4. PICK h : h = [n \in k .. hi |-> IF n = k THEN v ELSE g[n]]
    OBVIOUS
  <2>5. h \in [k .. hi -> V] /\ h[k] = v /\ \A n \in k + 1 .. hi : h[n] = g[n]
    BY <2>1, <2>3, <2>4
  <2>6. ASSUME NEW n \in k .. hi
        PROVE  h[n] = IF n \in ends THEN end[n] ELSE add[n][h[next[n]]]
    <3>1. n \notin ends => next[n] \in k + 1 .. hi
      OBVIOUS
    <3>2. n \notin ends => h[next[n]] = g[next[n]]
      BY <2>5, <3>1
    <3>3. CASE n = k
      BY <2>2, <2>5, <3>2, <3>3
    <3>4. CASE n # k
      <4>1. n \in k + 1 .. hi
        BY <3>4
      <4>2. g[n] = IF n \in ends THEN end[n] ELSE add[n][g[next[n]]]
        BY <2>1, <4>1
      <4> QED BY <2>5, <3>2, <4>1, <4>2
    <3> QED BY <3>3, <3>4
  <2> QED BY <1>1, <2>5, <2>6
<1>3. hi + 1 \in lo .. hi + 1 => hi + 1 \in T
  <2>1. PICK g : g = [n \in hi + 1 .. hi |-> 0]
    OBVIOUS
  <2>2. hi + 1 .. hi = {}
    OBVIOUS
  <2>3. Good(hi + 1, g)
    BY <2>1, <2>2
  <2> QED BY <1>1, <2>3
<1>4. \A n \in lo .. hi + 1 : (\A m \in n + 1 .. hi + 1 : m \in T) => n \in T
  <2> SUFFICES ASSUME NEW n \in lo .. hi + 1, \A m \in n + 1 .. hi + 1 : m \in T PROVE n \in T
    OBVIOUS
  <2>1. CASE n = hi + 1
    BY <1>3, <2>1
  <2>2. CASE n # hi + 1
    <3>1. n \in lo .. hi /\ n + 1 \in n + 1 .. hi + 1
      BY <2>2
    <3> QED BY <1>2, <3>1
  <2> QED BY <2>1, <2>2
<1>5. \A n \in lo .. hi + 1 : n \in T
  <2>1. PICK top \in Int : top = hi + 1
    OBVIOUS
  <2> QED BY <1>4, <2>1, Everywhere
<1>6. CASE lo <= hi + 1
  <2>1. lo \in T
    BY <1>5, <1>6
  <2>2. PICK g : Good(lo, g)
    BY <1>1, <2>1
  <2> QED BY <2>2
<1>7. CASE lo > hi + 1
  <2>1. lo .. hi = {}
    BY <1>7
  <2>2. PICK g : g = [n \in lo .. hi |-> 0]
    OBVIOUS
  <2> QED BY <2>1, <2>2
<1> QED BY <1>6, <1>7


\* The chain of T0 and the TDs, as far as the bytes of the ATR go, is the recursion of LastTD.
LEMMA ChainOfBytes ==
  ASSUME NEW ans \in Seq(AtrByte), Len(ans) >= 2
  PROVE  \A n \in 2 .. Len(ans) : /\ ans[n] \in AtrByte /\ Bits(ans[n]) \in Nat /\ ans[n].lo \in Nat
                                  /\ "D" \in ans[n].hi => n + Bits(ans[n]) > n
<1>1. TAKE n \in 2 .. Len(ans)
<1>2. ans[n] \in AtrByte
  OBVIOUS
<1>3. Bits(ans[n]) \in Nat /\ ("D" \in ans[n].hi => Bits(ans[n]) > 0) /\ ans[n].lo \in Nat
  BY <1>2, BitsType DEF AtrByte
<1>4. "D" \in ans[n].hi => n + Bits(ans[n]) > n
  BY <1>3
<1> QED BY <1>2, <1>3, <1>4

LEMMA LastTDIs ==
  ASSUME NEW ans \in Seq(AtrByte), Len(ans) >= 2
  PROVE  \E from : /\ \A n \in 2 .. Len(ans) :
                        from[n] = IF "D" \notin ans[n].hi \/ n + Bits(ans[n]) > Len(ans) THEN n
                                  ELSE from[n + Bits(ans[n])]
                   /\ LastTD(ans) = from[2]
<1>1. PICK top \in Nat : top = Len(ans) /\ top >= 2
  OBVIOUS
<1>2. \A n \in 2 .. top : Bits(ans[n]) \in Nat /\ ("D" \in ans[n].hi => n + Bits(ans[n]) > n)
  BY <1>1, ChainOfBytes
<1>3. PICK next : next = [n \in 2 .. top |-> n + Bits(ans[n])]
  OBVIOUS
<1>4. PICK ends : ends = {n \in 2 .. top : "D" \notin ans[n].hi \/ n + Bits(ans[n]) > top}
  OBVIOUS
<1>5. PICK end : end = [n \in 2 .. top |-> n]
  OBVIOUS
<1>6. PICK add : add = [n \in 2 .. top |-> [v \in 2 .. top |-> v]]
  OBVIOUS
<1>7. PICK V : V = 2 .. top
  OBVIOUS
<1>8. \A n \in 2 .. top : n \in ends => end[n] \in V
  BY <1>5, <1>7
<1>9. \A n \in 2 .. top : n \notin ends => next[n] \in n + 1 .. top /\ add[n] \in [V -> V]
  BY <1>2, <1>3, <1>4, <1>6, <1>7, SMTT(60)
<1>10. PICK f \in [2 .. top -> V] :
         \A n \in 2 .. top : f[n] = IF n \in ends THEN end[n] ELSE add[n][f[next[n]]]
  <2>1. GoesOn(2, top, V, ends, next, end, add)
    BY <1>8, <1>9 DEF GoesOn
  <2>2. \E f : Along(f, 2, top, V, ends, next, end, add)
    BY <2>1, GoesAlong
  <2> QED BY <2>2 DEF Along
<1>11. \A n \in 2 .. top : f[n] = IF "D" \notin ans[n].hi \/ n + Bits(ans[n]) > top THEN n
                                 ELSE f[n + Bits(ans[n])]
  <2> SUFFICES ASSUME NEW n \in 2 .. top
               PROVE  f[n] = IF "D" \notin ans[n].hi \/ n + Bits(ans[n]) > top THEN n ELSE f[n + Bits(ans[n])]
    OBVIOUS
  <2>1. CASE n \in ends
    BY <1>4, <1>5, <1>10, <2>1
  <2>2. CASE n \notin ends
    <3>1. next[n] = n + Bits(ans[n]) /\ next[n] \in 2 .. top
      BY <1>3, <1>9, <2>2
    <3>2. f[next[n]] \in 2 .. top
      BY <1>7, <1>10, <3>1
    <3>3. add[n][f[next[n]]] = f[next[n]]
      BY <1>6, <3>2
    <3> QED BY <1>4, <1>10, <2>2, <3>1, <3>3
  <2> QED BY <2>1, <2>2
<1>12. \E from : from = [n \in 2 .. Len(ans) |-> IF "D" \notin ans[n].hi \/ n + Bits(ans[n]) > Len(ans) THEN n
                                                ELSE from[n + Bits(ans[n])]]
  BY <1>1, <1>10, <1>11
<1>13. PICK from : /\ from = [n \in 2 .. Len(ans) |-> IF "D" \notin ans[n].hi \/ n + Bits(ans[n]) > Len(ans) THEN n
                                                ELSE from[n + Bits(ans[n])]]
                   /\ LastTD(ans) = from[2]
  BY <1>12, Zenon DEF LastTD
<1> QED BY <1>13

\* The places of T0 and the TDs, as far as the bytes go.
Places(ans, k, td) ==
  /\ k \in Nat \ {0} /\ \A j \in 1 .. k : td[j] \in 2 .. Len(ans)
  /\ td[1] = 2
  /\ \A j \in 1 .. k - 1 : "D" \in ans[td[j]].hi /\ td[j + 1] = td[j] + Bits(ans[td[j]])

LEMMA LastPlace ==
  ASSUME NEW ans \in Seq(AtrByte), Len(ans) >= 2, NEW k, NEW td, Places(ans, k, td),
         "D" \notin ans[td[k]].hi \/ td[k] + Bits(ans[td[k]]) > Len(ans)
  PROVE  LastTD(ans) = td[k]
<1>1. PICK from : /\ \A n \in 2 .. Len(ans) :
                       from[n] = IF "D" \notin ans[n].hi \/ n + Bits(ans[n]) > Len(ans) THEN n
                                 ELSE from[n + Bits(ans[n])]
                  /\ LastTD(ans) = from[2]
  BY LastTDIs
<1>2. PICK T : T = {j \in 1 .. k : from[td[j]] = td[k]}
  OBVIOUS
<1>3. k \in Nat \ {0} /\ 1 \in Int /\ k \in Int
  BY DEF Places
<1>4. \A j \in 1 .. k : (\A i \in j + 1 .. k : i \in T) => j \in T
  <2> SUFFICES ASSUME NEW j \in 1 .. k, \A i \in j + 1 .. k : i \in T PROVE from[td[j]] = td[k]
    BY <1>2
  <2>1. td[j] \in 2 .. Len(ans)
    BY DEF Places
  <2>2. CASE j = k
    BY <1>1, <2>1, <2>2
  <2>3. CASE j # k
    <3>1. j \in 1 .. k - 1 /\ j + 1 \in j + 1 .. k /\ j + 1 \in 1 .. k
      BY <1>3, <2>3
    <3>2. "D" \in ans[td[j]].hi /\ td[j + 1] = td[j] + Bits(ans[td[j]]) /\ td[j + 1] \in 2 .. Len(ans)
      BY <3>1 DEF Places
    <3>3. from[td[j + 1]] = td[k]
      BY <1>2, <3>1
    <3>4. ~(td[j] + Bits(ans[td[j]]) > Len(ans))
      BY <3>2
    <3> QED BY <1>1, <2>1, <3>2, <3>3, <3>4
  <2> QED BY <2>2, <2>3
<1>5. \A j \in 1 .. k : j \in T
  <2>1. PICK one \in Int : one = 1
    OBVIOUS
  <2>2. \A j \in one .. k : j \in T
    BY <1>3, <1>4, <2>1, Everywhere
  <2> QED BY <2>1, <2>2
<1>6. from[td[1]] = td[k]
  BY <1>2, <1>3, <1>5
<1>7. td[1] = 2
  BY DEF Places
<1> QED BY <1>1, <1>6, <1>7

\* How many of the places are among the first n bytes.
LEMMA PlacesUpTo ==
  ASSUME NEW ans, NEW k, NEW td, Places(ans, k, td), NEW n \in Nat, 2 <= n
  PROVE  \E m \in 1 .. k : (\A j \in 1 .. m : td[j] <= n) /\ (m = k \/ td[m + 1] > n)
<1>1. PICK S : S = {m \in 1 .. k : m = k \/ td[m + 1] > n}
  OBVIOUS
<1>2. k \in S /\ S \subseteq Nat
  BY <1>1 DEF Places
<1>3. PICK m \in S : \A i \in S : m <= i
  BY <1>2, Least
<1>4. \A j \in 1 .. m : td[j] <= n
  <2> SUFFICES ASSUME NEW j \in 1 .. m PROVE td[j] <= n
    OBVIOUS
  <2>1. m \in 1 .. k /\ k \in Nat
    BY <1>1, <1>3 DEF Places
  <2>2. CASE j = 1
    BY <2>2 DEF Places
  <2>3. CASE j # 1
    <3>1. j - 1 \in 1 .. k /\ ~(m <= j - 1) /\ j - 1 # k /\ (j - 1) + 1 = j
      BY <2>1, <2>3
    <3>2. j - 1 \notin S
      BY <1>3, <3>1
    <3>3. ~(td[j] > n) /\ td[j] \in Int
      <4>1. td[j] \in Int
        BY <2>1 DEF Places
      <4> QED BY <1>1, <3>1, <3>2, <4>1
    <3> QED BY <3>3
  <2> QED BY <2>2, <2>3
<1> QED BY <1>1, <1>3, <1>4

\* What ifd_card_request expects, once the place where the chain ends is known.
LEMMA Expected ==
  ASSUME NEW ans, NEW last, LastTD(ans) = last
  PROVE  AtrExpected(ans) = last + Bits(ans[last]) + ans[2].lo
                            + (IF last > 2 /\ ans[last].lo # 0 THEN 1 ELSE 0)
BY DEF AtrExpected

LEMMA AtLeastTwo ==
  ASSUME NEW n, n \in 2 .. 33
  PROVE  n \in Nat /\ n >= 2
BY SMT

\* A card's answer is a string of at least two bytes.
LEMMA AtrString ==
  ASSUME NEW ans, IsAtr(ans)
  PROVE  /\ ans \in Seq(AtrByte) /\ Len(ans) \in Nat /\ Len(ans) >= 2
         /\ DOMAIN ans = 1 .. Len(ans)
<1>1. ans \in Seq(AtrByte) /\ Len(ans) \in 2 .. 33
  BY ZenonT(60) DEF IsAtr
<1>2. Len(ans) \in Nat /\ Len(ans) >= 2
  BY <1>1, AtLeastTwo, ZenonT(60)
<1>3. DOMAIN ans = 1 .. Len(ans)
  BY <1>1, LenProperties, ZenonT(60)
<1> QED BY <1>1, <1>2, <1>3, ZenonT(60)

\* Of the answer of a card, ifd_atr_complete is content with the whole and with no less of
\* it, and the loop of ifd_card_request reads the whole.
LEMMA AtrOfCard ==
  ASSUME NEW ans, IsAtr(ans)
  PROVE  /\ AtrExpected(ans) = Len(ans) /\ Len(ans) \in Nat
         /\ \A n \in 0 .. Len(ans) : AtrComplete(ans, n) <=> n = Len(ans)
<1>1. PICK top \in Nat : top = Len(ans) /\ top >= 2
  BY AtrString
<1>2. ans \in Seq(AtrByte) /\ DOMAIN ans = 1 .. top
  BY <1>1, AtrString
<1>3. PICK k \in 1 .. top : \E td \in [1 .. k -> 2 .. top] :
          /\ td[1] = 2
          /\ \A j \in 1 .. k - 1 : "D" \in ans[td[j]].hi /\ td[j + 1] = td[j] + Bits(ans[td[j]])
          /\ "D" \notin ans[td[k]].hi
          /\ \A i, j \in 2 .. k : i <= j => ans[td[i]].lo <= ans[td[j]].lo
          /\ top = td[k] + Bits(ans[td[k]]) + ans[2].lo
                        + (IF \A j \in 2 .. k : ans[td[j]].lo = 0 THEN 0 ELSE 1)
  BY <1>1 DEF IsAtr
<1>4. PICK td \in [1 .. k -> 2 .. top] :
          /\ td[1] = 2
          /\ \A j \in 1 .. k - 1 : "D" \in ans[td[j]].hi /\ td[j + 1] = td[j] + Bits(ans[td[j]])
          /\ "D" \notin ans[td[k]].hi
          /\ \A i, j \in 2 .. k : i <= j => ans[td[i]].lo <= ans[td[j]].lo
          /\ top = td[k] + Bits(ans[td[k]]) + ans[2].lo
                        + (IF \A j \in 2 .. k : ans[td[j]].lo = 0 THEN 0 ELSE 1)
  BY <1>3
<1>5. \A j \in 1 .. k : td[j] \in 2 .. top
  OBVIOUS
<1>6. \A n \in 2 .. top : /\ ans[n] \in AtrByte /\ Bits(ans[n]) \in Nat /\ ans[n].lo \in Nat
                          /\ "D" \in ans[n].hi => n + Bits(ans[n]) > n
  BY <1>1, <1>2, ChainOfBytes
<1>7. k # 1 => td[k] > 2
  <2> SUFFICES ASSUME k # 1 PROVE td[k] > 2
    OBVIOUS
  <2>1. k - 1 \in 1 .. k - 1 /\ (k - 1) + 1 = k /\ k - 1 \in 1 .. k
    OBVIOUS
  <2>2. "D" \in ans[td[k - 1]].hi /\ td[k] = td[k - 1] + Bits(ans[td[k - 1]]) /\ td[k - 1] \in 2 .. top
    BY <1>4, <1>5, <2>1
  <2> QED BY <1>6, <2>2
<1>8. (IF \A j \in 2 .. k : ans[td[j]].lo = 0 THEN 0 ELSE 1) = (IF td[k] > 2 /\ ans[td[k]].lo # 0 THEN 1 ELSE 0)
  <2>1. CASE k = 1
    <3>1. td[k] = 2 /\ 2 .. k = {}
      BY <1>4, <2>1
    <3> QED BY <3>1
  <2>2. CASE k # 1
    <3>1. k \in 2 .. k /\ td[k] > 2
      BY <1>7, <2>2
    <3>2. \A j \in 2 .. k : ans[td[j]].lo <= ans[td[k]].lo
      BY <1>4, <3>1
    <3>3. \A j \in 2 .. k : ans[td[j]].lo \in Nat
      BY <1>5, <1>6
    <3>4. ans[td[k]].lo = 0 => \A j \in 2 .. k : ans[td[j]].lo = 0
      BY <3>2, <3>3
    <3> QED BY <3>1, <3>4
  <2> QED BY <2>1, <2>2
<1>9. top = td[k] + Bits(ans[td[k]]) + ans[2].lo + (IF td[k] > 2 /\ ans[td[k]].lo # 0 THEN 1 ELSE 0)
  BY <1>4, <1>8
<1>10. ASSUME NEW n \in 2 .. top
       PROVE  \E s \in Seq(AtrByte) : /\ s = SubSeq(ans, 1, n) /\ Len(s) = n
                                      /\ \A i \in 1 .. n : s[i] = ans[i]
  <2>1. PICK s : s = SubSeq(ans, 1, n)
    OBVIOUS
  <2>2. s \in Seq(AtrByte) /\ Len(s) = n /\ \A i \in 1 .. n : s[i] = ans[i]
    BY <1>1, <1>2, <2>1, SubSeqProperties
  <2> QED BY <2>1, <2>2
<1>11. ASSUME NEW n \in 2 .. top, NEW s \in Seq(AtrByte), Len(s) = n, \A i \in 1 .. n : s[i] = ans[i]
       PROVE  \E m \in 1 .. k : /\ LastTD(s) = td[m] /\ s[td[m]] = ans[td[m]] /\ s[2] = ans[2]
                                /\ m # k => n < top
                                /\ "D" \in s[td[m]].hi <=> m # k
  <2>1. Places(ans, k, td)
    BY <1>1, <1>4, <1>5 DEF Places
  <2>2. PICK m \in 1 .. k : (\A j \in 1 .. m : td[j] <= n) /\ (m = k \/ td[m + 1] > n)
    <3>1. n \in Nat /\ 2 <= n
      OBVIOUS
    <3> QED BY <2>1, <3>1, PlacesUpTo
  <2>3. \A j \in 1 .. m : td[j] \in 2 .. n /\ s[td[j]] = ans[td[j]]
    BY <1>5, <1>11, <2>2
  <2>4. \A j \in 1 .. m - 1 : "D" \in s[td[j]].hi /\ td[j + 1] = td[j] + Bits(s[td[j]])
    <3> SUFFICES ASSUME NEW j \in 1 .. m - 1
                 PROVE  "D" \in s[td[j]].hi /\ td[j + 1] = td[j] + Bits(s[td[j]])
      OBVIOUS
    <3>1. j \in 1 .. k - 1 /\ j \in 1 .. m
      OBVIOUS
    <3> QED BY <1>4, <2>3, <3>1
  <2>5. Places(s, m, td)
    BY <1>4, <1>11, <2>3, <2>4 DEF Places
  <2>6. m # k => /\ "D" \in s[td[m]].hi /\ td[m] + Bits(s[td[m]]) > n /\ n < top
    <3> SUFFICES ASSUME m # k PROVE /\ "D" \in s[td[m]].hi /\ td[m] + Bits(s[td[m]]) > n /\ n < top
      OBVIOUS
    <3>1. m \in 1 .. k - 1 /\ m + 1 \in 1 .. k /\ m \in 1 .. m
      OBVIOUS
    <3>2. "D" \in ans[td[m]].hi /\ td[m + 1] = td[m] + Bits(ans[td[m]]) /\ td[m + 1] > n /\ td[m + 1] \in 2 .. top
      BY <1>4, <1>5, <2>2, <3>1
    <3> QED BY <2>3, <3>1, <3>2
  <2>7. m = k => "D" \notin s[td[m]].hi
    BY <1>4, <2>3
  <2>8. LastTD(s) = td[m]
    <3>1. Len(s) >= 2
      BY <1>11
    <3>2. "D" \notin s[td[m]].hi \/ td[m] + Bits(s[td[m]]) > Len(s)
      BY <1>11, <2>6, <2>7
    <3> QED BY <2>5, <3>1, <3>2, LastPlace
  <2>9. s[2] = ans[2] /\ s[td[m]] = ans[td[m]]
    BY <1>11, <2>3
  <2> QED BY <2>6, <2>7, <2>8, <2>9
<1>12. AtrExpected(ans) = top
  <2>1. PICK m \in 1 .. k : LastTD(ans) = td[m] /\ (m # k => top < top)
    BY <1>1, <1>2, <1>11
  <2>2. LastTD(ans) = td[k]
    BY <2>1
  <2> QED BY <1>9, <2>2, Expected
<1>13. ASSUME NEW n \in 0 .. top
       PROVE  AtrComplete(ans, n) <=> n = top
  <2>1. CASE n < 2
    BY <1>1, <2>1 DEF AtrComplete
  <2>2. CASE n \in 2 .. top
    <3>1. PICK s \in Seq(AtrByte) : s = SubSeq(ans, 1, n) /\ Len(s) = n /\ \A i \in 1 .. n : s[i] = ans[i]
      BY <1>10, <2>2
    <3>2. PICK m \in 1 .. k : /\ LastTD(s) = td[m] /\ s[td[m]] = ans[td[m]] /\ s[2] = ans[2]
                              /\ m # k => n < top
                              /\ "D" \in s[td[m]].hi <=> m # k
      BY <1>11, <2>2, <3>1
    <3>3. AtrComplete(ans, n) <=> "D" \notin s[td[m]].hi /\ n >= AtrExpected(s)
      <4>1. AtrComplete(ans, n) <=> n >= 2 /\ "D" \notin s[LastTD(s)].hi /\ n >= AtrExpected(s)
        BY <3>1, Zenon DEF AtrComplete
      <4>2. n >= 2
        BY <2>2
      <4> QED BY <3>2, <4>1, <4>2, Zenon
    <3>4. m = k => AtrExpected(s) = top
      BY <1>9, <3>2, Expected
    <3>5. CASE m = k
      BY <3>2, <3>3, <3>4, <3>5
    <3>6. CASE m # k
      BY <3>2, <3>3, <3>6
    <3> QED BY <3>5, <3>6
  <2> QED BY <2>1, <2>2
<1> QED BY <1>1, <1>12, <1>13

-------------------------------------------------------------------------------
(* The protocols that an ATR offers.                                         *)

\* Where the historical bytes begin, as ifd_atr_parse and ifd_protocol_select count.
Historical(ans) == Len(ans) - ans[2].lo

LEMMA HistoricalType ==
  ASSUME NEW ans \in Seq(AtrByte), Len(ans) >= 2
  PROVE  Historical(ans) \in Int /\ Historical(ans) <= Len(ans)
<1>1. PICK lo \in Nat : lo = ans[2].lo
  BY ChainOfBytes
<1> QED BY <1>1 DEF Historical

NamedFrom(ans, from, n) ==
  IF "D" \in ans[n].hi /\ n + Bits(ans[n]) < Historical(ans)
  THEN {ans[n + Bits(ans[n])].lo} \cup from[n + Bits(ans[n])] ELSE {}

LEMMA NamedIs ==
  ASSUME NEW ans \in Seq(AtrByte), Len(ans) >= 2
  PROVE  \E from : (\A n \in 2 .. Len(ans) : from[n] = NamedFrom(ans, from, n)) /\ Named(ans) = from[2]
<1>1. PICK top \in Nat : top = Len(ans) /\ top >= 2
  OBVIOUS
<1>2. \A n \in 2 .. top : /\ Bits(ans[n]) \in Nat /\ ans[n].lo \in 0 .. 15
                          /\ "D" \in ans[n].hi => n + Bits(ans[n]) > n
  BY <1>1, ChainOfBytes DEF AtrByte
<1>3. PICK len \in Int : len = Historical(ans) /\ len <= top
  BY <1>1, HistoricalType
<1>4. PICK next : next = [n \in 2 .. top |-> n + Bits(ans[n])]
  OBVIOUS
<1>5. PICK ends : ends = {n \in 2 .. top : ~("D" \in ans[n].hi /\ n + Bits(ans[n]) < len)}
  OBVIOUS
<1>6. PICK end : end = [n \in 2 .. top |-> {}]
  OBVIOUS
<1>7. PICK V : V = SUBSET (0 .. 15)
  OBVIOUS
<1>8. PICK add : add = [n \in 2 .. top |-> [v \in V |-> {ans[next[n]].lo} \cup v]]
  OBVIOUS
<1>9. \A n \in 2 .. top : n \in ends => end[n] \in V
  BY <1>6, <1>7
<1>10. \A n \in 2 .. top : n \notin ends => next[n] \in n + 1 .. top /\ add[n] \in [V -> V]
  <2> SUFFICES ASSUME NEW n \in 2 .. top, n \notin ends PROVE next[n] \in n + 1 .. top /\ add[n] \in [V -> V]
    OBVIOUS
  <2>1. next[n] \in n + 1 .. top
    <3>1. PICK b \in Nat : b = Bits(ans[n])
      BY <1>2
    <3>2. next[n] = n + b /\ n + b > n /\ n + b < len
      BY <1>2, <1>4, <1>5, <3>1
    <3> QED BY <1>3, <3>2
  <2>2. ans[next[n]].lo \in 0 .. 15
    <3>1. next[n] \in 2 .. top
      BY <2>1
    <3> QED BY <1>2, <3>1
  <2> QED BY <1>7, <1>8, <2>1, <2>2
<1>11. PICK f : Along(f, 2, top, V, ends, next, end, add)
  <2>1. GoesOn(2, top, V, ends, next, end, add)
    BY <1>9, <1>10 DEF GoesOn
  <2> QED BY <2>1, GoesAlong
<1>12. f \in [2 .. top -> V] /\ \A n \in 2 .. top : f[n] = NamedFrom(ans, f, n)
  <2>1. f \in [2 .. top -> V]
    BY <1>11 DEF Along
  <2>2. ASSUME NEW n \in 2 .. top
        PROVE  f[n] = NamedFrom(ans, f, n)
    <3>1. f[n] = IF n \in ends THEN end[n] ELSE add[n][f[next[n]]]
      BY <1>11 DEF Along
    <3>2. CASE n \in ends
      BY <1>3, <1>5, <1>6, <3>1, <3>2 DEF NamedFrom
    <3>3. CASE n \notin ends
      <4>1. next[n] = n + Bits(ans[n]) /\ f[next[n]] \in V
        BY <1>4, <1>10, <2>1, <3>3
      <4>2. add[n][f[next[n]]] = {ans[next[n]].lo} \cup f[next[n]]
        BY <1>8, <4>1
      <4> QED BY <1>3, <1>5, <3>1, <3>3, <4>1, <4>2 DEF NamedFrom
    <3> QED BY <3>2, <3>3
  <2> QED BY <2>1, <2>2
<1>13. f = [n \in 2 .. Len(ans) |-> NamedFrom(ans, f, n)]
  BY <1>1, <1>12
<1>14. PICK from : /\ from = [n \in 2 .. Len(ans) |-> NamedFrom(ans, from, n)]
                   /\ Named(ans) = from[2]
  BY <1>13, Zenon DEF Named, NamedFrom, Historical
<1> QED BY <1>14

\* ifd_atr_parse, from the place n on.
Parses == [ok : BOOLEAN, prots : Seq(0 .. 15), left : Int]
Own(ans, n) == IF n = 2 THEN <<>> ELSE <<ans[n].lo>>
ParsedFrom(ans, from, n) ==
  IF n >= Historical(ans) THEN [ok |-> TRUE, prots |-> <<>>, left |-> 0]
  ELSE IF Bits(ans[n]) = 0 \/ n + Bits(ans[n]) > Historical(ans)
       THEN [ok |-> FALSE, prots |-> <<>>, left |-> 0]
  ELSE IF "D" \in ans[n].hi
       THEN [from[n + Bits(ans[n])] EXCEPT !.prots = Own(ans, n) \o @]
  ELSE [ok |-> TRUE, prots |-> Own(ans, n), left |-> Historical(ans) - (n + Bits(ans[n]))]

\* What ifd_atr_parse says of the protocols.
ParseSays(info, chain) ==
  LET named == {chain.prots[i] : i \in DOMAIN chain.prots}
  IN  /\ info.ok => chain.ok
      /\ info.default = IF named = {} THEN 0 ELSE chain.prots[1]
      /\ info.supported = IF named = {} THEN {0} ELSE named

LEMMA ParsesIs ==
  ASSUME NEW ans \in Seq(AtrByte), Len(ans) >= 2
  PROVE  \E from : /\ \A n \in 2 .. Len(ans) : from[n] = ParsedFrom(ans, from, n)
                   /\ ParseSays(AtrParse(ans), from[2])
<1>1. PICK top \in Nat : top = Len(ans) /\ top >= 2
  OBVIOUS
<1>2. \A n \in 2 .. top : /\ Bits(ans[n]) \in Nat /\ ans[n].lo \in 0 .. 15
                          /\ "D" \in ans[n].hi => n + Bits(ans[n]) > n
  BY <1>1, ChainOfBytes DEF AtrByte
<1>3. PICK len \in Int : len = Historical(ans) /\ len <= top
  BY <1>1, HistoricalType
<1>4. PICK next : next = [n \in 2 .. top |-> n + Bits(ans[n])]
  OBVIOUS
<1>5. PICK ends : ends = {n \in 2 .. top : \/ n >= len \/ Bits(ans[n]) = 0 \/ next[n] > len
                                           \/ "D" \notin ans[n].hi}
  OBVIOUS
<1>6. PICK end : end = [n \in 2 .. top |-> ParsedFrom(ans, <<>>, n)]
  OBVIOUS
<1>7. PICK V : V = Parses
  OBVIOUS
<1>8. PICK add : add = [n \in 2 .. top |-> [v \in V |-> [v EXCEPT !.prots = Own(ans, n) \o @]]]
  OBVIOUS
<1>9. \A n \in 2 .. top : Own(ans, n) \in Seq(0 .. 15)
  <2> SUFFICES ASSUME NEW n \in 2 .. top PROVE Own(ans, n) \in Seq(0 .. 15)
    OBVIOUS
  <2>1. PICK lo \in 0 .. 15 : lo = ans[n].lo
    BY <1>2
  <2>2. <<lo>> \in Seq(0 .. 15) /\ <<>> \in Seq(0 .. 15)
    OBVIOUS
  <2> QED BY <2>1, <2>2 DEF Own
<1>10. \A n \in 2 .. top : n \in ends => end[n] \in V
  <2> SUFFICES ASSUME NEW n \in 2 .. top, n \in ends PROVE ParsedFrom(ans, <<>>, n) \in Parses
    BY <1>6, <1>7
  <2>1. PICK own \in Seq(0 .. 15) : own = Own(ans, n)
    BY <1>9
  <2>2. PICK b \in Nat : b = Bits(ans[n])
    BY <1>2
  <2>3. n >= len \/ b = 0 \/ n + b > len \/ "D" \notin ans[n].hi
    BY <1>4, <1>5, <2>2
  <2> QED BY <1>3, <2>1, <2>2, <2>3 DEF ParsedFrom, Parses
<1>11. \A n \in 2 .. top : n \notin ends => next[n] \in n + 1 .. top /\ add[n] \in [V -> V]
  <2> SUFFICES ASSUME NEW n \in 2 .. top, n \notin ends PROVE next[n] \in n + 1 .. top /\ add[n] \in [V -> V]
    OBVIOUS
  <2>1. next[n] \in n + 1 .. top
    <3>1. PICK b \in Nat : b = Bits(ans[n])
      BY <1>2
    <3>2. next[n] = n + b /\ n + b > n /\ ~(n + b > len)
      BY <1>2, <1>4, <1>5, <3>1
    <3> QED BY <1>3, <3>2
  <2>2. ASSUME NEW v \in Parses
        PROVE  [v EXCEPT !.prots = Own(ans, n) \o @] \in Parses
    <3>1. PICK own \in Seq(0 .. 15) : own = Own(ans, n)
      BY <1>9
    <3>2. PICK prots \in Seq(0 .. 15) : prots = v.prots
      BY DEF Parses
    <3>3. PICK both \in Seq(0 .. 15) : both = own \o prots
      BY ConcatProperties
    <3>4. [v EXCEPT !.prots = both] \in Parses
      BY DEF Parses
    <3> QED BY <3>1, <3>2, <3>3, <3>4
  <2> QED BY <1>7, <1>8, <2>1, <2>2
<1>12. PICK f : Along(f, 2, top, V, ends, next, end, add)
  <2>1. GoesOn(2, top, V, ends, next, end, add)
    BY <1>10, <1>11 DEF GoesOn
  <2> QED BY <2>1, GoesAlong
<1>13. f \in [2 .. top -> V] /\ \A n \in 2 .. top : f[n] = ParsedFrom(ans, f, n)
  <2>1. f \in [2 .. top -> V]
    BY <1>12 DEF Along
  <2>2. ASSUME NEW n \in 2 .. top
        PROVE  f[n] = ParsedFrom(ans, f, n)
    <3>1. f[n] = IF n \in ends THEN end[n] ELSE add[n][f[next[n]]]
      BY <1>12 DEF Along
    <3>2. CASE n \in ends
      <4>1. f[n] = ParsedFrom(ans, <<>>, n)
        BY <1>6, <3>1, <3>2
      <4>2. n >= len \/ Bits(ans[n]) = 0 \/ n + Bits(ans[n]) > len \/ "D" \notin ans[n].hi
        BY <1>4, <1>5, <3>2
      <4>3. ParsedFrom(ans, <<>>, n) = ParsedFrom(ans, f, n)
        BY <1>3, <4>2 DEF ParsedFrom
      <4> QED BY <4>1, <4>3
    <3>3. CASE n \notin ends
      <4>1. next[n] = n + Bits(ans[n]) /\ f[next[n]] \in V
        BY <1>4, <1>11, <2>1, <3>3
      <4>2. add[n][f[next[n]]] = [f[next[n]] EXCEPT !.prots = Own(ans, n) \o @]
        BY <1>8, <4>1
      <4>3. ~(n >= len) /\ Bits(ans[n]) # 0 /\ ~(n + Bits(ans[n]) > len) /\ "D" \in ans[n].hi
        BY <1>4, <1>5, <3>3
      <4>4. ParsedFrom(ans, f, n) = [f[n + Bits(ans[n])] EXCEPT !.prots = Own(ans, n) \o @]
        BY <1>3, <4>3, Zenon DEF ParsedFrom
      <4> QED BY <3>1, <3>3, <4>1, <4>2, <4>4
    <3> QED BY <3>2, <3>3
  <2> QED BY <2>1, <2>2
<1>14. f = [n \in 2 .. Len(ans) |-> ParsedFrom(ans, f, n)]
  BY <1>1, <1>13
<1>15. PICK from : from = (CHOOSE f2 : f2 = [n \in 2 .. Len(ans) |-> ParsedFrom(ans, f2, n)])
  OBVIOUS
<1>16. from = [n \in 2 .. Len(ans) |-> ParsedFrom(ans, from, n)]
  BY <1>14, <1>15, Zenon
<1>17. PICK chain : chain = from[2]
  OBVIOUS
<1>18. PICK named : named = {chain.prots[i] : i \in DOMAIN chain.prots}
  OBVIOUS
<1>19. AtrParse(ans).ok => chain.ok
  BY <1>15, <1>17, Zenon DEF AtrParse, ParsedFrom, Own, Historical
<1>20. AtrParse(ans).default = IF named = {} THEN 0 ELSE chain.prots[1]
  <2>1. CASE named = {}
    <3>1. AtrParse(ans).default = 0
      BY <1>15, <1>17, <1>18, <2>1, Zenon DEF AtrParse, ParsedFrom, Own, Historical
    <3> QED BY <2>1, <3>1
  <2>2. CASE named # {}
    <3>1. AtrParse(ans).default = chain.prots[1]
      BY <1>15, <1>17, <1>18, <2>2, Zenon DEF AtrParse, ParsedFrom, Own, Historical
    <3> QED BY <2>2, <3>1
  <2> QED BY <2>1, <2>2
<1>21. AtrParse(ans).supported = IF named = {} THEN {0} ELSE named
  BY <1>15, <1>17, <1>18, ZenonT(60) DEF AtrParse, ParsedFrom, Own, Historical
<1>22. ParseSays(AtrParse(ans), from[2])
  BY <1>17, <1>18, <1>19, <1>20, <1>21, ZenonT(60) DEF ParseSays
<1>23. \A n \in 2 .. Len(ans) : from[n] = ParsedFrom(ans, from, n)
  BY <1>16
<1> QED BY <1>22, <1>23, Zenon

Offers(prots) == {prots[i] : i \in DOMAIN prots}

LEMMA OneMore ==
  ASSUME NEW x \in 0 .. 15, NEW s \in Seq(0 .. 15), NEW t, t = <<x>> \o s
  PROVE  t \in Seq(0 .. 15) /\ t # <<>> /\ t[1] = x /\ Offers(t) = {x} \cup Offers(s)
<1>1. PICK a \in Seq(0 .. 15) : a = <<x>> /\ Len(a) = 1 /\ a[1] = x
  <2>1. <<x>> \in Seq(0 .. 15) /\ Len(<<x>>) = 1 /\ <<x>>[1] = x
    OBVIOUS
  <2> QED BY <2>1
<1>2. /\ t \in Seq(0 .. 15) /\ Len(t) = 1 + Len(s)
      /\ \A i \in 1 .. 1 + Len(s) : t[i] = IF i <= 1 THEN a[i] ELSE s[i - 1]
  BY <1>1, ConcatProperties
<1>3. t[1] = x /\ \A i \in 1 .. Len(s) : t[i + 1] = s[i]
  BY <1>1, <1>2
<1>4. Offers(t) \subseteq {x} \cup Offers(s)
  <2> SUFFICES ASSUME NEW i \in 1 .. 1 + Len(s) PROVE t[i] \in {x} \cup Offers(s)
    BY <1>2 DEF Offers
  <2>1. CASE i = 1
    BY <1>3, <2>1
  <2>2. CASE i # 1
    <3>1. i - 1 \in 1 .. Len(s) /\ t[i] = s[i - 1]
      BY <1>2, <2>2
    <3> QED BY <3>1 DEF Offers
  <2> QED BY <2>1, <2>2
<1>5. {x} \cup Offers(s) \subseteq Offers(t)
  <2>1. 1 \in DOMAIN t /\ \A i \in 1 .. Len(s) : i + 1 \in DOMAIN t
    BY <1>2
  <2>2. DOMAIN s = 1 .. Len(s)
    OBVIOUS
  <2> QED BY <1>3, <2>1, <2>2 DEF Offers
<1> QED BY <1>2, <1>3, <1>4, <1>5

\* What ifd_atr_parse has found from the place n on, if it is content: the protocol that n
\* itself names, unless n is T0, and then those that ifd_protocol_select would come across.
FoundFrom(ans, parse, named, n) ==
  /\ parse.prots \in Seq(0 .. 15)
  /\ n >= Historical(ans) => parse.prots = <<>>
  /\ ~(n >= Historical(ans)) =>
       \E rest \in Seq(0 .. 15) :
         /\ parse.prots = Own(ans, n) \o rest
         /\ Offers(rest) = named
         /\ rest # <<>> => rest[1] = ans[n + Bits(ans[n])].lo

LEMMA NothingOffered ==
  /\ <<>> \in Seq(0 .. 15) /\ Offers(<<>>) = {}
  /\ \A s \in Seq(0 .. 15) : s # <<>> => s[1] \in Offers(s) /\ s[1] \in 0 .. 15
BY DEF Offers

LEMMA ParseFinds ==
  ASSUME NEW ans \in Seq(AtrByte), Len(ans) >= 2, NEW nf, NEW pf,
         \A n \in 2 .. Len(ans) : nf[n] = NamedFrom(ans, nf, n),
         \A n \in 2 .. Len(ans) : pf[n] = ParsedFrom(ans, pf, n)
  PROVE  \A n \in 2 .. Len(ans) : pf[n] \in Parses /\ (pf[n].ok => FoundFrom(ans, pf[n], nf[n], n))
<1>1. PICK top \in Nat : top = Len(ans) /\ top >= 2
  OBVIOUS
<1>2. \A n \in 2 .. top : /\ Bits(ans[n]) \in Nat /\ ans[n].lo \in 0 .. 15
                          /\ "D" \in ans[n].hi => n + Bits(ans[n]) > n
  BY <1>1, ChainOfBytes DEF AtrByte
<1>3. PICK len \in Int : len = Historical(ans) /\ len <= top
  BY <1>1, HistoricalType
<1>4. PICK T : T = {n \in 2 .. top : pf[n] \in Parses /\ (pf[n].ok => FoundFrom(ans, pf[n], nf[n], n))}
  OBVIOUS
<1>5. ASSUME NEW n \in 2 .. top, \A m \in n + 1 .. top : m \in T
      PROVE  pf[n] \in Parses /\ (pf[n].ok => FoundFrom(ans, pf[n], nf[n], n))
  <2>1. PICK b \in Nat : b = Bits(ans[n]) /\ ("D" \in ans[n].hi => n + b > n)
    BY <1>2
  <2>2. PICK lo \in 0 .. 15 : lo = ans[n].lo
    BY <1>2
  <2>3. PICK own \in Seq(0 .. 15) : own = Own(ans, n) /\ own \o <<>> = own
    <3>1. <<lo>> \in Seq(0 .. 15) /\ <<>> \in Seq(0 .. 15) /\ <<lo>> \o <<>> = <<lo>> /\ <<>> \o <<>> = <<>>
      BY ConcatEmptySeq
    <3> QED BY <2>2, <3>1 DEF Own
  <2>4. CASE n >= len
    <3>1. pf[n] = [ok |-> TRUE, prots |-> <<>>, left |-> 0]
      BY <1>1, <1>3, <2>4, Zenon DEF ParsedFrom
    <3> QED BY <1>3, <2>4, <3>1 DEF Parses, FoundFrom
  <2>5. CASE ~(n >= len) /\ (b = 0 \/ n + b > len)
    <3>1. pf[n] = [ok |-> FALSE, prots |-> <<>>, left |-> 0]
      BY <1>1, <1>3, <2>1, <2>5, Zenon DEF ParsedFrom
    <3> QED BY <3>1 DEF Parses
  <2>6. CASE ~(n >= len) /\ ~(b = 0 \/ n + b > len) /\ "D" \notin ans[n].hi
    <3>1. pf[n] = [ok |-> TRUE, prots |-> own, left |-> len - (n + b)]
      BY <1>1, <1>3, <2>1, <2>3, <2>6, Zenon DEF ParsedFrom
    <3>2. nf[n] = {}
      BY <1>1, <2>6, Zenon DEF NamedFrom
    <3>3. pf[n] \in Parses
      BY <3>1 DEF Parses
    <3>4. pf[n].prots = Own(ans, n) \o <<>> /\ pf[n].prots \in Seq(0 .. 15)
      BY <2>3, <3>1
    <3>5. FoundFrom(ans, pf[n], nf[n], n)
      BY <1>3, <2>6, <3>2, <3>4, NothingOffered DEF FoundFrom
    <3> QED BY <3>3, <3>5
  <2>7. CASE ~(n >= len) /\ ~(b = 0 \/ n + b > len) /\ "D" \in ans[n].hi
    <3>1. PICK next : next = n + b
      OBVIOUS
    <3>2. next \in n + 1 .. top /\ next \in 2 .. top /\ next # 2
      BY <1>3, <2>1, <2>7, <3>1
    <3>3. pf[n] = [pf[next] EXCEPT !.prots = Own(ans, n) \o @]
      BY <1>1, <1>3, <2>1, <2>7, <3>1, Zenon DEF ParsedFrom
    <3>4. pf[next] \in Parses /\ (pf[next].ok => FoundFrom(ans, pf[next], nf[next], next))
      BY <1>4, <1>5, <3>2
    <3>5. PICK rest \in Seq(0 .. 15) : rest = pf[next].prots
      BY <3>4 DEF Parses
    <3>6. PICK both \in Seq(0 .. 15) : both = own \o rest
      BY ConcatProperties
    <3>7. pf[n] = [pf[next] EXCEPT !.prots = both]
      BY <2>3, <3>3, <3>5, <3>6
    <3>8. pf[n] \in Parses /\ pf[n].ok = pf[next].ok /\ pf[n].prots = both
      BY <3>4, <3>7 DEF Parses
    <3>9. ASSUME pf[n].ok
          PROVE  FoundFrom(ans, pf[n], nf[n], n)
      <4>1. FoundFrom(ans, pf[next], nf[next], next)
        BY <3>4, <3>8, <3>9
      <4>2. nf[n] = IF next < len THEN {ans[next].lo} \cup nf[next] ELSE {}
        BY <1>1, <1>3, <2>1, <2>7, <3>1, Zenon DEF NamedFrom
      <4>3. Offers(rest) = nf[n] /\ (rest # <<>> => rest[1] = ans[next].lo)
        <5>1. CASE next >= len
          <6>1. rest = <<>> /\ ~(next < len)
            BY <1>3, <3>2, <3>5, <4>1, <5>1 DEF FoundFrom
          <6> QED BY <4>2, <6>1, NothingOffered
        <5>2. CASE ~(next >= len)
          <6>1. PICK more \in Seq(0 .. 15) : rest = Own(ans, next) \o more /\ Offers(more) = nf[next]
            BY <1>3, <3>5, <4>1, <5>2 DEF FoundFrom
          <6>2. PICK l \in 0 .. 15 : l = ans[next].lo
            BY <1>2, <3>2
          <6>3. rest = <<l>> \o more
            BY <3>2, <6>1, <6>2 DEF Own
          <6>4. rest[1] = l /\ Offers(rest) = {l} \cup Offers(more)
            BY <6>3, OneMore
          <6>5. next < len
            BY <3>2, <5>2
          <6> QED BY <4>2, <6>1, <6>2, <6>4, <6>5
        <5> QED BY <5>1, <5>2
      <4>4. pf[n].prots = Own(ans, n) \o rest /\ pf[n].prots \in Seq(0 .. 15)
        BY <2>3, <3>6, <3>8
      <4> QED BY <1>3, <2>1, <2>7, <3>1, <4>3, <4>4 DEF FoundFrom
    <3> QED BY <3>8, <3>9
  <2> QED BY <2>4, <2>5, <2>6, <2>7
<1>6. \A n \in 2 .. top : n \in T
  <2>1. \A n \in 2 .. top : (\A m \in n + 1 .. top : m \in T) => n \in T
    BY <1>4, <1>5
  <2>2. PICK two \in Int : two = 2
    OBVIOUS
  <2>3. \A n \in two .. top : n \in T
    <3>1. \A n \in two .. top : (\A m \in n + 1 .. top : m \in T) => n \in T
      BY <2>1, <2>2
    <3>2. top \in Int
      OBVIOUS
    <3> QED BY <3>1, <3>2, Everywhere
  <2> QED BY <2>2, <2>3
<1> QED BY <1>1, <1>4, <1>6

\* Where ifd_atr_parse is content, it and ifd_protocol_select agree on the protocol, and on
\* all that are offered.
LEMMA ParseAgrees ==
  ASSUME NEW ans \in Seq(AtrByte), Len(ans) >= 2, AtrParse(ans).ok
  PROVE  /\ AtrParse(ans).default = AtrProtocol(ans)
         /\ AtrParse(ans).default \in AtrParse(ans).supported
         /\ Named(ans) # {} => AtrParse(ans).supported = Named(ans)
<1>1. PICK nf : (\A n \in 2 .. Len(ans) : nf[n] = NamedFrom(ans, nf, n)) /\ Named(ans) = nf[2]
  BY NamedIs
<1>2. PICK pf : (\A n \in 2 .. Len(ans) : pf[n] = ParsedFrom(ans, pf, n)) /\ ParseSays(AtrParse(ans), pf[2])
  BY ParsesIs
<1>3. 2 \in 2 .. Len(ans)
  OBVIOUS
<1>4. PICK chain : chain = pf[2]
  OBVIOUS
<1>5. chain.ok
  BY <1>2, <1>4, Zenon DEF ParseSays
<1>6. FoundFrom(ans, chain, nf[2], 2)
  BY <1>1, <1>2, <1>3, <1>4, <1>5, ParseFinds
<1>7. PICK b \in Nat : b = Bits(ans[2]) /\ ("D" \in ans[2].hi => b > 0)
  <2>1. ans[2] \in AtrByte
    BY <1>3
  <2> QED BY <2>1, BitsType
<1>8. PICK len \in Int : len = Historical(ans)
  BY HistoricalType
<1>9. PICK there \in BOOLEAN : there = ("D" \in ans[2].hi /\ 2 + b < len)
  OBVIOUS
<1>10. AtrProtocol(ans) = IF there THEN ans[2 + b].lo ELSE 0
  BY <1>7, <1>8, <1>9, Zenon DEF AtrProtocol, Historical
<1>11. nf[2] = IF there THEN {ans[2 + b].lo} \cup nf[2 + b] ELSE {}
  BY <1>1, <1>3, <1>7, <1>8, <1>9, Zenon DEF NamedFrom
<1>12. PICK prots \in Seq(0 .. 15) : prots = chain.prots
  BY <1>6 DEF FoundFrom
<1>13. Offers(prots) = nf[2] /\ (prots # <<>> => prots[1] = ans[2 + b].lo)
  <2>1. CASE 2 >= len
    <3>1. prots = <<>>
      BY <1>6, <1>8, <1>12, <2>1 DEF FoundFrom
    <3>2. ~there
      <4>1. there => 2 + b < len
        BY <1>9, Zenon
      <4>2. ~(2 + b < len)
        BY <2>1
      <4> QED BY <4>1, <4>2
    <3> QED BY <1>11, <3>1, <3>2, NothingOffered
  <2>2. CASE ~(2 >= len)
    <3>1. PICK rest \in Seq(0 .. 15) : /\ prots = Own(ans, 2) \o rest /\ Offers(rest) = nf[2]
                                       /\ rest # <<>> => rest[1] = ans[2 + b].lo
      BY <1>6, <1>7, <1>8, <1>12, <2>2 DEF FoundFrom
    <3>2. Own(ans, 2) = <<>>
      BY DEF Own
    <3>3. prots = rest
      BY <3>1, <3>2, ConcatEmptySeq
    <3> QED BY <3>1, <3>3
  <2> QED BY <2>1, <2>2
<1>14. /\ AtrParse(ans).default = IF Offers(prots) = {} THEN 0 ELSE prots[1]
       /\ AtrParse(ans).supported = IF Offers(prots) = {} THEN {0} ELSE Offers(prots)
  <2>1. PICK named : named = Offers(prots)
    OBVIOUS
  <2>2. named = {chain.prots[i] : i \in DOMAIN chain.prots}
    BY <1>12, <2>1, Zenon DEF Offers
  <2>3. CASE named = {}
    <3>1. AtrParse(ans).default = 0 /\ AtrParse(ans).supported = {0}
      BY <1>2, <1>4, <2>2, <2>3, ZenonT(60) DEF ParseSays
    <3> QED BY <2>1, <2>3, <3>1
  <2>4. CASE named # {}
    <3>1. AtrParse(ans).default = chain.prots[1] /\ AtrParse(ans).supported = named
      BY <1>2, <1>4, <2>2, <2>4, ZenonT(60) DEF ParseSays
    <3> QED BY <1>12, <2>1, <2>4, <3>1
  <2> QED BY <2>3, <2>4
<1>15. Offers(prots) # {} => prots # <<>> /\ prots[1] \in Offers(prots)
  BY NothingOffered
<1>16. CASE Offers(prots) = {}
  <2>1. ~there
    BY <1>11, <1>13, <1>16
  <2>2. AtrProtocol(ans) = 0 /\ Named(ans) = {}
    BY <1>1, <1>10, <1>13, <1>16, <2>1
  <2> QED BY <1>14, <1>16, <2>2
<1>17. CASE Offers(prots) # {}
  <2>1. there
    BY <1>11, <1>13, <1>17
  <2>2. AtrProtocol(ans) = prots[1] /\ Named(ans) = Offers(prots)
    BY <1>1, <1>10, <1>13, <1>15, <1>17, <2>1
  <2> QED BY <1>14, <1>15, <1>17, <2>2
<1> QED BY <1>16, <1>17

-------------------------------------------------------------------------------
(* Memory cards.                                                             *)

\* Of the steps of sync_write and of detection: where the card may differ from what was
\* meant, which is nowhere but in the chunk under way, or in the first byte.
MemoryTypes ==
  /\ op \in Operations \cup {None}
  /\ mem \in Seq(Byte) /\ meant \in Seq(Byte) /\ Len(mem) = Len(meant)
  /\ icc = None \/ icc.kind \notin MemoryKinds => mem = <<>>
  /\ icc # None /\ icc.kind \in MemoryKinds => mem # <<>>
  /\ proto = None \/ proto \in MemoryKinds \cup {"T0", "T1"}

Outside(places) == \A i \in DOMAIN mem : i \in places \/ mem[i] = meant[i]
InChunk == {i \in DOMAIN mem : i - 1 \in op.addr .. op.addr + Len(Chunk) - 1}

Detecting ==
  /\ op.then # None
  /\ op.addr = 0 /\ op.then.byte = meant[1] /\ Fits(op.p) /\ Outside({1})
  /\ \/ /\ op.then.step = "read" /\ op.data = <<Inverted(meant[1])>>
        /\ mem[1] \in {meant[1], Inverted(meant[1])}
     \/ op.then.step = "restore" /\ op.data = <<meant[1]>>

Storing ==
  /\ op.then = None
  /\ Outside(InChunk)
  /\ op.step = "compare" => Fits(op.p)

Kept ==
  ~excused => \/ op \in Writings /\ (Detecting \/ Storing)
              \/ op \notin Writings /\ mem = meant

MemoryInv == MemoryTypes /\ Kept

-------------------------------------------------------------------------------
(* Requests and memory cards.                                                *)

LEMMA IdleKeepsMemory ==
  ASSUME MemoryInv, UNCHANGED <<icc, mem, meant, op, excused>>,
         proto' \in {None, "T0", "T1"} \cup MemoryKinds
  PROVE  MemoryInv'
BY DEF MemoryInv, MemoryTypes, Kept, Detecting, Storing, Outside, InChunk, Chunk, Fits

\* While nothing is under way the card holds what it should.
LEMMA AtRest ==
  ASSUME SessionAssumption, MemoryInv, op = None \/ op \in Probings
  PROVE  op \notin Writings /\ (~excused => mem = meant)
<1>1. None \notin Writings /\ Probings \cap Writings = {}
  BY DEF SessionAssumption, Operations, Probings, Writings
<1> QED BY <1>1 DEF MemoryInv, Kept

LEMMA InsertKeepsMemory ==
  ASSUME SessionAssumption, MemoryInv, NEW c \in Cards, Insert(c)
  PROVE  MemoryInv'
<1>1. icc = None /\ op = None /\ icc' = c /\ op' = op /\ proto' = proto /\ c # None
  BY DEF Insert, SessionAssumption
<1>2. op' \notin Writings /\ (mem = <<>> /\ meant = <<>>)
  BY <1>1, AtRest DEF MemoryInv, MemoryTypes
<1>3. CASE c.kind \in MemoryKinds
  <2>1. PICK m \in Contents : mem' = m /\ meant' = m
    BY <1>3 DEF Insert
  <2>2. m \in Seq(Byte) /\ m # <<>>
    BY DEF SessionAssumption
  <2> QED BY <1>1, <1>2, <1>3, <2>1, <2>2 DEF MemoryInv, MemoryTypes, Kept
<1>4. CASE c.kind \notin MemoryKinds
  <2>1. mem' = mem /\ meant' = meant
    BY <1>4 DEF Insert
  <2> QED BY <1>1, <1>2, <1>4, <2>1 DEF MemoryInv, MemoryTypes, Kept
<1> QED BY <1>3, <1>4

LEMMA DrawKeepsMemory ==
  ASSUME SessionAssumption, MemoryInv, Draw
  PROVE  MemoryInv'
<1>1. icc' = None /\ mem' = <<>> /\ meant' = <<>> /\ excused' /\ op' = op /\ proto' = proto
  BY DEF Draw
<1> QED BY <1>1 DEF MemoryInv, MemoryTypes, Kept

LEMMA WriteMemoryKeeps ==
  ASSUME SessionAssumption, MemoryInv, NEW w \in Writes, WriteMemory(w)
  PROVE  MemoryInv'
<1>1. /\ op = None /\ proto \in MemoryKinds /\ op' = Writing(proto, w.addr, w.data, None)
      /\ UNCHANGED <<icc, mem, meant, proto, excused>>
  BY DEF WriteMemory, Idle
<1>2. w.addr \in Nat /\ w.data \in Seq(Byte)
  BY DEF SessionAssumption
<1>3. op' \in Writings /\ op'.then = None /\ op'.step = "store"
  BY <1>1, <1>2 DEF Writing, Writings
<1>4. ~excused => mem = meant
  BY <1>1, AtRest
<1> QED BY <1>1, <1>3, <1>4 DEF MemoryInv, MemoryTypes, Kept, Storing, Outside, Operations

LEMMA BeginKeepsMemory ==
  ASSUME SessionAssumption, MemoryInv, Begin
  PROVE  MemoryInv'
<1>1. CASE \E c \in Cards : Insert(c)
  BY <1>1, InsertKeepsMemory
<1>2. CASE Draw
  BY <1>2, DrawKeepsMemory
<1>3. CASE ResetFails
  <2>1. UNCHANGED <<icc, mem, meant, op, excused>> /\ proto' = None
    BY <1>3 DEF ResetFails, Forget
  <2> QED BY <2>1, IdleKeepsMemory
<1>4. CASE Request
  <2>1. CASE \E tried \in {"even", "odd"} : GotAtr(tried)
    <3>1. UNCHANGED <<icc, mem, meant, op, excused>> /\ proto' \in {"T0", "T1", None}
      BY <2>1 DEF GotAtr
    <3> QED BY <3>1, IdleKeepsMemory
  <2>2. CASE Forget /\ op' = [type |-> "probe", i |-> 1, step |-> "read", byte |-> 0, again |-> TRUE]
             /\ UNCHANGED <<icc, mem, meant, faults, excused>>
    <3>1. op = None /\ proto' = None
      BY <1>4, <2>2 DEF Request, Idle, Forget
    <3>2. op' \in Probings
      BY <2>2 DEF Probings, Probes, Byte
    <3>3. op' \notin Writings
      BY <3>2 DEF Probings, Writings
    <3>4. ~excused => mem = meant
      BY <3>1, AtRest
    <3> QED BY <2>2, <3>1, <3>2, <3>3, <3>4 DEF MemoryInv, MemoryTypes, Kept, Operations
  <2> QED BY <1>4, <2>1, <2>2 DEF Request
<1>5. CASE \E w \in Writes : WriteMemory(w)
  BY <1>5, WriteMemoryKeeps
<1>6. CASE \E a \in Apdus : Command(a)
  BY <1>6, IdleKeepsMemory DEF Command, MemoryInv, MemoryTypes
<1>7. CASE StatusChanged
  BY <1>7, IdleKeepsMemory DEF StatusChanged, MemoryInv, MemoryTypes
<1>8. CASE \E p \in {"T0", "T1"} : SetProtocol(p)
  BY <1>8, IdleKeepsMemory DEF SetProtocol
<1> QED BY <1>1, <1>2, <1>3, <1>4, <1>5, <1>6, <1>7, <1>8 DEF Begin

-------------------------------------------------------------------------------
(* Detection of a memory card.                                               *)

LEMMA NextProbe ==
  ASSUME NEW o \in Probings, ProbeMisses(o) \/ DetectionFails(o) \/ ProbeHits(o),
         proto = None \/ proto \in MemoryKinds \cup {"T0", "T1"}
  PROVE  /\ op' \in Probings \cup {None}
         /\ proto' = None \/ proto' \in MemoryKinds \cup {"T0", "T1"}
<1>1. o.i \in 1 .. 4 /\ Probes[o.i] \in MemoryKinds /\ o.again \in BOOLEAN /\ Len(Probes) = 4
  BY DEF Probings, Probes, MemoryKinds
<1>2. CASE ProbeMisses(o) \/ DetectionFails(o)
  <2>1. proto' = proto /\ (\/ o.i < 4 /\ op' = Probing(o.i + 1, o.again)
                           \/ op' = Probing(1, FALSE) \/ op' = None)
    BY <1>1, <1>2 DEF ProbeMisses, DetectionFails
  <2>2. (o.i < 4 => Probing(o.i + 1, o.again) \in Probings) /\ Probing(1, FALSE) \in Probings
    BY <1>1 DEF Probing, Probings, Probes, Byte
  <2> QED BY <1>1, <2>1, <2>2
<1>3. CASE ProbeHits(o)
  BY <1>1, <1>3 DEF ProbeHits
<1> QED BY <1>2, <1>3

LEMMA ProbeKeepsMemory ==
  ASSUME SessionAssumption, MemoryInv, Probe
  PROVE  MemoryInv'
<1>1. op \in Probings /\ UNCHANGED <<icc, mem, meant>> /\ (~excused' => ~excused)
  BY DEF Probe, DriverFails, DriverWorks, MemoryInv, MemoryTypes, Operations, Writings, Probings
<1>2. ~excused => mem = meant
  BY <1>1, AtRest
<1>3. op' \in Probings \cup {None} => op' \notin Writings
  BY DEF SessionAssumption, Operations, Probings, Writings
<1>4. PICK p : p = Probes[op.i] /\ p \in MemoryKinds
  BY <1>1 DEF Probings, Probes, MemoryKinds
<1>5. CASE ProbeMisses(op) \/ DetectionFails(op) \/ ProbeHits(op)
  <2>1. /\ op' \in Probings \cup {None}
        /\ proto' = None \/ proto' \in MemoryKinds \cup {"T0", "T1"}
    BY <1>1, <1>5, NextProbe DEF MemoryInv, MemoryTypes
  <2> QED BY <1>1, <1>2, <1>3, <2>1 DEF MemoryInv, MemoryTypes, Kept, Operations
<1>6. CASE DriverWorks(p) /\ op.step = "read" /\ UNCHANGED <<proto, parity>>
           /\ op' = Writing(p, 0, <<Inverted(mem[1])>>, [op EXCEPT !.byte = mem[1]])
  <2>1. mem # <<>> /\ mem[1] \in Byte /\ Inverted(mem[1]) \in Byte
    BY <1>4, <1>6 DEF DriverWorks, Fits, MemoryInv, MemoryTypes, Byte, Inverted
  <2>2. PICK o : o = [op EXCEPT !.byte = mem[1]]
    OBVIOUS
  <2>3. o \in Probings /\ o.byte = mem[1] /\ o.step = op.step
    BY <1>1, <2>1, <2>2 DEF Probings
  <2>4. op' = Writing(p, 0, <<Inverted(mem[1])>>, o)
    BY <1>6, <2>2
  <2>5. op' \in Writings
    BY <1>4, <2>1, <2>3, <2>4 DEF Writing, Writings
  <2> QED BY <1>1, <1>2, <1>6, <2>1, <2>3, <2>4, <2>5, SMTT(60)
          DEF MemoryInv, MemoryTypes, Kept, Detecting, Outside, Operations, Writing, DriverWorks, Fits,
              SessionAssumption
<1>7. CASE op' = [op EXCEPT !.step = "atr"] /\ UNCHANGED <<proto, parity>>
  <2>1. op' \in Probings
    BY <1>1, <1>7 DEF Probings
  <2> QED BY <1>1, <1>2, <1>3, <1>7, <2>1 DEF MemoryInv, MemoryTypes, Kept, Operations
<1> QED BY <1>4, <1>5, <1>6, <1>7 DEF Probe

-------------------------------------------------------------------------------
(* One page of a write.                                                      *)

\* What goes into one page: a part of the data from its beginning.
LEMMA ChunkOfData ==
  ASSUME SessionAssumption, op \in Writings
  PROVE  /\ Chunk \in Seq(Byte) /\ Len(Chunk) \in Nat /\ Len(Chunk) <= Len(op.data)
         /\ Len(op.data) = 1 => Chunk = op.data
<1>1. op.addr \in Nat /\ op.data \in Seq(Byte) /\ Len(op.data) \in Nat
  BY DEF Writings
<1>2. PICK room : room = PageSize - (op.addr % PageSize)
  OBVIOUS
<1>3. room \in Nat \ {0}
  <2>1. PageSize \in Nat \ {0}
    BY DEF SessionAssumption
  <2>2. op.addr % PageSize \in 0 .. PageSize - 1
    BY <1>1, <2>1
  <2> QED BY <1>2, <2>1, <2>2
<1>4. PICK n : n = IF Len(op.data) < room THEN Len(op.data) ELSE room
  OBVIOUS
<1>5. n \in 0 .. Len(op.data) /\ (Len(op.data) = 1 => n = 1)
  <2>1. PICK len \in Nat : len = Len(op.data)
    BY <1>1
  <2>2. n = IF len < room THEN len ELSE room
    BY <1>4, <2>1
  <2>3. n \in 0 .. len /\ (len = 1 => n = 1)
    BY <1>3, <2>2
  <2> QED BY <2>1, <2>3
<1>6. Chunk = SubSeq(op.data, 1, n)
  BY <1>2, <1>4 DEF Chunk
<1>7. Chunk \in Seq(Byte) /\ Len(Chunk) = n /\ \A j \in 1 .. n : Chunk[j] = op.data[j]
  BY <1>1, <1>5, <1>6, SubSeqProperties
<1>8. n = 1 /\ Len(op.data) = 1 => Chunk = op.data
  BY <1>1, <1>7
<1> QED BY <1>1, <1>5, <1>7, <1>8

LEMMA StoreChanges ==
  ASSUME mem \in Seq(Byte), NEW addr \in Nat, NEW data \in Seq(Byte), StoreAt(addr, data)
  PROVE  /\ mem' \in Seq(Byte) /\ Len(mem') = Len(mem)
         /\ \A i \in DOMAIN mem : mem'[i] = IF i - 1 \in addr .. addr + Len(data) - 1
                                            THEN data[i - addr] ELSE mem[i]
<1>1. DOMAIN mem = 1 .. Len(mem) /\ Len(mem) \in Nat /\ Len(data) \in Nat
  OBVIOUS
<1>2. mem' = [i \in 1 .. Len(mem) |-> IF i - 1 \in addr .. addr + Len(data) - 1
                                      THEN data[i - addr] ELSE mem[i]]
  BY <1>1 DEF StoreAt
<1>3. \A i \in 1 .. Len(mem) : (IF i - 1 \in addr .. addr + Len(data) - 1
                                THEN data[i - addr] ELSE mem[i]) \in Byte
  BY <1>1
<1> QED BY <1>1, <1>2, <1>3

\* A write that has changed the card has changed nothing but its chunk.
LEMMA DriverStores ==
  ASSUME SessionAssumption, MemoryInv, op \in Writings,
         Stores(op.p, op.addr, Chunk) \/ FailsToStore(op.p, op.addr, Chunk)
  PROVE  /\ mem' \in Seq(Byte) /\ Len(mem') = Len(mem) /\ (excused => excused')
         /\ \A i \in DOMAIN mem : i \in InChunk \/ mem'[i] = mem[i]
         /\ Len(Chunk) = 1 => \A i \in DOMAIN mem : i = op.addr + 1 =>
                                mem'[i] = mem[i] \/ mem'[i] = Chunk[1]
<1>1. mem \in Seq(Byte) /\ op.addr \in Nat /\ Chunk \in Seq(Byte) /\ Len(Chunk) \in Nat
  BY ChunkOfData DEF MemoryInv, MemoryTypes, Writings
<1>2. ASSUME NEW n \in 0 .. Len(Chunk), StoreAt(op.addr, SubSeq(Chunk, 1, n))
      PROVE  /\ mem' \in Seq(Byte) /\ Len(mem') = Len(mem)
             /\ \A i \in DOMAIN mem : i \in InChunk \/ mem'[i] = mem[i]
             /\ Len(Chunk) = 1 => \A i \in DOMAIN mem : i = op.addr + 1 =>
                                    mem'[i] = mem[i] \/ mem'[i] = Chunk[1]
  <2>1. PICK d : d = SubSeq(Chunk, 1, n)
    OBVIOUS
  <2>2. d \in Seq(Byte) /\ Len(d) = n /\ \A j \in 1 .. n : d[j] = Chunk[j]
    BY <1>1, <2>1, SubSeqProperties
  <2>3. /\ mem' \in Seq(Byte) /\ Len(mem') = Len(mem)
        /\ \A i \in DOMAIN mem : mem'[i] = IF i - 1 \in op.addr .. op.addr + n - 1
                                           THEN d[i - op.addr] ELSE mem[i]
    BY <1>1, <1>2, <2>1, <2>2, StoreChanges, ZenonT(60)
  <2>4. \A i \in DOMAIN mem : i \in InChunk \/ mem'[i] = mem[i]
    BY <1>1, <2>3 DEF InChunk
  <2>5. ASSUME Len(Chunk) = 1, NEW i \in DOMAIN mem, i = op.addr + 1, mem'[i] # mem[i]
        PROVE  mem'[i] = Chunk[1]
    <3>1. i - op.addr = 1 /\ i - 1 = op.addr
      BY <1>1, <2>5
    <3>2. i - 1 \in op.addr .. op.addr + n - 1 /\ mem'[i] = d[i - op.addr]
      BY <2>3, <2>5
    <3>3. n = 1 /\ 1 \in 1 .. n
      BY <1>1, <2>5, <3>1, <3>2
    <3> QED BY <2>2, <3>1, <3>2, <3>3
  <2> QED BY <2>3, <2>4, <2>5
<1>3. excused => excused'
  BY DEF Stores, DriverWorks, DriverPretends, FailsToStore, DriverFails
<1>4. CASE StoreAt(op.addr, Chunk)
  <2>1. SubSeq(Chunk, 1, Len(Chunk)) = Chunk /\ Len(Chunk) \in 0 .. Len(Chunk)
    BY <1>1
  <2> QED BY <1>2, <1>3, <1>4, <2>1
<1>5. CASE \E n \in 0 .. Len(Chunk) - 1 : StoreAt(op.addr, SubSeq(Chunk, 1, n))
  <2>1. PICK n \in 0 .. Len(Chunk) - 1 : StoreAt(op.addr, SubSeq(Chunk, 1, n))
    BY <1>5
  <2>2. n \in 0 .. Len(Chunk)
    BY <1>1
  <2> QED BY <1>2, <1>3, <2>1, <2>2
<1>6. CASE mem' = mem
  BY <1>1, <1>3, <1>6
<1> QED BY <1>4, <1>5, <1>6 DEF Stores, DriverPretends, FailsToStore

\* What reads back as it was written.
LEMMA ReadBack ==
  ASSUME NEW s, NEW addr \in Nat, NEW n \in Nat
  PROVE  \A j \in 1 .. n : SubSeq(s, addr + 1, addr + n)[j] = s[addr + j]
<1>1. PICK S : S = {s[k] : k \in Int}
  OBVIOUS
<1>2. \A k \in addr + 1 .. addr + n : s[k] \in S
  BY <1>1
<1>3. addr + 1 \in Int /\ addr + n \in Int /\ (addr + n) - (addr + 1) + 1 = n
  OBVIOUS
<1>4. \A j \in 1 .. (addr + n) - (addr + 1) + 1 :
        SubSeq(s, addr + 1, addr + n)[j] = s[(addr + 1) + j - 1]
  BY <1>2, <1>3, SubSeqProperties
<1>5. \A j \in 1 .. n : (addr + 1) + j - 1 = addr + j
  OBVIOUS
<1> QED BY <1>3, <1>4, <1>5

LEMMA FirstOfMemory ==
  ASSUME NEW s \in Seq(Byte), s # <<>>
  PROVE  SubSeq(s, 1, 1) = <<s[1]>>
<1>1. 1 \in 1 .. Len(s)
  OBVIOUS
<1>2. PICK t : t = SubSeq(s, 1, 1)
  OBVIOUS
<1>3. t \in Seq(Byte) /\ Len(t) = 1 /\ t[1] = s[1]
  BY <1>1, <1>2, SubSeqProperties
<1>4. <<s[1]>> \in Seq(Byte) /\ Len(<<s[1]>>) = 1 /\ <<s[1]>>[1] = s[1]
  BY <1>1
<1>5. t = <<s[1]>>
  BY <1>3, <1>4, SeqEqual
<1> QED BY <1>2, <1>5

LEMMA WriteFailsKeeps ==
  ASSUME SessionAssumption, MemoryInv, op \in Writings, icc' = icc,
         mem' \in Seq(Byte), Len(mem') = Len(mem), WriteFails,
         excused' \/ op.then = None \/ mem' = meant
  PROVE  MemoryInv'
<1>1. op.then \in Probings \cup {None}
  BY DEF Writings
<1>2. None \notin Writings /\ Probings \cap Writings = {}
  BY DEF SessionAssumption, Operations, Probings, Writings
<1>3. /\ op' \in Probings \cup {None}
      /\ proto' = None \/ proto' \in MemoryKinds \cup {"T0", "T1"}
  <2>1. CASE op.then = None
    BY <2>1 DEF WriteFails, WriteEnds, MemoryInv, MemoryTypes
  <2>2. CASE op.then # None
    <3>1. ProbeHits(op.then) \/ ProbeMisses(op.then)
      BY <2>2 DEF WriteFails, WriteEnds
    <3> QED BY <1>1, <2>2, <3>1, NextProbe DEF MemoryInv, MemoryTypes
  <2> QED BY <2>1, <2>2
<1>4. meant' \in Seq(Byte) /\ Len(meant') = Len(mem') /\ (excused' \/ mem' = meant')
  BY DEF WriteFails, MemoryInv, MemoryTypes
<1>5. mem' = <<>> <=> mem = <<>>
  BY DEF MemoryInv, MemoryTypes
<1> QED BY <1>2, <1>3, <1>4, <1>5 DEF MemoryInv, MemoryTypes, Kept, Operations

LEMMA WriteAgainKeeps ==
  ASSUME SessionAssumption, MemoryInv, op \in Writings, UNCHANGED <<icc, mem>>,
         WriteAgain, excused' \/ (~excused /\ ~Stored(op.addr, Chunk) /\ ~NotRestored)
  PROVE  MemoryInv'
<1>1. op.retries \in 0 .. 2 /\ op.then \in Probings \cup {None} /\ op.data \in Seq(Byte)
  BY DEF Writings
<1>2. CASE op.retries > 0
  <2>1. op' = [op EXCEPT !.step = "store", !.retries = op.retries - 1]
        /\ UNCHANGED <<meant, proto, parity>>
    BY <1>2 DEF WriteAgain
  <2>2. /\ op' \in Writings /\ op'.then = op.then /\ op'.addr = op.addr /\ op'.data = op.data
        /\ op'.step = "store" /\ op'.p = op.p
    <3>1. PICK k \in 0 .. 2 : k = op.retries - 1
      BY <1>1, <1>2
    <3>2. op' = [op EXCEPT !.step = "store", !.retries = k]
      BY <2>1, <3>1
    <3> QED BY <3>2 DEF Writings
  <2>3. Chunk' = Chunk /\ InChunk' = InChunk
    BY <2>2 DEF Chunk, InChunk
  <2>4. excused' \/ Detecting' \/ Storing'
    BY <2>1, <2>2, <2>3 DEF MemoryInv, Kept, Detecting, Storing, Outside, Fits
  <2> QED BY <2>1, <2>2, <2>4 DEF MemoryInv, MemoryTypes, Kept, Operations
<1>3. CASE op.retries = 0
  <2>1. WriteFails
    BY <1>3 DEF WriteAgain
  <2>2. excused' \/ op.then = None \/ mem = meant
    <3> SUFFICES ASSUME ~excused', op.then # None PROVE mem = meant
      OBVIOUS
    <3>1. Detecting /\ ~Stored(op.addr, Chunk)
      BY DEF MemoryInv, Kept, Storing
    <3>2. op.then.step = "read" /\ op.data = <<Inverted(meant[1])>>
          /\ mem[1] \in {meant[1], Inverted(meant[1])} /\ op.addr = 0 /\ Outside({1}) /\ Fits(op.p)
      BY <1>3, <3>1 DEF Detecting, NotRestored
    <3>3. mem # <<>> /\ mem \in Seq(Byte) /\ meant \in Seq(Byte) /\ Len(mem) = Len(meant)
      BY <3>2 DEF Fits, MemoryInv, MemoryTypes, Writings
    <3>4. mem[1] # Inverted(meant[1])
      <4>1. Len(op.data) = 1 /\ Chunk = op.data
        BY <1>1, <3>2, ChunkOfData
      <4>2. SubSeq(mem, 1, 1) = <<mem[1]>>
        BY <3>3, FirstOfMemory
      <4> QED BY <3>1, <3>2, <4>1, <4>2 DEF Stored
    <3>5. \A i \in 1 .. Len(mem) : mem[i] = meant[i]
      BY <3>2, <3>3, <3>4 DEF Outside
    <3> QED BY <3>3, <3>5
  <2> QED BY <2>1, <2>2, WriteFailsKeeps DEF MemoryInv, MemoryTypes
<1> QED BY <1>1, <1>2, <1>3

LEMMA WriteGoesOnKeeps ==
  ASSUME SessionAssumption, MemoryInv, op \in Writings, UNCHANGED <<icc, mem>>,
         WriteGoesOn, excused' \/ (~excused /\ Stored(op.addr, Chunk))
  PROVE  MemoryInv'
<1>1. /\ op.then \in Probings \cup {None} /\ op.addr \in Nat /\ op.data \in Seq(Byte)
      /\ op.p \in MemoryKinds /\ mem \in Seq(Byte) /\ meant \in Seq(Byte) /\ Len(mem) = Len(meant)
  BY DEF Writings, MemoryInv, MemoryTypes
<1>2. None \notin Writings /\ Probings \cap Writings = {} /\ None \notin Probings
  BY DEF SessionAssumption, Operations, Probings, Writings
<1>3. PICK n \in Nat : n = Len(Chunk) /\ n <= Len(op.data) /\ (Len(op.data) = 1 => Chunk = op.data)
  BY ChunkOfData
<1>4. excused' \/ \A i \in InChunk : mem[i] = Chunk[i - op.addr]
  <2> SUFFICES ASSUME ~excused', NEW i \in InChunk PROVE mem[i] = Chunk[i - op.addr]
    OBVIOUS
  <2>1. SubSeq(mem, op.addr + 1, op.addr + n) = Chunk
    BY <1>3 DEF Stored
  <2>2. \A j \in 1 .. n : mem[op.addr + j] = Chunk[j]
    <3>1. PICK addr \in Nat : addr = op.addr
      BY <1>1
    <3>2. \A j \in 1 .. n : SubSeq(mem, addr + 1, addr + n)[j] = mem[addr + j]
      BY ReadBack
    <3> QED BY <2>1, <3>1, <3>2
  <2>3. i \in Nat /\ i - 1 \in op.addr .. op.addr + n - 1
    BY <1>1, <1>3 DEF InChunk
  <2>4. i - op.addr \in 1 .. n /\ op.addr + (i - op.addr) = i
    BY <1>1, <2>3
  <2> QED BY <2>2, <2>4
<1>5. CASE op.then = None
  <2>1. meant' = [i \in DOMAIN meant |-> IF i - 1 \in op.addr .. op.addr + n - 1
                                         THEN Chunk[i - op.addr] ELSE meant[i]]
    BY <1>3, <1>5 DEF WriteGoesOn
  <2>2. meant' \in Seq(Byte) /\ Len(meant') = Len(mem) /\ \A i \in 1 .. Len(mem) :
          meant'[i] = IF i - 1 \in op.addr .. op.addr + n - 1 THEN Chunk[i - op.addr] ELSE meant[i]
    <3>1. Chunk \in Seq(Byte) /\ Len(Chunk) = n
      BY <1>3, ChunkOfData
    <3>2. ASSUME NEW i \in DOMAIN meant
          PROVE  (IF i - 1 \in op.addr .. op.addr + n - 1 THEN Chunk[i - op.addr] ELSE meant[i]) \in Byte
      <4>1. i - 1 \in op.addr .. op.addr + n - 1 => i - op.addr \in 1 .. n
        BY <1>1
      <4> QED BY <1>1, <3>1, <4>1
    <3>3. meant' \in Seq(Byte) /\ DOMAIN meant' = DOMAIN meant
      BY <1>1, <2>1, <3>2
    <3> QED BY <1>1, <2>1, <3>3
  <2>3. excused' \/ mem = meant'
    <3> SUFFICES ASSUME ~excused' PROVE mem = meant'
      OBVIOUS
    <3>1. Outside(InChunk)
      BY <1>5 DEF MemoryInv, Kept, Detecting, Storing
    <3>2. InChunk = {i \in 1 .. Len(mem) : i - 1 \in op.addr .. op.addr + n - 1}
      BY <1>1, <1>3 DEF InChunk
    <3>3. ASSUME NEW i \in 1 .. Len(mem)
          PROVE  mem[i] = meant'[i]
      <4>1. CASE i \in InChunk
        BY <1>4, <2>2, <3>2, <4>1
      <4>2. CASE i \notin InChunk
        <5>1. i - 1 \notin op.addr .. op.addr + n - 1
          BY <3>2, <4>2
        <5>2. meant'[i] = meant[i]
          BY <2>2, <5>1
        <5>3. mem[i] = meant[i]
          BY <1>1, <3>1, <4>2 DEF Outside
        <5> QED BY <5>2, <5>3
      <4> QED BY <4>1, <4>2
    <3> QED BY <1>1, <2>2, <3>3
  <2>4. CASE n < Len(op.data)
    <3>1. /\ op' = [op EXCEPT !.step = "store", !.addr = op.addr + n,
                              !.data = SubSeq(op.data, n + 1, Len(op.data))]
          /\ UNCHANGED <<proto, parity>>
      BY <1>3, <2>4 DEF WriteGoesOn
    <3>2. PICK data : data = SubSeq(op.data, n + 1, Len(op.data))
      OBVIOUS
    <3>3. data \in Seq(Byte)
      BY <1>1, <1>3, <3>2, SubSeqProperties
    <3>4. PICK addr \in Nat : addr = op.addr + n
      BY <1>1
    <3>5. op' \in Writings /\ op'.then = None /\ op'.step = "store"
      BY <1>5, <3>1, <3>2, <3>3, <3>4 DEF Writings
    <3> QED BY <1>1, <2>2, <2>3, <3>1, <3>5 DEF MemoryInv, MemoryTypes, Kept, Storing, Outside, Operations
  <2>5. CASE ~(n < Len(op.data))
    <3>1. op' = None /\ UNCHANGED <<proto, parity>>
      BY <1>3, <1>5, <2>5 DEF WriteGoesOn, WriteEnds
    <3> QED BY <1>1, <1>2, <2>2, <2>3, <3>1 DEF MemoryInv, MemoryTypes, Kept
  <2> QED BY <2>4, <2>5
<1>6. CASE op.then # None
  <2>1. meant' = meant
    BY <1>6 DEF WriteGoesOn
  <2>2. ASSUME ~excused'
        PROVE  /\ op.addr = 0 /\ op.then.byte = meant[1] /\ Fits(op.p) /\ Outside({1})
               /\ mem # <<>> /\ mem[1] = op.data[1] /\ Len(op.data) = 1 /\ n = 1
               /\ \/ op.then.step = "read"
                  \/ op.then.step = "restore" /\ mem = meant
    <3>1. Detecting /\ Stored(op.addr, Chunk)
      BY <1>6, <2>2 DEF MemoryInv, Kept, Storing
    <3>2. op.addr = 0 /\ op.then.byte = meant[1] /\ Fits(op.p) /\ Outside({1})
      BY <3>1 DEF Detecting
    <3>3. Len(op.data) = 1 /\ Chunk = op.data /\ n = 1
      <4>1. \E b : op.data = <<b>>
        BY <3>1 DEF Detecting
      <4>2. Len(op.data) = 1
        BY <4>1
      <4> QED BY <1>3, <4>2
    <3>4. mem # <<>>
      BY <1>1, <3>2 DEF Fits, MemoryInv, MemoryTypes
    <3>5. mem[1] = op.data[1]
      <4>1. SubSeq(mem, 1, 1) = op.data
        BY <3>1, <3>2, <3>3 DEF Stored
      <4> QED BY <1>1, <3>4, <4>1, FirstOfMemory
    <3>6. op.then.step = "restore" => mem = meant
      <4> SUFFICES ASSUME op.then.step = "restore" PROVE mem = meant
        OBVIOUS
      <4>1. op.data = <<meant[1]>>
        BY <3>1 DEF Detecting
      <4>2. \A i \in 1 .. Len(mem) : mem[i] = meant[i]
        BY <1>1, <3>2, <3>5, <4>1 DEF Outside
      <4> QED BY <1>1, <4>2
    <3>7. op.then.step = "read" \/ op.then.step = "restore"
      BY <3>1 DEF Detecting
    <3> QED BY <3>2, <3>3, <3>4, <3>5, <3>6, <3>7
  <2>3. CASE /\ op' = [op EXCEPT !.step = "store", !.addr = op.addr + n,
                                 !.data = SubSeq(op.data, n + 1, Len(op.data))]
             /\ n < Len(op.data) /\ UNCHANGED <<proto, parity>>
    <3>1. excused'
      <4>1. PICK len : len = Len(op.data)
        OBVIOUS
      <4>2. n < len
        BY <2>3, <4>1
      <4>3. ~excused' => n = 1 /\ len = 1
        BY <2>2, <4>1
      <4>4. ~(1 < 1)
        OBVIOUS
      <4> QED BY <4>2, <4>3, <4>4
    <3>2. PICK data : data = SubSeq(op.data, n + 1, Len(op.data))
      OBVIOUS
    <3>3. data \in Seq(Byte)
      BY <1>1, <1>3, <3>2, SubSeqProperties
    <3>4. PICK addr \in Nat : addr = op.addr + n
      BY <1>1
    <3>5. op' \in Writings
      BY <2>3, <3>2, <3>3, <3>4 DEF Writings
    <3> QED BY <1>1, <2>1, <2>3, <3>1, <3>5 DEF MemoryInv, MemoryTypes, Kept, Operations
  <2>4. CASE ProbeHits(op.then) /\ op.then.step = "restore"
    <3>1. /\ op' \in Probings \cup {None}
          /\ proto' = None \/ proto' \in MemoryKinds \cup {"T0", "T1"}
      BY <1>1, <1>6, <2>4, NextProbe DEF MemoryInv, MemoryTypes
    <3> QED BY <1>1, <1>2, <2>1, <2>2, <2>4, <3>1 DEF MemoryInv, MemoryTypes, Kept, Operations
  <2>5. CASE ProbeMisses(op.then) /\ op.then.step \notin {"restore", "read"}
    <3>1. /\ op' \in Probings \cup {None}
          /\ proto' = None \/ proto' \in MemoryKinds \cup {"T0", "T1"}
      BY <1>1, <1>6, <2>5, NextProbe DEF MemoryInv, MemoryTypes
    <3>2. excused'
      BY <2>2, <2>5
    <3> QED BY <1>1, <1>2, <2>1, <3>1, <3>2 DEF MemoryInv, MemoryTypes, Kept, Operations
  <2>6. CASE /\ op' = Writing(op.p, 0, <<op.then.byte>>, [op.then EXCEPT !.step = "restore"])
             /\ UNCHANGED <<proto, parity>> /\ op.then.step = "read"
    <3>1. PICK o : o = [op.then EXCEPT !.step = "restore"]
      OBVIOUS
    <3>2. o \in Probings /\ o.byte = op.then.byte /\ o.step = "restore" /\ op.then.byte \in Byte
      BY <1>1, <1>6, <3>1 DEF Probings
    <3>3. op' = Writing(op.p, 0, <<op.then.byte>>, o)
      BY <2>6, <3>1
    <3>4. op' \in Writings /\ op'.then = o /\ op'.data = <<op.then.byte>> /\ op'.addr = 0 /\ op'.p = op.p
      BY <1>1, <3>2, <3>3 DEF Writing, Writings
    <3>5. excused' \/ Detecting'
      BY <1>2, <2>1, <2>2, <3>2, <3>4 DEF Detecting, Fits, Outside
    <3> QED BY <1>1, <2>1, <2>6, <3>4, <3>5 DEF MemoryInv, MemoryTypes, Kept, Operations
  <2>7. CASE ~(n < Len(op.data))
    <3>1. WriteEnds(TRUE)
      BY <1>3, <2>7 DEF WriteGoesOn
    <3> QED BY <1>6, <2>4, <2>5, <2>6, <3>1 DEF WriteEnds
  <2> QED BY <1>3, <2>3, <2>7 DEF WriteGoesOn
<1> QED BY <1>5, <1>6

LEMMA SameChunk ==
  ASSUME op'.addr = op.addr, op'.data = op.data
  PROVE  Chunk' = Chunk
BY DEF Chunk

LEMMA StoredKeeps ==
  ASSUME SessionAssumption, MemoryInv, op \in Writings, icc' = icc,
         Stores(op.p, op.addr, Chunk), op' = [op EXCEPT !.step = "compare"],
         UNCHANGED <<meant, proto>>
  PROVE  MemoryInv'
<1>1. /\ mem' \in Seq(Byte) /\ Len(mem') = Len(mem) /\ (excused => excused')
      /\ \A i \in DOMAIN mem : i \in InChunk \/ mem'[i] = mem[i]
      /\ Len(Chunk) = 1 => \A i \in DOMAIN mem : i = op.addr + 1 =>
                             mem'[i] = mem[i] \/ mem'[i] = Chunk[1]
  BY DriverStores
<1>2. mem \in Seq(Byte) /\ DOMAIN mem' = DOMAIN mem /\ (mem' = <<>> <=> mem = <<>>)
  BY <1>1 DEF MemoryInv, MemoryTypes
<1>3. /\ op' \in Writings /\ op'.then = op.then /\ op'.addr = op.addr /\ op'.data = op.data
      /\ op'.step = "compare" /\ op'.p = op.p
  BY DEF Writings
<1>4. Chunk' = Chunk /\ InChunk' = InChunk
  <2>1. Chunk' = Chunk
    BY <1>3, SameChunk
  <2> QED BY <1>2, <1>3, <2>1 DEF InChunk
<1>5. Fits(op.p)
  BY DEF Stores, DriverWorks, DriverPretends
<1>6. ASSUME ~excused', op.then = None
      PROVE  Storing'
  <2>1. Outside(InChunk)
    BY <1>1, <1>6 DEF MemoryInv, Kept, Detecting, Storing
  <2> QED BY <1>1, <1>2, <1>3, <1>4, <1>5, <1>6, <2>1 DEF Storing, Outside, Fits
<1>7. ASSUME ~excused', op.then # None
      PROVE  Detecting'
  <2>1. Detecting
    BY <1>1, <1>7 DEF MemoryInv, Kept, Storing
  <2>2. op.addr = 0 /\ \E b : op.data = <<b>>
    BY <2>1 DEF Detecting
  <2>3. Len(op.data) = 1 /\ Chunk = op.data
    BY <2>2, ChunkOfData
  <2>4. \A i \in InChunk : i = 1
    BY <1>2, <2>2, <2>3 DEF InChunk
  <2>5. 1 \in DOMAIN mem
    BY <1>2, <2>1 DEF Detecting, Fits, MemoryInv, MemoryTypes, Writings
  <2>6. mem'[1] = mem[1] \/ mem'[1] = op.data[1]
    BY <1>1, <2>2, <2>3, <2>5
  <2>7. Outside({1})'
    BY <1>1, <1>2, <2>1, <2>4 DEF Detecting, Outside
  <2> QED BY <1>3, <2>1, <2>6, <2>7 DEF Detecting, Fits
<1> QED BY <1>1, <1>2, <1>3, <1>6, <1>7 DEF MemoryInv, MemoryTypes, Kept, Operations

LEMMA WriteStepKeeps ==
  ASSUME SessionAssumption, MemoryInv, WriteStep
  PROVE  MemoryInv'
<1>1. op \in Writings /\ icc' = icc
  BY DEF WriteStep, MemoryInv, MemoryTypes, Operations, Probings
<1>2. ~excused => (op.then # None => Detecting) /\ (op.step = "compare" => Fits(op.p))
  BY <1>1 DEF MemoryInv, Kept, Detecting, Storing
<1>3. CASE FailsToStore(op.p, op.addr, Chunk) /\ WriteFails
  <2>1. mem' \in Seq(Byte) /\ Len(mem') = Len(mem) /\ (excused => excused')
    BY <1>1, <1>3, DriverStores
  <2>2. excused' \/ op.then = None
    BY <1>2, <1>3, <2>1 DEF FailsToStore, DriverFails, Detecting
  <2> QED BY <1>1, <1>3, <2>1, <2>2, WriteFailsKeeps
<1>4. CASE Stores(op.p, op.addr, Chunk) /\ op' = [op EXCEPT !.step = "compare"]
           /\ UNCHANGED <<meant, proto>>
  BY <1>1, <1>4, StoredKeeps
<1>5. CASE /\ UNCHANGED mem /\ excused' = (excused \/ NotRestored)
           /\ IF Compared(Stored(op.addr, Chunk)) THEN WriteGoesOn ELSE WriteAgain
  <2>1. excused \/ NotRestored => excused'
    BY <1>5
  <2>2. CASE Stored(op.addr, Chunk)
    BY <1>1, <1>5, <2>1, <2>2, WriteGoesOnKeeps DEF Compared
  <2>3. CASE ~Stored(op.addr, Chunk)
    BY <1>1, <1>5, <2>1, <2>3, WriteAgainKeeps DEF Compared
  <2> QED BY <2>2, <2>3
<1>6. CASE op.step = "compare" /\ UNCHANGED mem /\ DriverFails(op.p) /\ (WriteGoesOn \/ WriteAgain)
  <2>1. excused'
    BY <1>2, <1>6 DEF DriverFails
  <2> QED BY <1>1, <1>6, <2>1, WriteGoesOnKeeps, WriteAgainKeeps
<1> QED BY <1>3, <1>4, <1>5, <1>6 DEF WriteStep

-------------------------------------------------------------------------------
(* A memory card keeps what was written.                                     *)

LEMMA InitMemory ==
  ASSUME SessionAssumption, Init
  PROVE  MemoryInv
BY DEF Init, SessionAssumption, MemoryInv, MemoryTypes, Kept, Operations, Byte

LEMMA NextMemory ==
  ASSUME SessionAssumption, MemoryInv, [Next]_vars
  PROVE  MemoryInv'
<1>1. CASE Begin
  BY <1>1, BeginKeepsMemory
<1>2. CASE Probe
  BY <1>2, ProbeKeepsMemory
<1>3. CASE WriteStep
  BY <1>3, WriteStepKeeps
<1>4. CASE UNCHANGED slotvars
  BY <1>4, IdleKeepsMemory DEF slotvars, MemoryInv, MemoryTypes
<1> QED BY <1>1, <1>2, <1>3, <1>4 DEF Next, vars

\* A memory card holds what the applications wrote to it, and detecting it leaves no
\* trace on it: sync_write compares what it wrote before it counts it as written, a page at
\* a time (src/src/ifd/proto-sync.c), whatever part of it the driver wrote.
THEOREM SessionMemoryKept == Spec => []MemoryKept
<1>1. MemoryInv => MemoryKept
  BY AtRest, SessionAssumption DEF MemoryInv, MemoryKept
<1>2. Init => MemoryInv
  BY InitMemory, SessionAssumption
<1>3. MemoryInv /\ [Next]_vars => MemoryInv'
  BY NextMemory, SessionAssumption
<1> QED BY <1>1, <1>2, <1>3, PTL DEF Spec

-------------------------------------------------------------------------------
(* Commands over T=0: what holds between two steps.                          *)

\* The card, as module T0Protocol keeps it.
CardStates == [st : {"off", "wait", "data", "talk"}, id : Nat, want : Nat, have : Nat,
               asked : Nat, out : Seq(Tokens), mixed : BOOLEAN]

\* The variables of the slot and of T=0, by their types; there is nothing half done while
\* there is no command.
LineTypes ==
  /\ t0 \in {"idle", "sending", "receiving", "confused"}
  /\ block \in BOOLEAN /\ icc \in Cards \cup {None}
  /\ cmd \in Commands \cup {None}
  /\ unsent \in Nat /\ nulls \in Nat
  /\ got \in Seq(Tokens)
  /\ line \in Seq(Tokens)
  /\ card \in CardStates
  /\ answer.id \in Nat
  /\ stale \in BOOLEAN
  /\ card.st = "off" => card.out = <<>>
  /\ cmd = None => got = <<>> /\ unsent = 0
  /\ cmd # None => /\ proto = "T0" /\ op = None /\ t0 \in {"sending", "receiving"}
                   /\ t0 = "receiving" => Len(got) <= cmd.le + 1

\* The bytes that nobody has read yet, on the line or still to be sent.
Count == Len(line) + Len(card.out)
Said(k) == IF k <= Len(line) THEN line[k] ELSE card.out[k - Len(line)]

\* The k-th byte to come belongs to the command under way.
Comes(k, type, i) ==
  k <= Count => /\ Said(k).id = cmd.id
                /\ Said(k).type \in {type, "bad"}
                /\ Said(k).type = "data" => Said(k).i = i

\* A card that is drawn leaves what it had sent.
Off == card.st = "off"
Bytes(n) == Count = n \/ (Off /\ Count <= n)
CardAt(st) == Off \/ card.st = st

\* The card after z null bytes: waiting for the command, or for its data, or its answer or
\* its status on the way.
Stage(z) ==
  \/ /\ Bytes(z)
     /\ ~Off => card.st = "talk" /\ card.want = unsent
  \/ /\ Bytes(z + 1) /\ Comes(z + 1, "ack", 0)
     /\ ~Off => card.st = "data" /\ card.want = unsent /\ card.asked = unsent /\ unsent > 0
  \/ /\ Bytes(z + 1) /\ Comes(z + 1, "nak", 0)
     /\ ~Off => card.st = "data" /\ card.want = unsent /\ card.asked = 1 /\ unsent > 0
  \/ Bytes(z + 2) /\ Comes(z + 1, "sw1", 0) /\ Comes(z + 2, "sw2", 0) /\ CardAt("wait")

\* The handler has data to send, and the card waits for as many, or soon will.
Sending(z) ==
  /\ t0 = "sending" /\ got = <<>>
  /\ ~Off => card.id = cmd.id /\ card.have = 0
  /\ z = 1 => Comes(1, "null", 0)
  /\ Stage(z)

\* What has come is the beginning of the answer.
GotInOrder ==
  /\ Len(got) <= cmd.le
  /\ \A k \in 1 .. Len(got) : /\ got[k].id = cmd.id /\ got[k].type \in {"data", "bad"}
                              /\ got[k].type = "data" => got[k].i = cmd.le + 1 - k

\* m data bytes of the n that are left, each with its procedure byte.
Pairs(z, m, n) ==
  \A j \in 1 .. m : Comes(z + 2*j - 1, "nak", 0) /\ Comes(z + 2*j, "data", n + 1 - j)

\* The bytes left come together, with one procedure byte and the status.
AllAtOnce(b, left) ==
  /\ Comes(b + 1, "ack", 0)
  /\ \A j \in 1 .. left : Comes(b + 1 + j, "data", left + 1 - j)
  /\ Comes(b + left + 2, "sw1", 0) /\ Comes(b + left + 3, "sw2", 0)

\* The answer from the b-th byte on.
Rest(b, left) ==
  \/ Bytes(b) /\ (~Off => card.st = "talk" /\ card.have = left)
  \/ Bytes(b + left + 3) /\ CardAt("wait") /\ AllAtOnce(b, left)
  \/ Bytes(b + 2) /\ CardAt("wait") /\ Comes(b + 1, "sw1", 0) /\ Comes(b + 2, "sw2", 0)

\* n bytes of data are left to get, of which m come one by one after z null bytes.
Receiving(z, m, n) ==
  /\ t0 = "receiving" /\ GotInOrder /\ n = cmd.le - Len(got)
  /\ ~Off => card.id = cmd.id /\ card.want = 0
  /\ z = 1 => Comes(1, "null", 0)
  /\ Pairs(z, m, n) /\ Rest(z + 2*m, n - m)

\* A byte that is no procedure byte stays where it is.
Spoilt == line # <<>> /\ line[1].type = "bad"

\* Between two commands.
Resting == CardAt("wait") /\ card.out = <<>> /\ (line = <<>> \/ Spoilt)

\* The handler and the card are at the same point of the command.
InTurn ==
  \/ Spoilt
  \/ \E z \in {0, 1} : Sending(z)
  \/ \E z \in {0, 1}, n \in Nat : \E m \in 0 .. n : Receiving(z, m, n)

\* They are, and between two commands there is nothing to come.
OnTurn ==
  /\ cmd = None /\ t0 = "idle" => Resting
  /\ cmd # None => InTurn

\* So it is until a command fails, over T=0 as the card speaks it.
Turn == ~block /\ ~stale /\ proto = "T0" => OnTurn

\* An answer of the command id, in the order the card sent it.
InOrder(bytes, id) ==
  LET n == Len(bytes) - 2
  IN  /\ n >= 0
      /\ \A i \in DOMAIN bytes : bytes[i].id = id
      /\ \A i \in 1 .. n : bytes[i].type \in {"data", "bad"}
      /\ \A i, j \in 1 .. n :
            bytes[i].type = "data" /\ bytes[j].type = "data" => bytes[i].i - bytes[j].i = j - i
      /\ bytes[n + 1].type \in {"sw1", "bad"}
      /\ bytes[n + 2].type \in {"sw2", "bad"}


-------------------------------------------------------------------------------
(* Tokens and sequences of them.                                             *)

LEMMA TokenTypes ==
  ASSUME NEW id \in Nat
  PROVE  /\ \A type \in {"null", "ack", "nak", "data", "sw2", "bad"} :
              /\ Tok(type, id) \in Tokens /\ Tok(type, id).type = type /\ Tok(type, id).id = id
              /\ Tok(type, id).i = 0
         /\ \A k \in Nat : /\ [Tok("data", id) EXCEPT !.i = k] \in Tokens
                           /\ [Tok("data", id) EXCEPT !.i = k] = [type |-> "data", id |-> id, i |-> k]
BY DEF Tok, Tokens

LEMMA NoBytes ==
  \E s : s = <<>> /\ s \in Seq(Tokens)
<1>1. PICK s : s = <<>>
  OBVIOUS
<1>2. s \in Seq(Tokens)
  BY <1>1
<1> QED BY <1>1, <1>2, Zenon

LEMMA OneByte ==
  ASSUME NEW b \in Tokens
  PROVE  \E s : s = <<b>> /\ s \in Seq(Tokens) /\ Len(s) = 1 /\ s[1] = b
<1>1. PICK s : s = <<b>>
  OBVIOUS
<1>2. s \in Seq(Tokens) /\ Len(s) = 1 /\ s[1] = b
  BY <1>1
<1> QED BY <1>1, <1>2, Zenon

LEMMA TwoBytes ==
  ASSUME NEW a \in Tokens, NEW b \in Tokens
  PROVE  \E s : s = <<a, b>> /\ s \in Seq(Tokens) /\ Len(s) = 2 /\ s[1] = a /\ s[2] = b
<1>1. PICK s : s = <<a, b>>
  OBVIOUS
<1>2. s \in Seq(Tokens) /\ Len(s) = 2 /\ s[1] = a /\ s[2] = b
  BY <1>1
<1> QED BY <1>1, <1>2, Zenon

Kinds == {"ok", "more", "error"}

IsStatus(s, id) ==
  /\ s \in Seq(Tokens) /\ Len(s) = 2
  /\ s[1].type = "sw1" /\ s[1].id = id /\ s[2].type = "sw2" /\ s[2].id = id

LEMMA StatusTypes ==
  ASSUME NEW id \in Nat, NEW kind \in Kinds, NEW n \in Nat
  PROVE  IsStatus(Status(id, kind, n), id)
<1>1. PICK a : a = [type |-> "sw1", id |-> id, i |-> 0, sw |-> [kind |-> kind, n |-> n]]
  OBVIOUS
<1>2. a \in Tokens /\ a.type = "sw1" /\ a.id = id
  BY <1>1 DEF Tokens, Kinds
<1>3. PICK b : b = Tok("sw2", id)
  OBVIOUS
<1>4. b \in Tokens /\ b.type = "sw2" /\ b.id = id
  BY <1>3, TokenTypes
<1>5. PICK s : s = <<a, b>>
  OBVIOUS
<1>6. s = Status(id, kind, n)
  BY <1>1, <1>3, <1>5 DEF Status
<1>7. s \in Seq(Tokens) /\ Len(s) = 2 /\ s[1] = a /\ s[2] = b
  BY <1>2, <1>4, <1>5
<1> QED BY <1>2, <1>4, <1>6, <1>7 DEF IsStatus

LEMMA DataTypes ==
  ASSUME NEW id \in Nat, NEW n \in Nat
  PROVE  /\ Data(id, n) \in Seq(Tokens) /\ Len(Data(id, n)) = n
         /\ \A j \in 1 .. n : Data(id, n)[j] = [type |-> "data", id |-> id, i |-> n + 1 - j]
<1>1. PICK d : d = Data(id, n)
  OBVIOUS
<1>2. DOMAIN d = 1 .. n /\ \A j \in 1 .. n : d[j] = [type |-> "data", id |-> id, i |-> n + 1 - j]
  BY <1>1 DEF Data
<1>3. ASSUME NEW j \in 1 .. n PROVE d[j] \in Tokens
  <2>1. PICK k \in Nat : k = n + 1 - j
    OBVIOUS
  <2>2. d[j] = [type |-> "data", id |-> id, i |-> k]
    BY <1>2, <2>1
  <2> QED BY <2>2 DEF Tokens
<1>4. d = [j \in 1 .. n |-> d[j]]
  BY <1>1, <1>2 DEF Data
<1>5. d \in [1 .. n -> Tokens]
  BY <1>3, <1>4
<1>6. d \in Seq(Tokens) /\ Len(d) = n
  BY <1>5
<1> QED BY <1>1, <1>2, <1>6

Joined(s, t) == s \o t

LEMMA JoinedSeq ==
  ASSUME NEW s \in Seq(Tokens), NEW t \in Seq(Tokens)
  PROVE  /\ Joined(s, t) \in Seq(Tokens) /\ Len(Joined(s, t)) = Len(s) + Len(t)
         /\ \A j \in 1 .. Len(s) + Len(t) : Joined(s, t)[j] = IF j <= Len(s) THEN s[j] ELSE t[j - Len(s)]
BY ConcatProperties DEF Joined

\* A message with all the data at once.
LEMMA WholeMessage ==
  ASSUME NEW id \in Nat, NEW n \in Nat
  PROVE  \E s \in Seq(Tokens) :
           /\ s = <<Tok("ack", id)>> \o Data(id, n) \o Status(id, "ok", 0)
           /\ Len(s) = n + 3 /\ s[1].type = "ack" /\ s[1].id = id
           /\ \A j \in 1 .. n : s[1 + j] = [type |-> "data", id |-> id, i |-> n + 1 - j]
           /\ s[n + 2].type = "sw1" /\ s[n + 2].id = id
           /\ s[n + 3].type = "sw2" /\ s[n + 3].id = id
<1>1. PICK a \in Tokens : a = Tok("ack", id) /\ a.type = "ack" /\ a.id = id
  BY TokenTypes
<1>2. PICK c : c = <<a>>
  OBVIOUS
<1>3. c \in Seq(Tokens) /\ Len(c) = 1 /\ c[1] = a
  BY <1>2
<1>4. PICK d \in Seq(Tokens) : d = Data(id, n) /\ Len(d) = n
                               /\ \A j \in 1 .. n : d[j] = [type |-> "data", id |-> id, i |-> n + 1 - j]
  BY DataTypes
<1>5. PICK w : w = Status(id, "ok", 0)
  OBVIOUS
<1>6. /\ w \in Seq(Tokens) /\ Len(w) = 2
      /\ w[1].type = "sw1" /\ w[1].id = id /\ w[2].type = "sw2" /\ w[2].id = id
  <2>1. "ok" \in Kinds /\ 0 \in Nat
    BY DEF Kinds
  <2>2. IsStatus(w, id)
    BY <1>5, <2>1, StatusTypes
  <2> QED BY <2>2 DEF IsStatus
<1>7. PICK b : b = Joined(c, d)
  OBVIOUS
<1>8. /\ b \in Seq(Tokens) /\ Len(b) = n + 1
      /\ \A j \in 1 .. n + 1 : b[j] = IF j <= 1 THEN c[j] ELSE d[j - 1]
  <2>1. /\ b \in Seq(Tokens) /\ Len(b) = Len(c) + Len(d)
        /\ \A j \in 1 .. Len(c) + Len(d) : b[j] = IF j <= Len(c) THEN c[j] ELSE d[j - Len(c)]
    BY <1>3, <1>7, JoinedSeq
  <2>2. Len(c) + Len(d) = n + 1
    BY <1>3, <1>4
  <2> QED BY <1>3, <2>1, <2>2
<1>9. PICK s : s = Joined(b, w)
  OBVIOUS
<1>10. /\ s \in Seq(Tokens) /\ Len(s) = n + 3
       /\ \A j \in 1 .. n + 3 : s[j] = IF j <= n + 1 THEN b[j] ELSE w[j - (n + 1)]
  <2>1. /\ s \in Seq(Tokens) /\ Len(s) = Len(b) + Len(w)
        /\ \A j \in 1 .. Len(b) + Len(w) : s[j] = IF j <= Len(b) THEN b[j] ELSE w[j - Len(b)]
    BY <1>6, <1>8, <1>9, JoinedSeq
  <2>2. Len(b) + Len(w) = n + 3
    BY <1>6, <1>8
  <2> QED BY <1>8, <2>1, <2>2
<1>11. s = <<Tok("ack", id)>> \o Data(id, n) \o Status(id, "ok", 0)
  BY <1>1, <1>2, <1>4, <1>5, <1>7, <1>9 DEF Joined
<1>12. s[1] = a /\ s[n + 2] = w[1] /\ s[n + 3] = w[2]
  <2>1. 1 \in 1 .. n + 3 /\ n + 2 \in 1 .. n + 3 /\ n + 3 \in 1 .. n + 3 /\ 1 \in 1 .. n + 1
    OBVIOUS
  <2>2. s[1] = b[1] /\ b[1] = c[1]
    <3>1. s[1] = b[1]
      BY <1>10, <2>1
    <3>2. b[1] = c[1]
      BY <1>8, <2>1
    <3> QED BY <3>1, <3>2
  <2>3. s[n + 2] = w[(n + 2) - (n + 1)] /\ s[n + 3] = w[(n + 3) - (n + 1)]
    BY <1>10, <2>1
  <2>4. (n + 2) - (n + 1) = 1 /\ (n + 3) - (n + 1) = 2
    OBVIOUS
  <2> QED BY <1>3, <2>2, <2>3, <2>4
<1>13. ASSUME NEW j \in 1 .. n
       PROVE  s[1 + j] = [type |-> "data", id |-> id, i |-> n + 1 - j]
  <2>1. PICK k \in 1 .. n + 1 : k = 1 + j
    OBVIOUS
  <2>2. s[k] = d[j]
    BY <1>8, <1>10, <2>1
  <2> QED BY <1>4, <2>1, <2>2
<1> QED BY <1>1, <1>6, <1>10, <1>11, <1>12, <1>13

-------------------------------------------------------------------------------
(* What is still to come.                                                    *)

LEMMA Counted ==
  ASSUME LineTypes
  PROVE  /\ Count \in Nat /\ Len(line) \in Nat /\ Len(card.out) \in Nat
         /\ card.out \in Seq(Tokens) /\ Count = Len(line) + Len(card.out)
         /\ \A k \in 1 .. Count : Said(k) \in Tokens
<1>1. PICK out \in Seq(Tokens) : out = card.out
  BY DEF LineTypes, CardStates
<1>2. line \in Seq(Tokens) /\ Len(line) \in Nat /\ Len(out) \in Nat
  BY <1>1 DEF LineTypes, CardStates
<1>3. Count = Len(line) + Len(out)
  BY <1>1 DEF Count
<1>4. ASSUME NEW k \in 1 .. Count PROVE Said(k) \in Tokens
  <2>1. CASE k <= Len(line)
    BY <1>2, <1>3, <1>4, <2>1, ElementOfSeq DEF Said
  <2>2. CASE ~(k <= Len(line))
    <3>1. PICK j \in 1 .. Len(out) : j = k - Len(line)
      BY <1>2, <1>3, <1>4, <2>2
    <3> QED BY <1>1, <2>2, <3>1, ElementOfSeq DEF Said
  <2> QED BY <2>1, <2>2
<1> QED BY <1>1, <1>2, <1>3, <1>4

\* A byte of the card gets on the line: the same bytes are to come, but one may be spoilt.
LEMMA SendsByte ==
  ASSUME LineTypes, CardSends
  PROVE  /\ line' \in Seq(Tokens) /\ Len(line') = Len(line) + 1
         /\ card' = [card EXCEPT !.out = Tail(card.out)] /\ card'.out \in Seq(Tokens)
         /\ card.st # "off" /\ Count' = Count
         /\ line # <<>> => line' # <<>> /\ line'[1] = line[1]
         /\ \A k \in 1 .. Count : \/ Said(k)' = Said(k)
                                  \/ (Said(k)'.type = "bad" /\ Said(k)'.id = card.id)
<1>1. card.out # <<>> /\ card' = [card EXCEPT !.out = Tail(card.out)]
  BY DEF CardSends
<1>2. PICK b : /\ b = Head(card.out) \/ b = Tok("bad", card.id)
               /\ line' = Append(line, b)
  BY DEF CardSends
<1>3. PICK out \in Seq(Tokens) : out = card.out
  BY DEF LineTypes, CardStates
<1>4. out # <<>> /\ Len(out) \in Nat \ {0} /\ Head(out) = out[1] /\ out[1] \in Tokens
  BY <1>1, <1>3
<1>50. PICK rest : rest = Tail(out)
  OBVIOUS
<1>5. /\ rest \in Seq(Tokens) /\ Len(rest) = Len(out) - 1
      /\ \A j \in 1 .. Len(rest) : rest[j] = out[j + 1]
  BY <1>4, <1>50
<1>6. card.id \in Nat /\ card' = [card EXCEPT !.out = rest] /\ card'.out = rest
  BY <1>1, <1>3, <1>5, <1>50 DEF LineTypes, CardStates
<1>7. b \in Tokens /\ (b = out[1] \/ (b.type = "bad" /\ b.id = card.id))
  <2>1. CASE b = Head(card.out)
    BY <1>3, <1>4, <2>1
  <2>2. CASE b = Tok("bad", card.id)
    BY <1>6, <2>2, TokenTypes
  <2> QED BY <1>2, <2>1, <2>2
<1>8. line \in Seq(Tokens) /\ Len(line) \in Nat
  BY DEF LineTypes, CardStates
<1>9. /\ line' \in Seq(Tokens) /\ Len(line') = Len(line) + 1 /\ line'[Len(line) + 1] = b
      /\ \A k \in 1 .. Len(line) : line'[k] = line[k]
  BY <1>2, <1>7, <1>8, AppendProperties
<1>10. Count' = Count /\ Count = Len(line) + Len(out)
  <2>1. Count = Len(line) + Len(out)
    BY <1>3 DEF Count
  <2>2. Count' = Len(line') + Len(rest)
    BY <1>6 DEF Count
  <2> QED BY <1>4, <1>5, <1>8, <1>9, <2>1, <2>2
<1>11. ASSUME NEW k \in 1 .. Count
       PROVE  \/ Said(k)' = Said(k)
              \/ (Said(k)'.type = "bad" /\ Said(k)'.id = card.id)
  <2>1. CASE k <= Len(line)
    BY <1>8, <1>9, <1>10, <2>1 DEF Said
  <2>2. CASE k = Len(line) + 1
    <3>1. Said(k)' = b
      BY <1>8, <1>9, <2>2 DEF Said
    <3>2. Said(k) = out[1]
      <4>1. ~(k <= Len(line)) /\ k - Len(line) = 1
        BY <1>8, <2>2
      <4> QED BY <1>3, <4>1 DEF Said
    <3> QED BY <1>7, <3>1, <3>2
  <2>3. CASE k > Len(line) + 1
    <3>1. PICK j \in 1 .. Len(rest) : j = k - (Len(line) + 1) /\ j + 1 = k - Len(line)
      <4>1. PICK l \in Nat, o \in Nat : l = Len(line) /\ o = Len(out)
        BY <1>4, <1>8
      <4>2. k \in 1 .. l + o /\ k > l + 1 /\ Len(rest) = o - 1
        BY <1>5, <1>10, <2>3, <4>1
      <4>3. k - (l + 1) \in 1 .. o - 1 /\ (k - (l + 1)) + 1 = k - l
        BY <4>2
      <4> QED BY <4>1, <4>2, <4>3
    <3>2. Said(k)' = rest[j]
      BY <1>6, <1>8, <1>9, <2>3, <3>1 DEF Said
    <3>3. Said(k) = out[j + 1]
      BY <1>3, <1>8, <2>3, <3>1 DEF Said
    <3> QED BY <1>5, <3>2, <3>3
  <2> QED BY <1>8, <1>10, <2>1, <2>2, <2>3
<1>12. card.st # "off"
  BY <1>1 DEF LineTypes, CardStates
<1>13. line # <<>> => line' # <<>> /\ line'[1] = line[1]
  BY <1>8, <1>9
<1> QED BY <1>5, <1>6, <1>9, <1>10, <1>1, <1>11, <1>12, <1>13

LEMMA LineRead ==
  ASSUME line \in Seq(Tokens), NEW c \in Nat, c <= Len(line), line' = SubSeq(line, c + 1, Len(line))
  PROVE  /\ line' \in Seq(Tokens) /\ Len(line') = Len(line) - c
         /\ \A k \in 1 .. Len(line) - c : line'[k] = line[k + c]
<1>1. PICK len \in Nat : len = Len(line)
  OBVIOUS
<1>2. PICK lo \in Nat : lo = c + 1
  OBVIOUS
<1>3. \A k \in lo .. len : line[k] \in Tokens
  BY <1>1, <1>2, ElementOfSeq
<1>4. PICK t : t = SubSeq(line, lo, len)
  OBVIOUS
<1>5. /\ t \in Seq(Tokens) /\ Len(t) = IF lo <= len THEN len - lo + 1 ELSE 0
      /\ \A k \in 1 .. len - lo + 1 : t[k] = line[lo + k - 1]
  BY <1>3, <1>4, SubSeqProperties
<1>6. len - lo + 1 = len - c /\ (lo <= len \/ len - c = 0) /\ \A k \in Nat : lo + k - 1 = k + c
  BY <1>1, <1>2
<1>7. Len(t) = len - c
  BY <1>5, <1>6
<1>8. ASSUME NEW k \in 1 .. len - c PROVE t[k] = line[k + c]
  <2>1. k \in 1 .. len - lo + 1 /\ lo + k - 1 = k + c
    BY <1>6
  <2>2. t[k] = line[lo + k - 1]
    BY <1>5, <2>1
  <2> QED BY <2>1, <2>2
<1>9. line' = t
  BY <1>1, <1>2, <1>4
<1> QED BY <1>1, <1>5, <1>7, <1>8, <1>9

LEMMA ReadsBytes ==
  ASSUME LineTypes, NEW c \in Nat, c <= Len(line), line' = SubSeq(line, c + 1, Len(line)),
         card'.out = card.out
  PROVE  /\ line' \in Seq(Tokens) /\ Len(line') = Len(line) - c /\ Count' = Count - c
         /\ \A k \in Nat \ {0} : k + c <= Count => Said(k)' = Said(k + c)
<1>1. line \in Seq(Tokens) /\ Len(line) \in Nat /\ Len(card.out) \in Nat
      /\ Count = Len(line) + Len(card.out)
  BY Counted DEF LineTypes
<1>2. PICK len \in Nat : len = Len(line)
  BY <1>1
<1>3. /\ line' \in Seq(Tokens) /\ Len(line') = len - c
      /\ \A k \in 1 .. len - c : line'[k] = line[k + c]
  BY <1>1, <1>2, LineRead
<1>4. Count' = Count - c
  <2>1. Count' = Len(line') + Len(card.out)
    BY DEF Count
  <2> QED BY <1>1, <1>2, <1>3, <2>1
<1>5. ASSUME NEW k \in Nat \ {0}, k + c <= Count PROVE Said(k)' = Said(k + c)
  <2>1. CASE k <= len - c
    BY <1>2, <1>3, <2>1 DEF Said
  <2>2. CASE ~(k <= len - c)
    <3>1. ~(k + c <= len) /\ (k + c) - len = k - (len - c)
      BY <1>2, <2>2
    <3> QED BY <1>2, <1>3, <2>2, <3>1 DEF Said
  <2> QED BY <2>1, <2>2
<1> QED BY <1>2, <1>3, <1>4, <1>5

LEMMA TalksBytes ==
  ASSUME LineTypes, line' = line, card.out = <<>>, NEW msg \in Seq(Tokens), card'.out = msg,
         NEW n \in Nat, n = Count
  PROVE  /\ n = Len(line) /\ Count' = n + Len(msg)
         /\ \A k \in 1 .. n : Said(k)' = Said(k)
         /\ \A k \in 1 .. Len(msg) : Said(n + k)' = msg[k]
<1>1. n = Len(line) /\ Len(msg) \in Nat
  BY Counted
<1> QED BY <1>1 DEF Count, Said

LEMMA LosesBytes ==
  ASSUME LineTypes, line' = line, card'.out = <<>>
  PROVE  /\ Count' = Len(line) /\ Len(line) <= Count
         /\ \A k \in 1 .. Len(line) : Said(k)' = Said(k)
BY Counted DEF Count, Said

-------------------------------------------------------------------------------
(* Types: a reset, a card drawn, a protocol selected.                        *)

LEMMA LineUnchanged ==
  ASSUME LineTypes, UNCHANGED t0vars, cmd = None \/ UNCHANGED <<proto, op>>,
         icc' \in Cards \cup {None}
  PROVE  LineTypes'
BY DEF LineTypes, t0vars

LEMMA CardInTypes ==
  ASSUME NEW st \in {"off", "wait"}
  PROVE  /\ CardIn(st) \in CardStates /\ CardIn(st).st = st /\ CardIn(st).out = <<>>
         /\ CardIn(st).mixed = FALSE
BY DEF CardIn, CardStates

LEMMA ResetTypes ==
  ASSUME LineTypes, Idle, NEW c \in CardStates, c.st = "off" => c.out = <<>>,
         icc' = icc, NEW bytes \in Seq(Tokens), T0Reset(c, bytes)
  PROVE  LineTypes'
BY DEF LineTypes, T0Reset, Idle, NoAnswer

LEMMA DrawTypes ==
  ASSUME LineTypes, Draw
  PROVE  LineTypes' /\ card'.st = "off" /\ card'.out = <<>> /\ card'.mixed = card.mixed
<1>1. PICK m \in BOOLEAN : m = card.mixed
  BY DEF LineTypes, CardStates
<1>2. card' = [CardIn("off") EXCEPT !.mixed = m]
  BY <1>1 DEF Draw
<1>3. card' \in CardStates /\ card'.st = "off" /\ card'.out = <<>> /\ card'.mixed = m
  <2>1. PICK c \in CardStates : c = CardIn("off") /\ c.st = "off" /\ c.out = <<>>
    BY CardInTypes
  <2>2. card' = [c EXCEPT !.mixed = m]
    BY <1>2, <2>1
  <2> QED BY <2>1, <2>2 DEF CardStates
<1> QED BY <1>1, <1>3 DEF LineTypes, Draw

LEMMA GotAtrReset ==
  ASSUME SessionAssumption, LineTypes, icc \in Cards, icc.kind = "async", NEW tried, GotAtr(tried)
  PROVE  \E bytes \in Seq(Tokens) :
           /\ T0Reset(CardIn("wait"), bytes) /\ \A i \in 1 .. Len(bytes) : bytes[i].type = "bad"
<1>1. PICK n : n = AtrExpected(icc.atr)
  OBVIOUS
<1>2. n \in Nat /\ Len(icc.atr) \in Nat /\ n <= Len(icc.atr)
  <2>1. IsAtr(icc.atr)
    BY DEF SessionAssumption
  <2> QED BY <1>1, <2>1, AtrOfCard DEF GotAtr
<1>3. PICK len \in Nat : len = Len(icc.atr) - n
  <2>1. PICK k \in Nat : k = Len(icc.atr) /\ n <= k
    BY <1>2
  <2> QED BY <1>2, <2>1
<1>4. PICK b \in Tokens : b = Tok("bad", 0) /\ b.type = "bad"
  BY TokenTypes
<1>5. PICK bytes : bytes = [i \in 1 .. len |-> b]
  OBVIOUS
<1>6. bytes \in Seq(Tokens) /\ \A i \in 1 .. Len(bytes) : bytes[i].type = "bad"
  BY <1>4, <1>5
<1>7. T0Reset(CardIn("wait"), bytes)
  BY <1>1, <1>3, <1>4, <1>5 DEF GotAtr
<1> QED BY <1>6, <1>7

LEMMA SetProtocolTypes ==
  ASSUME LineTypes, NEW p, SetProtocol(p)
  PROVE  LineTypes'
<1>1. cmd = None /\ UNCHANGED <<icc, block, cmd, unsent, got, nulls, line, card, answer>>
      /\ t0' \in {t0, "idle"} /\ stale' \in {stale, TRUE}
  BY DEF SetProtocol, Idle
<1> QED BY <1>1 DEF LineTypes

-------------------------------------------------------------------------------
(* Types: the handler and the card.                                          *)

LEMMA NextIdType ==
  ASSUME T0Assumption, NEW i \in Nat
  PROVE  NextId(i) \in Nat
<1>1. PICK n \in Nat \ {0} : n = Cardinality(Ids)
  <2>1. Cardinality(Ids) \in Nat /\ (Cardinality(Ids) = 0 <=> Ids = {})
    BY FS_CardinalityType, FS_EmptySet DEF T0Assumption
  <2> QED BY <2>1 DEF T0Assumption
<1>2. i % n \in Nat
  OBVIOUS
<1> QED BY <1>1, <1>2 DEF NextId

\* The card has a header, or is not there.
Heard(id, want, have) ==
  /\ card'.mixed = card.mixed
  /\ card'.st = "off" \/ card' = [card EXCEPT !.st = "talk", !.id = id, !.want = want, !.have = have]

LEMMA HeaderTypes ==
  ASSUME LineTypes, NEW id \in Nat, NEW want \in Nat, NEW have \in Nat, Header(id, want, have)
  PROVE  /\ card' \in CardStates /\ card'.out = card.out
         /\ card'.st = "off" <=> card.st = "off"
         /\ card.st \in {"off", "wait"} /\ card.out = <<>> => Heard(id, want, have)
<1> USE DEF Heard
<1>1. CASE card.st = "wait" /\ card.out = <<>>
  <2>1. card' = [card EXCEPT !.st = "talk", !.id = id, !.want = want, !.have = have]
    BY <1>1 DEF Header
  <2> QED BY <1>1, <2>1 DEF LineTypes, CardStates
<1>2. CASE ~(card.st = "wait" /\ card.out = <<>>)
  <2>1. PICK m \in BOOLEAN : m = (card.mixed \/ card.st = "data")
    BY DEF LineTypes, CardStates
  <2>2. card' = [card EXCEPT !.mixed = m]
    BY <1>2, <2>1 DEF Header
  <2>3. card' \in CardStates /\ card'.out = card.out /\ card'.st = card.st /\ card'.mixed = m
    BY <2>2 DEF LineTypes, CardStates
  <2>4. card.st = "off" => m = card.mixed
    BY <2>1 DEF LineTypes, CardStates
  <2> QED BY <1>2, <2>3, <2>4
<1> QED BY <1>1, <1>2

LEMMA TransceiveTypes ==
  ASSUME T0Assumption, LineTypes, NEW a \in Apdus, Transceive(a), proto = "T0", op = None,
         UNCHANGED <<proto, op, icc>>
  PROVE  LineTypes'
<1>1. a.lc \in Nat /\ a.le \in Nat
  BY DEF T0Assumption
<1>2. PICK id \in Nat : id = NextId(answer.id)
  BY NextIdType DEF LineTypes
<1>3. CASE t0 # "idle" /\ answer' = [ok |-> FALSE, id |-> id, bytes |-> <<>>]
           /\ UNCHANGED <<t0, cmd, unsent, card>>
  BY <1>3 DEF Transceive, LineTypes
<1>4. CASE /\ t0' = IF a.lc > 0 THEN "sending" ELSE "receiving"
           /\ cmd' = [apdu |-> a, id |-> id, get |-> FALSE, le |-> a.le]
           /\ unsent' = a.lc
           /\ IF block THEN UNCHANGED card ELSE Header(id, a.lc, IF a.lc > 0 THEN 0 ELSE a.le)
           /\ UNCHANGED answer
  <2>1. cmd' \in Commands /\ cmd' # None /\ cmd'.le = a.le
    <3>1. cmd' \in Commands /\ cmd'.le = a.le
      BY <1>1, <1>4 DEF Commands
    <3> QED BY <3>1 DEF T0Assumption
  <2>2. card' \in CardStates /\ (card'.st = "off" => card'.out = <<>>)
    <3>1. CASE block
      BY <1>4, <3>1 DEF LineTypes
    <3>2. CASE ~block
      <4>1. PICK have \in Nat : have = IF a.lc > 0 THEN 0 ELSE a.le
        BY <1>1
      <4> QED BY <1>1, <1>4, <3>2, <4>1, HeaderTypes DEF LineTypes
    <3> QED BY <3>1, <3>2
  <2>3. got' = <<>> /\ Len(<<>>) = 0
    BY DEF Transceive, LineTypes
  <2> QED BY <1>1, <1>4, <2>1, <2>2, <2>3 DEF Transceive, LineTypes
<1>5. CASE /\ t0' = IF a.lc > 0 THEN "confused" ELSE "idle"
           /\ answer' = [ok |-> FALSE, id |-> id, bytes |-> <<>>]
           /\ UNCHANGED <<cmd, unsent, card>>
  BY <1>5 DEF Transceive, LineTypes
<1> QED BY <1>2, <1>3, <1>4, <1>5 DEF Transceive, T0Resynch

LEMMA ReturnTypes ==
  ASSUME LineTypes, cmd # None, NEW state \in {"idle", "sending", "receiving", "confused"}, NEW ok, NEW bytes,
         Return(state, ok, bytes), line' \in Seq(Tokens), card' \in CardStates,
         card'.st = "off" => card'.out = <<>>, stale' \in BOOLEAN, UNCHANGED <<block, icc>>
  PROVE  LineTypes'
<1>1. cmd.id \in Nat
  BY DEF LineTypes, Commands
<1> QED BY <1>1 DEF LineTypes, Return

LEMMA FailTypes ==
  ASSUME LineTypes, cmd # None, NEW mark \in {"sending", "receiving", "confused"}, Fail(mark),
         line' \in Seq(Tokens), UNCHANGED <<card, block, icc>>
  PROVE  LineTypes'
<1>1. stale' \in BOOLEAN /\ \E state \in {"idle", "sending", "receiving", "confused"} : Return(state, FALSE, <<>>)
  BY DEF Fail, LineTypes
<1> QED BY <1>1, ReturnTypes DEF LineTypes

LEMMA AfterStatusTypes ==
  ASSUME LineTypes, T0Assumption, cmd # None, NEW bytes, NEW sw, sw.n \in Nat, AfterStatus(bytes, sw),
         line' \in Seq(Tokens), block => card' = card, UNCHANGED <<block, icc, proto, op>>
  PROVE  LineTypes'
<1>1. CASE GetResponse(LeAfter(sw))
  <2>1. cmd.apdu \in Apdus /\ cmd \in Commands /\ cmd.id \in Nat
    BY DEF LineTypes, Commands
  <2>2. PICK le \in Nat : le = LeAfter(sw)
    BY <2>1 DEF LeAfter, T0Assumption
  <2>3. cmd' = [cmd EXCEPT !.get = TRUE, !.le = le]
    BY <1>1, <2>2 DEF GetResponse
  <2>4. cmd' \in Commands /\ cmd' # None /\ cmd'.le = le
    <3>1. cmd' \in Commands /\ cmd'.le = le
      BY <2>1, <2>3 DEF Commands
    <3> QED BY <3>1 DEF T0Assumption
  <2>5. card' \in CardStates /\ (card'.st = "off" => card'.out = <<>>)
    <3>1. CASE block
      BY <3>1 DEF LineTypes
    <3>2. CASE ~block
      <4>1. Header(cmd.id, 0, le)
        BY <1>1, <2>2, <3>2 DEF GetResponse
      <4> QED BY <2>1, <4>1, HeaderTypes DEF LineTypes
    <3> QED BY <3>1, <3>2
  <2>6. got' = <<>> /\ Len(<<>>) = 0 /\ t0' = "receiving" /\ unsent' = 0 /\ nulls' = 0 /\ UNCHANGED <<answer, stale>>
    BY <1>1 DEF GetResponse
  <2> QED BY <2>2, <2>4, <2>5, <2>6 DEF LineTypes
<1>2. CASE Return("idle", TRUE, bytes) /\ UNCHANGED <<card, stale>>
  BY <1>2, ReturnTypes DEF LineTypes
<1>3. CASE Return("idle", FALSE, <<>>) /\ UNCHANGED <<card, stale>>
  BY <1>3, ReturnTypes DEF LineTypes
<1> QED BY <1>1, <1>2, <1>3 DEF AfterStatus

LEMMA NeedsBytes ==
  ASSUME LineTypes, cmd # None, line # <<>>, NEW p \in Meanings(line[1])
  PROVE  /\ p \in {"null", "ack", "nak", "sw", "bad"}
         /\ Needs(p) \in Nat \ {0}
         /\ t0 = "receiving" => Room \in Nat \ {0} /\ Room = cmd.le + 2 - Len(got)
         /\ line[1] \in Tokens /\ (line[1].type = "sw1" => p = "sw" /\ line[1].sw.n \in Nat)
         /\ line[1].type = "bad" => p = "bad"
         /\ line[1].type \in {"null", "ack", "nak"} => p = line[1].type
<1>1. line[1] \in Tokens
  BY DEF LineTypes
<1>2. /\ line[1].type \in {"null", "ack", "nak", "data", "sw2", "bad", "sw1"}
      /\ line[1].type = "sw1" => line[1].sw.n \in Nat
  BY <1>1 DEF Tokens
<1>3. t0 = "receiving" => Room \in Nat \ {0} /\ Room = cmd.le + 2 - Len(got)
  <2> SUFFICES ASSUME t0 = "receiving" PROVE Room \in Nat \ {0} /\ Room = cmd.le + 2 - Len(got)
    OBVIOUS
  <2>1. PICK le \in Nat, l \in Nat : le = cmd.le /\ l = Len(got) /\ l <= le + 1
    BY DEF LineTypes, Commands
  <2>2. Room = le + 2 - l
    BY <2>1 DEF Room
  <2>3. le + 2 - l \in Nat \ {0}
    BY <2>1
  <2> QED BY <2>1, <2>2, <2>3
<1>4. Needs(p) \in Nat \ {0}
  BY <1>3 DEF Needs
<1> QED BY <1>1, <1>2, <1>3, <1>4 DEF Meanings

\* What the procedure byte, when it is taken for p, leads to.
LEMMA ProcedureTypes ==
  ASSUME T0Assumption, LineTypes, ProcedureByte, UNCHANGED <<proto, op, icc>>
  PROVE  LineTypes'
<1>1. PICK p \in Meanings(line[1]) :
        /\ Len(line) >= Needs(p)
        /\ line' = SubSeq(line, Needs(p) + 1, Len(line))
        /\ CASE p = "null"                       -> ReadsNull
             [] p = "sw"                         -> ReadsStatus
             [] p = "bad"                        -> Fail(t0) /\ UNCHANGED card
             [] p = "ack" /\ t0 = "sending"      -> SendsData(unsent)
             [] p = "nak" /\ t0 = "sending"      -> SendsData(1)
             [] p = "ack" /\ t0 = "receiving"    -> ReadsData(Room)
             [] p = "nak" /\ t0 = "receiving"    -> ReadsData(1)
  BY DEF ProcedureByte
<1>2. /\ cmd # None /\ ~block /\ line # <<>> /\ t0 \in {"sending", "receiving"}
      /\ UNCHANGED <<block, proto, op, icc>>
      /\ line \in Seq(Tokens) /\ Len(line) \in Nat
  BY DEF ProcedureByte, LineTypes
<1>3. PICK c \in Nat \ {0} : c = Needs(p) /\ c <= Len(line)
  BY <1>1, <1>2, NeedsBytes
<1>4. line' \in Seq(Tokens) /\ p \in {"null", "ack", "nak", "sw", "bad"}
  BY <1>1, <1>2, <1>3, LineRead, NeedsBytes
<1>5. CASE p = "null"
  <2>1. ReadsNull
    BY <1>1, <1>5
  <2>2. CASE Fail("confused") /\ UNCHANGED card
    BY <1>2, <1>4, <2>2, FailTypes
  <2>3. CASE nulls' = nulls + 1 /\ UNCHANGED <<t0, cmd, unsent, got, card, answer, stale>>
    BY <1>2, <1>4, <2>3 DEF LineTypes
  <2> QED BY <2>1, <2>2, <2>3 DEF ReadsNull
<1>6. CASE p = "sw"
  <2>1. ReadsStatus
    BY <1>1, <1>6
  <2>2. PICK sw : sw = StatusOf(line[1]) /\ sw.n \in Nat
    <3>1. line[1].type = "sw1" => line[1].sw.n \in Nat
      <4>1. line[1] \in Tokens
        BY <1>2 DEF LineTypes
      <4> QED BY <4>1 DEF Tokens
    <3>2. StatusOf(line[1]).n \in Nat
      BY <3>1 DEF StatusOf
    <3> QED BY <3>2, Zenon
  <2>3. \E bytes : AfterStatus(bytes, sw)
    BY <2>1, <2>2 DEF ReadsStatus
  <2> QED BY <1>2, <1>4, <2>2, <2>3, AfterStatusTypes
<1>7. CASE p = "bad"
  <2>1. Fail(t0) /\ UNCHANGED card
    BY <1>1, <1>7
  <2> QED BY <1>2, <1>4, <2>1, FailTypes
<1>8. CASE p \in {"ack", "nak"} /\ t0 = "sending"
  <2>1. PICK n \in Nat : SendsData(n) /\ (n = unsent \/ n = 1)
    BY <1>1, <1>8 DEF LineTypes
  <2>2. CASE Fail("confused") /\ UNCHANGED card
    BY <1>2, <1>4, <2>2, FailTypes
  <2>3. CASE unsent # 0 /\ n <= unsent /\ unsent' = unsent - n /\ CardGets(n)
             /\ UNCHANGED <<t0, cmd, got, nulls, answer, stale>>
    <3>1. unsent' \in Nat
      BY <2>3 DEF LineTypes
    <3>2. card' \in CardStates /\ (card'.st = "off" => card'.out = <<>>)
      <4>1. CASE card.st = "data" /\ n <= card.want
        <5>1. PICK w \in Nat : w = card.want - n
          BY <4>1 DEF LineTypes, CardStates
        <5>2. PICK st \in {"talk", "data"} : st = IF n >= card.asked THEN "talk" ELSE "data"
          OBVIOUS
        <5>3. card' = [card EXCEPT !.want = w, !.st = st]
          BY <2>3, <4>1, <5>1, <5>2 DEF CardGets
        <5> QED BY <5>3 DEF LineTypes, CardStates
      <4>2. CASE ~(card.st = "data" /\ n <= card.want)
        BY <2>3, <4>2 DEF CardGets, LineTypes
      <4> QED BY <4>1, <4>2
    <3> QED BY <1>2, <1>4, <2>3, <3>1, <3>2 DEF LineTypes
  <2> QED BY <2>1, <2>2, <2>3 DEF SendsData
<1>9. CASE p \in {"ack", "nak"} /\ t0 = "receiving"
  <2>1. PICK n \in Nat \ {0} : ReadsData(n) /\ n <= Room /\ n + 1 = c /\ Room \in Nat /\ Room = cmd.le + 2 - Len(got)
    <3>1. Room \in Nat \ {0} /\ Room = cmd.le + 2 - Len(got)
      BY <1>2, <1>9, NeedsBytes
    <3>2. CASE p = "ack"
      BY <1>1, <1>3, <1>9, <3>1, <3>2 DEF Needs
    <3>3. CASE p = "nak"
      BY <1>1, <1>3, <1>9, <3>1, <3>3 DEF Needs
    <3> QED BY <1>9, <3>2, <3>3
  <2>2. CASE n = Room
    <3>1. Return("idle", TRUE, got \o SubSeq(line, 2, n + 1)) /\ UNCHANGED <<card, stale>>
      BY <2>1, <2>2 DEF ReadsData
    <3> QED BY <1>2, <1>4, <3>1, ReturnTypes DEF LineTypes
  <2>3. CASE n # Room
    <3>1. got' = got \o SubSeq(line, 2, n + 1) /\ UNCHANGED <<t0, cmd, unsent, nulls, card, answer, stale>>
      BY <2>1, <2>3 DEF ReadsData
    <3>2. PICK d : d = SubSeq(line, 2, n + 1)
      OBVIOUS
    <3>3. d \in Seq(Tokens) /\ Len(d) = n
      <4>1. \A k \in 2 .. n + 1 : line[k] \in Tokens
        BY <1>2, <1>3, <2>1, ElementOfSeq
      <4>2. PICK m \in Int : m = n + 1
        OBVIOUS
      <4>3. d = SubSeq(line, 2, m) /\ 2 <= m /\ m - 2 + 1 = n
        BY <3>2, <4>2
      <4> QED BY <4>1, <4>2, <4>3, SubSeqProperties
    <3>4. got' \in Seq(Tokens) /\ Len(got') = Len(got) + n
      BY <3>1, <3>2, <3>3, JoinedSeq DEF Joined, LineTypes
    <3>5. Len(got') <= cmd.le + 1
      <4>1. PICK l \in Nat, le \in Nat : l = Len(got) /\ le = cmd.le
        BY <1>2 DEF LineTypes, Commands
      <4> QED BY <2>1, <2>3, <3>4, <4>1
    <3> QED BY <1>2, <1>4, <1>9, <3>1, <3>4, <3>5 DEF LineTypes
  <2> QED BY <2>2, <2>3
<1> QED BY <1>2, <1>4, <1>5, <1>6, <1>7, <1>8, <1>9

LEMMA TimeoutTypes ==
  ASSUME LineTypes, Timeout, UNCHANGED <<proto, op, icc>>
  PROVE  LineTypes'
<1>1. cmd # None /\ line' = <<>> /\ Fail("confused") /\ UNCHANGED <<block, card>>
  BY DEF Timeout
<1> QED BY <1>1, FailTypes

LEMMA BlockTypes ==
  ASSUME T0Assumption, LineTypes, BlockExchange, UNCHANGED <<proto, op, icc>>
  PROVE  LineTypes'
<1>1. cmd # None /\ UNCHANGED <<block, line, card>> /\ t0 \in {"sending", "receiving"}
  BY DEF BlockExchange, LineTypes
<1>2. CASE Fail(t0)
  BY <1>1, <1>2, FailTypes DEF LineTypes
<1>3. CASE \E n \in {0, cmd.le}, kind \in {"ok", "more", "error"} :
             AfterStatus(Data(cmd.id, n) \o Status(cmd.id, kind, 1), [kind |-> kind, n |-> 1])
  <2>1. PICK bytes, sw : AfterStatus(bytes, sw) /\ sw.n = 1
    BY <1>3
  <2> QED BY <1>1, <2>1, AfterStatusTypes DEF LineTypes
<1> QED BY <1>2, <1>3 DEF BlockExchange

-------------------------------------------------------------------------------
(* One step of the card.                                                     *)

\* What the card says.
SaysOne(type) ==
  /\ Len(card'.out) = 1
  /\ card'.out[1].type = type /\ card'.out[1].id = card.id
SaysStatus ==
  /\ Len(card'.out) = 2
  /\ card'.out[1].type = "sw1" /\ card'.out[1].id = card.id
  /\ card'.out[2].type = "sw2" /\ card'.out[2].id = card.id
SaysPair(n) ==
  /\ Len(card'.out) = 2
  /\ card'.out[1].type = "nak" /\ card'.out[1].id = card.id
  /\ card'.out[2] = [type |-> "data", id |-> card.id, i |-> n]
SaysAll(n) ==
  /\ Len(card'.out) = n + 3
  /\ card'.out[1].type = "ack" /\ card'.out[1].id = card.id
  /\ \A j \in 1 .. n : card'.out[1 + j] = [type |-> "data", id |-> card.id, i |-> n + 1 - j]
  /\ card'.out[n + 2].type = "sw1" /\ card'.out[n + 2].id = card.id
  /\ card'.out[n + 3].type = "sw2" /\ card'.out[n + 3].id = card.id

CardNow(st, want, have) == card'.st = st /\ card'.want = want /\ card'.have = have

CardSaid ==
  /\ card.st = "talk" /\ card.out = <<>>
  /\ card' \in CardStates /\ card'.st # "off" /\ card'.id = card.id /\ card'.mixed = card.mixed
  /\ \/ line = <<>> /\ SaysOne("null") /\ CardNow("talk", card.want, card.have)
     \/ card.want > 0 /\ SaysOne("ack") /\ CardNow("data", card.want, card.have) /\ card'.asked = card.want
     \/ card.want > 0 /\ SaysOne("nak") /\ CardNow("data", card.want, card.have) /\ card'.asked = 1
     \/ card.have > 0 /\ SaysAll(card.have) /\ CardNow("wait", card.want, 0)
     \/ card.have > 0 /\ SaysPair(card.have) /\ CardNow("talk", card.want, card.have - 1)
     \/ SaysStatus /\ CardNow("wait", 0, 0)

LEMMA CardTalksSaid ==
  ASSUME LineTypes, CardTalks
  PROVE  CardSaid
<1>1. card \in CardStates /\ card.st = "talk" /\ card.out = <<>>
  BY DEF CardTalks, CardSays, LineTypes
<1>2. PICK id \in Nat, have \in Nat, want \in Nat : id = card.id /\ have = card.have /\ want = card.want
  BY <1>1 DEF CardStates
<1>3. CASE line = <<>> /\ card' = [card EXCEPT !.out = <<Tok("null", card.id)>>]
  <2>1. PICK b \in Tokens : b = Tok("null", id) /\ b.type = "null" /\ b.id = id
    BY TokenTypes
  <2>2. PICK s : s = <<b>> /\ s \in Seq(Tokens) /\ Len(s) = 1 /\ s[1] = b
    BY <2>1, OneByte, Zenon
  <2>3. card' = [card EXCEPT !.out = s]
    BY <1>2, <1>3, <2>1, <2>2
  <2>4. card' \in CardStates /\ card'.out = s /\ card'.st = "talk" /\ card'.id = id /\ card'.mixed = card.mixed
        /\ CardNow("talk", card.want, card.have)
    BY <1>1, <1>2, <2>2, <2>3 DEF CardStates, CardNow
  <2>5. SaysOne("null")
    BY <1>2, <2>1, <2>2, <2>4 DEF SaysOne
  <2> QED BY <1>1, <1>2, <1>3, <2>4, <2>5 DEF CardSaid
<1>4. CASE card.want > 0 /\ card' = [card EXCEPT !.out = <<Tok("ack", card.id)>>, !.st = "data", !.asked = card.want]
  <2>1. PICK b \in Tokens : b = Tok("ack", id) /\ b.type = "ack" /\ b.id = id
    BY TokenTypes
  <2>2. PICK s : s = <<b>> /\ s \in Seq(Tokens) /\ Len(s) = 1 /\ s[1] = b
    BY <2>1, OneByte, Zenon
  <2>3. card' = [card EXCEPT !.out = s, !.st = "data", !.asked = want]
    BY <1>2, <1>4, <2>1, <2>2
  <2>4. card' \in CardStates /\ card'.out = s /\ card'.st = "data" /\ card'.id = id /\ card'.mixed = card.mixed
        /\ CardNow("data", card.want, card.have) /\ card'.asked = card.want
    BY <1>1, <1>2, <2>2, <2>3 DEF CardStates, CardNow
  <2>5. SaysOne("ack")
    BY <1>2, <2>1, <2>2, <2>4 DEF SaysOne
  <2> QED BY <1>1, <1>2, <1>4, <2>4, <2>5 DEF CardSaid
<1>5. CASE card.want > 0 /\ card' = [card EXCEPT !.out = <<Tok("nak", card.id)>>, !.st = "data", !.asked = 1]
  <2>1. PICK b \in Tokens : b = Tok("nak", id) /\ b.type = "nak" /\ b.id = id
    BY TokenTypes
  <2>2. PICK s : s = <<b>> /\ s \in Seq(Tokens) /\ Len(s) = 1 /\ s[1] = b
    BY <2>1, OneByte, Zenon
  <2>3. card' = [card EXCEPT !.out = s, !.st = "data", !.asked = 1]
    BY <1>2, <1>5, <2>1, <2>2
  <2>4. card' \in CardStates /\ card'.out = s /\ card'.st = "data" /\ card'.id = id /\ card'.mixed = card.mixed
        /\ CardNow("data", card.want, card.have) /\ card'.asked = 1
    BY <1>1, <1>2, <2>2, <2>3 DEF CardStates, CardNow
  <2>5. SaysOne("nak")
    BY <1>2, <2>1, <2>2, <2>4 DEF SaysOne
  <2> QED BY <1>1, <1>2, <1>5, <2>4, <2>5 DEF CardSaid
<1>6. CASE card.have > 0 /\ card' = [card EXCEPT !.st = "wait", !.have = 0,
               !.out = <<Tok("ack", card.id)>> \o Data(card.id, card.have) \o Status(card.id, "ok", 0)]
  <2>1. PICK s \in Seq(Tokens) :
                 /\ s = <<Tok("ack", id)>> \o Data(id, have) \o Status(id, "ok", 0)
                 /\ Len(s) = have + 3 /\ s[1].type = "ack" /\ s[1].id = id
                 /\ \A j \in 1 .. have : s[1 + j] = [type |-> "data", id |-> id, i |-> have + 1 - j]
                 /\ s[have + 2].type = "sw1" /\ s[have + 2].id = id
                 /\ s[have + 3].type = "sw2" /\ s[have + 3].id = id
    BY WholeMessage
  <2>2. card' = [card EXCEPT !.st = "wait", !.have = 0, !.out = s]
    BY <1>2, <1>6, <2>1
  <2>3. card' \in CardStates /\ card'.out = s /\ card'.st = "wait" /\ card'.id = id /\ card'.mixed = card.mixed
        /\ CardNow("wait", card.want, 0)
    BY <1>1, <1>2, <2>2 DEF CardStates, CardNow
  <2>4. SaysAll(card.have)
    <3>1. SaysAll(have)
      BY <1>2, <2>1, <2>3 DEF SaysAll
    <3> QED BY <1>2, <3>1
  <2> QED BY <1>1, <1>2, <1>6, <2>3, <2>4 DEF CardSaid
<1>7. CASE card.have > 0 /\ card' = [card EXCEPT !.have = @ - 1,
                !.out = <<Tok("nak", card.id), [Tok("data", card.id) EXCEPT !.i = card.have]>>]
  <2>1. PICK b \in Tokens : b = Tok("nak", id) /\ b.type = "nak" /\ b.id = id
    BY TokenTypes
  <2>2. PICK d : d = [Tok("data", id) EXCEPT !.i = have] /\ d \in Tokens /\ d = [type |-> "data", id |-> id, i |-> have]
    <3>1. \A k \in Nat : /\ [Tok("data", id) EXCEPT !.i = k] \in Tokens
                         /\ [Tok("data", id) EXCEPT !.i = k] = [type |-> "data", id |-> id, i |-> k]
      BY TokenTypes, Zenon
    <3>2. /\ [Tok("data", id) EXCEPT !.i = have] \in Tokens
          /\ [Tok("data", id) EXCEPT !.i = have] = [type |-> "data", id |-> id, i |-> have]
      BY <3>1, Zenon
    <3> QED BY <3>2, Zenon
  <2>3. PICK s : s = <<b, d>> /\ s \in Seq(Tokens) /\ Len(s) = 2 /\ s[1] = b /\ s[2] = d
    <3>1. b \in Tokens
      BY <2>1
    <3>2. d \in Tokens
      BY <2>2
    <3> QED BY <3>1, <3>2, TwoBytes
  <2>4. PICK less \in Nat : less = have - 1
    BY <1>2, <1>7
  <2>5. card' = [card EXCEPT !.have = less, !.out = s]
    BY <1>2, <1>7, <2>1, <2>2, <2>3, <2>4
  <2>6. card' \in CardStates /\ card'.out = s /\ card'.st = "talk" /\ card'.id = id /\ card'.mixed = card.mixed
        /\ card'.want = want /\ card'.have = less
    BY <1>1, <1>2, <2>3, <2>5 DEF CardStates
  <2>7. SaysPair(card.have) /\ CardNow("talk", card.want, card.have - 1)
    BY <1>2, <2>1, <2>2, <2>3, <2>4, <2>6 DEF SaysPair, CardNow
  <2> QED BY <1>1, <1>2, <1>7, <2>6, <2>7 DEF CardSaid
<1>8. CASE \E kind \in {"ok", "more", "error"}, n \in Nat :
              card' = [card EXCEPT !.st = "wait", !.want = 0, !.have = 0, !.out = Status(card.id, kind, n)]
  <2>1. PICK kind \in {"ok", "more", "error"}, n \in Nat :
              card' = [card EXCEPT !.st = "wait", !.want = 0, !.have = 0, !.out = Status(card.id, kind, n)]
    BY <1>8
  <2>2. PICK s : s = Status(id, kind, n) /\ IsStatus(s, id)
    <3>1. kind \in Kinds
      BY <2>1 DEF Kinds
    <3> QED BY <1>2, <2>1, <3>1, StatusTypes
  <2>3. card' = [card EXCEPT !.st = "wait", !.want = 0, !.have = 0, !.out = s]
    BY <1>2, <2>1, <2>2
  <2>4. card' \in CardStates /\ card'.out = s /\ card'.st = "wait" /\ card'.id = id /\ card'.mixed = card.mixed
        /\ CardNow("wait", 0, 0)
    BY <1>1, <1>2, <2>2, <2>3 DEF CardStates, IsStatus, CardNow
  <2>5. SaysStatus
    BY <1>2, <2>2, <2>4 DEF SaysStatus, IsStatus
  <2> QED BY <1>1, <1>2, <2>4, <2>5 DEF CardSaid
<1>9. CASE card.want = 0 /\ \E kind \in {"ok", "more"} :
             card' = [card EXCEPT !.st = "wait", !.have = 0, !.out = Status(card.id, kind, 1)]
  <2>1. PICK kind \in {"ok", "more"} :
             card' = [card EXCEPT !.st = "wait", !.have = 0, !.out = Status(card.id, kind, 1)]
    BY <1>9
  <2>2. card' = [card EXCEPT !.st = "wait", !.want = 0, !.have = 0, !.out = Status(card.id, kind, 1)]
    BY <1>1, <1>9, <2>1 DEF CardStates
  <2> QED BY <1>8, <2>2
<1>10. CASE card' = [card EXCEPT !.st = "wait", !.want = 0, !.have = 0, !.out = Status(card.id, "error", 0)]
  BY <1>8, <1>10
<1> QED BY <1>3, <1>4, <1>5, <1>6, <1>7, <1>9, <1>10 DEF CardTalks, CardSays

LEMMA CardTypes ==
  ASSUME LineTypes, CardSteps, UNCHANGED <<proto, op, icc>>
  PROVE  LineTypes'
<1>1. CASE CardSends
  <2>1. /\ line' \in Seq(Tokens) /\ card' = [card EXCEPT !.out = Tail(card.out)]
        /\ card'.out \in Seq(Tokens) /\ card.st # "off"
    BY <1>1, SendsByte
  <2>2. card' \in CardStates /\ card'.st # "off"
    <3>1. PICK out \in Seq(Tokens) : out = Tail(card.out)
      BY <2>1 DEF LineTypes, CardStates
    <3> QED BY <2>1, <3>1 DEF LineTypes, CardStates
  <2> QED BY <1>1, <2>1, <2>2 DEF CardSends, LineTypes
<1>2. CASE CardTalks /\ UNCHANGED <<t0, block, cmd, unsent, got, nulls, line, answer, stale, noise>>
  <2>1. card' \in CardStates /\ card'.st # "off"
    BY <1>2, CardTalksSaid DEF CardSaid
  <2> QED BY <1>2, <2>1 DEF LineTypes
<1> QED BY <1>1, <1>2 DEF CardSteps

LEMMA InitLine ==
  ASSUME T0Assumption, Init
  PROVE  LineTypes
<1>1. card \in CardStates /\ card.out = <<>>
  BY CardInTypes DEF Init, T0Init
<1>2. t0 = "idle" /\ block \in BOOLEAN /\ cmd = None /\ unsent = 0 /\ got = <<>> /\ nulls = 0 /\ line = <<>>
      /\ answer = NoAnswer /\ stale = FALSE /\ icc = None
  BY DEF Init, T0Init
<1>3. answer.id \in Nat
  BY <1>2 DEF NoAnswer
<1>4. got \in Seq(Tokens) /\ line \in Seq(Tokens)
  BY <1>2, NoBytes
<1>5. cmd = None => got = <<>> /\ unsent = 0
  BY <1>2
<1>6. ~(cmd # None)
  BY <1>2
<1>7. unsent \in Nat /\ nulls \in Nat /\ stale \in BOOLEAN /\ t0 \in {"idle", "sending", "receiving", "confused"}
      /\ cmd \in Commands \cup {None} /\ icc \in Cards \cup {None} /\ block \in BOOLEAN
  BY <1>2
<1> HIDE <1>2
<1> QED BY <1>1, <1>3, <1>4, <1>5, <1>6, <1>7, Zenon DEF LineTypes

LEMMA RequestTypes ==
  ASSUME SessionAssumption, LineTypes, Request
  PROVE  LineTypes'
<1>1. Idle /\ icc \in Cards /\ icc' = icc
  BY DEF Request, LineTypes, GotAtr
<1>2. CASE icc.kind = "async" /\ \E tried \in {"even", "odd"} : GotAtr(tried)
  <2>1. PICK bytes \in Seq(Tokens) : T0Reset(CardIn("wait"), bytes)
    BY <1>1, <1>2, GotAtrReset
  <2>2. PICK c \in CardStates : c = CardIn("wait") /\ c.st = "wait"
    BY CardInTypes
  <2> QED BY <1>1, <2>1, <2>2, ResetTypes
<1>3. CASE T0Reset(CardIn("off"), <<>>)
  <2>1. PICK c \in CardStates : c = CardIn("off") /\ c.out = <<>>
    BY CardInTypes
  <2>2. PICK bytes : bytes = <<>> /\ bytes \in Seq(Tokens)
    BY NoBytes, Zenon
  <2> QED BY <1>1, <1>3, <2>1, <2>2, ResetTypes
<1> QED BY <1>2, <1>3 DEF Request

LEMMA ResetFailsTypes ==
  ASSUME LineTypes, ResetFails
  PROVE  LineTypes'
<1>1. Idle /\ icc' = icc /\ card \in CardStates
  BY DEF ResetFails, LineTypes
<1>2. CardIn("off") \in CardStates /\ CardIn("off").out = <<>>
  BY CardInTypes
<1>3. PICK c \in {card, CardIn("off")} : T0Reset(c, <<>>)
  BY DEF ResetFails
<1>4. c \in CardStates /\ (c.st = "off" => c.out = <<>>)
  BY <1>1, <1>2 DEF LineTypes
<1>5. PICK bytes : bytes = <<>> /\ bytes \in Seq(Tokens)
  BY NoBytes, Zenon
<1> QED BY <1>1, <1>3, <1>4, <1>5, ResetTypes

LEMMA BeginTypes ==
  ASSUME T0Assumption, SessionAssumption, LineTypes, Begin
  PROVE  LineTypes'
<1>1. CASE \E c \in Cards : Insert(c)
  BY <1>1, LineUnchanged DEF Insert
<1>2. CASE Draw
  BY <1>2, DrawTypes
<1>3. CASE ResetFails
  BY <1>3, ResetFailsTypes
<1>4. CASE Request
  BY <1>4, RequestTypes
<1>5. CASE \E w \in Writes : WriteMemory(w)
  <2>1. cmd = None /\ UNCHANGED <<t0vars, icc>>
    BY <1>5 DEF WriteMemory, Idle
  <2> QED BY <2>1, LineUnchanged DEF LineTypes
<1>6. CASE \E a \in Apdus : Command(a)
  <2>1. PICK a \in Apdus : Transceive(a) /\ Idle /\ proto = "T0" /\ UNCHANGED <<proto, op, icc>>
    BY <1>6 DEF Command
  <2> QED BY <2>1, TransceiveTypes DEF Idle
<1>7. CASE StatusChanged
  <2>1. cmd = None /\ UNCHANGED <<t0vars, icc>>
    BY <1>7 DEF StatusChanged, Idle
  <2> QED BY <2>1, LineUnchanged DEF LineTypes
<1>8. CASE \E p \in {"T0", "T1"} : SetProtocol(p)
  BY <1>8, SetProtocolTypes
<1> QED BY <1>1, <1>2, <1>3, <1>4, <1>5, <1>6, <1>7, <1>8 DEF Begin

LEMMA NextLine ==
  ASSUME T0Assumption, SessionAssumption, LineTypes, [Next]_vars
  PROVE  LineTypes'
<1>1. CASE Begin
  BY <1>1, BeginTypes
<1>2. CASE Probe \/ WriteStep
  <2>1. op # None /\ UNCHANGED <<t0vars, icc>>
    BY <1>2 DEF Probe, WriteStep
  <2>2. cmd = None
    BY <2>1 DEF LineTypes
  <2> QED BY <2>1, <2>2, LineUnchanged DEF LineTypes
<1>3. CASE (HandlerSteps \/ CardSteps) /\ UNCHANGED slotvars
  <2>1. UNCHANGED <<proto, op, icc>>
    BY <1>3 DEF slotvars
  <2> QED BY <1>3, <2>1, ProcedureTypes, TimeoutTypes, BlockTypes, CardTypes DEF HandlerSteps
<1>4. CASE UNCHANGED vars
  <2>1. UNCHANGED <<t0vars, proto, op, icc>>
    BY <1>4 DEF vars, slotvars
  <2> QED BY <2>1, LineUnchanged DEF LineTypes
<1> QED BY <1>1, <1>2, <1>3, <1>4 DEF Next

-------------------------------------------------------------------------------
(* What was to come still is, after bytes were sent, lost or read.           *)

\* c bytes have been read, and what is left stands for the same.
SameCard ==
  /\ card'.st = card.st /\ card'.id = card.id
  /\ card'.want = card.want /\ card'.have = card.have /\ card'.asked = card.asked

Moves(c) ==
  /\ \A k \in Nat \ {0} : \A type, i : Comes(k + c, type, i) => Comes(k, type, i)'
  /\ \A n \in Nat : Bytes(n + c) => Bytes(n)'
  /\ Off' \/ SameCard

LEMMA SendsMoves ==
  ASSUME LineTypes, CardSends, card.id = cmd.id
  PROVE  Moves(0) /\ SameCard /\ ~Off
<1>1. /\ card' = [card EXCEPT !.out = Tail(card.out)]
      /\ card.st # "off" /\ Count' = Count /\ cmd' = cmd
      /\ \A k \in 1 .. Count : \/ Said(k)' = Said(k)
                               \/ (Said(k)'.type = "bad" /\ Said(k)'.id = card.id)
  BY SendsByte DEF CardSends
<1>2. SameCard
  BY <1>1 DEF SameCard, LineTypes, CardStates
<1>3. Count \in Nat
  BY Counted
<1>4. ASSUME NEW k \in Nat \ {0}, NEW type, NEW i, Comes(k, type, i)
      PROVE  Comes(k, type, i)'
  <2>1. CASE k <= Count
    <3>1. k \in 1 .. Count
      BY <1>3, <2>1
    <3>2. Said(k)' = Said(k) \/ (Said(k)'.type = "bad" /\ Said(k)'.id = card.id)
      BY <1>1, <3>1
    <3>3. Said(k).id = cmd.id /\ Said(k).type \in {type, "bad"} /\ (Said(k).type = "data" => Said(k).i = i)
      BY <1>4, <2>1 DEF Comes
    <3> QED BY <1>1, <3>2, <3>3 DEF Comes
  <2>2. CASE ~(k <= Count)
    BY <1>1, <2>2 DEF Comes
  <2> QED BY <2>1, <2>2
<1>5. \A n \in Nat : Bytes(n) => Bytes(n)'
  BY <1>1, <1>2 DEF Bytes, Off, SameCard
<1>6. \A k \in Nat : k + 0 = k
  OBVIOUS
<1> QED BY <1>1, <1>2, <1>4, <1>5, <1>6 DEF Moves, Off

LEMMA DrawMoves ==
  ASSUME LineTypes, Draw
  PROVE  Moves(0)
<1>1. card'.st = "off" /\ card'.out = <<>> /\ line' = line /\ cmd' = cmd
  BY DrawTypes DEF Draw
<1>2. /\ Count' = Len(line) /\ Len(line) <= Count /\ Count \in Nat /\ Len(line) \in Nat
      /\ \A k \in 1 .. Len(line) : Said(k)' = Said(k)
  BY <1>1, LosesBytes, Counted
<1>3. ASSUME NEW k \in Nat \ {0}, NEW type, NEW i, Comes(k, type, i)
      PROVE  Comes(k, type, i)'
  <2>1. CASE k <= Count'
    <3>1. k \in 1 .. Len(line) /\ k <= Count
      BY <1>2, <2>1
    <3>2. Said(k)' = Said(k)
      BY <1>2, <3>1
    <3> QED BY <1>1, <1>3, <3>1, <3>2 DEF Comes
  <2>2. CASE ~(k <= Count')
    BY <2>2 DEF Comes
  <2> QED BY <2>1, <2>2
<1>4. ASSUME NEW n \in Nat, Bytes(n) PROVE Bytes(n)'
  <2>1. Count <= n
    BY <1>2, <1>4 DEF Bytes
  <2> QED BY <1>1, <1>2, <2>1 DEF Bytes, Off
<1>5. \A k \in Nat : k + 0 = k
  OBVIOUS
<1> QED BY <1>1, <1>3, <1>4, <1>5 DEF Moves, Off

LEMMA ReadsMoves ==
  ASSUME LineTypes, NEW c \in Nat, c <= Len(line), line' = SubSeq(line, c + 1, Len(line)),
         SameCard, card'.out = card.out, cmd'.id = cmd.id
  PROVE  Moves(c)
<1>1. /\ Count' = Count - c /\ Count \in Nat
      /\ \A k \in Nat \ {0} : k + c <= Count => Said(k)' = Said(k + c)
  BY ReadsBytes, Counted
<1>2. ASSUME NEW k \in Nat \ {0}, NEW type, NEW i, Comes(k + c, type, i)
      PROVE  Comes(k, type, i)'
  <2>1. CASE k + c <= Count
    <3>1. Said(k)' = Said(k + c)
      BY <1>1, <2>1
    <3> QED BY <1>2, <2>1, <3>1 DEF Comes
  <2>2. CASE ~(k + c <= Count)
    <3>1. ~(k <= Count')
      BY <1>1, <2>2
    <3> QED BY <3>1 DEF Comes
  <2> QED BY <2>1, <2>2
<1>3. ASSUME NEW n \in Nat, Bytes(n + c) PROVE Bytes(n)'
  BY <1>1, <1>3 DEF Bytes, Off, SameCard
<1> QED BY <1>2, <1>3 DEF Moves

LEMMA SendingMoves ==
  ASSUME LineTypes, NEW c \in {0, 1}, NEW y \in {0, 1}, NEW z \in {0, 1}, z = y + c,
         Moves(c), Sending(z), UNCHANGED <<t0, cmd, unsent, got>>
  PROVE  Sending(y)'
<1>1. z \in Nat /\ y \in Nat /\ c \in Nat /\ y + c = z
  OBVIOUS
<1>2. (y + 1) + c = z + 1 /\ (y + 2) + c = z + 2 /\ y + 1 \in Nat \ {0} /\ y + 2 \in Nat \ {0}
  BY <1>1
<1>3. /\ Bytes(z) => Bytes(y)'
      /\ Bytes(z + 1) => Bytes(y + 1)'
      /\ Bytes(z + 2) => Bytes(y + 2)'
  BY <1>1, <1>2 DEF Moves
<1>4. \A type, i : /\ Comes(z + 1, type, i) => Comes(y + 1, type, i)'
                   /\ Comes(z + 2, type, i) => Comes(y + 2, type, i)'
  BY <1>1, <1>2 DEF Moves
<1>5. Off' \/ (~Off /\ ~Off' /\ SameCard)
  BY DEF Moves, Off, SameCard
<1>6. Stage(y)'
  BY <1>3, <1>4, <1>5 DEF Sending, Stage, CardAt, SameCard
<1>7. ~Off' => card'.id = cmd'.id /\ card'.have = 0
  BY <1>5 DEF Sending, SameCard
<1>8. y = 1 => Comes(1, "null", 0)'
  <2>1. SUFFICES ASSUME y = 1 PROVE Comes(1, "null", 0)'
    OBVIOUS
  <2>2. c = 0 /\ z = 1
    BY <2>1
  <2>3. Comes(1 + c, "null", 0)
    BY <2>2 DEF Sending
  <2> QED BY <2>3 DEF Moves
<1> QED BY <1>6, <1>7, <1>8 DEF Sending

LEMMA RestMoves ==
  ASSUME NEW c \in Nat, NEW b \in Nat, NEW a \in Nat, a = b + c, NEW left \in Nat,
         Moves(c), Rest(a, left)
  PROVE  Rest(b, left)'
<1>1. /\ (b + 1) + c = a + 1 /\ (b + 2) + c = a + 2 /\ (b + left + 2) + c = a + left + 2
      /\ (b + left + 3) + c = a + left + 3
      /\ b + 1 \in Nat \ {0} /\ b + 2 \in Nat \ {0} /\ b + left + 2 \in Nat \ {0} /\ b + left + 3 \in Nat \ {0}
  OBVIOUS
<1>2. /\ Bytes(a) => Bytes(b)'
      /\ Bytes(a + 2) => Bytes(b + 2)'
      /\ Bytes(a + left + 3) => Bytes(b + left + 3)'
  BY <1>1 DEF Moves
<1>3. \A type, i : /\ Comes(a + 1, type, i) => Comes(b + 1, type, i)'
                   /\ Comes(a + 2, type, i) => Comes(b + 2, type, i)'
                   /\ Comes(a + left + 2, type, i) => Comes(b + left + 2, type, i)'
                   /\ Comes(a + left + 3, type, i) => Comes(b + left + 3, type, i)'
  BY <1>1 DEF Moves
<1>4. AllAtOnce(a, left) => AllAtOnce(b, left)'
  <2>1. SUFFICES ASSUME AllAtOnce(a, left) PROVE AllAtOnce(b, left)'
    OBVIOUS
  <2>2. ASSUME NEW j \in 1 .. left PROVE Comes(b + 1 + j, "data", left + 1 - j)'
    <3>1. Comes(a + 1 + j, "data", left + 1 - j)
      BY <2>1 DEF AllAtOnce
    <3>2. (b + 1 + j) + c = a + 1 + j /\ b + 1 + j \in Nat \ {0}
      OBVIOUS
    <3> QED BY <3>1, <3>2 DEF Moves
  <2> QED BY <1>3, <2>1, <2>2 DEF AllAtOnce
<1>5. Off' \/ (~Off /\ ~Off' /\ SameCard)
  BY DEF Moves, Off, SameCard
<1> QED BY <1>2, <1>3, <1>4, <1>5 DEF Rest, CardAt, SameCard

LEMMA ReceivingMoves ==
  ASSUME LineTypes, NEW c \in {0, 1}, NEW y \in {0, 1}, NEW z \in {0, 1}, z = y + c,
         NEW n \in Nat, NEW m \in 0 .. n,
         Moves(c), Receiving(z, m, n), UNCHANGED <<t0, cmd, got>>
  PROVE  Receiving(y, m, n)'
<1>1. z \in Nat /\ y \in Nat /\ c \in Nat /\ y + c = z /\ m \in Nat /\ n - m \in Nat
  OBVIOUS
<1>2. Rest(y + 2*m, n - m)'
  <2>1. PICK a \in Nat, b \in Nat, left \in Nat : a = z + 2*m /\ b = y + 2*m /\ left = n - m /\ a = b + c
    BY <1>1
  <2>2. Rest(a, left)
    BY <2>1 DEF Receiving
  <2>3. Rest(b, left)'
    BY <1>1, <2>1, <2>2, RestMoves
  <2> QED BY <2>1, <2>3
<1>3. Pairs(y, m, n)'
  <2>1. ASSUME NEW j \in 1 .. m
        PROVE  Comes(y + 2*j - 1, "nak", 0)' /\ Comes(y + 2*j, "data", n + 1 - j)'
    <3>1. Comes(z + 2*j - 1, "nak", 0) /\ Comes(z + 2*j, "data", n + 1 - j)
      BY DEF Receiving, Pairs
    <3>2. PICK k \in Nat \ {0}, l \in Nat \ {0} : k = y + 2*j - 1 /\ l = y + 2*j /\ k + c = z + 2*j - 1 /\ l + c = z + 2*j
      BY <1>1
    <3>3. Comes(k + c, "nak", 0) /\ Comes(l + c, "data", n + 1 - j)
      BY <3>1, <3>2
    <3>4. Comes(k, "nak", 0)' /\ Comes(l, "data", n + 1 - j)'
      BY <3>2, <3>3 DEF Moves
    <3> QED BY <3>2, <3>4
  <2> QED BY <2>1 DEF Pairs
<1>4. Off' \/ (~Off /\ ~Off' /\ SameCard)
  BY DEF Moves, Off, SameCard
<1>5. ~Off' => card'.id = cmd'.id /\ card'.want = 0
  BY <1>4 DEF Receiving, SameCard
<1>6. y = 1 => Comes(1, "null", 0)'
  <2>1. SUFFICES ASSUME y = 1 PROVE Comes(1, "null", 0)'
    OBVIOUS
  <2>2. c = 0 /\ z = 1
    BY <2>1
  <2>3. Comes(1 + c, "null", 0)
    BY <2>2 DEF Receiving
  <2> QED BY <2>3 DEF Moves
<1>7. GotInOrder' /\ n = cmd'.le - Len(got')
  BY DEF Receiving, GotInOrder
<1> QED BY <1>2, <1>3, <1>5, <1>6, <1>7 DEF Receiving

-------------------------------------------------------------------------------
(* What is to come once the card has spoken.                                 *)

\* What comes after the card has said something more.
SaysAs(k, type, i) ==
  /\ card'.out[k].id = cmd.id /\ card'.out[k].type = type
  /\ type = "data" => card'.out[k].i = i

LEMMA SaysBytes ==
  ASSUME LineTypes, CardSaid, UNCHANGED <<line, cmd>>, NEW n \in Nat, n = Count
  PROVE  /\ n = Len(line) /\ Count' = n + Len(card'.out) /\ ~Off /\ ~Off'
         /\ \A k \in 1 .. n : \A type, i : Comes(k, type, i) => Comes(k, type, i)'
         /\ \A k \in 1 .. Len(card'.out) : \A type, i :
              SaysAs(k, type, i) => Comes(n + k, type, i)'
<1>1. PICK msg \in Seq(Tokens) : msg = card'.out
  BY DEF CardSaid, CardStates
<1>2. card.out = <<>> /\ card'.st # "off" /\ card.st = "talk"
  BY DEF CardSaid
<1>3. /\ n = Len(line) /\ Count' = n + Len(msg)
      /\ \A k \in 1 .. n : Said(k)' = Said(k)
      /\ \A k \in 1 .. Len(msg) : Said(n + k)' = msg[k]
  BY <1>1, <1>2, TalksBytes
<1>4. ASSUME NEW k \in 1 .. n, NEW type, NEW i, Comes(k, type, i)
      PROVE  Comes(k, type, i)'
  <2>1. k <= Count /\ Said(k)' = Said(k)
    BY <1>3
  <2> QED BY <1>4, <2>1 DEF Comes
<1>5. ASSUME NEW k \in 1 .. Len(card'.out), NEW type, NEW i, SaysAs(k, type, i)
      PROVE  Comes(n + k, type, i)'
  <2>1. Said(n + k)' = card'.out[k]
    BY <1>1, <1>3
  <2> QED BY <1>5, <2>1 DEF Comes, SaysAs
<1> QED BY <1>1, <1>2, <1>3, <1>4, <1>5 DEF Off

LEMMA SendingTalks ==
  ASSUME LineTypes, CardSaid, NEW z \in {0, 1}, Sending(z),
         UNCHANGED <<t0, cmd, unsent, got, line>>
  PROVE  \E y \in {0, 1} : Sending(y)'
<1>1. PICK n \in Nat : n = Count
  BY Counted
<1>2. /\ n = Len(line) /\ Count' = n + Len(card'.out) /\ ~Off /\ ~Off'
      /\ \A k \in 1 .. n : \A type, i : Comes(k, type, i) => Comes(k, type, i)'
      /\ \A k \in 1 .. Len(card'.out) : \A type, i :
           SaysAs(k, type, i) => Comes(n + k, type, i)'
  BY <1>1, SaysBytes
<1>3. card.st = "talk" /\ card'.id = card.id /\ t0 = "sending" /\ got = <<>> /\ card.id = cmd.id /\ card.have = 0
  BY <1>2 DEF CardSaid, Sending
<1>4. n = z /\ card.want = unsent
  BY <1>1, <1>2, <1>3 DEF Sending, Stage, Bytes, CardAt
<1>5. z = 1 => Comes(1, "null", 0)'
  <2>1. z = 1 => Comes(1, "null", 0) /\ 1 \in 1 .. n
    BY <1>4 DEF Sending
  <2> QED BY <1>2, <2>1
<1>6. CASE line = <<>> /\ SaysOne("null") /\ CardNow("talk", card.want, card.have)
  <2>1. n = 0 /\ Count' = 1 /\ 1 \in 1 .. Len(card'.out) /\ z = 0
    <3>1. n = 0
      BY <1>2, <1>6
    <3>2. Len(card'.out) = 1
      BY <1>6 DEF SaysOne
    <3> QED BY <1>2, <1>4, <3>1, <3>2
  <2>2. SaysAs(1, "null", 0)
    BY <1>3, <1>6 DEF SaysOne, SaysAs
  <2>3. Comes(n + 1, "null", 0)'
    BY <1>2, <2>1, <2>2
  <2>4. Comes(1, "null", 0)'
    BY <2>1, <2>3
  <2>5. Bytes(1)'
    BY <2>1 DEF Bytes
  <2>6. Sending(1)'
    BY <1>3, <1>4, <1>6, <2>4, <2>5 DEF Sending, Stage, CardNow
  <2> QED BY <2>6
<1>7. CASE card.want > 0 /\ SaysOne("ack") /\ CardNow("data", card.want, card.have) /\ card'.asked = card.want
  <2>1. Count' = z + 1 /\ 1 \in 1 .. Len(card'.out)
    BY <1>2, <1>4, <1>7 DEF SaysOne
  <2>2. SaysAs(1, "ack", 0)
    BY <1>3, <1>7 DEF SaysOne, SaysAs
  <2>3. Comes(z + 1, "ack", 0)' /\ Bytes(z + 1)'
    BY <1>2, <1>4, <2>1, <2>2 DEF Bytes
  <2>4. Sending(z)'
    BY <1>3, <1>4, <1>5, <1>7, <2>3 DEF Sending, Stage, CardNow
  <2> QED BY <2>4
<1>8. CASE card.want > 0 /\ SaysOne("nak") /\ CardNow("data", card.want, card.have) /\ card'.asked = 1
  <2>1. Count' = z + 1 /\ 1 \in 1 .. Len(card'.out)
    BY <1>2, <1>4, <1>8 DEF SaysOne
  <2>2. SaysAs(1, "nak", 0)
    BY <1>3, <1>8 DEF SaysOne, SaysAs
  <2>3. Comes(z + 1, "nak", 0)' /\ Bytes(z + 1)'
    BY <1>2, <1>4, <2>1, <2>2 DEF Bytes
  <2>4. Sending(z)'
    BY <1>3, <1>4, <1>5, <1>8, <2>3 DEF Sending, Stage, CardNow
  <2> QED BY <2>4
<1>9. CASE SaysStatus /\ CardNow("wait", 0, 0)
  <2>1. Count' = z + 2 /\ 1 \in 1 .. Len(card'.out) /\ 2 \in 1 .. Len(card'.out)
    BY <1>2, <1>4, <1>9 DEF SaysStatus
  <2>2. SaysAs(1, "sw1", 0) /\ SaysAs(2, "sw2", 0)
    BY <1>3, <1>9 DEF SaysStatus, SaysAs
  <2>3. Comes(z + 1, "sw1", 0)' /\ Comes(z + 2, "sw2", 0)' /\ Bytes(z + 2)'
    BY <1>2, <1>4, <2>1, <2>2 DEF Bytes
  <2>4. Stage(z)'
    BY <1>9, <2>3 DEF Stage, CardAt, CardNow
  <2>5. card'.have = 0
    BY <1>9 DEF CardNow
  <2>6. Sending(z)'
    BY <1>3, <1>5, <2>4, <2>5 DEF Sending
  <2> QED BY <2>6
<1>10. ~(card.have > 0)
  BY <1>3
<1> QED BY <1>6, <1>7, <1>8, <1>9, <1>10 DEF CardSaid

LEMMA ReceivingTalks ==
  ASSUME LineTypes, CardSaid, NEW z \in {0, 1}, NEW n \in Nat, NEW m \in 0 .. n, Receiving(z, m, n),
         UNCHANGED <<t0, cmd, got, line>>
  PROVE  \E y \in {0, 1} : \E l \in 0 .. n : Receiving(y, l, n)'
<1>1. PICK b \in Nat : b = Count
  BY Counted
<1>2. /\ b = Len(line) /\ Count' = b + Len(card'.out) /\ ~Off /\ ~Off'
      /\ \A k \in 1 .. b : \A type, i : Comes(k, type, i) => Comes(k, type, i)'
      /\ \A k \in 1 .. Len(card'.out) : \A type, i :
           SaysAs(k, type, i) => Comes(b + k, type, i)'
  BY <1>1, SaysBytes
<1>3. card.st = "talk" /\ card'.id = card.id /\ t0 = "receiving" /\ card.id = cmd.id /\ card.want = 0
  BY <1>2 DEF CardSaid, Receiving
<1>4. PICK left \in Nat : left = n - m
  OBVIOUS
<1>5. b = z + 2*m /\ card.have = left
  BY <1>1, <1>2, <1>3, <1>4 DEF Receiving, Rest, Bytes, CardAt
<1>6. z = 1 => Comes(1, "null", 0)'
  <2>1. z = 1 => Comes(1, "null", 0) /\ 1 \in 1 .. b
    BY <1>5 DEF Receiving
  <2> QED BY <1>2, <2>1
<1>7. Pairs(z, m, n)'
  <2>1. ASSUME NEW j \in 1 .. m
        PROVE  Comes(z + 2*j - 1, "nak", 0)' /\ Comes(z + 2*j, "data", n + 1 - j)'
    <3>1. Comes(z + 2*j - 1, "nak", 0) /\ Comes(z + 2*j, "data", n + 1 - j)
      BY DEF Receiving, Pairs
    <3>2. z + 2*j - 1 \in 1 .. b /\ z + 2*j \in 1 .. b
      BY <1>5
    <3> QED BY <1>2, <3>1, <3>2
  <2> QED BY <2>1 DEF Pairs
<1>8. GotInOrder' /\ n = cmd'.le - Len(got') /\ t0' = "receiving"
  BY <1>3 DEF Receiving, GotInOrder
<1>9. CASE line = <<>> /\ SaysOne("null") /\ CardNow("talk", card.want, card.have)
  <2>1. b = 0 /\ Count' = 1 /\ 1 \in 1 .. Len(card'.out) /\ z = 0 /\ m = 0 /\ left = n
    <3>1. b = 0
      BY <1>2, <1>9
    <3>2. Len(card'.out) = 1
      BY <1>9 DEF SaysOne
    <3>3. z = 0 /\ m = 0 /\ left = n
      BY <1>4, <1>5, <3>1
    <3> QED BY <1>2, <3>1, <3>2, <3>3
  <2>2. SaysAs(1, "null", 0)
    BY <1>3, <1>9 DEF SaysOne, SaysAs
  <2>3. Comes(b + 1, "null", 0)'
    BY <1>2, <2>1, <2>2
  <2>4. Comes(1, "null", 0)' /\ Bytes(1)'
    BY <2>1, <2>3 DEF Bytes
  <2>5. Pairs(1, 0, n)'
    BY DEF Pairs
  <2>6. Rest(1, n)'
    BY <1>5, <1>9, <2>1, <2>4 DEF Rest, CardNow
  <2>7. Receiving(1, 0, n)'
    <3>1. 1 + 2*0 = 1 /\ n - 0 = n
      OBVIOUS
    <3>2. ~Off' => card'.id = cmd'.id /\ card'.want = 0
      BY <1>3, <1>9 DEF CardNow
    <3> QED BY <1>8, <2>4, <2>5, <2>6, <3>1, <3>2 DEF Receiving
  <2> QED BY <2>7
<1>10. CASE card.have > 0 /\ SaysAll(card.have) /\ CardNow("wait", card.want, 0)
  <2>1. SaysAll(left) /\ Len(card'.out) = left + 3 /\ Count' = b + left + 3
    <3>1. SaysAll(left)
      BY <1>5, <1>10
    <3> QED BY <1>2, <3>1 DEF SaysAll
  <2>2. SaysAs(1, "ack", 0) /\ SaysAs(left + 2, "sw1", 0) /\ SaysAs(left + 3, "sw2", 0)
    BY <1>3, <2>1 DEF SaysAll, SaysAs
  <2>3. ASSUME NEW j \in 1 .. left PROVE Comes(b + 1 + j, "data", left + 1 - j)'
    <3>1. PICK k \in 1 .. Len(card'.out) : k = 1 + j
      BY <2>1
    <3>2. card'.out[1 + j] = [type |-> "data", id |-> card.id, i |-> left + 1 - j]
      BY <2>1 DEF SaysAll
    <3>3. SaysAs(k, "data", left + 1 - j)
      BY <1>3, <3>1, <3>2 DEF SaysAs
    <3>4. Comes(b + k, "data", left + 1 - j)'
      BY <1>2, <3>3
    <3>5. b + k = b + 1 + j
      BY <3>1
    <3> QED BY <3>4, <3>5
  <2>4. 1 \in 1 .. Len(card'.out) /\ left + 2 \in 1 .. Len(card'.out) /\ left + 3 \in 1 .. Len(card'.out)
        /\ b + (left + 2) = b + left + 2 /\ b + (left + 3) = b + left + 3
    BY <2>1
  <2>5. Comes(b + 1, "ack", 0)' /\ Comes(b + left + 2, "sw1", 0)' /\ Comes(b + left + 3, "sw2", 0)'
    BY <1>2, <2>2, <2>4
  <2>6. AllAtOnce(b, left)'
    BY <2>3, <2>5 DEF AllAtOnce
  <2>7. Rest(b, left)'
    <3>1. Bytes(b + left + 3)' /\ CardAt("wait")'
      BY <1>10, <2>1 DEF Bytes, CardAt, CardNow
    <3> QED BY <2>6, <3>1 DEF Rest
  <2>8. Receiving(z, m, n)'
    <3>1. ~Off' => card'.id = cmd'.id /\ card'.want = 0
      BY <1>3, <1>10 DEF CardNow
    <3>2. Rest(z + 2*m, n - m)'
      BY <1>4, <1>5, <2>7
    <3> QED BY <1>6, <1>7, <1>8, <3>1, <3>2 DEF Receiving
  <2> QED BY <2>8
<1>11. CASE card.have > 0 /\ SaysPair(card.have) /\ CardNow("talk", card.want, card.have - 1)
  <2>1. Len(card'.out) = 2 /\ Count' = b + 2 /\ 1 \in 1 .. Len(card'.out) /\ 2 \in 1 .. Len(card'.out)
    BY <1>2, <1>11 DEF SaysPair
  <2>2. SaysAs(1, "nak", 0) /\ SaysAs(2, "data", left)
    BY <1>3, <1>5, <1>11 DEF SaysPair, SaysAs
  <2>3. Comes(b + 1, "nak", 0)' /\ Comes(b + 2, "data", left)'
    BY <1>2, <2>1, <2>2
  <2>4. PICK l \in 0 .. n : l = m + 1 /\ n - l \in Nat /\ n - l = left - 1 /\ n + 1 - l = left /\ z + 2*l = b + 2
                            /\ z + 2*l - 1 = b + 1
    BY <1>4, <1>5, <1>11
  <2>5. Pairs(z, l, n)'
    <3>1. ASSUME NEW j \in 1 .. l
          PROVE  Comes(z + 2*j - 1, "nak", 0)' /\ Comes(z + 2*j, "data", n + 1 - j)'
      <4>1. CASE j \in 1 .. m
        BY <1>7, <4>1 DEF Pairs
      <4>2. CASE j = l
        BY <2>3, <2>4, <4>2
      <4> QED BY <2>4, <4>1, <4>2
    <3> QED BY <3>1 DEF Pairs
  <2>6. Rest(z + 2*l, n - l)'
    <3>1. Bytes(b + 2)' /\ card'.st = "talk" /\ card'.have = left - 1
      BY <1>5, <1>11, <2>1 DEF Bytes, CardNow
    <3>2. Rest(b + 2, left - 1)'
      BY <3>1 DEF Rest
    <3> QED BY <2>4, <3>2
  <2>7. ~Off' => card'.id = cmd'.id /\ card'.want = 0
    BY <1>3, <1>11 DEF CardNow
  <2>8. Receiving(z, l, n)'
    BY <1>6, <1>8, <2>5, <2>6, <2>7 DEF Receiving
  <2> QED BY <2>8
<1>12. CASE SaysStatus /\ CardNow("wait", 0, 0)
  <2>1. Count' = b + 2 /\ 1 \in 1 .. Len(card'.out) /\ 2 \in 1 .. Len(card'.out)
    BY <1>2, <1>12 DEF SaysStatus
  <2>2. SaysAs(1, "sw1", 0) /\ SaysAs(2, "sw2", 0)
    BY <1>3, <1>12 DEF SaysStatus, SaysAs
  <2>3. Comes(b + 1, "sw1", 0)' /\ Comes(b + 2, "sw2", 0)' /\ Bytes(b + 2)' /\ CardAt("wait")'
    BY <1>2, <1>12, <2>1, <2>2 DEF Bytes, CardAt, CardNow
  <2>4. Rest(b, left)'
    BY <2>3 DEF Rest
  <2>5. ~Off' => card'.id = cmd'.id /\ card'.want = 0
    BY <1>3, <1>12 DEF CardNow
  <2>6. Rest(z + 2*m, n - m)'
    BY <1>4, <1>5, <2>4
  <2>7. Receiving(z, m, n)'
    BY <1>6, <1>7, <1>8, <2>5, <2>6 DEF Receiving
  <2> QED BY <2>7
<1>13. ~(card.want > 0)
  BY <1>3
<1> QED BY <1>9, <1>10, <1>11, <1>12, <1>13 DEF CardSaid

-------------------------------------------------------------------------------
(* What the handler has got.                                                 *)

LEMMA FirstByte ==
  ASSUME LineTypes, line # <<>>
  PROVE  /\ Len(line) \in Nat \ {0} /\ Len(line) <= Count /\ Count \in Nat
         /\ Said(1) = line[1] /\ line[1] \in Tokens
<1>1. line \in Seq(Tokens) /\ Len(line) \in Nat \ {0}
  BY DEF LineTypes
<1>2. Len(line) <= Count /\ Count \in Nat
  BY Counted
<1> QED BY <1>1, <1>2 DEF Said

LEMMA SaidOfLine ==
  ASSUME LineTypes, NEW k \in 1 .. Len(line), NEW type, NEW i, Comes(k, type, i)
  PROVE  /\ line[k].id = cmd.id /\ line[k].type \in {type, "bad"}
         /\ line[k].type = "data" => line[k].i = i
<1>1. k <= Count
  BY Counted
<1> QED BY <1>1 DEF Comes, Said

LEMMA NothingLeft ==
  ASSUME line' = <<>>, card'.out = <<>>
  PROVE  Count' = 0
BY DEF Count

LEMMA ReadsAll ==
  ASSUME LineTypes, NEW c \in Nat, Bytes(c), c <= Len(line), line' = SubSeq(line, c + 1, Len(line))
  PROVE  line' = <<>> /\ card.out = <<>> /\ Len(line) = c
<1>1. Count <= c /\ Count = Len(line) + Len(card.out) /\ Len(line) \in Nat /\ Len(card.out) \in Nat
      /\ card.out \in Seq(Tokens) /\ line \in Seq(Tokens)
  BY Counted DEF Bytes, LineTypes
<1>2. Len(line) = c /\ Len(card.out) = 0
  BY <1>1
<1>3. line' \in Seq(Tokens) /\ Len(line') = 0
  BY <1>1, <1>2, LineRead
<1> QED BY <1>1, <1>2, <1>3

LEMMA Taken ==
  ASSUME LineTypes, NEW lo \in {1, 2}, NEW len \in Nat, NEW hi \in Nat, hi = lo + len - 1, hi <= Len(line)
  PROVE  /\ SubSeq(line, lo, hi) \in Seq(Tokens) /\ Len(SubSeq(line, lo, hi)) = len
         /\ \A j \in 1 .. len : SubSeq(line, lo, hi)[j] = line[lo + j - 1]
<1>1. line \in Seq(Tokens) /\ Len(line) \in Nat
  BY DEF LineTypes
<1>2. \A k \in lo .. hi : line[k] \in Tokens
  BY <1>1, ElementOfSeq
<1>3. /\ SubSeq(line, lo, hi) \in Seq(Tokens)
      /\ Len(SubSeq(line, lo, hi)) = IF lo <= hi THEN hi - lo + 1 ELSE 0
      /\ \A k \in 1 .. hi - lo + 1 : SubSeq(line, lo, hi)[k] = line[lo + k - 1]
  BY <1>2, SubSeqProperties, SMTT(60)
<1>4. hi - lo + 1 = len /\ (lo <= hi \/ len = 0)
  OBVIOUS
<1> QED BY <1>3, <1>4

\* An answer of n data bytes, numbered downwards from c - 1, and a status.
Orderly(s, n, id, c) ==
  /\ Len(s) = n + 2
  /\ \A k \in 1 .. n + 2 : s[k].id = id
  /\ \A k \in 1 .. n : s[k].type \in {"data", "bad"} /\ (s[k].type = "data" => s[k].i = c - k)
  /\ s[n + 1].type \in {"sw1", "bad"} /\ s[n + 2].type \in {"sw2", "bad"}

LEMMA AnswerInOrder ==
  ASSUME NEW s \in Seq(Tokens), NEW n \in Nat, NEW c \in Nat, NEW id, Orderly(s, n, id, c)
  PROVE  InOrder(s, id)
<1> USE DEF Orderly
<1>1. Len(s) - 2 = n /\ DOMAIN s = 1 .. n + 2
  OBVIOUS
<1>2. ASSUME NEW i \in 1 .. n, NEW j \in 1 .. n, s[i].type = "data", s[j].type = "data"
      PROVE  s[i].i - s[j].i = j - i
  <2>1. s[i].i = c - i /\ s[j].i = c - j
    BY <1>2
  <2> QED BY <1>2, <2>1
<1> QED BY <1>1, <1>2 DEF InOrder

-------------------------------------------------------------------------------
(* The handler, at the end of a command or of a part of it.                  *)

\* What a step of the handler leads to.
WellDone ==
  /\ ~stale' => OnTurn'
  /\ card'.mixed = card.mixed
  /\ answer' = answer \/ ~answer'.ok \/ InOrder(answer'.bytes, answer'.id)

LEMMA FailsWell ==
  ASSUME LineTypes, cmd # None, NEW mark \in {"sending", "receiving", "confused"}, Fail(mark), card' = card
  PROVE  WellDone
<1>1. cmd' = None /\ ~answer'.ok /\ card'.mixed = card.mixed
  BY DEF Fail, Return
<1>2. ~stale' => t0' # "idle"
  BY DEF Fail, Return, LineTypes
<1> QED BY <1>1, <1>2 DEF WellDone, OnTurn

LEMMA ReturnsWell ==
  ASSUME LineTypes, NEW bytes, Return("idle", TRUE, bytes), card' = card, InOrder(bytes, cmd.id),
         CardAt("wait"), card.out = <<>>, line' = <<>>
  PROVE  WellDone
<1>1. cmd' = None /\ answer'.bytes = bytes /\ answer'.id = cmd.id
  BY DEF Return
<1>2. Resting'
  BY DEF Resting, CardAt, Off
<1> QED BY <1>1, <1>2 DEF WellDone, OnTurn

LEMMA StartsReceiving ==
  ASSUME LineTypes, NEW id \in Nat, NEW le \in Nat, Header(id, 0, le), CardAt("wait"), card.out = <<>>,
         line' = <<>>, got' = <<>>, t0' = "receiving", cmd'.id = id, cmd'.le = le
  PROVE  Receiving(0, 0, le)' /\ card'.mixed = card.mixed
<1>1. /\ card'.out = <<>> /\ card'.mixed = card.mixed
      /\ card'.st = "off" \/ card' = [card EXCEPT !.st = "talk", !.id = id, !.want = 0, !.have = le]
  <2>1. card.st \in {"off", "wait"} /\ 0 \in Nat
    BY DEF CardAt, Off
  <2>2. card'.out = card.out /\ Heard(id, 0, le)
    BY <2>1, HeaderTypes
  <2> QED BY <2>2 DEF Heard
<1>2. ~Off' => card'.st = "talk" /\ card'.id = id /\ card'.want = 0 /\ card'.have = le
  BY <1>1 DEF Off, LineTypes, CardStates
<1>3. Count' = 0
  BY <1>1 DEF Count
<1>4. Rest(0, le)'
  BY <1>2, <1>3 DEF Rest, Bytes
<1>5. Pairs(0, 0, le)'
  BY DEF Pairs
<1>6. GotInOrder' /\ le = cmd'.le - Len(got')
  BY DEF GotInOrder
<1>7. 0 + 2*0 = 0 /\ le - 0 = le
  OBVIOUS
<1> QED BY <1>1, <1>2, <1>4, <1>5, <1>6, <1>7 DEF Receiving

LEMMA StartsSending ==
  ASSUME LineTypes, NEW id \in Nat, NEW lc \in Nat, Header(id, lc, 0), CardAt("wait"), card.out = <<>>,
         line' = <<>>, got' = <<>>, t0' = "sending", cmd'.id = id, unsent' = lc
  PROVE  Sending(0)' /\ card'.mixed = card.mixed
<1>1. /\ card'.out = <<>> /\ card'.mixed = card.mixed
      /\ card'.st = "off" \/ card' = [card EXCEPT !.st = "talk", !.id = id, !.want = lc, !.have = 0]
  <2>1. card.st \in {"off", "wait"} /\ 0 \in Nat
    BY DEF CardAt, Off
  <2>2. card'.out = card.out /\ Heard(id, lc, 0)
    BY <2>1, HeaderTypes
  <2> QED BY <2>2 DEF Heard
<1>2. ~Off' => card'.st = "talk" /\ card'.id = id /\ card'.want = lc /\ card'.have = 0
  BY <1>1 DEF Off, LineTypes, CardStates
<1>3. Count' = 0
  BY <1>1 DEF Count
<1>4. Stage(0)'
  BY <1>2, <1>3 DEF Stage, Bytes
<1> QED BY <1>1, <1>2, <1>4 DEF Sending

LEMMA StatusWell ==
  ASSUME T0Assumption, LineTypes, cmd # None, ~block, NEW bytes, NEW sw, sw.n \in Nat, AfterStatus(bytes, sw),
         InOrder(bytes, cmd.id), CardAt("wait"), card.out = <<>>, line' = <<>>
  PROVE  WellDone
<1>1. cmd \in Commands /\ cmd.id \in Nat /\ cmd.apdu \in Apdus
  BY DEF LineTypes, Commands
<1>2. CASE GetResponse(LeAfter(sw))
  <2>1. PICK le \in Nat : le = LeAfter(sw)
    BY <1>1 DEF LeAfter, T0Assumption
  <2>2. /\ t0' = "receiving" /\ got' = <<>> /\ Header(cmd.id, 0, le) /\ answer' = answer
        /\ cmd' = [cmd EXCEPT !.get = TRUE, !.le = le]
    BY <1>2, <2>1 DEF GetResponse
  <2>3. cmd'.id = cmd.id /\ cmd'.le = le /\ cmd' # None
    <3>1. cmd'.id = cmd.id /\ cmd'.le = le /\ cmd' \in Commands
      BY <1>1, <2>2 DEF Commands
    <3> QED BY <3>1 DEF T0Assumption
  <2>4. Receiving(0, 0, le)' /\ card'.mixed = card.mixed
    BY <1>1, <2>2, <2>3, StartsReceiving
  <2>5. InTurn'
    <3>1. \E n \in Nat : \E m \in 0 .. n : Receiving(0, m, n)'
      <4>1. 0 \in 0 .. le
        OBVIOUS
      <4> QED BY <2>4, <4>1
    <3> QED BY <3>1 DEF InTurn
  <2> QED BY <2>2, <2>3, <2>4, <2>5 DEF WellDone, OnTurn
<1>3. CASE Return("idle", TRUE, bytes) /\ UNCHANGED <<card, stale>>
  BY <1>3, ReturnsWell
<1>4. CASE Return("idle", FALSE, <<>>) /\ UNCHANGED <<card, stale>>
  <2>1. cmd' = None /\ ~answer'.ok
    BY <1>4 DEF Return
  <2>2. Resting'
    BY <1>4 DEF Resting, CardAt, Off
  <2> QED BY <1>4, <2>1, <2>2 DEF WellDone, OnTurn
<1> QED BY <1>2, <1>3, <1>4 DEF AfterStatus

-------------------------------------------------------------------------------
(* The handler, on a procedure byte.                                         *)

\* One turn of the loop in t0_xcv, with the procedure byte taken for p.
ReadsAs(p) ==
  /\ p \in Meanings(line[1])
  /\ Len(line) >= Needs(p)
  /\ line' = SubSeq(line, Needs(p) + 1, Len(line))
  /\ CASE p = "null"                       -> ReadsNull
       [] p = "sw"                         -> ReadsStatus
       [] p = "bad"                        -> Fail(t0) /\ UNCHANGED card
       [] p = "ack" /\ t0 = "sending"      -> SendsData(unsent)
       [] p = "nak" /\ t0 = "sending"      -> SendsData(1)
       [] p = "ack" /\ t0 = "receiving"    -> ReadsData(Room)
       [] p = "nak" /\ t0 = "receiving"    -> ReadsData(1)

\* A byte that is what it should be is taken for what it is.
LEMMA TakenForIt ==
  ASSUME LineTypes, line # <<>>, NEW p, ReadsAs(p), p # "bad",
         NEW type \in {"null", "ack", "nak", "sw1"}, NEW i, Comes(1, type, i)
  PROVE  /\ line[1].type = type /\ line[1].id = cmd.id
         /\ type = "sw1" => p = "sw"
         /\ type # "sw1" => p = type
<1>1. Len(line) \in Nat \ {0} /\ 1 \in 1 .. Len(line)
  BY FirstByte
<1>2. line[1].id = cmd.id /\ line[1].type \in {type, "bad"}
  BY <1>1, SaidOfLine
<1> QED BY <1>2 DEF ReadsAs, Meanings

LEMMA NullWell ==
  ASSUME LineTypes, cmd # None, line # <<>>, ReadsAs("null"),
         NEW n \in Nat, NEW m \in 0 .. n, Sending(1) \/ Receiving(1, m, n)
  PROVE  WellDone
<1>1. ReadsNull /\ Needs("null") = 1 /\ t0 \in {"sending", "receiving"}
  BY DEF ReadsAs, Needs, LineTypes
<1>2. CASE Fail("confused") /\ UNCHANGED card
  BY <1>2, FailsWell
<1>3. CASE nulls' = nulls + 1 /\ UNCHANGED <<t0, cmd, unsent, got, card, answer, stale>>
  <2>1. PICK c \in {0, 1} : c = 1
    OBVIOUS
  <2>2. c \in Nat /\ c <= Len(line) /\ line' = SubSeq(line, c + 1, Len(line))
    BY <1>1, <2>1, FirstByte DEF ReadsAs
  <2>3. SameCard /\ card'.out = card.out /\ cmd'.id = cmd.id
    BY <1>3 DEF SameCard
  <2>4. Moves(c)
    BY <2>2, <2>3, ReadsMoves
  <2>5. PICK y \in {0, 1}, z \in {0, 1} : y = 0 /\ z = 1 /\ z = y + c
    BY <2>1
  <2>6. Sending(y)' \/ Receiving(y, m, n)'
    <3>1. CASE Sending(1)
      BY <1>3, <2>4, <2>5, <3>1, SendingMoves
    <3>2. CASE Receiving(1, m, n)
      BY <1>3, <2>4, <2>5, <3>2, ReceivingMoves
    <3> QED BY <3>1, <3>2
  <2>7. InTurn'
    BY <2>6 DEF InTurn
  <2> QED BY <1>3, <2>7 DEF WellDone, OnTurn
<1> QED BY <1>1, <1>2, <1>3 DEF ReadsNull

LEMMA SendsWell ==
  ASSUME LineTypes, cmd # None, NEW n \in Nat, SendsData(n), Sending(0), Bytes(1), 1 <= Len(line),
         line' = SubSeq(line, 1 + 1, Len(line)),
         ~Off => card.st = "data" /\ card.want = unsent /\ card.asked = n
  PROVE  WellDone
<1>1. CASE Fail("confused") /\ UNCHANGED card
  BY <1>1, FailsWell
<1>2. CASE /\ unsent # 0 /\ n <= unsent
           /\ unsent' = unsent - n /\ CardGets(n)
           /\ UNCHANGED <<t0, cmd, got, nulls, answer, stale>>
  <2>1. line' = <<>> /\ card.out = <<>>
    <3>1. PICK c \in Nat : c = 1
      OBVIOUS
    <3> QED BY <3>1, ReadsAll
  <2>2. unsent \in Nat /\ n <= unsent /\ card \in CardStates
    BY <1>2 DEF LineTypes
  <2>3. CASE Off
    <3>1. card' = card
      BY <1>2, <2>3 DEF CardGets, Off
    <3>2. Count' = 0 /\ Off'
      BY <2>1, <2>3, <3>1, NothingLeft DEF Off
    <3>3. Sending(0)'
      BY <1>2, <3>2 DEF Sending, Stage, Bytes
    <3>4. InTurn'
      BY <3>3 DEF InTurn
    <3> QED BY <1>2, <3>1, <3>4 DEF WellDone, OnTurn
  <2>4. CASE ~Off
    <3>1. card.st = "data" /\ card.want = unsent /\ card.asked = n /\ card.id = cmd.id /\ card.have = 0
      BY <2>4 DEF Sending
    <3>2. PICK w \in Nat : w = unsent - n
      BY <2>2
    <3>3. card' = [card EXCEPT !.want = w, !.st = "talk"]
      <4>1. n <= card.want /\ card.want - n = w /\ n >= card.asked
        BY <2>2, <3>1, <3>2
      <4> HIDE <3>1
      <4>2. card.st = "data"
        BY <3>1
      <4> QED BY <1>2, <4>1, <4>2 DEF CardGets
    <3>4. /\ card'.st = "talk" /\ card'.want = unsent' /\ card'.id = cmd.id /\ card'.have = 0
          /\ card'.out = <<>> /\ card'.mixed = card.mixed
      BY <1>2, <2>1, <2>2, <3>1, <3>2, <3>3 DEF CardStates
    <3>5. Count' = 0
      BY <2>1, <3>4, NothingLeft
    <3>6. Sending(0)'
      BY <1>2, <3>4, <3>5 DEF Sending, Stage, Bytes
    <3>7. InTurn'
      BY <3>6 DEF InTurn
    <3> QED BY <1>2, <3>4, <3>7 DEF WellDone, OnTurn
  <2> QED BY <2>3, <2>4
<1> QED BY <1>1, <1>2 DEF SendsData

LEMMA SendingReads ==
  ASSUME T0Assumption, LineTypes, cmd # None, ~block, line # <<>>, NEW p, ReadsAs(p),
         NEW z \in {0, 1}, Sending(z)
  PROVE  WellDone
<1>1. t0 = "sending" /\ got = <<>> /\ Stage(z)
  BY DEF Sending
<1>2. CASE p = "bad"
  BY <1>1, <1>2, FailsWell DEF ReadsAs
<1>3. CASE p # "bad" /\ z = 1
  <2>1. Comes(1, "null", 0)
    BY <1>3 DEF Sending
  <2>2. p = "null"
    BY <1>3, <2>1, TakenForIt
  <2>3. PICK n \in Nat, m \in {0} : n = 0
    OBVIOUS
  <2>4. m \in 0 .. n
    BY <2>3
  <2> QED BY <1>3, <2>2, <2>3, <2>4, NullWell
<1>4. CASE p # "bad" /\ z = 0
  <2>0. Len(line) \in Nat \ {0} /\ Len(line) <= Count /\ 0 + 1 = 1 /\ 0 + 2 = 2
    BY FirstByte
  <2>1. ~Bytes(0)
    BY <2>0, FirstByte DEF Bytes
  <2>2. CASE /\ Bytes(1) /\ Comes(1, "ack", 0)
             /\ ~Off => card.st = "data" /\ card.want = unsent /\ card.asked = unsent /\ unsent > 0
    <3>1. p = "ack"
      BY <1>4, <2>2, TakenForIt
    <3>2. SendsData(unsent) /\ Needs(p) = 1
      BY <1>1, <3>1 DEF ReadsAs, Needs
    <3>3. line' = SubSeq(line, 1 + 1, Len(line)) /\ unsent \in Nat
      BY <3>2 DEF ReadsAs, LineTypes
    <3> QED BY <1>4, <2>0, <2>2, <3>2, <3>3, SendsWell
  <2>3. CASE /\ Bytes(1) /\ Comes(1, "nak", 0)
             /\ ~Off => card.st = "data" /\ card.want = unsent /\ card.asked = 1 /\ unsent > 0
    <3>1. p = "nak"
      BY <1>4, <2>3, TakenForIt
    <3>2. PICK n \in Nat : n = 1 /\ SendsData(n) /\ Needs(p) = 1
      BY <1>1, <3>1 DEF ReadsAs, Needs
    <3>3. line' = SubSeq(line, 1 + 1, Len(line))
      BY <3>2 DEF ReadsAs
    <3> QED BY <1>4, <2>0, <2>3, <3>2, <3>3, SendsWell
  <2>4. CASE Bytes(2) /\ Comes(1, "sw1", 0) /\ Comes(2, "sw2", 0) /\ CardAt("wait")
    <3>1. p = "sw" /\ line[1].type = "sw1" /\ line[1].id = cmd.id
      BY <1>4, <2>4, TakenForIt
    <3>2. ReadsStatus /\ Needs(p) = 2
      BY <3>1 DEF ReadsAs, Needs
    <3>3. PICK c \in Nat : c = 2 /\ c <= Len(line) /\ line' = SubSeq(line, c + 1, Len(line))
      BY <2>0, <3>2 DEF ReadsAs
    <3>4. line' = <<>> /\ card.out = <<>> /\ Len(line) = 2
      BY <2>4, <3>3, ReadsAll
    <3>5. PICK bytes : bytes = SubSeq(line, 1, 2)
      OBVIOUS
    <3>6. bytes \in Seq(Tokens) /\ Len(bytes) = 2 /\ bytes[1] = line[1] /\ bytes[2] = line[2]
      <4>1. PICK lo \in {1, 2}, len \in Nat, hi \in Nat : lo = 1 /\ len = 2 /\ hi = 2 /\ hi = lo + len - 1 /\ hi <= Len(line)
        BY <3>4
      <4>2. /\ SubSeq(line, lo, hi) \in Seq(Tokens) /\ Len(SubSeq(line, lo, hi)) = len
            /\ \A j \in 1 .. len : SubSeq(line, lo, hi)[j] = line[lo + j - 1]
        BY <4>1, Taken
      <4>3. /\ bytes \in Seq(Tokens) /\ Len(bytes) = 2
            /\ \A j \in 1 .. 2 : bytes[j] = line[1 + j - 1]
        BY <3>5, <4>1, <4>2
      <4> QED BY <4>3
    <3>7. got \o bytes = bytes
      BY <1>1, <3>6, ConcatEmptySeq
    <3>8. line[2].id = cmd.id /\ line[2].type \in {"sw2", "bad"}
      BY <2>4, <3>4, SaidOfLine
    <3>9. InOrder(bytes, cmd.id)
      <4>1. PICK n \in Nat, c0 \in Nat : n = 0 /\ c0 = 0
        OBVIOUS
      <4>2. Orderly(bytes, n, cmd.id, c0)
        BY <3>1, <3>6, <3>8, <4>1 DEF Orderly
      <4>3. bytes \in Seq(Tokens) /\ n \in Nat /\ c0 \in Nat
        BY <3>6, <4>1
      <4> QED BY <4>2, <4>3, AnswerInOrder, Zenon
    <3>10. PICK sw : sw = StatusOf(line[1]) /\ sw.n \in Nat
      <4>1. line[1] \in Tokens
        BY FirstByte
      <4>2. StatusOf(line[1]).n \in Nat
        BY <3>1, <4>1 DEF StatusOf, Tokens
      <4> QED BY <4>2, Zenon
    <3>11. AfterStatus(bytes, sw)
      <4>1. AfterStatus(SubSeq(bytes, 1, 2), sw)
        BY <1>1, <3>2, <3>5, <3>6, <3>7, <3>10 DEF ReadsStatus
      <4>2. SubSeq(bytes, 1, 2) = bytes
        BY <3>6
      <4> QED BY <4>1, <4>2
    <3> QED BY <2>4, <3>4, <3>9, <3>10, <3>11, StatusWell
  <2> QED BY <1>1, <1>4, <2>0, <2>1, <2>2, <2>3, <2>4 DEF Stage
<1> QED BY <1>2, <1>3, <1>4

\* Data without a status, numbered downwards from c - 1.
DataOnly(s, g, id, c) ==
  /\ Len(s) = g
  /\ \A k \in 1 .. g : /\ s[k].id = id /\ s[k].type \in {"data", "bad"}
                       /\ s[k].type = "data" => s[k].i = c - k

LEMMA Beyond ==
  ASSUME NEW g \in Nat, NEW l \in Nat, NEW k \in 1 .. g + l, ~(k <= g)
  PROVE  \E j \in 1 .. l : g + j = k
<1>1. k - g \in 1 .. l /\ g + (k - g) = k
  OBVIOUS
<1> QED BY <1>1

LEMMA Continued ==
  ASSUME NEW s \in Seq(Tokens), NEW t \in Seq(Tokens), NEW id, NEW g \in Nat, NEW l \in Nat, NEW c \in Nat,
         DataOnly(s, g, id, c + g), Orderly(t, l, id, c)
  PROVE  Joined(s, t) \in Seq(Tokens) /\ Orderly(Joined(s, t), g + l, id, c + g)
<1>1. PICK r : r = Joined(s, t)
  OBVIOUS
<1>2. Len(s) = g /\ Len(t) = l + 2
  BY DEF DataOnly, Orderly
<1>3. /\ r \in Seq(Tokens) /\ Len(r) = g + l + 2
      /\ \A k \in 1 .. g + l + 2 : r[k] = IF k <= g THEN s[k] ELSE t[k - g]
  <2>1. /\ r \in Seq(Tokens) /\ Len(r) = g + (l + 2)
        /\ \A k \in 1 .. g + (l + 2) : r[k] = IF k <= g THEN s[k] ELSE t[k - g]
    <3>1. /\ Joined(s, t) \in Seq(Tokens) /\ Len(Joined(s, t)) = Len(s) + Len(t)
          /\ \A k \in 1 .. Len(s) + Len(t) : Joined(s, t)[k] = IF k <= Len(s) THEN s[k] ELSE t[k - Len(s)]
      BY JoinedSeq, Zenon
    <3> QED BY <1>1, <1>2, <3>1, Zenon
  <2>2. g + (l + 2) = g + l + 2
    OBVIOUS
  <2> QED BY <2>1, <2>2
<1>4. \A k \in 1 .. g : r[k] = s[k]
  BY <1>3
<1>5. ASSUME NEW j \in 1 .. l + 2 PROVE r[g + j] = t[j]
  <2>1. PICK k \in 1 .. g + l + 2 : k = g + j /\ ~(k <= g) /\ k - g = j
    OBVIOUS
  <2> QED BY <1>3, <2>1
<1>6. ASSUME NEW k \in 1 .. g + l + 2 PROVE r[k].id = id
  <2>1. CASE k <= g
    BY <1>4, <2>1 DEF DataOnly
  <2>2. CASE ~(k <= g)
    <3>1. PICK a \in Nat : a = l + 2 /\ k \in 1 .. g + a
      OBVIOUS
    <3>2. PICK j \in 1 .. a : g + j = k
      BY <2>2, <3>1, Beyond
    <3>3. r[k] = t[j]
      BY <1>5, <3>1, <3>2
    <3> QED BY <3>1, <3>2, <3>3 DEF Orderly
  <2> QED BY <2>1, <2>2
<1>7. ASSUME NEW k \in 1 .. g + l
      PROVE  r[k].type \in {"data", "bad"} /\ (r[k].type = "data" => r[k].i = (c + g) - k)
  <2>1. CASE k <= g
    BY <1>4, <2>1 DEF DataOnly
  <2>2. CASE ~(k <= g)
    <3>1. PICK j \in 1 .. l : g + j = k
      BY <2>2, Beyond
    <3>2. r[k] = t[j]
      BY <1>5, <3>1
    <3>3. c - j = (c + g) - k
      BY <3>1
    <3>4. t[j].type \in {"data", "bad"} /\ (t[j].type = "data" => t[j].i = c - j)
      BY DEF Orderly
    <3> QED BY <3>2, <3>3, <3>4
  <2> QED BY <2>1, <2>2
<1>8. r[(g + l) + 1].type \in {"sw1", "bad"} /\ r[(g + l) + 2].type \in {"sw2", "bad"}
  <2>1. l + 1 \in 1 .. l + 2 /\ l + 2 \in 1 .. l + 2 /\ g + (l + 1) = (g + l) + 1 /\ g + (l + 2) = (g + l) + 2
    OBVIOUS
  <2>2. r[g + (l + 1)] = t[l + 1] /\ r[g + (l + 2)] = t[l + 2]
    BY <1>5, <2>1
  <2> QED BY <2>1, <2>2 DEF Orderly
<1>9. Orderly(r, g + l, id, c + g)
  BY <1>3, <1>6, <1>7, <1>8 DEF Orderly
<1> QED BY <1>1, <1>3, <1>9

\* n bytes of data are left to get.
Left(n) == n \in Nat /\ Len(got) \in Nat /\ cmd.le \in Nat /\ n + Len(got) = cmd.le

\* c bytes of the line are read.
Reads(c) == c \in Nat /\ c <= Len(line) /\ line' = SubSeq(line, c + 1, Len(line))

\* What was got, with the last n bytes and the status behind it.
LEMMA WholeAnswer ==
  ASSUME LineTypes, GotInOrder, NEW n, Left(n), NEW l \in Nat, NEW t \in Seq(Tokens), Orderly(t, l, cmd.id, n + 1)
  PROVE  /\ Joined(got, t) \in Seq(Tokens) /\ InOrder(Joined(got, t), cmd.id)
         /\ Len(Joined(got, t)) = Len(got) + l + 2
<1>1. PICK g \in Nat : g = Len(got) /\ n \in Nat /\ n + g = cmd.le /\ (n + 1) + g = cmd.le + 1
  BY DEF Left
<1>2. got \in Seq(Tokens)
  BY DEF LineTypes
<1>3. PICK c \in Nat : c = n + 1
  BY <1>1
<1>4. DataOnly(got, g, cmd.id, c + g)
  BY <1>1, <1>3 DEF DataOnly, GotInOrder
<1>5. Joined(got, t) \in Seq(Tokens) /\ Orderly(Joined(got, t), g + l, cmd.id, c + g)
  BY <1>2, <1>3, <1>4, Continued
<1>6. PICK a \in Nat, d \in Nat : a = g + l /\ d = c + g
  BY <1>1, <1>3
<1>7. InOrder(Joined(got, t), cmd.id)
  BY <1>5, <1>6, AnswerInOrder
<1>8. Len(Joined(got, t)) = Len(got) + l + 2
  BY <1>1, <1>5 DEF Orderly
<1> QED BY <1>5, <1>7, <1>8

\* The card sent the rest at once, with its status.
LEMMA LineRest ==
  ASSUME LineTypes, NEW n \in Nat, AllAtOnce(0, n), n + 3 <= Len(line)
  PROVE  /\ SubSeq(line, 2, n + 3) \in Seq(Tokens)
         /\ Orderly(SubSeq(line, 2, n + 3), n, cmd.id, n + 1)
<1>1. PICK t : t = SubSeq(line, 2, n + 3)
  OBVIOUS
<1>2. /\ t \in Seq(Tokens) /\ Len(t) = n + 2
      /\ \A j \in 1 .. n + 2 : t[j] = line[j + 1]
  <2>1. PICK lo \in {1, 2}, len \in Nat, hi \in Nat : lo = 2 /\ len = n + 2 /\ hi = n + 3
    OBVIOUS
  <2>2. hi = lo + len - 1 /\ hi <= Len(line) /\ \A j \in Nat : lo + j - 1 = j + 1
    BY <2>1
  <2>3. /\ SubSeq(line, lo, hi) \in Seq(Tokens) /\ Len(SubSeq(line, lo, hi)) = len
        /\ \A j \in 1 .. len : SubSeq(line, lo, hi)[j] = line[lo + j - 1]
    BY <2>1, <2>2, Taken
  <2>4. t = SubSeq(line, lo, hi)
    BY <1>1, <2>1
  <2> QED BY <2>1, <2>2, <2>3, <2>4
<1>3. ASSUME NEW j \in 1 .. n
      PROVE  /\ t[j].id = cmd.id /\ t[j].type \in {"data", "bad"}
             /\ t[j].type = "data" => t[j].i = (n + 1) - j
  <2>1. Comes(0 + 1 + j, "data", n + 1 - j)
    BY DEF AllAtOnce
  <2>2. PICK k \in 1 .. Len(line) : k = j + 1 /\ k = 0 + 1 + j
    <3>1. j + 1 \in 1 .. Len(line) /\ j + 1 = 0 + 1 + j
      BY Counted
    <3> QED BY <3>1
  <2>3. Comes(k, "data", n + 1 - j)
    BY <2>1, <2>2
  <2>4. /\ line[k].id = cmd.id /\ line[k].type \in {"data", "bad"}
        /\ line[k].type = "data" => line[k].i = n + 1 - j
    BY <2>3, SaidOfLine
  <2> QED BY <1>2, <2>2, <2>4, SMTT(60)
<1>4. /\ t[n + 1].id = cmd.id /\ t[n + 1].type \in {"sw1", "bad"}
      /\ t[n + 2].id = cmd.id /\ t[n + 2].type \in {"sw2", "bad"}
  <2>1. PICK a \in 1 .. n + 2, b \in 1 .. n + 2 : a = n + 1 /\ b = n + 2
    OBVIOUS
  <2>2. PICK k \in 1 .. Len(line), l \in 1 .. Len(line) : k = n + 2 /\ l = n + 3
    <3>1. n + 2 \in 1 .. Len(line) /\ n + 3 \in 1 .. Len(line)
      BY Counted
    <3> QED BY <3>1
  <2>3. Comes(k, "sw1", 0) /\ Comes(l, "sw2", 0)
    <3>1. 0 + n + 2 = n + 2 /\ 0 + n + 3 = n + 3
      OBVIOUS
    <3> QED BY <2>2, <3>1 DEF AllAtOnce
  <2>4. /\ line[k].id = cmd.id /\ line[k].type \in {"sw1", "bad"}
        /\ line[l].id = cmd.id /\ line[l].type \in {"sw2", "bad"}
    BY <2>3, SaidOfLine
  <2>5. t[a] = line[k] /\ t[b] = line[l]
    BY <1>2, <2>1, <2>2
  <2> QED BY <2>1, <2>4, <2>5
<1>5. \A j \in 1 .. n + 2 : j \in 1 .. n \/ j = n + 1 \/ j = n + 2
  OBVIOUS
<1>6. \A j \in 1 .. n + 2 : t[j].id = cmd.id
  BY <1>3, <1>4, <1>5
<1>7. Orderly(t, n, cmd.id, n + 1)
  BY <1>2, <1>3, <1>4, <1>6 DEF Orderly
<1> QED BY <1>1, <1>2, <1>7

LEMMA GotSoFar ==
  ASSUME LineTypes, cmd # None, t0 = "receiving", NEW n, n = cmd.le - Len(got), GotInOrder
  PROVE  Left(n) /\ Room = n + 2 /\ n + 2 \in Nat
<1>1. PICK g \in Nat, le \in Nat : g = Len(got) /\ le = cmd.le /\ g <= le
  BY DEF LineTypes, Commands, GotInOrder
<1>2. n = le - g
  BY <1>1
<1>3. n \in Nat /\ n + g = le /\ le + 2 - g = n + 2
  BY <1>1, <1>2
<1> QED BY <1>1, <1>3, SMTT(60) DEF Left, Room

LEMMA ReadsRest ==
  ASSUME LineTypes, cmd # None, NEW n, Left(n), GotInOrder, CardAt("wait"), Room = n + 2,
         Bytes(n + 3), AllAtOnce(0, n), ReadsData(Room), Reads(n + 3)
  PROVE  WellDone
<1>1. n \in Nat
  BY DEF Left
<1>2. line' = <<>> /\ card.out = <<>> /\ Len(line) = n + 3
  <2>1. PICK c \in Nat : c = n + 3
    BY <1>1
  <2> QED BY <2>1, ReadsAll DEF Reads
<1>3. PICK t : t = SubSeq(line, 2, n + 3)
  OBVIOUS
<1>4. t \in Seq(Tokens) /\ Orderly(t, n, cmd.id, n + 1)
  BY <1>1, <1>2, <1>3, LineRest
<1>5. InOrder(Joined(got, t), cmd.id)
  BY <1>1, <1>4, WholeAnswer
<1>6. Return("idle", TRUE, Joined(got, t)) /\ card' = card
  <2>1. (n + 2) + 1 = n + 3
    BY <1>1
  <2>2. Return("idle", TRUE, got \o SubSeq(line, 2, (n + 2) + 1)) /\ UNCHANGED <<card, stale>>
    BY DEF ReadsData
  <2> QED BY <1>3, <2>1, <2>2 DEF Joined
<1> QED BY <1>2, <1>5, <1>6, ReturnsWell

\* The two bytes of a status.
LEMMA LineStatus ==
  ASSUME LineTypes, Comes(1, "sw1", 0), Comes(2, "sw2", 0), 2 <= Len(line), NEW c \in Nat
  PROVE  /\ SubSeq(line, 1, 2) \in Seq(Tokens)
         /\ Orderly(SubSeq(line, 1, 2), 0, cmd.id, c)
<1>1. PICK t : t = SubSeq(line, 1, 2)
  OBVIOUS
<1>2. t \in Seq(Tokens) /\ Len(t) = 2 /\ t[1] = line[1] /\ t[2] = line[2]
  <2>1. PICK lo \in {1, 2}, len \in Nat, hi \in Nat : lo = 1 /\ len = 2 /\ hi = 2
    OBVIOUS
  <2>2. hi = lo + len - 1 /\ hi <= Len(line)
    BY <2>1
  <2>3. /\ SubSeq(line, lo, hi) \in Seq(Tokens) /\ Len(SubSeq(line, lo, hi)) = len
        /\ \A j \in 1 .. len : SubSeq(line, lo, hi)[j] = line[lo + j - 1]
    BY <2>1, <2>2, Taken
  <2>4. t = SubSeq(line, lo, hi) /\ \A j \in 1 .. 2 : lo + j - 1 = j
    BY <1>1, <2>1
  <2> QED BY <2>1, <2>3, <2>4
<1>3. 1 \in 1 .. Len(line) /\ 2 \in 1 .. Len(line)
  BY Counted
<1>4. /\ line[1].id = cmd.id /\ line[1].type \in {"sw1", "bad"}
      /\ line[2].id = cmd.id /\ line[2].type \in {"sw2", "bad"}
  BY <1>3, SaidOfLine
<1>5. Orderly(t, 0, cmd.id, c)
  BY <1>2, <1>4 DEF Orderly
<1> QED BY <1>1, <1>2, <1>5

LEMMA StatusNumber ==
  ASSUME LineTypes, line # <<>>, line[1].type = "sw1"
  PROVE  StatusOf(line[1]).n \in Nat
<1>1. line[1] \in Tokens
  BY FirstByte
<1> QED BY <1>1 DEF StatusOf, Tokens

LEMMA ReadsLast ==
  ASSUME T0Assumption, LineTypes, cmd # None, ~block, t0 = "receiving", NEW n, Left(n), GotInOrder, CardAt("wait"),
         Bytes(2), Comes(1, "sw1", 0), Comes(2, "sw2", 0), line # <<>>, line[1].type = "sw1", ReadsStatus, Reads(2)
  PROVE  WellDone
<1>1. n \in Nat /\ Len(got) \in Nat /\ Len(got) <= cmd.le /\ cmd.le \in Nat
  BY DEF Left
<1>2. line' = <<>> /\ card.out = <<>> /\ Len(line) = 2
  <2>1. PICK c \in Nat : c = 2
    OBVIOUS
  <2> QED BY <2>1, ReadsAll DEF Reads
<1>3. PICK t : t = SubSeq(line, 1, 2)
  OBVIOUS
<1>4. t \in Seq(Tokens) /\ Orderly(t, 0, cmd.id, n + 1)
  <2>1. PICK c \in Nat : c = n + 1
    BY <1>1
  <2> QED BY <1>2, <1>3, <2>1, LineStatus
<1>5. PICK bytes : bytes = Joined(got, t)
  OBVIOUS
<1>6. bytes \in Seq(Tokens) /\ InOrder(bytes, cmd.id) /\ Len(bytes) = Len(got) + 2
  <2>1. PICK l \in Nat : l = 0
    OBVIOUS
  <2>2. /\ Joined(got, t) \in Seq(Tokens) /\ InOrder(Joined(got, t), cmd.id)
        /\ Len(Joined(got, t)) = Len(got) + l + 2
    BY <1>1, <1>4, <2>1, WholeAnswer
  <2> QED BY <1>1, <1>5, <2>1, <2>2
<1>7. PICK sw : sw = StatusOf(line[1]) /\ sw.n \in Nat
  <2>1. StatusOf(line[1]).n \in Nat
    BY StatusNumber
  <2> QED BY <2>1, Zenon
<1>8. AfterStatus(bytes, sw)
  <2>1. ~(Len(bytes) > cmd.le + 2)
    BY <1>1, <1>6
  <2>2. AfterStatus(SubSeq(bytes, 1, Len(bytes)), sw)
    BY <1>3, <1>5, <1>7, <2>1 DEF ReadsStatus, Joined
  <2>3. SubSeq(bytes, 1, Len(bytes)) = bytes
    BY <1>6
  <2> QED BY <2>2, <2>3
<1> QED BY <1>2, <1>6, <1>7, <1>8, StatusWell

\* The card sends the data byte by byte.
LEMMA ReadsOne ==
  ASSUME LineTypes, cmd # None, t0 = "receiving", NEW n, Left(n), NEW m \in 1 .. n, Receiving(0, m, n),
         Room = n + 2, ReadsData(1), Reads(2)
  PROVE  WellDone
<1>1. n \in Nat /\ n - 1 \in Nat /\ m - 1 \in 0 .. n - 1
  BY DEF Left
<1>2. got' = got \o SubSeq(line, 2, 2) /\ UNCHANGED <<t0, cmd, unsent, nulls, card, answer, stale>>
  <2>1. 1 # Room /\ 1 + 1 = 2
    BY <1>1
  <2> QED BY <2>1 DEF ReadsData
<1>3. PICK c \in Nat : c = 2
  OBVIOUS
<1>4. Moves(c)
  <2>1. SameCard /\ card'.out = card.out /\ cmd'.id = cmd.id
    BY <1>2 DEF SameCard
  <2>2. c \in Nat /\ c <= Len(line) /\ line' = SubSeq(line, c + 1, Len(line))
    BY <1>3 DEF Reads
  <2> QED BY <2>1, <2>2, ReadsMoves
<1>5. PICK t : t = SubSeq(line, 2, 2)
  OBVIOUS
<1>6. t \in Seq(Tokens) /\ Len(t) = 1 /\ t[1] = line[2]
  <2>1. PICK lo \in {1, 2}, len \in Nat, hi \in Nat : lo = 2 /\ len = 1 /\ hi = 2
    OBVIOUS
  <2>2. hi = lo + len - 1 /\ hi <= Len(line)
    BY <2>1 DEF Reads
  <2>3. /\ SubSeq(line, lo, hi) \in Seq(Tokens) /\ Len(SubSeq(line, lo, hi)) = len
        /\ \A j \in 1 .. len : SubSeq(line, lo, hi)[j] = line[lo + j - 1]
    BY <2>1, <2>2, Taken
  <2>4. t = SubSeq(line, lo, hi) /\ lo + 1 - 1 = 2 /\ 1 \in 1 .. len
    BY <1>5, <2>1
  <2> QED BY <2>1, <2>3, <2>4
<1>7. /\ line[2].id = cmd.id /\ line[2].type \in {"data", "bad"}
      /\ line[2].type = "data" => line[2].i = n
  <2>1. Comes(2, "data", n)
    <3>1. Comes(0 + 2*1, "data", n + 1 - 1)
      BY <1>1 DEF Receiving, Pairs
    <3>2. 0 + 2*1 = 2 /\ n + 1 - 1 = n
      BY <1>1
    <3> QED BY <3>1, <3>2
  <2>2. 2 \in 1 .. Len(line)
    BY Counted DEF Reads
  <2> QED BY <2>1, <2>2, SaidOfLine
<1>8. got \in Seq(Tokens) /\ GotInOrder
  BY DEF LineTypes, Receiving
<1>9. /\ got' \in Seq(Tokens) /\ Len(got') = Len(got) + 1
      /\ \A k \in 1 .. Len(got) : got'[k] = got[k]
      /\ got'[Len(got) + 1] = line[2]
  <2>1. PICK g \in Nat : g = Len(got)
    BY DEF Left
  <2>2. /\ Joined(got, t) \in Seq(Tokens) /\ Len(Joined(got, t)) = g + 1
        /\ \A k \in 1 .. g + 1 : Joined(got, t)[k] = IF k <= g THEN got[k] ELSE t[k - g]
    BY <1>6, <1>8, <2>1, JoinedSeq, ZenonT(60)
  <2>3. got' = Joined(got, t)
    BY <1>2, <1>5 DEF Joined
  <2>4. \A k \in 1 .. g : k \in 1 .. g + 1 /\ k <= g
    OBVIOUS
  <2>5. g + 1 \in 1 .. g + 1 /\ ~(g + 1 <= g) /\ (g + 1) - g = 1
    OBVIOUS
  <2>6. got'[g + 1] = t[(g + 1) - g]
    BY <2>2, <2>3, <2>5
  <2>7. \A k \in 1 .. g : got'[k] = got[k]
    BY <2>2, <2>3, <2>4
  <2> QED BY <1>6, <2>1, <2>2, <2>3, <2>5, <2>6, <2>7
<1>10. GotInOrder' /\ n - 1 = cmd'.le - Len(got')
  <2>1. PICK g \in Nat, le \in Nat : g = Len(got) /\ le = cmd.le /\ n + g = le
    BY DEF Left
  <2>2. Len(got') = g + 1 /\ cmd' = cmd /\ g + 1 <= le /\ n - 1 = le - (g + 1) /\ le + 1 - (g + 1) = n
    BY <1>1, <1>2, <1>9, <2>1
  <2>3. ASSUME NEW k \in 1 .. g + 1
        PROVE  /\ got'[k].id = cmd.id /\ got'[k].type \in {"data", "bad"}
               /\ got'[k].type = "data" => got'[k].i = le + 1 - k
    <3>1. CASE k \in 1 .. g
      BY <1>8, <1>9, <2>1, <3>1 DEF GotInOrder
    <3>2. CASE k = g + 1
      BY <1>7, <1>9, <2>1, <2>2, <3>2
    <3> QED BY <3>1, <3>2
  <2> QED BY <2>1, <2>2, <2>3 DEF GotInOrder
<1>11. PICK a \in Nat : a = n - 1
  BY <1>1
<1>110. PICK b \in 0 .. a : b = m - 1
  BY <1>1, <1>11
<1>12. Pairs(0, b, a)'
  <2>1. ASSUME NEW j \in 1 .. b
        PROVE  Comes(0 + 2*j - 1, "nak", 0)' /\ Comes(0 + 2*j, "data", a + 1 - j)'
    <3>1. j + 1 \in 1 .. m /\ n + 1 - (j + 1) = a + 1 - j
      BY <1>1, <1>11, <1>110
    <3>2. Comes(0 + 2*(j + 1) - 1, "nak", 0) /\ Comes(0 + 2*(j + 1), "data", n + 1 - (j + 1))
      BY <3>1 DEF Receiving, Pairs
    <3>3. PICK k \in Nat \ {0}, l \in Nat \ {0} : k = 0 + 2*j - 1 /\ l = 0 + 2*j
                  /\ k + c = 0 + 2*(j + 1) - 1 /\ l + c = 0 + 2*(j + 1)
      BY <1>3
    <3>4. Comes(k + c, "nak", 0) /\ Comes(l + c, "data", a + 1 - j)
      BY <3>1, <3>2, <3>3
    <3>5. Comes(k, "nak", 0)' /\ Comes(l, "data", a + 1 - j)'
      BY <1>4, <3>3, <3>4 DEF Moves
    <3> QED BY <3>3, <3>5
  <2> QED BY <2>1 DEF Pairs
<1>13. Rest(0 + 2*b, a - b)'
  <2>1. PICK e \in Nat, f \in Nat, left \in Nat : e = 0 + 2*m /\ f = 0 + 2*b /\ left = n - m
    BY <1>1
  <2>2. e = f + c /\ left = a - b
    BY <1>1, <1>3, <1>11, <1>110, <2>1
  <2>3. Rest(e, left)
    BY <2>1 DEF Receiving
  <2>4. Rest(f, left)'
    BY <1>4, <2>2, <2>3, RestMoves
  <2> QED BY <2>1, <2>2, <2>4
<1>14. ~Off' => card'.id = cmd'.id /\ card'.want = 0
  BY <1>2 DEF Receiving, Off
<1>15. Receiving(0, b, a)'
  BY <1>2, <1>10, <1>11, <1>110, <1>12, <1>13, <1>14 DEF Receiving
<1>16. InTurn'
  BY <1>11, <1>110, <1>15 DEF InTurn
<1> QED BY <1>2, <1>16 DEF WellDone, OnTurn

LEMMA ReceivingReads ==
  ASSUME T0Assumption, LineTypes, cmd # None, ~block, line # <<>>, NEW p, ReadsAs(p),
         NEW z \in {0, 1}, NEW n \in Nat, NEW m \in 0 .. n, Receiving(z, m, n)
  PROVE  WellDone
<1>1. t0 = "receiving" /\ GotInOrder /\ Pairs(z, m, n) /\ Rest(z + 2*m, n - m)
  BY DEF Receiving
<1>2. Left(n) /\ Room = n + 2
  <2>1. n = cmd.le - Len(got)
    BY DEF Receiving
  <2> QED BY <1>1, <2>1, GotSoFar
<1>3. Len(line) \in Nat \ {0} /\ Len(line) <= Count /\ Count \in Nat
  BY FirstByte
<1>4. CASE p = "bad"
  BY <1>1, <1>4, FailsWell DEF ReadsAs
<1>5. CASE p # "bad" /\ z = 1
  <2>1. Comes(1, "null", 0)
    BY <1>5 DEF Receiving
  <2>2. p = "null"
    BY <1>5, <2>1, TakenForIt
  <2> QED BY <1>5, <2>2, NullWell
<1>6. CASE p # "bad" /\ z = 0 /\ m # 0
  <2>1. 1 \in 1 .. m /\ m \in 1 .. n
    BY <1>6
  <2>2. Comes(0 + 2*1 - 1, "nak", 0)
    BY <1>1, <1>6, <2>1 DEF Pairs
  <2>3. 0 + 2*1 - 1 = 1
    OBVIOUS
  <2>4. p = "nak"
    BY <1>6, <2>2, <2>3, TakenForIt
  <2>5. Needs(p) = 2 /\ ReadsData(1)
    BY <1>1, <2>4 DEF ReadsAs, Needs
  <2>6. Reads(2)
    BY <2>5 DEF ReadsAs, Reads
  <2> QED BY <1>1, <1>2, <1>6, <2>1, <2>5, <2>6, ReadsOne
<1>7. CASE p # "bad" /\ z = 0 /\ m = 0
  <2>1. Rest(0, n)
    <3>1. z + 2*m = 0 /\ n - m = n
      BY <1>7
    <3> QED BY <1>1, <3>1
  <2>2. ~Bytes(0)
    BY <1>3 DEF Bytes
  <2>3. CASE Bytes(n + 3) /\ CardAt("wait") /\ AllAtOnce(0, n)
    <3>1. Comes(1, "ack", 0)
      <4>1. 0 + 1 = 1
        OBVIOUS
      <4> QED BY <2>3, <4>1 DEF AllAtOnce
    <3>2. p = "ack"
      BY <1>7, <3>1, TakenForIt
    <3>3. Needs(p) = 1 + Room /\ ReadsData(Room)
      BY <1>1, <3>2 DEF ReadsAs, Needs
    <3>4. Needs(p) = n + 3
      BY <1>2, <3>3
    <3>5. Reads(n + 3)
      BY <3>4 DEF ReadsAs, Reads
    <3> QED BY <1>1, <1>2, <2>3, <3>3, <3>5, ReadsRest
  <2>4. CASE Bytes(2) /\ CardAt("wait") /\ Comes(1, "sw1", 0) /\ Comes(2, "sw2", 0)
    <3>1. p = "sw" /\ line[1].type = "sw1"
      BY <1>7, <2>4, TakenForIt
    <3>2. Needs(p) = 2 /\ ReadsStatus
      BY <3>1 DEF ReadsAs, Needs
    <3>3. Reads(2)
      BY <3>2 DEF ReadsAs, Reads
    <3> QED BY <1>1, <1>2, <2>4, <3>1, <3>2, <3>3, ReadsLast
  <2>5. 0 + n + 3 = n + 3 /\ 0 + 1 = 1 /\ 0 + 2 = 2
    OBVIOUS
  <2> QED BY <2>1, <2>2, <2>3, <2>4, <2>5 DEF Rest
<1> QED BY <1>4, <1>5, <1>6, <1>7

LEMMA ProcedureWell ==
  ASSUME T0Assumption, LineTypes, ProcedureByte, InTurn
  PROVE  WellDone
<1>1. PICK p : ReadsAs(p)
  BY DEF ProcedureByte, ReadsAs
<1>2. cmd # None /\ ~block /\ line # <<>>
  BY DEF ProcedureByte
<1>3. CASE Spoilt
  <2>1. p = "bad"
    BY <1>1, <1>3 DEF ReadsAs, Meanings, Spoilt
  <2>2. t0 \in {"sending", "receiving"} /\ Fail(t0) /\ card' = card
    BY <1>1, <1>2, <2>1 DEF ReadsAs, LineTypes
  <2> QED BY <1>2, <2>2, FailsWell
<1>4. CASE \E z \in {0, 1} : Sending(z)
  BY <1>1, <1>2, <1>4, SendingReads
<1>5. CASE \E z \in {0, 1}, n \in Nat : \E m \in 0 .. n : Receiving(z, m, n)
  BY <1>1, <1>2, <1>5, ReceivingReads
<1> QED BY <1>3, <1>4, <1>5 DEF InTurn

LEMMA TimeoutWell ==
  ASSUME LineTypes, Timeout
  PROVE  WellDone
<1>1. cmd # None /\ Fail("confused") /\ card' = card
  BY DEF Timeout
<1> QED BY <1>1, FailsWell

LEMMA TransceiveWell ==
  ASSUME T0Assumption, LineTypes, ~block, NEW a \in Apdus, cmd = None, Transceive(a), t0 = "idle" => Resting
  PROVE  WellDone
<1>1. a.lc \in Nat /\ a.le \in Nat
  BY DEF T0Assumption
<1>2. PICK id \in Nat : id = NextId(answer.id)
  BY NextIdType DEF LineTypes
<1>3. CASE t0 # "idle" /\ answer' = [ok |-> FALSE, id |-> id, bytes |-> <<>>]
           /\ UNCHANGED <<t0, cmd, unsent, card>>
  BY <1>3 DEF WellDone, OnTurn
<1>4. CASE /\ t0 = "idle"
           /\ t0' = IF a.lc > 0 THEN "sending" ELSE "receiving"
           /\ cmd' = [apdu |-> a, id |-> id, get |-> FALSE, le |-> a.le]
           /\ unsent' = a.lc
           /\ Header(id, a.lc, IF a.lc > 0 THEN 0 ELSE a.le)
           /\ UNCHANGED answer
  <2>1. cmd' # None /\ cmd'.id = id /\ cmd'.le = a.le /\ got' = <<>> /\ line' = line
    <3>1. cmd' \in Commands /\ cmd'.id = id /\ cmd'.le = a.le
      BY <1>1, <1>4 DEF Commands
    <3>2. cmd' # None
      BY <3>1 DEF T0Assumption
    <3> QED BY <3>1, <3>2 DEF Transceive, LineTypes
  <2>2. CardAt("wait") /\ card.out = <<>> /\ (line = <<>> \/ Spoilt)
    BY <1>4 DEF Resting
  <2>3. CASE line = <<>> /\ a.lc > 0
    <3>1. PICK lc \in Nat : lc = a.lc
      BY <1>1
    <3>2. Header(id, lc, 0) /\ t0' = "sending" /\ unsent' = lc
      BY <1>4, <2>3, <3>1
    <3>3. Sending(0)' /\ card'.mixed = card.mixed
      BY <2>1, <2>2, <2>3, <3>2, StartsSending
    <3>4. InTurn'
      BY <3>3 DEF InTurn
    <3> QED BY <1>4, <2>1, <3>3, <3>4 DEF WellDone, OnTurn
  <2>4. CASE line = <<>> /\ ~(a.lc > 0)
    <3>1. PICK le \in Nat : le = a.le
      BY <1>1
    <3>2. Header(id, 0, le) /\ t0' = "receiving"
      <4>1. a.lc = 0
        BY <1>1, <2>4
      <4> QED BY <1>4, <2>4, <3>1, <4>1
    <3>3. Receiving(0, 0, le)' /\ card'.mixed = card.mixed
      BY <2>1, <2>2, <2>4, <3>1, <3>2, StartsReceiving
    <3>4. InTurn'
      <4>1. 0 \in 0 .. le
        OBVIOUS
      <4>2. \E n \in Nat : \E m \in 0 .. n : Receiving(0, m, n)'
        BY <3>3, <4>1
      <4> QED BY <4>2 DEF InTurn
    <3> QED BY <1>4, <2>1, <3>3, <3>4 DEF WellDone, OnTurn
  <2>5. CASE Spoilt
    <3>1. Spoilt'
      BY <2>1, <2>5 DEF Spoilt
    <3>2. card'.mixed = card.mixed
      <4>1. PICK have \in Nat, lc \in Nat : lc = a.lc /\ have = IF a.lc > 0 THEN 0 ELSE a.le
        BY <1>1
      <4>2. card.st \in {"off", "wait"} /\ Header(id, lc, have)
        BY <1>4, <2>2, <4>1 DEF CardAt, Off
      <4>3. Heard(id, lc, have)
        BY <2>2, <4>2, HeaderTypes
      <4> QED BY <4>3 DEF Heard
    <3> QED BY <1>4, <2>1, <3>1, <3>2 DEF WellDone, OnTurn, InTurn
  <2> QED BY <2>2, <2>3, <2>4, <2>5
<1>5. CASE /\ t0 = "idle" /\ t0' = IF a.lc > 0 THEN "confused" ELSE "idle"
           /\ answer' = [ok |-> FALSE, id |-> id, bytes |-> <<>>]
           /\ UNCHANGED <<cmd, unsent, card>>
  <2>1. Resting' /\ cmd' = None
    BY <1>5 DEF Transceive, Resting, CardAt, Off, Spoilt
  <2> QED BY <1>5, <2>1 DEF WellDone, OnTurn
<1> QED BY <1>2, <1>3, <1>4, <1>5 DEF Transceive, T0Resynch

LEMMA SendsWellOnTurn ==
  ASSUME LineTypes, CardSends, OnTurn
  PROVE  OnTurn'
<1>1. /\ UNCHANGED <<t0, cmd, unsent, got>> /\ card.out # <<>>
      /\ line # <<>> => line' # <<>> /\ line'[1] = line[1]
  BY SendsByte DEF CardSends
<1>2. ~(cmd = None /\ t0 = "idle")
  BY <1>1 DEF OnTurn, Resting
<1>3. CASE cmd # None /\ Spoilt
  <2>1. Spoilt'
    BY <1>1, <1>3 DEF Spoilt
  <2> QED BY <1>1, <1>3, <2>1 DEF OnTurn, InTurn
<1>4. ~Off
  BY <1>1 DEF Off, LineTypes
<1>5. CASE cmd # None /\ \E z \in {0, 1} : Sending(z)
  <2>1. PICK z \in {0, 1} : Sending(z)
    BY <1>5
  <2>2. card.id = cmd.id
    BY <1>4, <2>1 DEF Sending
  <2>3. PICK c \in {0, 1} : c = 0 /\ z = z + c
    OBVIOUS
  <2>4. Moves(c)
    BY <2>2, <2>3, SendsMoves
  <2>5. Sending(z)'
    BY <1>1, <2>1, <2>3, <2>4, SendingMoves
  <2> QED BY <1>1, <1>5, <2>5 DEF OnTurn, InTurn
<1>6. CASE cmd # None /\ \E z \in {0, 1}, n \in Nat : \E m \in 0 .. n : Receiving(z, m, n)
  <2>1. PICK z \in {0, 1}, n \in Nat : \E m \in 0 .. n : Receiving(z, m, n)
    BY <1>6
  <2>2. PICK m \in 0 .. n : Receiving(z, m, n)
    BY <2>1
  <2>3. card.id = cmd.id
    BY <1>4, <2>2 DEF Receiving
  <2>4. PICK c \in {0, 1} : c = 0 /\ z = z + c
    OBVIOUS
  <2>5. Moves(c)
    BY <2>3, <2>4, SendsMoves
  <2>6. Receiving(z, m, n)'
    BY <1>1, <2>1, <2>2, <2>4, <2>5, ReceivingMoves
  <2> QED BY <1>1, <1>6, <2>1, <2>2, <2>6 DEF OnTurn, InTurn
<1> QED BY <1>1, <1>2, <1>3, <1>5, <1>6 DEF OnTurn, InTurn

LEMMA TalksWellOnTurn ==
  ASSUME LineTypes, CardTalks, UNCHANGED <<t0, cmd, unsent, got, line>>, OnTurn
  PROVE  OnTurn'
<1>1. CardSaid /\ card.st = "talk"
  BY CardTalksSaid DEF CardSaid
<1>2. ~(cmd = None /\ t0 = "idle")
  BY <1>1 DEF OnTurn, Resting, CardAt, Off
<1>3. CASE cmd # None /\ Spoilt
  BY <1>3 DEF OnTurn, InTurn, Spoilt
<1>4. CASE cmd # None /\ \E z \in {0, 1} : Sending(z)
  <2>1. \E y \in {0, 1} : Sending(y)'
    BY <1>1, <1>4, SendingTalks
  <2> QED BY <1>4, <2>1 DEF OnTurn, InTurn
<1>5. CASE cmd # None /\ \E z \in {0, 1}, n \in Nat : \E m \in 0 .. n : Receiving(z, m, n)
  <2>1. PICK z \in {0, 1}, n \in Nat : \E m \in 0 .. n : Receiving(z, m, n)
    BY <1>5
  <2>2. \E y \in {0, 1} : \E l \in 0 .. n : Receiving(y, l, n)'
    BY <1>1, <2>1, ReceivingTalks
  <2> QED BY <1>5, <2>1, <2>2 DEF OnTurn, InTurn
<1> QED BY <1>2, <1>3, <1>4, <1>5 DEF OnTurn, InTurn

LEMMA MovesOnTurn ==
  ASSUME LineTypes, Moves(0), UNCHANGED <<t0, cmd, unsent, got>>, Spoilt => Spoilt', Resting => Resting', OnTurn
  PROVE  OnTurn'
<1>1. PICK c \in {0, 1} : c = 0
  OBVIOUS
<1>2. Moves(c)
  BY <1>1
<1>3. CASE cmd = None
  BY <1>3 DEF OnTurn
<1>4. CASE cmd # None /\ Spoilt
  BY <1>4 DEF OnTurn, InTurn
<1>5. CASE cmd # None /\ \E z \in {0, 1} : Sending(z)
  <2>1. PICK z \in {0, 1} : Sending(z)
    BY <1>5
  <2>2. z = z + c
    BY <1>1
  <2>3. Sending(z)'
    BY <1>2, <2>1, <2>2, SendingMoves
  <2> QED BY <1>5, <2>1, <2>3 DEF OnTurn, InTurn
<1>6. CASE cmd # None /\ \E z \in {0, 1}, n \in Nat : \E m \in 0 .. n : Receiving(z, m, n)
  <2>1. PICK z \in {0, 1}, n \in Nat : \E m \in 0 .. n : Receiving(z, m, n)
    BY <1>6
  <2>2. PICK m \in 0 .. n : Receiving(z, m, n)
    BY <2>1
  <2>3. z = z + c
    BY <1>1
  <2>4. Receiving(z, m, n)'
    BY <1>2, <2>1, <2>2, <2>3, ReceivingMoves
  <2> QED BY <1>6, <2>1, <2>2, <2>4 DEF OnTurn, InTurn
<1> QED BY <1>3, <1>4, <1>5, <1>6 DEF OnTurn, InTurn

LEMMA DrawWellOnTurn ==
  ASSUME LineTypes, Draw, OnTurn
  PROVE  OnTurn'
<1>1. /\ UNCHANGED <<t0, cmd, unsent, got, line>>
      /\ card'.st = "off" /\ card'.out = <<>>
  BY DrawTypes DEF Draw
<1>2. (Resting => Resting') /\ (Spoilt => Spoilt')
  BY <1>1 DEF Resting, CardAt, Off, Spoilt
<1> QED BY <1>1, <1>2, DrawMoves, MovesOnTurn

LEMMA SameOnTurn ==
  ASSUME LineTypes, UNCHANGED <<t0, cmd, unsent, got, line, card>>, OnTurn
  PROVE  OnTurn'
<1>1. PICK c \in Nat : c = 0
  OBVIOUS
<1>2. c <= Len(line) /\ line' = SubSeq(line, c + 1, Len(line))
  <2>1. line \in Seq(Tokens)
    BY DEF LineTypes
  <2> QED BY <1>1, <2>1
<1>3. SameCard /\ card'.out = card.out
  BY DEF SameCard
<1>4. Moves(c)
  BY <1>2, <1>3, ReadsMoves
<1>5. (Resting => Resting') /\ (Spoilt => Spoilt')
  BY DEF Resting, CardAt, Off, Spoilt
<1> QED BY <1>1, <1>4, <1>5, MovesOnTurn

-------------------------------------------------------------------------------
(* The invariant of commands over T=0.                                       *)

\* Only after a receive that failed has a card been taken for one that waits for a command.
Unmixed == card.mixed => stale /\ ~block

TurnInv == LineTypes /\ Turn /\ Unmixed /\ AnswersInTurn

LEMMA AnswersAre ==
  AnswersInTurn <=> (answer.ok /\ ~stale => InOrder(answer.bytes, answer.id))
BY Zenon DEF AnswersInTurn, InOrder

LEMMA AnswersAreNext ==
  AnswersInTurn' <=> (answer'.ok /\ ~stale' => InOrder(answer'.bytes, answer'.id))
BY Zenon DEF AnswersInTurn, InOrder

LEMMA BlockAnswer ==
  ASSUME NEW id \in Nat, NEW n \in Nat, NEW kind \in Kinds
  PROVE  \E bytes : bytes = Data(id, n) \o Status(id, kind, 1) /\ InOrder(bytes, id)
<1>1. PICK d \in Seq(Tokens) : d = Data(id, n) /\ Len(d) = n
                               /\ \A j \in 1 .. n : d[j] = [type |-> "data", id |-> id, i |-> n + 1 - j]
  BY DataTypes
<1>2. PICK w : w = Status(id, kind, 1)
  OBVIOUS
<1>3. IsStatus(w, id)
  BY <1>2, StatusTypes
<1>4. PICK c \in Nat, l \in Nat : c = 1 /\ l = 0
  OBVIOUS
<1>5. w \in Seq(Tokens) /\ Orderly(w, l, id, c)
  BY <1>3, <1>4 DEF IsStatus, Orderly
<1>6. DataOnly(d, n, id, c + n)
  <2>1. \A j \in 1 .. n : n + 1 - j = (c + n) - j
    BY <1>4
  <2>2. \A j \in 1 .. n : /\ d[j].id = id /\ d[j].type = "data" /\ d[j].i = n + 1 - j
    BY <1>1
  <2>3. Len(d) = n
    BY <1>1
  <2> HIDE <1>1
  <2> QED BY <2>1, <2>2, <2>3 DEF DataOnly
<1>7. PICK bytes : bytes = Joined(d, w)
  OBVIOUS
<1>8. bytes \in Seq(Tokens) /\ Orderly(bytes, n + l, id, c + n)
  BY <1>1, <1>4, <1>5, <1>6, <1>7, Continued
<1>9. PICK a \in Nat, e \in Nat : a = n + l /\ e = c + n
  BY <1>4
<1>10. InOrder(bytes, id)
  BY <1>8, <1>9, AnswerInOrder
<1>11. bytes = Data(id, n) \o Status(id, kind, 1)
  BY <1>1, <1>2, <1>7 DEF Joined
<1> QED BY <1>10, <1>11, Zenon

LEMMA BlockInv ==
  ASSUME TurnInv, LineTypes', BlockExchange
  PROVE  TurnInv'
<1>1. block /\ UNCHANGED <<block, line, card>> /\ cmd # None /\ cmd \in Commands /\ cmd.id \in Nat /\ cmd.le \in Nat
  BY DEF BlockExchange, TurnInv, LineTypes, Commands
<1>2. Turn' /\ Unmixed'
  BY <1>1 DEF TurnInv, Turn, Unmixed
<1>3. CASE Fail(t0)
  BY <1>2, <1>3, AnswersAreNext DEF Fail, Return, TurnInv
<1>4. CASE \E n \in {0, cmd.le}, kind \in {"ok", "more", "error"} :
             AfterStatus(Data(cmd.id, n) \o Status(cmd.id, kind, 1), [kind |-> kind, n |-> 1])
  <2>1. PICK n \in {0, cmd.le}, kind \in {"ok", "more", "error"} :
             AfterStatus(Data(cmd.id, n) \o Status(cmd.id, kind, 1), [kind |-> kind, n |-> 1])
    BY <1>4
  <2>2. n \in Nat /\ kind \in Kinds
    BY <1>1, <2>1 DEF Kinds
  <2>3. PICK bytes : bytes = Data(cmd.id, n) \o Status(cmd.id, kind, 1) /\ InOrder(bytes, cmd.id)
    BY <1>1, <2>2, BlockAnswer
  <2>4. PICK sw : AfterStatus(bytes, sw)
    BY <2>1, <2>3
  <2>5. CASE GetResponse(LeAfter(sw))
    <3>1. UNCHANGED <<answer, stale>>
      BY <2>5 DEF GetResponse
    <3> QED BY <1>2, <3>1, AnswersAre, AnswersAreNext DEF TurnInv
  <2>6. CASE Return("idle", TRUE, bytes) /\ UNCHANGED <<card, stale>>
    <3>1. answer'.bytes = bytes /\ answer'.id = cmd.id
      BY <2>6 DEF Return
    <3> QED BY <1>2, <2>3, <3>1, AnswersAreNext DEF TurnInv
  <2> QED BY <1>1, <2>4, <2>5, <2>6 DEF AfterStatus
<1> QED BY <1>3, <1>4 DEF BlockExchange

\* A step of the handler that went well, or was out of turn anyway.
LEMMA WellInv ==
  ASSUME TurnInv, LineTypes', stale => stale', block' = block, ~block, ~stale => WellDone
  PROVE  TurnInv'
<1>1. CASE stale
  BY <1>1, AnswersAreNext DEF TurnInv, Turn, Unmixed
<1>2. CASE ~stale
  <2>1. Turn'
    BY <1>2 DEF WellDone, Turn
  <2>2. Unmixed'
    BY <1>2 DEF WellDone, Unmixed, TurnInv
  <2>3. AnswersInTurn'
    BY <1>2, AnswersAre, AnswersAreNext DEF WellDone, TurnInv
  <2> QED BY <2>1, <2>2, <2>3 DEF TurnInv
<1> QED BY <1>1, <1>2

LEMMA StaleStays ==
  ASSUME LineTypes, ProcedureByte \/ Timeout
  PROVE  (stale => stale') /\ block' = block /\ ~block /\ cmd # None
<1>1. block' = block /\ ~block /\ cmd # None
  BY DEF ProcedureByte, Timeout
<1>2. ASSUME NEW mark, Fail(mark) PROVE stale => stale'
  BY <1>2 DEF Fail
<1>3. ASSUME NEW bytes, NEW sw, AfterStatus(bytes, sw) PROVE stale => stale'
  BY <1>3 DEF AfterStatus, GetResponse
<1>4. ProcedureByte => (stale => stale')
  <2> SUFFICES ASSUME ProcedureByte PROVE stale => stale'
    OBVIOUS
  <2>1. PICK p : ReadsAs(p)
    BY DEF ProcedureByte, ReadsAs
  <2>2. line # <<>> /\ t0 \in {"sending", "receiving"} /\ p \in Meanings(line[1])
    BY <1>1, <2>1 DEF ProcedureByte, LineTypes, ReadsAs
  <2>3. p \in {"null", "ack", "nak", "sw", "bad"}
    BY <1>1, <2>2, NeedsBytes
  <2>4. \/ ReadsNull \/ ReadsStatus \/ Fail(t0)
        \/ SendsData(unsent) \/ SendsData(1) \/ ReadsData(Room) \/ ReadsData(1)
    BY <2>1, <2>2, <2>3 DEF ReadsAs
  <2>5. CASE ReadsNull
    BY <1>2, <2>5 DEF ReadsNull
  <2>6. CASE ReadsStatus
    BY <1>3, <2>6 DEF ReadsStatus
  <2>7. CASE Fail(t0)
    BY <1>2, <2>7
  <2>8. CASE SendsData(unsent) \/ SendsData(1)
    BY <1>2, <2>8 DEF SendsData
  <2>9. CASE ReadsData(Room) \/ ReadsData(1)
    BY <2>9 DEF ReadsData
  <2> QED BY <2>4, <2>5, <2>6, <2>7, <2>8, <2>9
<1>5. Timeout => (stale => stale')
  BY <1>2 DEF Timeout
<1> QED BY <1>1, <1>4, <1>5

LEMMA HandlerInv ==
  ASSUME T0Assumption, TurnInv, LineTypes', HandlerSteps
  PROVE  TurnInv'
<1>1. CASE BlockExchange
  BY <1>1, BlockInv
<1>2. CASE ProcedureByte \/ Timeout
  <2>1. LineTypes
    BY DEF TurnInv
  <2>2. (stale => stale') /\ block' = block /\ ~block /\ cmd # None
    BY <1>2, <2>1, StaleStays
  <2>3. ~stale => WellDone
    <3> SUFFICES ASSUME ~stale PROVE WellDone
      OBVIOUS
    <3>1. proto = "T0"
      BY <2>1, <2>2 DEF LineTypes
    <3>2. InTurn
      BY <2>2, <3>1 DEF TurnInv, Turn, OnTurn
    <3> QED BY <1>2, <2>1, <3>2, ProcedureWell, TimeoutWell
  <2> QED BY <2>2, <2>3, WellInv
<1> QED BY <1>1, <1>2 DEF HandlerSteps

\* Nothing about the line changes.
LEMMA SameInv ==
  ASSUME TurnInv, LineTypes', UNCHANGED t0vars, proto' = "T0" => proto = "T0"
  PROVE  TurnInv'
<1>1. UNCHANGED <<t0, block, cmd, unsent, got, line, card, answer, stale>>
  BY DEF t0vars
<1>2. OnTurn => OnTurn'
  BY <1>1, SameOnTurn DEF TurnInv
<1>3. Turn'
  BY <1>1, <1>2 DEF TurnInv, Turn
<1>4. Unmixed'
  BY <1>1 DEF TurnInv, Unmixed
<1>5. AnswersInTurn'
  BY <1>1, AnswersAre, AnswersAreNext DEF TurnInv
<1> QED BY <1>3, <1>4, <1>5 DEF TurnInv

LEMMA CardInv ==
  ASSUME TurnInv, LineTypes', CardSteps, proto' = proto
  PROVE  TurnInv'
<1>1. LineTypes
  BY DEF TurnInv
<1>2. UNCHANGED <<t0, block, cmd, unsent, got, answer, stale>>
  BY DEF CardSteps, CardSends
<1>3. card'.mixed = card.mixed
  <2>1. CASE CardSends
    <3>1. card' = [card EXCEPT !.out = Tail(card.out)] /\ card \in CardStates
      BY <1>1, <2>1, SendsByte DEF LineTypes
    <3> QED BY <3>1 DEF CardStates
  <2>2. CASE CardTalks
    BY <1>1, <2>2, CardTalksSaid DEF CardSaid
  <2> QED BY <2>1, <2>2 DEF CardSteps
<1>4. OnTurn => OnTurn'
  BY <1>1, SendsWellOnTurn, TalksWellOnTurn DEF CardSteps
<1>5. Turn'
  BY <1>2, <1>4 DEF TurnInv, Turn
<1>6. Unmixed'
  BY <1>2, <1>3 DEF TurnInv, Unmixed
<1>7. AnswersInTurn'
  BY <1>2, AnswersAre, AnswersAreNext DEF TurnInv
<1> QED BY <1>5, <1>6, <1>7 DEF TurnInv

\* A reset: the card is off, or as it was but not listening, or new.
LEMMA ResetInv ==
  ASSUME TurnInv, LineTypes', Idle, NEW c, NEW bytes, T0Reset(c, bytes),
         c.st # "wait" => proto' # "T0" /\ (c.mixed => card.mixed),
         c.st = "wait" => ~c.mixed /\ c.out = <<>> /\ bytes \in Seq(Tokens)
                          /\ \A i \in 1 .. Len(bytes) : bytes[i].type = "bad"
  PROVE  TurnInv'
<1>1. /\ t0' = "idle" /\ line' = bytes /\ card' = c /\ stale' = (stale /\ c.st # "wait")
      /\ ~answer'.ok /\ block' = block /\ cmd' = None
  BY DEF T0Reset, Idle, NoAnswer
<1>2. Turn'
  <2>1. CASE c.st # "wait"
    BY <2>1 DEF Turn
  <2>2. CASE c.st = "wait"
    <3>1. bytes = <<>> \/ bytes[1].type = "bad"
      <4>1. bytes # <<>> => 1 \in 1 .. Len(bytes)
        BY <2>2
      <4> QED BY <2>2, <4>1
    <3>2. Resting'
      BY <1>1, <2>2, <3>1 DEF Resting, CardAt, Spoilt
    <3> QED BY <1>1, <3>2 DEF Turn, OnTurn
  <2> QED BY <2>1, <2>2
<1>3. Unmixed'
  BY <1>1 DEF TurnInv, Unmixed
<1>4. AnswersInTurn'
  BY <1>1, AnswersAreNext
<1> QED BY <1>2, <1>3, <1>4 DEF TurnInv

LEMMA ResetFailsInv ==
  ASSUME SessionAssumption, TurnInv, LineTypes', ResetFails
  PROVE  TurnInv'
<1>1. Idle /\ proto' = None
  BY DEF ResetFails, Forget
<1>2. proto' # "T0"
  BY <1>1 DEF SessionAssumption
<1>3. CardIn("off").st = "off" /\ CardIn("off").mixed = FALSE
  BY CardInTypes
<1>4. PICK c \in {card, CardIn("off")} : T0Reset(c, <<>>) /\ c.st # "wait"
  BY <1>3 DEF ResetFails
<1>5. c.mixed => card.mixed
  BY <1>3, <1>4
<1> QED BY <1>1, <1>2, <1>4, <1>5, ResetInv

LEMMA RequestInv ==
  ASSUME SessionAssumption, TurnInv, LineTypes', Request
  PROVE  TurnInv'
<1>1. Idle /\ icc \in Cards /\ LineTypes
  BY DEF Request, TurnInv, LineTypes
<1>2. CASE icc.kind = "async" /\ \E tried \in {"even", "odd"} : GotAtr(tried)
  <2>1. PICK bytes \in Seq(Tokens) :
          T0Reset(CardIn("wait"), bytes) /\ \A i \in 1 .. Len(bytes) : bytes[i].type = "bad"
    BY <1>1, <1>2, GotAtrReset
  <2>2. PICK c : c = CardIn("wait") /\ c.st = "wait" /\ ~c.mixed /\ c.out = <<>>
    BY CardInTypes
  <2> QED BY <1>1, <2>1, <2>2, ResetInv
<1>3. CASE Forget /\ T0Reset(CardIn("off"), <<>>)
  <2>1. PICK c : c = CardIn("off") /\ c.st = "off" /\ ~c.mixed
    BY CardInTypes
  <2>2. proto' # "T0"
    BY <1>3 DEF Forget, SessionAssumption
  <2>3. T0Reset(c, <<>>) /\ c.st # "wait"
    BY <1>3, <2>1
  <2> QED BY <1>1, <2>1, <2>2, <2>3, ResetInv
<1> QED BY <1>2, <1>3 DEF Request

LEMMA CommandInv ==
  ASSUME T0Assumption, TurnInv, LineTypes', NEW a \in Apdus, Command(a)
  PROVE  TurnInv'
<1>1. Transceive(a) /\ cmd = None /\ proto = "T0" /\ LineTypes /\ UNCHANGED <<block, stale>>
  BY DEF Command, Idle, TurnInv, Transceive
<1>2. CASE ~block
  <2>1. ~stale => WellDone
    <3> SUFFICES ASSUME ~stale PROVE WellDone
      OBVIOUS
    <3>1. t0 = "idle" => Resting
      BY <1>1, <1>2 DEF TurnInv, Turn, OnTurn
    <3> QED BY <1>1, <1>2, <3>1, TransceiveWell
  <2> QED BY <1>1, <1>2, <2>1, WellInv
<1>3. CASE block
  <2>1. card' = card /\ (answer' = answer \/ ~answer'.ok)
    BY <1>1, <1>3 DEF Transceive
  <2>2. Turn' /\ Unmixed'
    BY <1>1, <1>3, <2>1 DEF TurnInv, Turn, Unmixed
  <2>3. AnswersInTurn'
    BY <1>1, <2>1, AnswersAre, AnswersAreNext DEF TurnInv
  <2> QED BY <2>2, <2>3 DEF TurnInv
<1> QED BY <1>2, <1>3

LEMMA SetProtocolInv ==
  ASSUME TurnInv, LineTypes', NEW p \in {"T0", "T1"}, SetProtocol(p)
  PROVE  TurnInv'
<1>1. proto' = p /\ UNCHANGED <<block, card, answer>> /\ (stale => stale') /\ (p # "T0" => stale' = stale)
      /\ (p = "T0" => stale')
  BY DEF SetProtocol
<1>2. Turn'
  BY <1>1 DEF Turn
<1>3. Unmixed'
  BY <1>1 DEF TurnInv, Unmixed
<1>4. AnswersInTurn'
  BY <1>1, AnswersAre, AnswersAreNext DEF TurnInv
<1> QED BY <1>2, <1>3, <1>4 DEF TurnInv

LEMMA DrawInv ==
  ASSUME TurnInv, LineTypes', Draw
  PROVE  TurnInv'
<1>1. card'.mixed = card.mixed /\ UNCHANGED <<block, answer, stale, proto>>
  BY DrawTypes DEF Draw, TurnInv
<1>2. Turn'
  BY <1>1, DrawWellOnTurn DEF TurnInv, Turn
<1>3. Unmixed'
  BY <1>1 DEF TurnInv, Unmixed
<1>4. AnswersInTurn'
  BY <1>1, AnswersAre, AnswersAreNext DEF TurnInv
<1> QED BY <1>2, <1>3, <1>4 DEF TurnInv

LEMMA BeginInv ==
  ASSUME T0Assumption, SessionAssumption, TurnInv, LineTypes', Begin
  PROVE  TurnInv'
<1>1. CASE \E c \in Cards : Insert(c)
  BY <1>1, SameInv DEF Insert
<1>2. CASE \E w \in Writes : WriteMemory(w)
  BY <1>2, SameInv DEF WriteMemory
<1>3. CASE StatusChanged
  BY <1>3, SameInv DEF StatusChanged
<1> QED BY <1>1, <1>2, <1>3, DrawInv, ResetFailsInv, RequestInv, CommandInv, SetProtocolInv DEF Begin

\* What detection settles on is a memory card's protocol.

LEMMA DetectionProtocol ==
  ASSUME op \in Operations \cup {None}, SessionAssumption, Probe \/ WriteStep
  PROVE  proto' = "T0" => proto = "T0"
<1>1. op # None /\ op \in Operations
  BY DEF Probe, WriteStep
<1>2. ASSUME NEW o \in Probings, ProbeHits(o) \/ ProbeMisses(o) \/ DetectionFails(o)
      PROVE  proto' = "T0" => proto = "T0"
  <2>1. o.i \in DOMAIN Probes
    BY DEF Probings
  <2>2. Probes[o.i] # "T0"
    BY <2>1 DEF Probes
  <2> QED BY <1>2, <2>2 DEF ProbeHits, ProbeMisses, DetectionFails
<1>3. CASE Probe
  <2>1. op \in Probings
    BY <1>1, <1>3 DEF Probe, Operations, Writings
  <2>2. ProbeHits(op) \/ ProbeMisses(op) \/ DetectionFails(op) \/ proto' = proto
    BY <1>3 DEF Probe
  <2> QED BY <1>2, <2>1, <2>2
<1>4. CASE WriteStep
  <2>1. op \in Writings
    BY <1>1, <1>4 DEF WriteStep, Operations, Probings
  <2>2. op.then = None \/ op.then \in Probings
    BY <2>1 DEF Writings
  <2>3. ASSUME NEW ok, WriteEnds(ok) PROVE proto' = "T0" => proto = "T0"
    <3>1. proto' = proto \/ (op.then \in Probings /\ (ProbeHits(op.then) \/ ProbeMisses(op.then)))
      BY <2>2, <2>3 DEF WriteEnds
    <3> QED BY <1>2, <3>1
  <2>4. WriteFails => (proto' = "T0" => proto = "T0")
    BY <2>3 DEF WriteFails
  <2>5. WriteGoesOn => (proto' = "T0" => proto = "T0")
    BY <2>3 DEF WriteGoesOn
  <2>6. WriteAgain => (proto' = "T0" => proto = "T0")
    BY <2>4 DEF WriteAgain
  <2> QED BY <1>4, <2>4, <2>5, <2>6 DEF WriteStep
<1> QED BY <1>3, <1>4

-------------------------------------------------------------------------------
(* The theorems about commands over T=0.                                     *)

LEMMA InitTurn ==
  ASSUME T0Assumption, SessionAssumption, Init
  PROVE  TurnInv
<1>1. LineTypes
  BY InitLine
<1>2. Turn /\ Unmixed /\ AnswersInTurn
  <2>1. proto # "T0" /\ ~card.mixed /\ ~answer.ok
    BY DEF Init, T0Init, CardIn, NoAnswer, SessionAssumption
  <2> QED BY <2>1, AnswersAre DEF Turn, Unmixed
<1> QED BY <1>1, <1>2 DEF TurnInv

LEMMA NextTurn ==
  ASSUME T0Assumption, SessionAssumption, op \in Operations \cup {None}, TurnInv, [Next]_vars
  PROVE  TurnInv'
<1>1. LineTypes'
  BY NextLine DEF TurnInv
<1>2. CASE Begin
  BY <1>1, <1>2, BeginInv
<1>3. CASE Probe \/ WriteStep
  <2>1. UNCHANGED t0vars
    BY <1>3 DEF Probe, WriteStep
  <2> QED BY <1>1, <1>3, <2>1, DetectionProtocol, SameInv
<1>4. CASE HandlerSteps /\ UNCHANGED slotvars
  BY <1>1, <1>4, HandlerInv
<1>5. CASE CardSteps /\ UNCHANGED slotvars
  BY <1>1, <1>5, CardInv DEF slotvars
<1>6. CASE UNCHANGED vars
  BY <1>1, <1>6, SameInv DEF vars, slotvars
<1> QED BY <1>2, <1>3, <1>4, <1>5, <1>6 DEF Next

\* What the handler and the card hold between two steps is of its type: no count below
\* zero, and nothing half done while there is no command (src/src/ifd/proto-t0.c).
THEOREM SessionTypeCorrect == Spec => []LineTypes
<1>1. Init => LineTypes
  BY InitLine, T0Assumption
<1>2. LineTypes /\ [Next]_vars => LineTypes'
  BY NextLine, T0Assumption, SessionAssumption
<1> QED BY <1>1, <1>2, PTL DEF Spec

LEMMA SessionTurn == Spec => []TurnInv
<1>1. Init => MemoryInv /\ TurnInv
  BY InitMemory, InitTurn, T0Assumption, SessionAssumption
<1>2. MemoryInv /\ TurnInv /\ [Next]_vars => MemoryInv' /\ TurnInv'
  <2>1. MemoryInv => op \in Operations \cup {None}
    BY DEF MemoryInv, MemoryTypes
  <2> QED BY <2>1, NextMemory, NextTurn, T0Assumption, SessionAssumption
<1> QED BY <1>1, <1>2, PTL DEF Spec

\* The header of a command does not go to a card that waits for another one's data: a send
\* that fails leaves t0->state so that commands are refused until the next reset, and only a
\* failed receive, or the protocol made anew, lets it be forgotten (t0_transceive of
\* src/src/ifd/proto-t0.c).
THEOREM SessionHeaderNotData == Spec => []HeaderNotData
<1>1. TurnInv => HeaderNotData
  BY DEF TurnInv, Unmixed, HeaderNotData
<1> QED BY <1>1, SessionTurn, PTL

\* What a command returns is its own answer, in the order sent and with its status at the
\* end: no byte is left over from the command before, none is lost or doubled in the middle, and
\* none is taken for another (t0_xcv of src/src/ifd/proto-t0.c).
THEOREM SessionAnswersInTurn == Spec => []AnswersInTurn
<1>1. TurnInv => AnswersInTurn
  BY DEF TurnInv
<1> QED BY <1>1, SessionTurn, PTL

-------------------------------------------------------------------------------
(* A reset and the ATR it leaves.                                            *)

\* The ATR of a slot is a card's, and of the card in the slot while that is powered; there is
\* nothing else from the card until the next command.
Fresh == atr # <<>> /\ cmd = None /\ answer = NoAnswer

AtrInv ==
  /\ icc = None => card.st = "off"
  /\ atr # <<>> => \E c \in Cards : c.kind = "async" /\ atr = c.atr
  /\ atr # <<>> /\ card.st # "off" => atr = icc.atr
  /\ Fresh => line = <<>> /\ card.out = <<>> /\ card.st \in {"off", "wait"}
  /\ cmd # None => cmd.id # 0

LEMMA IdleKeepsAtr ==
  ASSUME AtrInv, UNCHANGED <<atr, icc, cmd, answer, line, card>>
  PROVE  AtrInv'
BY DEF AtrInv, Fresh

\* A command ends with an answer of its own number, which is not that of NoAnswer.
LEMMA CommandKeepsAtr ==
  ASSUME AtrInv, UNCHANGED <<atr, icc>>, card'.st = "off" <=> card.st = "off",
         answer' # NoAnswer \/ cmd' # None, cmd' # None => cmd'.id # 0
  PROVE  AtrInv'
BY DEF AtrInv, Fresh

LEMMA NextIdNotZero ==
  ASSUME T0Assumption, NEW i \in Nat
  PROVE  NextId(i) # 0
<1>1. PICK n \in Nat \ {0} : n = Cardinality(Ids)
  <2>1. Cardinality(Ids) \in Nat /\ Cardinality(Ids) # 0
    BY FS_CardinalityType, FS_EmptySet DEF T0Assumption
  <2> QED BY <2>1
<1>2. i % n \in Nat
  OBVIOUS
<1> QED BY <1>1, <1>2 DEF NextId

LEMMA TransceiveKeepsAtr ==
  ASSUME T0Assumption, LineTypes, AtrInv, NEW a \in Apdus, Transceive(a), UNCHANGED <<atr, icc>>
  PROVE  AtrInv'
<1>1. PICK id \in Nat \ {0} : id = NextId(answer.id)
  BY NextIdType, NextIdNotZero DEF LineTypes
<1>2. a.lc \in Nat /\ a.le \in Nat
  BY DEF T0Assumption
<1>3. CASE answer' = [ok |-> FALSE, id |-> id, bytes |-> <<>>] /\ UNCHANGED <<cmd, card>>
  <2>1. answer'.id # NoAnswer.id
    BY <1>3 DEF NoAnswer
  <2>2. answer' # NoAnswer
    BY <2>1
  <2> QED BY <1>3, <2>2, CommandKeepsAtr DEF AtrInv
<1>4. CASE /\ cmd' = [apdu |-> a, id |-> id, get |-> FALSE, le |-> a.le]
           /\ IF block THEN UNCHANGED card ELSE Header(id, a.lc, IF a.lc > 0 THEN 0 ELSE a.le)
  <2>1. cmd' \in Commands /\ cmd'.id # 0
    BY <1>2, <1>4 DEF Commands
  <2>2. cmd' # None
    BY <2>1 DEF T0Assumption
  <2>3. card'.st = "off" <=> card.st = "off"
    <3>1. PICK have \in Nat : have = IF a.lc > 0 THEN 0 ELSE a.le
      BY <1>2
    <3>2. block \/ Header(id, a.lc, have)
      BY <1>4, <3>1
    <3> QED BY <1>2, <1>4, <3>2, HeaderTypes
  <2> QED BY <2>1, <2>2, <2>3, CommandKeepsAtr
<1> QED BY <1>1, <1>3, <1>4 DEF Transceive

LEMMA ReturnKeepsAtr ==
  ASSUME AtrInv, cmd # None, NEW state, NEW ok, NEW bytes, Return(state, ok, bytes), UNCHANGED <<atr, icc, card>>
  PROVE  AtrInv'
<1>1. answer'.id # NoAnswer.id
  BY DEF Return, AtrInv, NoAnswer
<1>2. answer' # NoAnswer /\ cmd' = None
  BY <1>1 DEF Return
<1> QED BY <1>2, CommandKeepsAtr

LEMMA AfterStatusKeepsAtr ==
  ASSUME T0Assumption, LineTypes, AtrInv, cmd # None, NEW bytes, NEW sw, sw.n \in Nat, AfterStatus(bytes, sw),
         UNCHANGED <<atr, icc>>
  PROVE  AtrInv'
<1>1. CASE Return("idle", TRUE, bytes) /\ UNCHANGED <<card, stale>>
  BY <1>1, ReturnKeepsAtr
<1>2. CASE GetResponse(LeAfter(sw))
  <2>1. PICK le \in Nat : le = LeAfter(sw)
    BY DEF LeAfter, LineTypes, Commands, T0Assumption
  <2>2. cmd \in Commands
    BY DEF LineTypes
  <2>3. cmd' = [cmd EXCEPT !.get = TRUE, !.le = le]
    BY <1>2, <2>1 DEF GetResponse
  <2>4. cmd' \in Commands /\ cmd'.id # 0 /\ cmd.id \in Nat
    BY <2>2, <2>3 DEF Commands, AtrInv
  <2>5. cmd' # None
    BY <2>4 DEF T0Assumption
  <2>6. card'.st = "off" <=> card.st = "off"
    <3>1. card' = card \/ Header(cmd.id, 0, le)
      BY <1>2, <2>1 DEF GetResponse
    <3> QED BY <2>4, <3>1, HeaderTypes
  <2> QED BY <2>4, <2>5, <2>6, CommandKeepsAtr
<1>3. CASE Return("idle", FALSE, <<>>) /\ UNCHANGED <<card, stale>>
  BY <1>3, ReturnKeepsAtr
<1> QED BY <1>1, <1>2, <1>3 DEF AfterStatus

LEMMA GoesOnKeepsAtr ==
  ASSUME AtrInv, cmd # None, UNCHANGED <<atr, icc, cmd>>, card'.st = "off" <=> card.st = "off"
  PROVE  AtrInv'
BY CommandKeepsAtr DEF AtrInv

LEMMA HandlerKeepsAtr ==
  ASSUME T0Assumption, LineTypes, AtrInv, HandlerSteps, UNCHANGED <<atr, icc>>
  PROVE  AtrInv'
<1>1. cmd # None
  BY DEF HandlerSteps, ProcedureByte, Timeout, BlockExchange
<1>2. ASSUME NEW mark, Fail(mark), UNCHANGED card
      PROVE  AtrInv'
  BY <1>1, <1>2, ReturnKeepsAtr DEF Fail
<1>3. CASE ProcedureByte
  <2>1. line # <<>>
    BY <1>3 DEF ProcedureByte
  <2>2. CASE ReadsNull
    BY <1>1, <1>2, <2>2, GoesOnKeepsAtr DEF ReadsNull
  <2>3. CASE ReadsStatus
    <3>1. PICK sw : sw = StatusOf(line[1]) /\ sw.n \in Nat
      <4>1. line[1] \in Tokens
        BY <2>1 DEF LineTypes
      <4>2. StatusOf(line[1]).n \in Nat
        BY <4>1 DEF StatusOf, Tokens
      <4> QED BY <4>2, Zenon
    <3>2. \E bytes : AfterStatus(bytes, sw)
      BY <2>3, <3>1 DEF ReadsStatus
    <3> QED BY <1>1, <3>1, <3>2, AfterStatusKeepsAtr
  <2>4. CASE \E n \in Nat : SendsData(n)
    <3>1. PICK n \in Nat : SendsData(n)
      BY <2>4
    <3>2. CASE CardGets(n) /\ cmd' = cmd
      <4>1. ASSUME card.st = "data", n <= card.want
            PROVE  card'.st # "off"
        <5>1. PICK st \in {"talk", "data"} : st = IF n >= card.asked THEN "talk" ELSE "data"
          OBVIOUS
        <5>2. PICK w : card' = [card EXCEPT !.want = w, !.st = st]
          BY <3>2, <4>1, <5>1 DEF CardGets
        <5>3. card'.st = st
          BY <5>2 DEF LineTypes, CardStates
        <5> QED BY <4>1, <5>1, <5>3
      <4>2. card' = card \/ (card.st = "data" /\ card'.st # "off")
        BY <3>2, <4>1 DEF CardGets
      <4> QED BY <1>1, <3>2, <4>2, GoesOnKeepsAtr
    <3> QED BY <1>2, <3>1, <3>2 DEF SendsData
  <2>5. CASE \E n : ReadsData(n)
    <3>1. PICK n : ReadsData(n)
      BY <2>5
    <3>2. CASE \E bytes : Return("idle", TRUE, bytes) /\ UNCHANGED <<card, stale>>
      BY <1>1, <3>2, ReturnKeepsAtr
    <3>3. CASE UNCHANGED <<cmd, card>>
      BY <1>1, <3>3, GoesOnKeepsAtr
    <3> QED BY <3>1, <3>2, <3>3 DEF ReadsData
  <2>6. CASE Fail(t0) /\ UNCHANGED card
    BY <1>2, <2>6
  <2>7. \/ ReadsNull \/ ReadsStatus \/ (Fail(t0) /\ UNCHANGED card)
        \/ \E n \in Nat : SendsData(n)
        \/ \E n : ReadsData(n)
    <3>1. PICK p \in Meanings(line[1]) :
            CASE p = "null"                       -> ReadsNull
              [] p = "sw"                         -> ReadsStatus
              [] p = "bad"                        -> Fail(t0) /\ UNCHANGED card
              [] p = "ack" /\ t0 = "sending"      -> SendsData(unsent)
              [] p = "nak" /\ t0 = "sending"      -> SendsData(1)
              [] p = "ack" /\ t0 = "receiving"    -> ReadsData(Room)
              [] p = "nak" /\ t0 = "receiving"    -> ReadsData(1)
      BY <1>3 DEF ProcedureByte
    <3>2. p \in {"null", "ack", "nak", "sw", "bad"} /\ t0 \in {"sending", "receiving"} /\ unsent \in Nat
      BY <1>1, <2>1, NeedsBytes DEF LineTypes
    <3>3. 1 \in Nat
      OBVIOUS
    <3> QED BY <3>1, <3>2, <3>3
  <2> QED BY <2>2, <2>3, <2>4, <2>5, <2>6, <2>7
<1>4. CASE Timeout
  BY <1>2, <1>4 DEF Timeout
<1>5. CASE BlockExchange
  <2>1. UNCHANGED card
    BY <1>5 DEF BlockExchange
  <2>2. CASE Fail(t0)
    BY <1>2, <2>1, <2>2
  <2>3. CASE \E kind, bytes : AfterStatus(bytes, [kind |-> kind, n |-> 1])
    <3>1. PICK kind, bytes : AfterStatus(bytes, [kind |-> kind, n |-> 1])
      BY <2>3
    <3>2. PICK sw : sw = [kind |-> kind, n |-> 1]
      OBVIOUS
    <3>3. AfterStatus(bytes, sw) /\ sw.n \in Nat
      BY <3>1, <3>2
    <3> QED BY <1>1, <3>3, AfterStatusKeepsAtr
  <2> QED BY <1>5, <2>2, <2>3 DEF BlockExchange
<1> QED BY <1>3, <1>4, <1>5 DEF HandlerSteps

\* A card that has had no command since its reset says nothing.
LEMMA CardKeepsAtr ==
  ASSUME LineTypes, AtrInv, CardSteps, UNCHANGED <<atr, icc>>
  PROVE  AtrInv'
<1>1. UNCHANGED <<cmd, answer>>
  BY DEF CardSteps, CardSends
<1>2. CASE CardSends
  <2>1. card.out # <<>> /\ card'.st = card.st
    BY <1>2 DEF CardSends, LineTypes, CardStates
  <2> QED BY <1>1, <2>1 DEF AtrInv, Fresh
<1>3. CASE CardTalks
  <2>1. card.st = "talk"
    BY <1>3, CardTalksSaid DEF CardSaid
  <2> QED BY <1>1, <2>1 DEF AtrInv, Fresh
<1> QED BY <1>2, <1>3 DEF CardSteps

LEMMA ForgetKeepsAtr ==
  ASSUME AtrInv, cmd' = cmd, atr' = <<>>, icc' = icc, icc = None => card'.st = "off"
  PROVE  AtrInv'
BY DEF AtrInv, Fresh

LEMMA RequestKeepsAtr ==
  ASSUME SessionAssumption, LineTypes, AtrInv, Request
  PROVE  AtrInv'
<1>1. Idle /\ icc \in Cards /\ icc' = icc /\ cmd' = cmd
  BY DEF Request, LineTypes, GotAtr, T0Reset
<1>2. CASE icc.kind = "async" /\ \E tried \in {"even", "odd"} : GotAtr(tried)
  <2>1. PICK tried \in {"even", "odd"} : GotAtr(tried)
    BY <1>2
  <2>2. IsAtr(icc.atr)
    BY <1>1, <1>2 DEF SessionAssumption
  <2>3. PICK top \in Nat : top = Len(icc.atr) /\ AtrExpected(icc.atr) = top
    BY <2>2, AtrOfCard
  <2>4. atr' = SubSeq(icc.atr, 1, top)
    BY <2>1, <2>3 DEF GotAtr
  <2>5. atr' = icc.atr
    <3>1. PICK whole \in Seq(AtrByte) : whole = icc.atr
      BY <2>2 DEF IsAtr
    <3>2. SubSeq(whole, 1, Len(whole)) = whole
      OBVIOUS
    <3> QED BY <2>3, <2>4, <3>1, <3>2
  <2>6. T0Reset(CardIn("wait"), [i \in 1 .. top - top |-> Tok("bad", 0)])
    BY <2>1, <2>3 DEF GotAtr
  <2>7. 1 .. top - top = {}
    OBVIOUS
  <2>8. line' = <<>> /\ card' = CardIn("wait")
    BY <2>6, <2>7 DEF T0Reset
  <2>9. card'.out = <<>> /\ card'.st = "wait"
    BY <2>8 DEF CardIn
  <2>10. icc # None
    BY <1>1 DEF SessionAssumption
  <2> QED BY <1>1, <1>2, <2>5, <2>8, <2>9, <2>10 DEF AtrInv, Fresh
<1>3. CASE Forget /\ T0Reset(CardIn("off"), <<>>)
  <2>1. card'.st = "off" /\ atr' = <<>>
    BY <1>3 DEF Forget, T0Reset, CardIn
  <2> QED BY <1>1, <2>1, ForgetKeepsAtr
<1> QED BY <1>2, <1>3 DEF Request

LEMMA BeginKeepsAtr ==
  ASSUME T0Assumption, SessionAssumption, LineTypes, AtrInv, Begin
  PROVE  AtrInv'
<1>1. CASE \E c \in Cards : Insert(c)
  <2>1. icc = None /\ UNCHANGED <<atr, cmd, answer, line, card>>
    BY <1>1 DEF Insert, t0vars
  <2> QED BY <2>1 DEF AtrInv, Fresh
<1>2. CASE Draw
  <2>1. UNCHANGED <<atr, cmd, answer, line>> /\ card'.st = "off" /\ card'.out = <<>>
    BY <1>2, DrawTypes DEF Draw
  <2> QED BY <2>1 DEF AtrInv, Fresh
<1>3. CASE ResetFails
  <2>1. atr' = <<>> /\ UNCHANGED <<icc, cmd>>
    BY <1>3 DEF ResetFails, Forget, T0Reset
  <2>2. icc = None => card'.st = "off"
    <3>1. \E c \in {card, CardIn("off")} : card' = c
      BY <1>3 DEF ResetFails, T0Reset
    <3>2. CardIn("off").st = "off"
      BY CardInTypes
    <3> QED BY <3>1, <3>2 DEF AtrInv
  <2> QED BY <2>1, <2>2, ForgetKeepsAtr
<1>4. CASE Request
  BY <1>4, RequestKeepsAtr
<1>5. CASE \E w \in Writes : WriteMemory(w)
  BY <1>5, IdleKeepsAtr DEF WriteMemory, t0vars
<1>6. CASE \E a \in Apdus : Command(a)
  BY <1>6, TransceiveKeepsAtr DEF Command
<1>7. CASE StatusChanged
  BY <1>7, ForgetKeepsAtr DEF StatusChanged, t0vars, AtrInv
<1>8. CASE \E p \in {"T0", "T1"} : SetProtocol(p)
  BY <1>8, IdleKeepsAtr DEF SetProtocol
<1> QED BY <1>1, <1>2, <1>3, <1>4, <1>5, <1>6, <1>7, <1>8 DEF Begin

LEMMA InitAtr ==
  ASSUME Init
  PROVE  AtrInv
BY DEF Init, T0Init, CardIn, AtrInv, Fresh

LEMMA NextAtr ==
  ASSUME T0Assumption, SessionAssumption, LineTypes, AtrInv, [Next]_vars
  PROVE  AtrInv'
<1>1. CASE Begin
  BY <1>1, BeginKeepsAtr
<1>2. CASE Probe \/ WriteStep
  BY <1>2, IdleKeepsAtr DEF Probe, WriteStep, t0vars
<1>3. CASE HandlerSteps /\ UNCHANGED slotvars
  BY <1>3, HandlerKeepsAtr DEF slotvars
<1>4. CASE CardSteps /\ UNCHANGED slotvars
  BY <1>4, CardKeepsAtr DEF slotvars
<1>5. CASE UNCHANGED vars
  BY <1>5, IdleKeepsAtr DEF vars, t0vars, slotvars
<1> QED BY <1>1, <1>2, <1>3, <1>4, <1>5 DEF Next

LEMMA CleanReset ==
  ASSUME SessionAssumption, AtrInv
  PROVE  ResetIsClean
<1>1. Fresh => line = <<>> /\ (card.st # "off" => atr = icc.atr)
  BY DEF AtrInv, Fresh
<1>2. ASSUME atr # <<>>
      PROVE  /\ \A n \in 0 .. Len(atr) : AtrComplete(atr, n) <=> n = Len(atr)
             /\ AtrParse(atr).ok => /\ AtrParse(atr).default = AtrProtocol(atr)
                                    /\ AtrParse(atr).default \in AtrParse(atr).supported
                                    /\ Named(atr) # {} => AtrParse(atr).supported = Named(atr)
  <2>1. IsAtr(atr)
    BY <1>2 DEF AtrInv, SessionAssumption
  <2>2. atr \in Seq(AtrByte) /\ Len(atr) >= 2
    BY <2>1, AtrString
  <2> QED BY <2>1, <2>2, AtrOfCard, ParseAgrees
<1> QED BY <1>1, <1>2, Zenon DEF ResetIsClean, Fresh

\* A reset leaves the slot with the whole ATR of the card and nothing else of what the card
\* sent; ifd_atr_complete is content with that ATR and with no shorter part of it, and
\* ifd_atr_parse and ifd_protocol_select agree about it (src/src/ifd/reader.c, atr.c and
\* protocol.c), for every ATR of the standard.
THEOREM SessionResetIsClean == Spec => []ResetIsClean
<1>1. Init => LineTypes /\ AtrInv
  BY InitLine, InitAtr, T0Assumption
<1>2. LineTypes /\ AtrInv /\ [Next]_vars => LineTypes' /\ AtrInv'
  BY NextLine, NextAtr, T0Assumption, SessionAssumption
<1>3. AtrInv => ResetIsClean
  BY CleanReset, SessionAssumption
<1> QED BY <1>1, <1>2, <1>3, PTL DEF Spec
=============================================================================
