---------------------------- MODULE RiaProxyProofs ----------------------------
(***************************************************************************)
(* Proofs about the proxy's claims and about whose answer is whose, for    *)
(* any sets of applications and devices, and any bounds.                   *)
(*                                                                         *)
(* PeersPaired alone is not inductive: RIA_MGR_CLAIM does not look whether *)
(* the client that asks has a device already.  That it has none rests on   *)
(* what applications send: a claim is the first packet of a connection, so *)
(* that it is at the head of what the proxy has to read, and no second one *)
(* comes behind it (FirstIsClaim).  That a registered device is on the     *)
(* list of clients rests on both leaving together (DropClient).            *)
(*                                                                         *)
(* AnswersOwnCall says nothing of the packets that are still on their way. *)
(* AnswersInv does: each packet, wherever it is (AllAmong), has a number   *)
(* its sender has given out, and the command of the call if it has the     *)
(* number of the one that is awaited (Own).  The next call keeps this      *)
(* because its number is new (NumbersGrow), a reply because it is made     *)
(* from its call.  WayInv says on whose way a packet can be: a device has  *)
(* to do with the client that has it, and with those that have left        *)
(* (Served), so that another's late answer is one of a client that has     *)
(* left, to a call that was not its first (Late).                          *)
(*                                                                         *)
(* DataInTurn speaks of two ways.  To the device (TurnInv): what has come  *)
(* to it is in order and apart, whoever has claimed it sends nothing older *)
(* than what has come from it (Covered), and nothing of another client has *)
(* come since the claim (Latest); a client that claims now has sent it     *)
(* nothing before (Fresh).  From the device (ReadInv): each stage of the   *)
(* way is in order, and what an application has comes before what its      *)
(* device still owes it (Follows).                                         *)
(***************************************************************************)
EXTENDS RiaProxy, SequenceTheorems, TLAPS

\* What applications send: a command, a claim's device and a chunk.
Chunks == [by : Apps, n : Nat]
Cmds == {"list", "claim", "reset", "flush", "break", "config", "data"}
AppPackets == [cmd : Cmds, xid : Nat, dest : {FALSE}, error : {0}, rc : {0},
               by : Apps, dev : Devs \cup {None}, body : Seq(Chunks)]

NoClaims(packets) == \A i \in 1 .. Len(packets) : packets[i].cmd # "claim"

ProxyTypes ==
  /\ link \in [Ends -> {"none", "listed", "reset", "freed"}]
  /\ peer \in [Ends -> Ends \cup {None}]
  /\ DOMAIN up = Ends /\ DOMAIN sbuf = Apps /\ DOMAIN xid = Ends /\ DOMAIN phase = Ends
  /\ \A a \in Apps : /\ xid[a] \in Nat
                     /\ up[a] \in Seq(AppPackets) /\ sbuf[a] \in Seq(AppPackets)

\* Before a program has connected it has sent nothing.
Unconnected ==
  \A a \in Apps : link[a] = "none" => phase[a] = "new" /\ up[a] = <<>> /\ sbuf[a] = <<>>

FirstIsClaim ==
  \A a \in Apps :
    /\ NoClaims(sbuf[a])
    /\ \A i \in 1 .. Len(up[a]) : up[a][i].cmd = "claim" => i = 1 /\ peer[a] = None

RegisteredListed == \A d \in registered : d \in Devs /\ Listed(d)

\* An application and a device make a pair.
PeersDiffer == \A c \in Ends : peer[c] # None => (c \in Apps <=> peer[c] \in Devs)

RiaInv == /\ ProxyTypes /\ Unconnected /\ FirstIsClaim
          /\ RegisteredListed /\ PeersDiffer /\ PeersPaired

-------------------------------------------------------------------------------
\* ria_send makes a packet of the command, the device a claim names and the data.
LEMMA SentPacket ==
  ASSUME NEW a \in Apps, xid[a] \in Nat, NEW cmd \in Cmds,
         NEW dev \in Devs \cup {None}, NEW body \in Seq(Chunks)
  PROVE  SentBy(a, cmd, dev, body) \in AppPackets /\ SentBy(a, cmd, dev, body).cmd = cmd
  BY DEF SentBy, Packet, AppPackets

\* What three sequences put together consist of.
Composed(v, s, t, w) ==
  \A i \in 1 .. Len(v) :
    \/ i \in 1 .. Len(s) /\ v[i] = s[i]
    \/ \E j \in 1 .. Len(t) : v[i] = t[j]
    \/ \E j \in 1 .. Len(w) : i = Len(s) + Len(t) + j /\ v[i] = w[j]

\* Putting sequences together makes such a sequence.
LEMMA ThreeParts ==
  ASSUME NEW S, NEW s \in Seq(S), NEW t \in Seq(S), NEW w \in Seq(S)
  PROVE  s \o t \o w \in Seq(S) /\ Composed(s \o t \o w, s, t, w)
<1>1. PICK u : u = s \o t
  OBVIOUS
<1>2. /\ u \in Seq(S) /\ Len(u) = Len(s) + Len(t)
      /\ \A i \in 1 .. Len(s) + Len(t) : u[i] = IF i <= Len(s) THEN s[i] ELSE t[i - Len(s)]
  BY <1>1, ConcatProperties
<1>3. PICK v : v = u \o w
  OBVIOUS
<1>4. /\ v \in Seq(S) /\ Len(v) = Len(u) + Len(w)
      /\ \A i \in 1 .. Len(u) + Len(w) : v[i] = IF i <= Len(u) THEN u[i] ELSE w[i - Len(u)]
  <2>1. u \in Seq(S)
    BY <1>2
  <2>2. /\ u \o w \in Seq(S) /\ Len(u \o w) = Len(u) + Len(w)
        /\ \A i \in 1 .. Len(u) + Len(w) :
             (u \o w)[i] = IF i <= Len(u) THEN u[i] ELSE w[i - Len(u)]
    BY <2>1, ConcatProperties
  <2> QED BY <1>3, <2>2
<1>5. Len(s) \in Nat /\ Len(t) \in Nat /\ Len(w) \in Nat
  BY LenProperties
<1>6. ASSUME NEW i \in 1 .. Len(v)
      PROVE  \/ i \in 1 .. Len(s) /\ v[i] = s[i]
             \/ \E j \in 1 .. Len(t) : v[i] = t[j]
             \/ \E j \in 1 .. Len(w) : i = Len(s) + Len(t) + j /\ v[i] = w[j]
  <2>1. i \in Nat /\ i >= 1 /\ i <= Len(s) + Len(t) + Len(w)
    BY <1>2, <1>4, <1>5, <1>6
  <2>2. CASE i <= Len(s)
    BY <2>1, <2>2, <1>2, <1>4, <1>5
  <2>3. CASE i > Len(s) /\ i <= Len(u)
    <3>1. i - Len(s) \in 1 .. Len(t) /\ v[i] = t[i - Len(s)]
      BY <2>1, <2>3, <1>2, <1>4, <1>5
    <3> QED BY <3>1
  <2>4. CASE i > Len(u)
    <3>1. i - Len(u) \in 1 .. Len(w) /\ v[i] = w[i - Len(u)]
      BY <2>1, <2>4, <1>2, <1>4, <1>5
    <3>2. i = Len(s) + Len(t) + (i - Len(u))
      BY <2>1, <1>2, <1>5
    <3> QED BY <3>1, <3>2
  <2> QED BY <2>1, <2>2, <2>3, <2>4, <1>2, <1>5
<1> QED BY <1>1, <1>3, <1>4, <1>6 DEF Composed

\* Elements of a sequence put together of two.
LEMMA TwoParts ==
  ASSUME NEW S, NEW s \in Seq(S), NEW t \in Seq(S)
  PROVE  /\ s \o t \in Seq(S) /\ Len(s \o t) = Len(s) + Len(t)
         /\ Len(s) \in Nat /\ Len(t) \in Nat
         /\ \A i \in 1 .. Len(s) + Len(t) :
              (s \o t)[i] = IF i <= Len(s) THEN s[i] ELSE t[i - Len(s)]
  BY ConcatProperties, LenProperties

\* A sequence and its two parts.
LEMMA SplitAt ==
  ASSUME NEW S, NEW s \in Seq(S), NEW n \in 0 .. Len(s)
  PROVE  /\ SubSeq(s, 1, n) \in Seq(S) /\ SubSeq(s, n + 1, Len(s)) \in Seq(S)
         /\ SubSeq(s, 1, n) \o SubSeq(s, n + 1, Len(s)) = s
<1>1. PICK m, u, v : m = Len(s) /\ u = SubSeq(s, 1, n) /\ v = SubSeq(s, n + 1, m)
  OBVIOUS
<1>2. m \in Nat /\ n \in Nat /\ n <= m
  BY <1>1, LenProperties
<1>3. u \in Seq(S) /\ Len(u) = n /\ \A i \in 1 .. n : u[i] = s[i]
  BY <1>1, <1>2, SubSeqProperties
<1>4. v \in Seq(S) /\ Len(v) = m - n /\ \A i \in 1 .. m - n : v[i] = s[n + i]
  BY <1>1, <1>2, SubSeqProperties
<1>5. PICK x : x = u \o v
  OBVIOUS
<1>6. /\ x \in Seq(S) /\ Len(x) = n + (m - n)
      /\ \A i \in 1 .. n + (m - n) : x[i] = IF i <= n THEN u[i] ELSE v[i - n]
  <2>1. u \in Seq(S) /\ v \in Seq(S)
    BY <1>3, <1>4
  <2>2. /\ x \in Seq(S) /\ Len(x) = Len(u) + Len(v)
        /\ \A i \in 1 .. Len(u) + Len(v) : x[i] = IF i <= Len(u) THEN u[i] ELSE v[i - Len(u)]
    BY <1>5, <2>1, TwoParts
  <2> QED BY <1>3, <1>4, <2>2
<1>7. ASSUME NEW i \in 1 .. m
      PROVE  x[i] = s[i]
  <2>1. CASE i <= n
    BY <1>2, <1>3, <1>6, <2>1
  <2>2. CASE ~(i <= n)
    <3>1. i - n \in 1 .. m - n /\ n + (i - n) = i
      BY <1>2, <2>2
    <3>2. x[i] = v[i - n] /\ v[i - n] = s[n + (i - n)]
      BY <1>2, <1>4, <1>6, <2>2, <3>1
    <3> QED BY <3>1, <3>2
  <2> QED BY <2>1, <2>2
<1>8. x \in Seq(S) /\ Len(x) = m /\ Len(s) = m
  <2>1. n + (m - n) = m
    BY <1>2
  <2> QED BY <1>1, <1>6, <2>1
<1>9. \A i \in 1 .. Len(x) : x[i] = s[i]
  BY <1>7, <1>8
<1>10. x = s
  BY <1>8, <1>9, SeqEqual
<1> QED BY <1>1, <1>3, <1>4, <1>5, <1>10

LEMMA AssociativeAgain ==
  ASSUME NEW S, NEW s \in Seq(S), NEW t \in Seq(S), NEW u \in Seq(S)
  PROVE  (s \o t) \o u = s \o (t \o u)
  BY ConcatAssociative

\* ifd_remote_send makes packets of the next numbers, each with the first chunk.
LEMMA ChunkedAre ==
  ASSUME NEW a \in Apps, xid[a] \in Nat, NEW n \in Nat, NEW s, s = Chunked(a, n)
  PROVE  s \in Seq(AppPackets) /\ Len(s) = n
<1>1. PICK body : body = <<[by |-> a, n |-> xid[a] + 1]>>
  OBVIOUS
<1>2. body \in Seq(Chunks)
  BY <1>1 DEF Chunks
<1>3. s = [i \in 1 .. n |-> [SentBy(a, "data", None, body) EXCEPT !.xid = xid[a] + i]]
  BY <1>1 DEF Chunked
<1>4. ASSUME NEW i \in 1 .. n
      PROVE  s[i] \in AppPackets
  <2>1. s[i] = Packet("data", xid[a] + i, a, None, body)
    BY <1>3 DEF SentBy, Packet
  <2>2. xid[a] + i \in Nat /\ "data" \in Cmds
    BY DEF Cmds
  <2>3. PICK x, dev : x = xid[a] + i /\ dev = None /\ dev \in Devs \cup {None}
    OBVIOUS
  <2>4. Packet("data", x, a, dev, body) \in AppPackets
    BY <1>2, <2>2, <2>3 DEF Packet, AppPackets
  <2> QED BY <2>1, <2>3, <2>4
<1>5. s \in Seq(AppPackets) /\ Len(s) = n
  <2>1. DOMAIN s = 1 .. n /\ s \in [1 .. n -> AppPackets]
    BY <1>3, <1>4
  <2> QED BY <2>1
<1> QED BY <1>5

FirstChunk(a) == <<[by |-> a, n |-> xid[a] + 1]>>

LEMMA ChunkIs ==
  ASSUME NEW a \in Apps, NEW n \in Nat, NEW i \in 1 .. n, NEW s, s = Chunked(a, n)
  PROVE  /\ s[i].cmd = "data" /\ s[i].by = a /\ s[i].xid = xid[a] + i
         /\ s[i].body = FirstChunk(a)
<1>1. PICK body : body = <<[by |-> a, n |-> xid[a] + 1]>>
  OBVIOUS
<1>2. s = [k \in 1 .. n |-> [SentBy(a, "data", None, body) EXCEPT !.xid = xid[a] + k]]
  BY <1>1 DEF Chunked
<1>3. /\ s[i].cmd = "data" /\ s[i].by = a /\ s[i].xid = xid[a] + i
      /\ s[i].body = body
  BY <1>2 DEF SentBy, Packet
<1> QED BY <1>1, <1>3 DEF FirstChunk

\* ria_command and ria_recv put what was not flushed behind what the proxy has not
\* read, and their own packet last; only that one can be a claim.
LEMMA CallsEffect ==
  ASSUME ProxyTypes, FirstIsClaim, NEW a \in Apps, NEW cmd,
         NEW packets \in Seq(AppPackets), Calls(a, packets, cmd)
  PROVE  /\ up' = [up EXCEPT ![a] = up'[a]] /\ up'[a] \in Seq(AppPackets)
         /\ sbuf' = [sbuf EXCEPT ![a] = <<>>]
         /\ DOMAIN xid' = DOMAIN xid /\ \A b \in Apps : xid'[b] \in Nat
         /\ \A i \in 1 .. Len(up'[a]) : up'[a][i].cmd = "claim" =>
              \/ i \in 1 .. Len(up[a]) /\ up'[a][i] = up[a][i]
              \/ /\ \E j \in 1 .. Len(packets) : packets[j].cmd = "claim"
                 /\ Len(packets) = 1 /\ up[a] = <<>> /\ sbuf[a] = <<>> => i = 1
<1> DEFINE v == up[a] \o sbuf[a] \o packets
<1>1. up[a] \in Seq(AppPackets) /\ sbuf[a] \in Seq(AppPackets) /\ a \in DOMAIN up
      /\ a \in DOMAIN sbuf /\ a \in DOMAIN xid /\ xid[a] \in Nat
  BY DEF ProxyTypes, Ends
<1>2. v \in Seq(AppPackets) /\ Composed(v, up[a], sbuf[a], packets)
  BY <1>1, ThreeParts
<1>3. up' = [up EXCEPT ![a] = v] /\ up'[a] = v /\ sbuf' = [sbuf EXCEPT ![a] = <<>>]
  BY <1>1 DEF Calls, Set
<1>4. xid' = [xid EXCEPT ![a] = xid[a] + Len(packets)] /\ Len(packets) \in Nat
  BY LenProperties DEF Calls, Set
<1>5. DOMAIN xid' = DOMAIN xid /\ \A b \in Apps : xid'[b] \in Nat
  BY <1>1, <1>4 DEF ProxyTypes
<1> HIDE DEF v
<1>6. Len(up[a]) \in Nat /\ Len(sbuf[a]) \in Nat
  BY <1>1, LenProperties
<1>7. ASSUME NEW i \in 1 .. Len(v), v[i].cmd = "claim"
      PROVE  \/ i \in 1 .. Len(up[a]) /\ v[i] = up[a][i]
             \/ /\ \E j \in 1 .. Len(packets) : packets[j].cmd = "claim"
                /\ Len(packets) = 1 /\ up[a] = <<>> /\ sbuf[a] = <<>> => i = 1
  <2>1. ~ \E j \in 1 .. Len(sbuf[a]) : v[i] = sbuf[a][j]
    BY <1>7 DEF FirstIsClaim, NoClaims
  <2>2. ASSUME NEW j \in 1 .. Len(packets), i = Len(up[a]) + Len(sbuf[a]) + j,
               v[i] = packets[j]
        PROVE  Len(packets) = 1 /\ up[a] = <<>> /\ sbuf[a] = <<>> => i = 1
    BY <2>2, EmptySeq
  <2> QED BY <1>2, <1>7, <2>1, <2>2 DEF Composed
<1> QED BY <1>2, <1>3, <1>5, <1>7

-------------------------------------------------------------------------------
\* As long as nobody is claimed, registered, unregistered or freed, pairs stay.
LEMMA PairsStay ==
  ASSUME RiaInv, UNCHANGED <<registered, peer>>,
         \A c \in Ends : Listed(c) => Listed(c)'
  PROVE  RegisteredListed' /\ PeersDiffer' /\ PeersPaired'
<1>1. RegisteredListed'
  BY DEF RiaInv, RegisteredListed, Ends
<1>2. PeersDiffer'
  BY DEF RiaInv, PeersDiffer
<1>3. ASSUME NEW c \in Ends, peer[c] # None
      PROVE  peer[c] \in Ends /\ peer[peer[c]] = c /\ Listed(c) /\ Listed(peer[c])
             /\ (c \in Apps <=> peer[c] \in registered)
  BY <1>3 DEF RiaInv, ProxyTypes, PeersPaired
<1>4. PeersPaired'
  BY <1>3 DEF PeersPaired
<1> QED BY <1>1, <1>2, <1>4

\* What programs do to their own ends without sending on an application's.
LEMMA KeepsInv ==
  ASSUME RiaInv, UNCHANGED <<link, registered, peer>>,
         DOMAIN xid' = Ends, DOMAIN phase' = Ends, DOMAIN up' = Ends,
         \A a \in Apps : xid'[a] = xid[a] /\ up'[a] = up[a],
         UNCHANGED sbuf,
         \A a \in Apps : phase[a] = "new" => phase'[a] = "new"
  PROVE  RiaInv'
<1>1. ProxyTypes'
  BY DEF RiaInv, ProxyTypes
<1>2. Unconnected'
  BY DEF RiaInv, Unconnected
<1>3. FirstIsClaim'
  BY DEF RiaInv, FirstIsClaim, NoClaims
<1>4. \A c \in Ends : Listed(c) => Listed(c)'
  BY DEF Listed
<1> QED BY <1>1, <1>2, <1>3, <1>4, PairsStay DEF RiaInv

\* A call on a connection that there is sends no claim.
LEMMA CallKeepsInv ==
  ASSUME RiaInv, NEW a \in Apps, NEW cmd, NEW packets \in Seq(AppPackets),
         NoClaims(packets), Calls(a, packets, cmd), link[a] # "none",
         UNCHANGED <<link, registered, peer>>,
         DOMAIN phase' = Ends, \A b \in Apps \ {a} : phase'[b] = phase[b]
  PROVE  RiaInv'
<1>1. /\ up' = [up EXCEPT ![a] = up'[a]] /\ up'[a] \in Seq(AppPackets)
      /\ sbuf' = [sbuf EXCEPT ![a] = <<>>]
      /\ DOMAIN xid' = DOMAIN xid /\ \A b \in Apps : xid'[b] \in Nat
      /\ \A i \in 1 .. Len(up'[a]) : up'[a][i].cmd = "claim" =>
           i \in 1 .. Len(up[a]) /\ up'[a][i] = up[a][i]
  BY CallsEffect DEF RiaInv, NoClaims
<1>2. PICK mine : mine = up'[a]
  OBVIOUS
<1>3. up' = [up EXCEPT ![a] = mine]
  BY <1>1, <1>2
<1>4. ProxyTypes'
  BY <1>1, <1>2, <1>3 DEF RiaInv, ProxyTypes, Ends
<1>5. Unconnected'
  BY <1>1, <1>2, <1>3 DEF RiaInv, ProxyTypes, Unconnected, Ends
<1>6. FirstIsClaim'
  <2> SUFFICES ASSUME NEW b \in Apps
               PROVE  /\ NoClaims(sbuf'[b])
                      /\ \A i \in 1 .. Len(up'[b]) :
                           up'[b][i].cmd = "claim" => i = 1 /\ peer[b] = None
    BY DEF FirstIsClaim, NoClaims
  <2>1. CASE b = a
    <3>1. sbuf'[a] = <<>>
      BY <1>1 DEF RiaInv, ProxyTypes
    <3>2. NoClaims(<<>>)
      BY DEF NoClaims
    <3> QED BY <1>1, <2>1, <3>1, <3>2 DEF RiaInv, FirstIsClaim
  <2>2. CASE b # a
    <3>1. up'[b] = up[b] /\ sbuf'[b] = sbuf[b]
      BY <1>1, <1>3, <2>2 DEF RiaInv, ProxyTypes, Ends
    <3> QED BY <3>1 DEF RiaInv, FirstIsClaim
  <2> QED BY <2>1, <2>2
<1>7. \A c \in Ends : Listed(c) => Listed(c)'
  BY DEF Listed
<1> QED BY <1>4, <1>5, <1>6, <1>7, PairsStay DEF RiaInv

\* A program that leaves takes its packets with it; its connection stays listed.
LEMMA LeavesKeepsInv ==
  ASSUME RiaInv, NEW c \in Ends, Leaves(c), phase[c] # "new",
         UNCHANGED <<registered, peer, up>>,
         sbuf' = sbuf \/ (c \in Apps /\ sbuf' = [sbuf EXCEPT ![c] = <<>>])
  PROVE  RiaInv'
<1>1. /\ link' \in [Ends -> {"none", "listed", "reset", "freed"}]
      /\ \A b \in Ends : Listed(b) => Listed(b)'
      /\ \A b \in Ends : link'[b] = "none" => link[b] = "none"
  BY DEF Leaves, Set, Listed, RiaInv, ProxyTypes
<1>2. xid' = [xid EXCEPT ![c] = 0] /\ phase' = [phase EXCEPT ![c] = "closed"]
  BY DEF Leaves, Set
<1>3. /\ DOMAIN sbuf' = Apps
      /\ \A a \in Apps : sbuf'[a] \in {sbuf[a], <<>>}
  BY DEF RiaInv, ProxyTypes
<1>4. ProxyTypes'
  <2>1. \A a \in Apps : sbuf'[a] \in Seq(AppPackets)
    BY <1>3, EmptySeq DEF RiaInv, ProxyTypes
  <2>2. DOMAIN xid' = Ends /\ DOMAIN phase' = Ends /\ \A a \in Apps : xid'[a] \in Nat
    BY <1>2 DEF RiaInv, ProxyTypes
  <2> QED BY <1>1, <1>3, <2>1, <2>2 DEF RiaInv, ProxyTypes
<1>5. Unconnected'
  BY <1>1, <1>2, <1>3 DEF RiaInv, ProxyTypes, Unconnected, Ends
<1>6. FirstIsClaim'
  <2>1. NoClaims(<<>>)
    BY DEF NoClaims
  <2>2. \A a \in Apps : NoClaims(sbuf'[a])
    BY <1>3, <2>1 DEF RiaInv, FirstIsClaim
  <2> QED BY <2>2 DEF RiaInv, FirstIsClaim, NoClaims
<1> QED BY <1>1, <1>4, <1>5, <1>6, PairsStay DEF RiaInv

-------------------------------------------------------------------------------
(* The applications *)

\* The claim is the first packet of a new connection.
LEMMA ConnectKeepsInv ==
  ASSUME RiaAssumption, RiaInv, NEW a \in Apps, NEW cmd \in {"claim", "list"},
         NEW d \in Devs \cup {None}, Connect(a, cmd, d)
  PROVE  RiaInv'
<1> DEFINE packets == <<SentBy(a, cmd, d, <<>>)>>
<1>1. /\ link[a] = "none" /\ link' = [link EXCEPT ![a] = "listed"]
      /\ phase[a] = "new" /\ phase' = [phase EXCEPT ![a] = cmd]
      /\ Calls(a, packets, cmd)
      /\ UNCHANGED <<registered, peer>>
  BY DEF Connect, Accepts, Set
<1>2. up[a] = <<>> /\ sbuf[a] = <<>> /\ xid[a] \in Nat /\ peer[a] = None /\ a \in Ends
  BY <1>1 DEF RiaInv, ProxyTypes, Unconnected, PeersPaired, Listed, Ends
<1>3. packets \in Seq(AppPackets) /\ Len(packets) = 1
  <2>1. <<>> \in Seq(Chunks)
    OBVIOUS
  <2>2. cmd \in Cmds
    BY DEF Cmds
  <2>3. SentBy(a, cmd, d, <<>>) \in AppPackets
    BY <1>2, <2>1, <2>2, SentPacket
  <2> QED BY <2>3
<1> HIDE DEF packets
<1>4. /\ up' = [up EXCEPT ![a] = up'[a]] /\ up'[a] \in Seq(AppPackets)
      /\ sbuf' = [sbuf EXCEPT ![a] = <<>>]
      /\ DOMAIN xid' = DOMAIN xid /\ \A b \in Apps : xid'[b] \in Nat
      /\ \A i \in 1 .. Len(up'[a]) : up'[a][i].cmd = "claim" => i = 1
  <2>1. Len(up[a]) = 0
    BY <1>2
  <2> QED BY <1>1, <1>2, <1>3, <2>1, CallsEffect DEF RiaInv
<1>5. PICK mine : mine = up'[a] /\ up' = [up EXCEPT ![a] = mine]
  BY <1>4
<1>6. ProxyTypes'
  BY <1>1, <1>4, <1>5 DEF RiaInv, ProxyTypes, Ends
<1>7. Unconnected'
  BY <1>1, <1>2, <1>4, <1>5 DEF RiaInv, ProxyTypes, Unconnected, Ends
<1>8. FirstIsClaim'
  <2> SUFFICES ASSUME NEW b \in Apps
               PROVE  /\ NoClaims(sbuf'[b])
                      /\ \A i \in 1 .. Len(up'[b]) :
                           up'[b][i].cmd = "claim" => i = 1 /\ peer[b] = None
    BY <1>1 DEF FirstIsClaim, NoClaims
  <2>1. CASE b = a
    <3>1. sbuf'[a] = <<>>
      BY <1>4 DEF RiaInv, ProxyTypes
    <3>2. NoClaims(<<>>)
      BY DEF NoClaims
    <3> QED BY <1>2, <1>4, <2>1, <3>1, <3>2
  <2>2. CASE b # a
    <3>1. up'[b] = up[b] /\ sbuf'[b] = sbuf[b]
      BY <1>4, <1>5, <2>2 DEF RiaInv, ProxyTypes, Ends
    <3> QED BY <3>1 DEF RiaInv, FirstIsClaim
  <2> QED BY <2>1, <2>2
<1>9. \A c \in Ends : Listed(c) => Listed(c)'
  BY <1>1, <1>2 DEF Listed, RiaInv, ProxyTypes
<1> QED BY <1>1, <1>6, <1>7, <1>8, <1>9, PairsStay DEF RiaInv

\* What ifd_remote_send adds to the socket's buffer, and how much of it is flushed.
Flushes(a, q, r, c) ==
  q \o r = sbuf[a] \o c /\ up' = Set(up, a, up[a] \o q) /\ sbuf' = Set(sbuf, a, r)

LEMMA SendDataIs ==
  ASSUME NEW S, NEW a \in Apps, NEW n \in Nat, SendData(a, n), DOMAIN up = Ends, DOMAIN sbuf = Apps,
         up[a] \in Seq(S), sbuf[a] \in Seq(S), NEW c \in Seq(S), c = Chunked(a, n)
  PROVE  \E q, r \in Seq(S) : Flushes(a, q, r, c)
<1>1. PICK ps : ps = sbuf[a] \o c
  OBVIOUS
<1>2. ps \in Seq(S) /\ Len(sbuf[a]) \in Nat /\ Len(ps) \in Nat
  BY <1>1, TwoParts
<1>3. PICK k \in {0} \cup (Len(sbuf[a]) .. Len(ps) - 1) :
        /\ up' = Set(up, a, up[a] \o SubSeq(ps, 1, k))
        /\ sbuf' = Set(sbuf, a, SubSeq(ps, k + 1, Len(ps)))
  BY <1>1 DEF SendData
<1>4. k \in 0 .. Len(ps)
  BY <1>2, <1>3
<1>5. PICK q, r : q = SubSeq(ps, 1, k) /\ r = SubSeq(ps, k + 1, Len(ps))
  OBVIOUS
<1>6. q \in Seq(S) /\ r \in Seq(S) /\ q \o r = ps
  BY <1>2, <1>4, <1>5, SplitAt
<1>7. Flushes(a, q, r, c)
  BY <1>1, <1>3, <1>5, <1>6 DEF Flushes
<1> QED BY <1>6, <1>7

\* What parts a sequence without claims is put together of has none.
LEMMA PartsClaimNothing ==
  ASSUME NEW q \in Seq(AppPackets), NEW r \in Seq(AppPackets), NoClaims(q \o r)
  PROVE  NoClaims(q) /\ NoClaims(r)
<1>1. PICK u : u = q \o r
  OBVIOUS
<1>2. /\ Len(u) = Len(q) + Len(r) /\ Len(q) \in Nat /\ Len(r) \in Nat
      /\ \A i \in 1 .. Len(q) + Len(r) : u[i] = IF i <= Len(q) THEN q[i] ELSE r[i - Len(q)]
  BY <1>1, TwoParts
<1>3. \A i \in 1 .. Len(q) : i \in 1 .. Len(u) /\ u[i] = q[i]
  BY <1>2
<1>4. ASSUME NEW i \in 1 .. Len(r)
      PROVE  Len(q) + i \in 1 .. Len(u) /\ u[Len(q) + i] = r[i]
  <2>1. PICK m : m = Len(q) + i
    OBVIOUS
  <2>2. m \in 1 .. Len(q) + Len(r) /\ ~(m <= Len(q)) /\ m - Len(q) = i
    BY <1>2, <2>1
  <2> QED BY <1>2, <2>1, <2>2
<1>5. \A i \in 1 .. Len(u) : u[i].cmd # "claim"
  BY <1>1 DEF NoClaims
<1> QED BY <1>3, <1>4, <1>5 DEF NoClaims

LEMMA WholeClaimsNothing ==
  ASSUME NEW q \in Seq(AppPackets), NEW r \in Seq(AppPackets), NoClaims(q), NoClaims(r)
  PROVE  NoClaims(q \o r)
<1>1. PICK u : u = q \o r
  OBVIOUS
<1>2. /\ Len(u) = Len(q) + Len(r) /\ Len(q) \in Nat /\ Len(r) \in Nat
      /\ \A i \in 1 .. Len(q) + Len(r) : u[i] = IF i <= Len(q) THEN q[i] ELSE r[i - Len(q)]
  BY <1>1, TwoParts
<1>3. ASSUME NEW i \in 1 .. Len(u)
      PROVE  u[i].cmd # "claim"
  <2>1. CASE i <= Len(q)
    BY <1>2, <2>1 DEF NoClaims
  <2>2. CASE ~(i <= Len(q))
    <3>1. i - Len(q) \in 1 .. Len(r) /\ u[i] = r[i - Len(q)]
      BY <1>2, <2>2
    <3> QED BY <3>1 DEF NoClaims
  <2> QED BY <2>1, <2>2
<1> QED BY <1>1, <1>3 DEF NoClaims

\* ifd_remote_send: one packet per chunk, none of them a claim.
LEMMA SendDataKeepsInv ==
  ASSUME RiaInv, NEW a \in Apps, NEW n \in Nat, SendData(a, n)
  PROVE  RiaInv'
<1>1. /\ xid' = [xid EXCEPT ![a] = xid[a] + n]
      /\ UNCHANGED <<link, registered, peer, phase>>
      /\ phase[a] = "open"
  BY DEF SendData, Idle, Set, proxyVars
<1>2. /\ a \in Ends /\ xid[a] \in Nat /\ up[a] \in Seq(AppPackets)
      /\ sbuf[a] \in Seq(AppPackets) /\ NoClaims(sbuf[a])
      /\ DOMAIN up = Ends /\ DOMAIN sbuf = Apps
  BY DEF RiaInv, ProxyTypes, FirstIsClaim, Ends
<1>3. PICK c : c = Chunked(a, n)
  OBVIOUS
<1>4. c \in Seq(AppPackets) /\ NoClaims(c)
  <2>1. c \in Seq(AppPackets) /\ Len(c) = n
    BY <1>2, <1>3, ChunkedAre
  <2>2. \A i \in 1 .. n : c[i].cmd = "data"
    BY <1>3, ChunkIs
  <2> QED BY <2>1, <2>2 DEF NoClaims
<1>14. PICK q, r \in Seq(AppPackets) : Flushes(a, q, r, c)
  BY <1>2, <1>3, <1>4, SendDataIs
<1>5. /\ q \o r = sbuf[a] \o c
      /\ up' = [up EXCEPT ![a] = up[a] \o q] /\ sbuf' = [sbuf EXCEPT ![a] = r]
  BY <1>14 DEF Flushes, Set
<1>6. NoClaims(q) /\ NoClaims(r)
  <2>1. NoClaims(sbuf[a] \o c)
    BY <1>2, <1>4, WholeClaimsNothing
  <2> QED BY <1>5, <2>1, PartsClaimNothing
<1>7. PICK u : u = up[a] \o q
  OBVIOUS
<1>8. u \in Seq(AppPackets) /\ \A i \in 1 .. Len(u) : u[i].cmd = "claim" =>
        i \in 1 .. Len(up[a]) /\ u[i] = up[a][i]
  <2>1. /\ u \in Seq(AppPackets) /\ Len(u) = Len(up[a]) + Len(q)
        /\ Len(up[a]) \in Nat /\ Len(q) \in Nat
        /\ \A i \in 1 .. Len(up[a]) + Len(q) :
             u[i] = IF i <= Len(up[a]) THEN up[a][i] ELSE q[i - Len(up[a])]
    BY <1>2, <1>7, TwoParts
  <2>2. ASSUME NEW i \in 1 .. Len(u), u[i].cmd = "claim"
        PROVE  i \in 1 .. Len(up[a]) /\ u[i] = up[a][i]
    <3>1. CASE i <= Len(up[a])
      BY <2>1, <3>1
    <3>2. CASE ~(i <= Len(up[a]))
      <4>1. i - Len(up[a]) \in 1 .. Len(q) /\ u[i] = q[i - Len(up[a])]
        BY <2>1, <3>2
      <4> QED BY <1>6, <2>2, <4>1 DEF NoClaims
    <3> QED BY <3>1, <3>2
  <2> QED BY <2>1, <2>2
<1>9. up' = [up EXCEPT ![a] = u]
  BY <1>5, <1>7
<1>10. ProxyTypes'
  <2>1. DOMAIN xid' = Ends /\ \A b \in Apps : xid'[b] \in Nat
    BY <1>1, <1>2 DEF RiaInv, ProxyTypes
  <2>2. DOMAIN sbuf' = Apps /\ \A b \in Apps : sbuf'[b] \in Seq(AppPackets)
    BY <1>5 DEF RiaInv, ProxyTypes
  <2>3. DOMAIN up' = Ends /\ \A b \in Apps : up'[b] \in Seq(AppPackets)
    BY <1>8, <1>9 DEF RiaInv, ProxyTypes
  <2> QED BY <1>1, <2>1, <2>2, <2>3 DEF RiaInv, ProxyTypes
<1>11. Unconnected'
  <2>1. \A b \in Apps \ {a} : b \in Ends /\ up'[b] = up[b] /\ sbuf'[b] = sbuf[b]
    BY <1>2, <1>5 DEF Ends
  <2> QED BY <1>1, <2>1 DEF RiaInv, Unconnected
<1>12. FirstIsClaim'
  <2>1. \A b \in Apps : NoClaims(sbuf'[b])
    BY <1>5, <1>6 DEF RiaInv, ProxyTypes, FirstIsClaim
  <2>2. ASSUME NEW b \in Apps, NEW i \in 1 .. Len(up'[b]), up'[b][i].cmd = "claim"
        PROVE  i = 1 /\ peer[b] = None
    <3>1. b \in Ends /\ (b = a => up'[b] = u) /\ (b # a => up'[b] = up[b])
      BY <1>2, <1>9 DEF Ends
    <3> QED BY <1>8, <2>2, <3>1 DEF RiaInv, FirstIsClaim
  <2> QED BY <1>1, <2>1, <2>2 DEF FirstIsClaim, NoClaims
<1>13. \A c1 \in Ends : Listed(c1) => Listed(c1)'
  BY <1>1 DEF Listed
<1> QED BY <1>1, <1>10, <1>11, <1>12, <1>13, PairsStay DEF RiaInv

\* Every step of an application leaves the proxy's claims alone.
LEMMA AppStepKeepsInv ==
  ASSUME RiaAssumption, RiaInv, NEW a \in Apps, AppStep(a)
  PROVE  RiaInv'
<1>0. a \in Ends /\ \A b \in Apps : b \in Ends
  BY DEF Ends
<1>1. ASSUME NEW d \in Devs, OpenRemote(a, d)
      PROVE  RiaInv'
  BY <1>1, ConnectKeepsInv DEF OpenRemote
<1>2. CASE ListDevices(a)
  BY <1>2, ConnectKeepsInv DEF ListDevices
<1>3. ASSUME NEW cmd \in {"flush", "break", "config", "reset"}, NEW packets,
             packets = <<SentBy(a, cmd, None, <<>>)>>,
             Calls(a, packets, cmd), phase[a] # "new", UNCHANGED proxyVars,
             DOMAIN phase' = Ends, \A b \in Apps \ {a} : phase'[b] = phase[b]
      PROVE  RiaInv'
  <2>1. cmd \in Cmds /\ <<>> \in Seq(Chunks) /\ xid[a] \in Nat /\ link[a] # "none"
    BY <1>3 DEF Cmds, RiaInv, ProxyTypes, Unconnected
  <2>2. SentBy(a, cmd, None, <<>>) \in AppPackets /\ SentBy(a, cmd, None, <<>>).cmd = cmd
    <3>1. None \in Devs \cup {None}
      OBVIOUS
    <3> QED BY <2>1, <3>1, SentPacket, ZenonT(60)
  <2>3. packets \in Seq(AppPackets) /\ NoClaims(packets)
    BY <1>3, <2>2 DEF NoClaims
  <2> QED BY <1>3, <2>1, <2>3, CallKeepsInv DEF proxyVars
<1>4. CASE ResetDevice(a)
  <2>1. phase[a] # "new" /\ UNCHANGED proxyVars /\ phase' = [phase EXCEPT ![a] = "reset"]
    BY <1>4 DEF ResetDevice, Set
  <2>2. DOMAIN phase' = Ends /\ \A b \in Apps \ {a} : phase'[b] = phase[b]
    BY <2>1 DEF RiaInv, ProxyTypes
  <2>3. CASE link[a] = "freed"
    <3>1. UNCHANGED <<xid, up, sbuf>>
      BY <1>4, <2>3 DEF ResetDevice
    <3> QED BY <2>1, <2>2, <3>1, KeepsInv DEF proxyVars, RiaInv, ProxyTypes
  <2>4. CASE link[a] # "freed"
    <3>1. Calls(a, <<SentBy(a, "reset", None, <<>>)>>, "reset")
      BY <1>4, <2>4 DEF ResetDevice
    <3> QED BY <1>3, <2>1, <2>2, <3>1
  <2> QED BY <2>3, <2>4
<1>5. ASSUME NEW cmd \in {"flush", "break", "config"}, Command(a, cmd)
      PROVE  RiaInv'
  <2>1. /\ phase[a] # "new" /\ UNCHANGED <<proxyVars, phase>>
        /\ Calls(a, <<SentBy(a, cmd, None, <<>>)>>, cmd)
    BY <1>5 DEF Command, Idle
  <2>2. DOMAIN phase' = Ends
    BY <2>1 DEF RiaInv, ProxyTypes
  <2> QED BY <1>3, <2>1, <2>2
<1>6. CASE SendData(a, 1) \/ SendData(a, 2)
  BY <1>6, SendDataKeepsInv
<1>7. CASE RecvData(a)
  <2>1. phase[a] # "new" /\ UNCHANGED <<proxyVars, phase>> /\ link[a] # "none"
    BY <1>7 DEF RecvData, Idle, RiaInv, Unconnected
  <2>2. CASE UNCHANGED <<up, xid, sbuf>>
    BY <2>1, <2>2, KeepsInv DEF proxyVars, RiaInv, ProxyTypes
  <2>3. CASE Calls(a, <<>>, "recv")
    <3>1. <<>> \in Seq(AppPackets) /\ NoClaims(<<>>)
      BY DEF NoClaims
    <3>2. DOMAIN phase' = Ends
      BY <2>1 DEF RiaInv, ProxyTypes
    <3> QED BY <2>1, <2>3, <3>1, <3>2, CallKeepsInv DEF proxyVars
  <2> QED BY <1>7, <2>2, <2>3 DEF RecvData
<1>8. CASE GivesUp(a) \/ Close(a)
  BY <1>0, <1>8, LeavesKeepsInv DEF GivesUp, Close, AppLeaves, Set
<1>9. ASSUME UNCHANGED <<proxyVars, up, xid, sbuf>>,
             phase' = phase \/ \E p : phase[a] # "new" /\ phase' = [phase EXCEPT ![a] = p]
      PROVE  RiaInv'
  <2>1. DOMAIN phase' = Ends /\ \A b \in Apps : phase[b] = "new" => phase'[b] = "new"
    <3>1. CASE phase' = phase
      BY <3>1 DEF RiaInv, ProxyTypes
    <3>2. ASSUME NEW p, phase[a] # "new", phase' = [phase EXCEPT ![a] = p]
          PROVE  DOMAIN phase' = Ends /\ \A b \in Apps : phase[b] = "new" => phase'[b] = "new"
      BY <3>2 DEF RiaInv, ProxyTypes
    <3> QED BY <1>9, <3>1, <3>2
  <2> QED BY <1>9, <2>1, KeepsInv DEF proxyVars, RiaInv, ProxyTypes
<1>10. ASSUME NEW ok, NEW body, Proceeds(a, ok, body)
       PROVE  phase' = phase \/ \E p : phase[a] # "new" /\ phase' = [phase EXCEPT ![a] = p]
  BY <1>10 DEF Proceeds, Set
<1>11. CASE Receive(a)
  BY <1>9, <1>10, <1>11 DEF Receive, appVars
<1>12. CASE CallFails(a)
  BY <1>9, <1>10, <1>12 DEF CallFails, appVars
<1> QED BY <1>1, <1>2, <1>4, <1>5, <1>6, <1>7, <1>8, <1>11, <1>12 DEF AppStep

-------------------------------------------------------------------------------
(* The exporters *)

\* What an exporter does concerns its own end.
LEMMA DevStepKeepsInv ==
  ASSUME RiaAssumption, RiaInv, NEW d \in Devs, DevStep(d)
  PROVE  RiaInv'
<1>0. d \in Ends /\ d \notin Apps /\ \A a \in Apps : a \in Ends /\ a # d
  BY DEF Ends, RiaAssumption
<1>1. CASE Export(d)
  <2>1. /\ link[d] = "none" /\ link' = [link EXCEPT ![d] = "listed"]
        /\ phase' = [phase EXCEPT ![d] = "register"] /\ xid' = [xid EXCEPT ![d] = 1]
        /\ \E p : up' = [up EXCEPT ![d] = p]
        /\ UNCHANGED <<registered, peer, sbuf>>
    BY <1>1 DEF Export, Accepts, Set, Put, appVars
  <2>2. /\ DOMAIN up' = Ends /\ DOMAIN xid' = Ends /\ DOMAIN phase' = Ends
        /\ \A a \in Apps : /\ up'[a] = up[a] /\ xid'[a] = xid[a] /\ phase'[a] = phase[a]
                           /\ link'[a] = link[a]
    BY <1>0, <2>1 DEF RiaInv, ProxyTypes
  <2>3. ProxyTypes'
    BY <2>1, <2>2 DEF RiaInv, ProxyTypes
  <2>4. Unconnected'
    BY <2>1, <2>2 DEF RiaInv, Unconnected
  <2>5. FirstIsClaim'
    BY <2>1, <2>2 DEF RiaInv, FirstIsClaim, NoClaims
  <2>6. \A c \in Ends : Listed(c) => Listed(c)'
    BY <2>1 DEF Listed, RiaInv, ProxyTypes
  <2> QED BY <2>1, <2>3, <2>4, <2>5, <2>6, PairsStay DEF RiaInv
<1>2. ASSUME UNCHANGED <<proxyVars, sbuf>>,
             phase' = phase \/ phase' = [phase EXCEPT ![d] = "loop"],
             xid' = xid \/ \E x : xid' = [xid EXCEPT ![d] = x],
             up' = up \/ \E p : up' = [up EXCEPT ![d] = p]
      PROVE  RiaInv'
  <2>1. DOMAIN phase' = Ends /\ \A a \in Apps : phase'[a] = phase[a]
    BY <1>0, <1>2 DEF RiaInv, ProxyTypes
  <2>2. DOMAIN xid' = Ends /\ \A a \in Apps : xid'[a] = xid[a]
    BY <1>0, <1>2 DEF RiaInv, ProxyTypes
  <2>3. DOMAIN up' = Ends /\ \A a \in Apps : up'[a] = up[a]
    BY <1>0, <1>2 DEF RiaInv, ProxyTypes
  <2> QED BY <1>2, <2>1, <2>2, <2>3, KeepsInv DEF proxyVars
<1>3. CASE Registered(d)
  BY <1>2, <1>3 DEF Registered, Set, appVars
<1>4. CASE ExporterProcesses(d)
  BY <1>2, <1>4 DEF ExporterProcesses, Put, Set, appVars
<1>5. CASE LineToProxy(d)
  BY <1>2, <1>5 DEF LineToProxy, Put, Set, appVars
<1>6. CASE DataToLine(d)
  BY <1>2, <1>6 DEF DataToLine, appVars
<1>7. CASE DeviceSends(d)
  BY <1>2, <1>7 DEF DeviceSends
<1>8. CASE ExporterExits(d)
  BY <1>0, <1>8, LeavesKeepsInv DEF ExporterExits, appVars
<1> QED BY <1>1, <1>3, <1>4, <1>5, <1>6, <1>7, <1>8 DEF DevStep

-------------------------------------------------------------------------------
(* The proxy *)

\* What the proxy reads from an application is gone; no claim moves to the front.
LEMMA ReadsPacket ==
  ASSUME ProxyTypes, FirstIsClaim, NEW a \in Apps, up[a] # <<>>,
         up' = [up EXCEPT ![a] = Tail(up[a])]
  PROVE  /\ DOMAIN up' = Ends
         /\ \A b \in Apps : up'[b] \in Seq(AppPackets)
         /\ \A b \in Apps \ {a} : up'[b] = up[b]
         /\ NoClaims(up'[a])
         /\ up[a][1] = Head(up[a])
         /\ Head(up[a]).cmd = "claim" => peer[a] = None
<1>1. up[a] \in Seq(AppPackets) /\ a \in Ends
  BY DEF ProxyTypes, Ends
<1>2. PICK t : t = Tail(up[a])
  OBVIOUS
<1>3. /\ t \in Seq(AppPackets) /\ Len(t) = Len(up[a]) - 1
      /\ \A i \in 1 .. Len(t) : t[i] = up[a][i + 1]
  BY <1>1, <1>2, HeadTailProperties
<1>4. Len(up[a]) \in Nat \ {0} /\ up[a][1] = Head(up[a])
  BY <1>1, EmptySeq
<1>5. NoClaims(t)
  <2> SUFFICES ASSUME NEW i \in 1 .. Len(t), t[i].cmd = "claim"
               PROVE  FALSE
    BY DEF NoClaims
  <2>1. i + 1 \in 1 .. Len(up[a]) /\ up[a][i + 1].cmd = "claim"
    BY <1>3, <1>4
  <2>2. i + 1 = 1
    BY <2>1 DEF FirstIsClaim
  <2> QED BY <2>2
<1>6. up' = [up EXCEPT ![a] = t]
  BY <1>2
<1>7. Head(up[a]).cmd = "claim" => peer[a] = None
  BY <1>4 DEF FirstIsClaim
<1>8. DOMAIN up' = Ends /\ up'[a] = t /\ \A b \in Apps \ {a} : up'[b] = up[b]
  BY <1>1, <1>6 DEF ProxyTypes, Ends
<1>9. \A b \in Apps : up'[b] \in Seq(AppPackets)
  BY <1>3, <1>8 DEF ProxyTypes
<1> QED BY <1>4, <1>5, <1>7, <1>8, <1>9

\* RIA_MGR_CLAIM pairs a client that has no device with a device without a client;
\* the other commands of an application change no pair.
LEMMA AppRequestKeepsInv ==
  ASSUME RiaAssumption, RiaInv, NEW a \in Apps, AppRequest(a)
  PROVE  RiaInv'
<1> DEFINE p == Head(up[a])
<1>1. /\ Listed(a) /\ up[a] # <<>> /\ up' = [up EXCEPT ![a] = Tail(up[a])]
      /\ UNCHANGED <<link, registered, phase, xid, sbuf>>
  BY DEF AppRequest, Set, endVars, appVars
<1>2. /\ DOMAIN up' = Ends
      /\ \A b \in Apps : up'[b] \in Seq(AppPackets)
      /\ \A b \in Apps \ {a} : up'[b] = up[b]
      /\ NoClaims(up'[a])
      /\ p.cmd = "claim" => peer[a] = None
  BY <1>1, ReadsPacket DEF RiaInv
<1>3. Unconnected'
  <2>1. link[a] # "none"
    BY <1>1 DEF Listed
  <2> QED BY <1>1, <1>2, <2>1 DEF RiaInv, Unconnected
<1>4. \A c \in Ends : Listed(c) => Listed(c)'
  BY <1>1 DEF Listed
<1>5. CASE UNCHANGED peer
  <2>1. ProxyTypes'
    BY <1>1, <1>2, <1>5 DEF RiaInv, ProxyTypes
  <2>2. FirstIsClaim'
    BY <1>1, <1>2, <1>5 DEF RiaInv, FirstIsClaim, NoClaims
  <2> QED BY <1>1, <1>3, <1>4, <1>5, <2>1, <2>2, PairsStay DEF RiaInv
<1>6. ASSUME NEW d, d = p.dev, p.cmd = "claim", Claimable(d),
             peer' = [peer EXCEPT ![a] = d, ![d] = a]
      PROVE  RiaInv'
  <2>1. /\ d \in registered /\ peer[d] = None /\ d \in Devs /\ Listed(d) /\ peer[a] = None
        /\ a \in Ends /\ d \in Ends /\ a # d /\ d \notin Apps /\ a \notin Devs
        /\ None \notin Ends /\ a \notin registered
    BY <1>2, <1>6 DEF Claimable, RiaInv, RegisteredListed, Ends, RiaAssumption
  <2>2. /\ peer' \in [Ends -> Ends \cup {None}]
        /\ peer'[a] = d /\ peer'[d] = a
        /\ \A c \in Ends \ {a, d} : peer'[c] = peer[c]
    BY <1>6, <2>1 DEF RiaInv, ProxyTypes
  <2>3. ProxyTypes'
    BY <1>1, <1>2, <2>2 DEF RiaInv, ProxyTypes
  <2>4. FirstIsClaim'
    <3>1. \A b \in Apps \ {a} : b # d /\ b \in Ends
      BY <2>1 DEF Ends
    <3>2. \A b \in Apps \ {a} : peer'[b] = peer[b]
      BY <2>2, <3>1
    <3> QED BY <1>1, <1>2, <3>2 DEF RiaInv, FirstIsClaim, NoClaims
  <2>5. RegisteredListed'
    BY <1>1, <1>4 DEF RiaInv, RegisteredListed, Ends
  <2>6. PeersDiffer'
    BY <2>1, <2>2 DEF RiaInv, PeersDiffer
  <2>7. ASSUME NEW c \in Ends, peer'[c] # None
        PROVE  /\ peer'[peer'[c]] = c /\ Listed(c) /\ Listed(peer'[c])
               /\ c \in Apps <=> peer'[c] \in registered
    <3>1. CASE c = a
      BY <1>1, <2>1, <2>2, <3>1
    <3>2. CASE c = d
      BY <1>1, <2>1, <2>2, <3>2
    <3>3. CASE c \notin {a, d}
      <4>1. /\ peer'[c] = peer[c] /\ peer[c] \in Ends /\ peer[peer[c]] = c
            /\ Listed(c) /\ Listed(peer[c]) /\ (c \in Apps <=> peer[c] \in registered)
        BY <2>2, <2>7, <3>3 DEF RiaInv, ProxyTypes, PeersPaired
      <4>2. peer[c] \notin {a, d}
        BY <2>1, <4>1
      <4> QED BY <2>2, <4>1, <4>2
    <3> QED BY <3>1, <3>2, <3>3
  <2>8. PeersPaired'
    BY <1>1, <2>7 DEF PeersPaired, Listed
  <2> QED BY <1>3, <2>3, <2>4, <2>5, <2>6, <2>8 DEF RiaInv
<1>7. UNCHANGED peer \/ (p.cmd = "claim" /\ Claimable(p.dev)
                         /\ peer' = [peer EXCEPT ![a] = p.dev, ![p.dev] = a])
  BY DEF AppRequest
<1> QED BY <1>5, <1>6, <1>7

\* A device that registers has no client yet, so no pair changes sides.
LEMMA DevRequestKeepsInv ==
  ASSUME RiaAssumption, RiaInv, NEW d \in Devs, DevRequest(d)
  PROVE  RiaInv'
<1>1. /\ Listed(d) /\ \E p : up' = [up EXCEPT ![d] = p]
      /\ UNCHANGED <<link, peer, phase, xid, sbuf>>
      /\ registered' \in {registered, registered \cup {d}}
  BY DEF DevRequest, Set, endVars, appVars
<1>2. d \in Ends /\ d \notin Apps /\ None \notin Ends
  BY DEF Ends, RiaAssumption
<1>3. DOMAIN up' = Ends /\ \A a \in Apps : up'[a] = up[a]
  BY <1>1, <1>2 DEF RiaInv, ProxyTypes
<1>4. ProxyTypes' /\ Unconnected' /\ PeersDiffer'
  BY <1>1, <1>3 DEF RiaInv, ProxyTypes, Unconnected, PeersDiffer
<1>5. FirstIsClaim'
  BY <1>1, <1>3 DEF RiaInv, FirstIsClaim, NoClaims
<1>6. RegisteredListed'
  BY <1>1 DEF RiaInv, RegisteredListed, Listed
<1>7. ASSUME NEW c \in Ends, peer[c] # None
      PROVE  /\ peer[peer[c]] = c /\ Listed(c) /\ Listed(peer[c])
             /\ c \in Apps <=> peer[c] \in registered'
  <2>1. /\ peer[peer[c]] = c /\ Listed(c) /\ Listed(peer[c])
        /\ c \in Apps <=> peer[c] \in registered
        /\ c \in Apps <=> peer[c] \in Devs
    BY <1>7 DEF RiaInv, PeersPaired, PeersDiffer
  <2> QED BY <1>1, <2>1
<1>8. PeersPaired'
  BY <1>1, <1>7 DEF PeersPaired, Listed
<1> QED BY <1>4, <1>5, <1>6, <1>8 DEF RiaInv

\* ria_peer_free takes both ends of a claim, and a device leaves the list of devices
\* together with the list of clients.
LEMMA DropClientKeepsInv ==
  ASSUME RiaAssumption, RiaInv, NEW c \in Ends, DropClient(c)
  PROVE  RiaInv'
<1>1. /\ Listed(c) /\ link' = [link EXCEPT ![c] = "freed"]
      /\ registered' = registered \ {c} /\ peer' = Detached(c)
      /\ up' = [up EXCEPT ![c] = <<>>]
      /\ UNCHANGED <<phase, xid, sbuf>>
  BY DEF DropClient, Set, endVars, appVars
<1>2. /\ peer' \in [Ends -> Ends \cup {None}]
      /\ \A x \in Ends : peer'[x] = IF x \in {c, peer[c]} THEN None ELSE peer[x]
  BY <1>1 DEF Detached, RiaInv, ProxyTypes
<1>3. /\ DOMAIN up' = Ends
      /\ \A a \in Apps : up'[a] \in {up[a], <<>>}
      /\ link' \in [Ends -> {"none", "listed", "reset", "freed"}]
      /\ \A x \in Ends : link'[x] = IF x = c THEN "freed" ELSE link[x]
  BY <1>1 DEF RiaInv, ProxyTypes
<1>4. ProxyTypes'
  <2>1. \A a \in Apps : up'[a] \in Seq(AppPackets)
    BY <1>3, EmptySeq DEF RiaInv, ProxyTypes
  <2> QED BY <1>1, <1>2, <1>3, <2>1 DEF RiaInv, ProxyTypes
<1>5. Unconnected'
  BY <1>1, <1>3 DEF RiaInv, Unconnected, Ends
<1>6. FirstIsClaim'
  <2> SUFFICES ASSUME NEW a \in Apps, NEW i \in 1 .. Len(up'[a]), up'[a][i].cmd = "claim"
               PROVE  i = 1 /\ peer'[a] = None
    BY <1>1 DEF RiaInv, FirstIsClaim, NoClaims
  <2>1. up'[a] = up[a]
    <3>1. up'[a] # <<>>
      OBVIOUS
    <3> QED BY <1>3, <3>1
  <2>2. i = 1 /\ peer[a] = None
    BY <2>1 DEF RiaInv, FirstIsClaim
  <2> QED BY <1>2, <2>2 DEF Ends
<1>7. RegisteredListed'
  BY <1>1, <1>3 DEF RiaInv, RegisteredListed, Listed, Ends
<1>8. ASSUME NEW x \in Ends, peer'[x] # None
      PROVE  /\ peer'[x] = peer[x] /\ peer'[peer'[x]] = x
             /\ link'[x] \in {"listed", "reset"} /\ link'[peer'[x]] \in {"listed", "reset"}
             /\ (x \in Apps <=> peer'[x] \in registered')
             /\ (x \in Apps <=> peer'[x] \in Devs)
  <2>1. x # c /\ x # peer[c] /\ peer'[x] = peer[x]
    BY <1>2, <1>8
  <2>2. /\ peer[x] \in Ends /\ peer[peer[x]] = x /\ Listed(x) /\ Listed(peer[x])
        /\ (x \in Apps <=> peer[x] \in registered)
        /\ (x \in Apps <=> peer[x] \in Devs)
    BY <1>8, <2>1 DEF RiaInv, ProxyTypes, PeersPaired, PeersDiffer
  <2>3. peer[x] # c
    BY <2>1, <2>2
  <2>4. peer[x] # peer[c]
    <3>1. CASE peer[c] = None
      BY <1>8, <2>1, <3>1
    <3>2. CASE peer[c] # None
      <4>1. peer[peer[c]] = c
        BY <3>2 DEF RiaInv, PeersPaired
      <4> QED BY <2>1, <2>2, <4>1
    <3> QED BY <3>1, <3>2
  <2>5. peer'[peer[x]] = x
    BY <1>2, <2>2, <2>3, <2>4
  <2> QED BY <1>1, <1>3, <2>1, <2>2, <2>3, <2>5 DEF Listed
<1>9. PeersPaired' /\ PeersDiffer'
  BY <1>8 DEF PeersPaired, PeersDiffer, Listed
<1> QED BY <1>4, <1>5, <1>6, <1>7, <1>9 DEF RiaInv

\* The proxy's death ends every claim.
LEMMA ProxyDiesKeepsInv ==
  ASSUME RiaInv, ProxyDies
  PROVE  RiaInv'
<1>1. /\ link' = [c \in Ends |-> "freed"] /\ registered' = {}
      /\ peer' = [c \in Ends |-> None] /\ up' = [c \in Ends |-> <<>>]
      /\ UNCHANGED <<phase, xid, sbuf>>
  BY DEF ProxyDies, endVars, appVars
<1>2. \A a \in Apps : a \in Ends /\ up'[a] = <<>> /\ peer'[a] = None /\ link'[a] = "freed"
  BY <1>1 DEF Ends
<1>3. ProxyTypes'
  BY <1>1, <1>2, EmptySeq DEF RiaInv, ProxyTypes
<1>4. Unconnected' /\ FirstIsClaim'
  BY <1>1, <1>2 DEF RiaInv, Unconnected, FirstIsClaim, NoClaims
<1>5. RegisteredListed' /\ PeersDiffer' /\ PeersPaired'
  BY <1>1 DEF RegisteredListed, PeersDiffer, PeersPaired
<1> QED BY <1>3, <1>4, <1>5 DEF RiaInv

-------------------------------------------------------------------------------
\* The proxy starts with nobody connected.
LEMMA RiaInvInit ==
  ASSUME RiaAssumption, Init
  PROVE  RiaInv
<1>1. ProxyTypes
  BY EmptySeq DEF Init, ProxyTypes, Ends
<1>2. Unconnected /\ FirstIsClaim
  BY DEF Init, Unconnected, FirstIsClaim, NoClaims, Ends
<1>3. RegisteredListed /\ PeersDiffer /\ PeersPaired
  BY DEF Init, RegisteredListed, PeersDiffer, PeersPaired
<1> QED BY <1>1, <1>2, <1>3 DEF RiaInv

\* Every step keeps the invariant.
LEMMA RiaInvNext ==
  ASSUME RiaAssumption, RiaInv, [Next]_vars
  PROVE  RiaInv'
<1>1. CASE Next
  <2>1. CASE ProxyStep
    BY <2>1, DropClientKeepsInv, AppRequestKeepsInv, DevRequestKeepsInv, ProxyDiesKeepsInv
       DEF ProxyStep
  <2>2. CASE \E a \in Apps : AppStep(a)
    BY <2>2, AppStepKeepsInv
  <2>3. CASE \E d \in Devs : DevStep(d)
    BY <2>3, DevStepKeepsInv
  <2> QED BY <1>1, <2>1, <2>2, <2>3 DEF Next
<1>2. CASE UNCHANGED vars
  <2>1. UNCHANGED <<link, registered, peer, up, phase, xid, sbuf>>
    BY <1>2 DEF vars, proxyVars, endVars, appVars
  <2> QED BY <2>1, KeepsInv DEF RiaInv, ProxyTypes
<1> QED BY <1>1, <1>2

\* However many applications and exporters come and go, a claim has two ends that
\* agree, and both are on the proxy's list: no client has another's device, and no
\* pointer leads to a client that was freed.
THEOREM RiaPeersPaired == Spec => []PeersPaired
<1>1. Init => RiaInv
  BY RiaInvInit, RiaAssumption
<1>2. RiaInv /\ [Next]_vars => RiaInv'
  BY RiaInvNext, RiaAssumption
<1>3. RiaInv => PeersPaired
  BY DEF RiaInv
<1> QED BY <1>1, <1>2, <1>3, PTL DEF Spec

-------------------------------------------------------------------------------
(* Whose answer is whose.  A packet and its reply keep the number and the    *)
(* command of the call; the numbers of a program only grow, so what is still *)
(* on its way when it makes the next call has a smaller one (ria_send).      *)

\* Packet p is not taken for the answer to a call of another command.
Own(p) ==
  \A a \in Apps : p.by = a /\ phase[a] # "closed" =>
    /\ p.xid \in Nat /\ p.xid <= xid[a]
    /\ call[a] # None /\ call[a].cmd # "recv" /\ p.xid = call[a].xid => p.cmd = call[a].cmd

\* All packets on their way are among G.
AllAmong(G) ==
  /\ up \in [Ends -> Seq(G)] /\ down \in [Ends -> Seq(G)]
  /\ rbuf \in [Devs -> Seq(G)] /\ sbuf \in [Apps -> Seq(G)]

\* What a program takes for an answer of its own is the one to its call.
CommandsMatch ==
  \A a \in Apps : result[a] # None /\ result[a].answer.by = a =>
    result[a].answer.cmd = result[a].call.cmd

AnswersInv ==
  /\ DOMAIN call = Ends /\ DOMAIN result = Apps
  /\ \A a \in Apps : phase[a] = "closed" => call[a] = None
  /\ \E G : AllAmong(G) /\ \A p \in G : Own(p)
  /\ CommandsMatch

\* A program comes back from nowhere, and its new call has a number of its own.
NumbersGrow ==
  \A a \in Apps : phase'[a] # "closed" =>
    /\ phase[a] # "closed" /\ xid'[a] \in Nat /\ xid'[a] >= xid[a]
    /\ \/ call'[a] = call[a] \/ call'[a] = None
       \/ call'[a].cmd = "recv" \/ call'[a].xid > xid[a]

\* What was no other call's answer stays so.
LEMMA OwnStays ==
  ASSUME ProxyTypes, NumbersGrow, NEW p, Own(p)
  PROVE  Own(p)'
<1> SUFFICES ASSUME NEW a \in Apps, p.by = a, phase'[a] # "closed"
             PROVE  /\ p.xid \in Nat /\ p.xid <= xid'[a]
                    /\ call'[a] # None /\ call'[a].cmd # "recv" /\ p.xid = call'[a].xid
                         => p.cmd = call'[a].cmd
  BY DEF Own
<1>1. /\ p.xid \in Nat /\ p.xid <= xid[a] /\ xid[a] \in Nat
      /\ call[a] # None /\ call[a].cmd # "recv" /\ p.xid = call[a].xid => p.cmd = call[a].cmd
  BY DEF Own, NumbersGrow, ProxyTypes
<1>2. p.xid \in Nat /\ p.xid <= xid'[a]
  BY <1>1 DEF NumbersGrow
<1>3. CASE call'[a] = call[a] \/ call'[a] = None \/ call'[a].cmd = "recv"
  BY <1>1, <1>2, <1>3
<1>4. CASE call'[a].xid > xid[a]
  BY <1>1, <1>2, <1>4
<1> QED BY <1>3, <1>4 DEF NumbersGrow

\* A reply is its call's.
LEMMA ReplyOwn ==
  ASSUME NEW p, NEW rc, NEW body, Own(p)'
  PROVE  Own(Reply(p, rc, body))'
<1> DEFINE r == Reply(p, rc, body)
<1>1. r.by = p.by /\ r.xid = p.xid /\ r.cmd = p.cmd
  BY DEF Reply
<1> HIDE DEF r
<1> QED BY <1>1 DEF Own, r

\* More packets may be on their way.
LEMMA AmongMore ==
  ASSUME NEW G, NEW N, AllAmong(G)
  PROVE  AllAmong(G \cup N)
<1>1. Seq(G) \subseteq Seq(G \cup N)
  BY SeqMonotonic
<1> QED BY <1>1 DEF AllAmong

\* A step that sends packets N, each its sender's own.
LEMMA SendsOwn ==
  ASSUME ProxyTypes, NumbersGrow, NEW G, \A p \in G : Own(p),
         NEW N, \A p \in N : Own(p)', AllAmong(G \cup N)',
         DOMAIN call' = Ends, DOMAIN result' = Apps,
         \A a \in Apps : phase'[a] = "closed" => call'[a] = None, CommandsMatch'
  PROVE  AnswersInv'
<1>1. \A p \in G \cup N : Own(p)'
  BY OwnStays
<1>2. \E H : AllAmong(H)' /\ \A p \in H : Own(p)'
  BY <1>1
<1> QED BY <1>2 DEF AnswersInv

\* The numbers grow when no program makes or ends a call.
LEMMA NobodyCalls ==
  ASSUME ProxyTypes, UNCHANGED <<phase, call, xid>>
  PROVE  NumbersGrow
  BY DEF ProxyTypes, NumbersGrow

\* A step of the proxy: it passes packets on, answers them and loses them.
LEMMA ProxyKeepsAnswers ==
  ASSUME ProxyTypes, AnswersInv, NEW G, AllAmong(G), \A p \in G : Own(p),
         UNCHANGED endVars, NEW N, \A p \in N : Own(p),
         up' \in [Ends -> Seq(G \cup N)], down' \in [Ends -> Seq(G \cup N)]
  PROVE  AnswersInv'
<1>1. UNCHANGED <<phase, call, xid, result, sbuf, rbuf>>
  BY DEF endVars, appVars
<1>2. NumbersGrow
  BY <1>1, NobodyCalls
<1>3. \A p \in N : Own(p)'
  BY <1>2, OwnStays
<1>4. AllAmong(G \cup N)'
  <2>1. AllAmong(G \cup N)
    BY AmongMore
  <2> QED BY <1>1, <2>1 DEF AllAmong
<1>5. /\ DOMAIN call' = Ends /\ DOMAIN result' = Apps /\ CommandsMatch'
      /\ \A a \in Apps : phase'[a] = "closed" => call'[a] = None
  BY <1>1 DEF AnswersInv, CommandsMatch
<1> QED BY <1>2, <1>3, <1>4, <1>5, SendsOwn

\* The proxy's answer to a packet, if it makes one.
LEMMA RespondsOwn ==
  ASSUME NEW c \in Ends, NEW G, down \in [Ends -> Seq(G)], NEW p \in G, Own(p),
         NEW rc, NEW body, Respond(c, p, rc, body)
  PROVE  \E N : (\A q \in N : Own(q)) /\ down' \in [Ends -> Seq(G \cup N)]
<1> DEFINE r == Reply(p, rc, body)
<1>1. Own(r)
  <2>1. r.by = p.by /\ r.xid = p.xid /\ r.cmd = p.cmd
    BY DEF Reply
  <2> HIDE DEF r
  <2> QED BY <2>1 DEF Own
<1>2. down' = down \/ down' = [down EXCEPT ![c] = Append(down[c], r)]
  BY DEF Respond, Put
<1> HIDE DEF r
<1>3. down \in [Ends -> Seq(G \cup {r})]
  <2>1. Seq(G) \subseteq Seq(G \cup {r})
    BY SeqMonotonic
  <2> QED BY <2>1
<1>4. Append(down[c], r) \in Seq(G \cup {r})
  <2>1. down[c] \in Seq(G \cup {r}) /\ r \in G \cup {r}
    BY <1>3
  <2> QED BY <2>1, AppendProperties
<1>5. down' \in [Ends -> Seq(G \cup {r})]
  BY <1>2, <1>3, <1>4
<1> QED BY <1>1, <1>5

\* The proxy reads a packet and answers it, or passes it on to connection k.
LEMMA RequestKeepsAnswers ==
  ASSUME ProxyTypes, AnswersInv, NEW c \in Ends, up[c] # <<>>,
         up' = Set(up, c, Tail(up[c])), UNCHANGED endVars,
         \/ \E rc, body : Respond(c, Head(up[c]), rc, body)
         \/ \E k \in Ends : down' = Put(down, k, Head(up[c]))
  PROVE  AnswersInv'
<1>1. PICK G : AllAmong(G) /\ \A p \in G : Own(p)
  BY DEF AnswersInv
<1>2. up[c] \in Seq(G) /\ up \in [Ends -> Seq(G)] /\ down \in [Ends -> Seq(G)]
  BY <1>1 DEF AllAmong
<1>3. Head(up[c]) \in G /\ Tail(up[c]) \in Seq(G)
  BY <1>2, HeadTailProperties
<1>4. up' \in [Ends -> Seq(G)]
  BY <1>2, <1>3 DEF Set
<1>5. \E N : (\A q \in N : Own(q)) /\ down' \in [Ends -> Seq(G \cup N)]
  <2>1. CASE \E rc, body : Respond(c, Head(up[c]), rc, body)
    <3>1. PICK rc, body : Respond(c, Head(up[c]), rc, body)
      BY <2>1
    <3> QED BY <3>1, <1>1, <1>2, <1>3, RespondsOwn
  <2>2. ASSUME NEW k \in Ends, down' = Put(down, k, Head(up[c]))
        PROVE  down' \in [Ends -> Seq(G \cup {})]
    <3>1. Append(down[k], Head(up[c])) \in Seq(G)
      BY <1>2, <1>3, AppendProperties
    <3> QED BY <2>2, <3>1, <1>2 DEF Put
  <2> QED BY <2>1, <2>2
<1>6. PICK N : (\A q \in N : Own(q)) /\ down' \in [Ends -> Seq(G \cup N)]
  BY <1>5
<1>7. up' \in [Ends -> Seq(G \cup N)]
  <2>1. Seq(G) \subseteq Seq(G \cup N)
    BY SeqMonotonic
  <2> QED BY <1>4, <2>1
<1> QED BY <1>1, <1>6, <1>7, ProxyKeepsAnswers

\* The proxy loses what it had of connections, or a part of it.
LEMMA LosesKeepsAnswers ==
  ASSUME ProxyTypes, AnswersInv, UNCHANGED endVars, NEW C \in SUBSET Ends,
         up' = [c \in Ends |-> IF c \in C THEN <<>> ELSE up[c]],
         \/ Unsent(C)
         \/ down' = [c \in Ends |-> IF c \in C THEN <<>> ELSE down[c]]
  PROVE  AnswersInv'
<1>1. PICK G : AllAmong(G) /\ \A p \in G : Own(p)
  BY DEF AnswersInv
<1>2. up \in [Ends -> Seq(G)] /\ down \in [Ends -> Seq(G)] /\ <<>> \in Seq(G)
  BY <1>1 DEF AllAmong
<1>3. up' \in [Ends -> Seq(G)]
  BY <1>2
<1>4. down' \in [Ends -> Seq(G)]
  <2>1. CASE Unsent(C)
    <3>1. PICK kept \in [C -> 0 .. MaxDown] :
            down' = [c \in Ends |-> IF c \in C
                       THEN SubSeq(down[c], 1, IF kept[c] < Len(down[c])
                                               THEN kept[c] ELSE Len(down[c]))
                       ELSE down[c]]
      BY <2>1 DEF Unsent
    <3>2. ASSUME NEW c \in C
          PROVE  SubSeq(down[c], 1, IF kept[c] < Len(down[c])
                                    THEN kept[c] ELSE Len(down[c])) \in Seq(G)
      <4> DEFINE n == IF kept[c] < Len(down[c]) THEN kept[c] ELSE Len(down[c])
      <4>1. down[c] \in Seq(G) /\ kept[c] \in 0 .. MaxDown
        BY <1>2
      <4>2. Len(down[c]) \in Nat
        BY <4>1, LenProperties
      <4>3. n \in Int /\ n <= Len(down[c])
        BY <4>1, <4>2
      <4>4. \A i \in 1 .. n : down[c][i] \in G
        BY <4>1, <4>2, <4>3, ElementOfSeq
      <4> HIDE DEF n
      <4>5. SubSeq(down[c], 1, n) \in Seq(G)
        BY <4>3, <4>4, SubSeqProperties
      <4> QED BY <4>5 DEF n
    <3> QED BY <3>1, <3>2, <1>2
  <2>2. CASE down' = [c \in Ends |-> IF c \in C THEN <<>> ELSE down[c]]
    BY <2>2, <1>2
  <2> QED BY <2>1, <2>2
<1>5. up' \in [Ends -> Seq(G \cup {})] /\ down' \in [Ends -> Seq(G \cup {})]
  BY <1>3, <1>4
<1> QED BY <1>1, <1>5, ProxyKeepsAnswers

LEMMA ProxyStepKeepsAnswers ==
  ASSUME RiaInv, AnswersInv, ProxyStep
  PROVE  AnswersInv'
<1>0. ProxyTypes /\ (\A a \in Apps : a \in Ends) /\ (\A d \in Devs : d \in Ends)
      /\ \A c \in Ends : peer[c] # None => peer[c] \in Ends
  BY DEF RiaInv, ProxyTypes, Ends
<1>1. ASSUME NEW c \in Ends, DropClient(c)
      PROVE  AnswersInv'
  <2>1. UNCHANGED endVars /\ up' = [up EXCEPT ![c] = <<>>] /\ DOMAIN up = Ends
    BY <1>0, <1>1 DEF DropClient, Set, ProxyTypes
  <2>2. up' = [x \in Ends |-> IF x \in {c} THEN <<>> ELSE up[x]]
    BY <2>1
  <2>3. Unsent({c}) \/ down' = [x \in Ends |-> IF x \in {c} THEN <<>> ELSE down[x]]
    <3>1. PICK G : AllAmong(G)
      BY DEF AnswersInv
    <3>2. DOMAIN down = Ends
      BY <3>1 DEF AllAmong
    <3> QED BY <1>1, <3>2 DEF DropClient, Set
  <2>4. {c} \in SUBSET Ends
    OBVIOUS
  <2> QED BY <1>0, <2>1, <2>2, <2>3, <2>4, LosesKeepsAnswers
<1>2. ASSUME NEW a \in Apps, AppRequest(a)
      PROVE  AnswersInv'
  <2>1. up[a] # <<>> /\ up' = Set(up, a, Tail(up[a])) /\ UNCHANGED endVars
    BY <1>2 DEF AppRequest
  <2>2. \/ \E rc, body : Respond(a, Head(up[a]), rc, body)
        \/ \E k \in Ends : down' = Put(down, k, Head(up[a]))
    BY <1>0, <1>2 DEF AppRequest
  <2> QED BY <1>0, <2>1, <2>2, RequestKeepsAnswers
<1>3. ASSUME NEW d \in Devs, DevRequest(d)
      PROVE  AnswersInv'
  <2>1. up[d] # <<>> /\ up' = Set(up, d, Tail(up[d])) /\ UNCHANGED endVars
    BY <1>3 DEF DevRequest
  <2>2. \/ \E rc, body : Respond(d, Head(up[d]), rc, body)
        \/ \E k \in Ends : down' = Put(down, k, Head(up[d]))
    BY <1>0, <1>3 DEF DevRequest
  <2> QED BY <1>0, <2>1, <2>2, RequestKeepsAnswers
<1>4. CASE ProxyDies
  <2>1. UNCHANGED endVars /\ Unsent(Ends) /\ up' = [c \in Ends |-> IF c \in Ends THEN <<>> ELSE up[c]]
    BY <1>4 DEF ProxyDies
  <2>2. Ends \in SUBSET Ends
    OBVIOUS
  <2> QED BY <1>0, <2>1, <2>2, LosesKeepsAnswers
<1> QED BY <1>1, <1>2, <1>3, <1>4 DEF ProxyStep

\* A call has the number of its packet, which is greater than any before it; the
\* wait for data has none.
LEMMA CallKeepsAnswers ==
  ASSUME RiaAssumption, ProxyTypes, AnswersInv, NEW a \in Apps, NEW cmd, NEW packets,
         Calls(a, packets, cmd), UNCHANGED <<down, rbuf, result>>,
         phase[a] # "closed", phase'[a] # "closed", \A b \in Apps \ {a} : phase'[b] = phase[b],
         \/ packets = <<>> /\ cmd = "recv"
         \/ \E q : packets = <<q>> /\ q.by = a /\ q.xid = xid[a] + 1 /\ q.cmd = cmd
  PROVE  AnswersInv'
<1>1. PICK G : AllAmong(G) /\ \A p \in G : Own(p)
  BY DEF AnswersInv
<1>2. /\ a \in Ends /\ xid[a] \in Nat /\ DOMAIN xid = Ends /\ DOMAIN call = Ends
      /\ up \in [Ends -> Seq(G)] /\ sbuf \in [Apps -> Seq(G)]
  BY <1>1 DEF Ends, ProxyTypes, AnswersInv, AllAmong
<1> DEFINE N == {packets[i] : i \in 1 .. Len(packets)}
           n == xid[a] + Len(packets)
<1>3. Len(packets) \in Nat /\ n \in Nat /\ n >= xid[a] /\ (cmd # "recv" => n > xid[a])
  <2>1. CASE packets = <<>> /\ cmd = "recv"
    <3>1. Len(packets) = 0
      BY <2>1
    <3> QED BY <2>1, <3>1, <1>2
  <2>2. ASSUME NEW q, packets = <<q>>
        PROVE  Len(packets) \in Nat /\ n \in Nat /\ n >= xid[a] /\ n > xid[a]
    <3>1. Len(packets) = 1
      BY <2>2
    <3> QED BY <3>1, <1>2
  <2> HIDE DEF n
  <2> QED BY <2>1, <2>2
<1>4. packets \in Seq(N)
  <2>1. CASE packets = <<>>
    BY <2>1
  <2>2. ASSUME NEW q, packets = <<q>>
        PROVE  packets \in Seq(N)
    <3>1. Len(packets) = 1 /\ packets[1] = q
      BY <2>2
    <3>2. q \in N
      BY <3>1
    <3> HIDE DEF N
    <3> QED BY <2>2, <3>2
  <2> QED BY <2>1, <2>2
<1>5. ASSUME NEW q \in N
      PROVE  q.by = a /\ q.xid = xid[a] + 1 /\ n = xid[a] + 1 /\ q.cmd = cmd
  <2>1. CASE packets = <<>>
    BY <2>1, <1>5
  <2>2. ASSUME NEW r, packets = <<r>>, r.by = a, r.xid = xid[a] + 1, r.cmd = cmd
        PROVE  q.by = a /\ q.xid = xid[a] + 1 /\ n = xid[a] + 1 /\ q.cmd = cmd
    <3>1. q = r /\ Len(packets) = 1
      BY <1>5, <2>2
    <3> QED BY <2>2, <3>1
  <2> QED BY <2>1, <2>2
<1>6. /\ xid' = [xid EXCEPT ![a] = n] /\ xid'[a] = n
      /\ call' = [call EXCEPT ![a] = [cmd |-> cmd, xid |-> n]]
  BY <1>2 DEF Calls, Set
<1>7. /\ up' = [up EXCEPT ![a] = up[a] \o sbuf[a] \o packets]
      /\ sbuf' = [sbuf EXCEPT ![a] = <<>>]
  BY DEF Calls, Set
<1> HIDE DEF n, N
<1>8. NumbersGrow
  <2>1. ASSUME NEW b \in Apps, phase'[b] # "closed"
        PROVE  /\ phase[b] # "closed" /\ xid'[b] \in Nat /\ xid'[b] >= xid[b]
               /\ \/ call'[b] = call[b] \/ call'[b] = None
                  \/ call'[b].cmd = "recv" \/ call'[b].xid > xid[b]
    <3>1. b \in Ends /\ xid[b] \in Nat
      BY DEF Ends, ProxyTypes
    <3>2. CASE b = a
      BY <3>2, <1>2, <1>3, <1>6
    <3>3. CASE b # a
      BY <2>1, <3>1, <3>3, <1>2, <1>6
    <3> QED BY <3>2, <3>3
  <2> QED BY <2>1 DEF NumbersGrow
<1>9. ASSUME NEW q \in N PROVE Own(q)'
  BY <1>2, <1>3, <1>5, <1>6 DEF Own
<1>10. AllAmong(G \cup N)'
  <2>1. AllAmong(G \cup N)
    BY <1>1, AmongMore
  <2>2. packets \in Seq(G \cup N)
    <3>1. Seq(N) \subseteq Seq(G \cup N)
      BY SeqMonotonic
    <3> QED BY <1>4, <3>1
  <2>3. up[a] \in Seq(G \cup N) /\ sbuf[a] \in Seq(G \cup N) /\ <<>> \in Seq(G \cup N)
    BY <1>2, <2>1 DEF AllAmong
  <2>4. up[a] \o sbuf[a] \o packets \in Seq(G \cup N)
    BY <2>2, <2>3, ThreeParts
  <2> QED BY <1>7, <2>1, <2>3, <2>4 DEF AllAmong
<1>11. /\ DOMAIN call' = Ends /\ DOMAIN result' = Apps /\ CommandsMatch'
       /\ \A b \in Apps : phase'[b] = "closed" => call'[b] = None
  BY <1>2, <1>6 DEF AnswersInv, CommandsMatch, Ends
<1> QED BY <1>1, <1>8, <1>9, <1>10, <1>11, SendsOwn

\* ifd_remote_send numbers its packets in turn.
LEMMA SendDataKeepsAnswers ==
  ASSUME RiaAssumption, ProxyTypes, AnswersInv, NEW a \in Apps, NEW n \in {1, 2}, SendData(a, n)
  PROVE  AnswersInv'
<1>0. PICK s : s = Chunked(a, n)
  OBVIOUS
<1> DEFINE N == {s[i] : i \in 1 .. n}
<1>1. PICK G : AllAmong(G) /\ \A p \in G : Own(p)
  BY DEF AnswersInv
<1>2. /\ a \in Ends /\ xid[a] \in Nat /\ DOMAIN xid = Ends /\ n \in Nat
      /\ phase[a] = "open" /\ call[a] = None
  BY <1>1 DEF Ends, ProxyTypes, SendData, Idle
<1>10. s \in Seq(AppPackets) /\ Len(s) = n
  BY <1>0, <1>2, ChunkedAre
<1>3. \A i \in 1 .. n : s[i].by = a /\ s[i].xid = xid[a] + i
  BY <1>0, <1>2, ChunkIs
<1>4. s \in Seq(N)
  <2>2. s = [i \in 1 .. n |-> s[i]]
    BY <1>10
  <2>3. \A i \in 1 .. n : s[i] \in N
    OBVIOUS
  <2> HIDE DEF N
  <2>4. s \in [1 .. n -> N]
    BY <2>2, <2>3
  <2> QED BY <1>2, <2>4
<1>5. /\ xid' = [xid EXCEPT ![a] = xid[a] + n] /\ UNCHANGED <<down, phase, call, result, rbuf>>
  BY DEF SendData, Set
<1>6. NumbersGrow
  <2>1. \A b \in Apps : b \in Ends /\ xid[b] \in Nat
    BY DEF Ends, ProxyTypes
  <2>2. \A b \in Apps : xid'[b] \in Nat /\ xid'[b] >= xid[b]
    BY <1>2, <1>5, <2>1
  <2> QED BY <1>5, <2>2 DEF NumbersGrow
<1>7. \A p \in N : Own(p)'
  <2>1. ASSUME NEW i \in 1 .. n PROVE Own(s[i])'
    <3>1. i \in Nat /\ i <= n /\ n \in Nat
      OBVIOUS
    <3>2. s[i].by = a /\ s[i].xid \in Nat /\ s[i].xid <= xid'[a] /\ call'[a] = None
      BY <1>2, <1>3, <1>5, <3>1
    <3> QED BY <3>2 DEF Own
  <2> QED BY <2>1
<1>8. AllAmong(G \cup N)'
  <2>1. AllAmong(G \cup N)
    BY <1>1, AmongMore
  <2>2. Seq(N) \subseteq Seq(G \cup N)
    BY SeqMonotonic
  <2> HIDE DEF N
  <2>3. /\ up[a] \in Seq(G \cup N) /\ sbuf[a] \in Seq(G \cup N) /\ s \in Seq(G \cup N)
        /\ DOMAIN up = Ends /\ DOMAIN sbuf = Apps
    BY <1>2, <1>4, <2>1, <2>2 DEF AllAmong
  <2>6. PICK q, r \in Seq(G \cup N) : Flushes(a, q, r, s)
    BY <1>0, <1>2, <2>3, SendDataIs
  <2>4. up' = [up EXCEPT ![a] = up[a] \o q] /\ sbuf' = [sbuf EXCEPT ![a] = r]
    BY <2>6 DEF Flushes, Set
  <2>5. up[a] \o q \in Seq(G \cup N)
    BY <2>3, ConcatProperties
  <2> QED BY <1>5, <2>1, <2>4, <2>5 DEF AllAmong
<1>9. /\ DOMAIN call' = Ends /\ DOMAIN result' = Apps /\ CommandsMatch'
      /\ \A b \in Apps : phase'[b] = "closed" => call'[b] = None
  BY <1>5 DEF AnswersInv, CommandsMatch
<1> HIDE DEF N
<1> QED BY <1>1, <1>6, <1>7, <1>8, <1>9, SendsOwn

\* A program leaves: what it waits for and what was answered go with it.
LEMMA LeavesKeepsAnswers ==
  ASSUME RiaAssumption, ProxyTypes, AnswersInv, NEW c \in Ends, Leaves(c), UNCHANGED up,
         \/ c \in Apps /\ UNCHANGED rbuf /\ sbuf' = Set(sbuf, c, <<>>)
              /\ result' = Set(result, c, None)
         \/ c \in Devs /\ UNCHANGED <<sbuf, result>> /\ rbuf' = Set(rbuf, c, <<>>)
  PROVE  AnswersInv'
<1>1. PICK G : AllAmong(G) /\ \A p \in G : Own(p)
  BY DEF AnswersInv
<1>2. /\ DOMAIN phase = Ends /\ DOMAIN call = Ends /\ DOMAIN xid = Ends /\ DOMAIN result = Apps
      /\ \A b \in Apps : b \in Ends /\ xid[b] \in Nat
  BY DEF ProxyTypes, AnswersInv, Ends
<1>3. /\ phase' = [phase EXCEPT ![c] = "closed"] /\ call' = [call EXCEPT ![c] = None]
      /\ xid' = [xid EXCEPT ![c] = 0]
      /\ down' = [down EXCEPT ![c] = <<>>] \/ down' = down
  BY DEF Leaves, Set
<1>4. NumbersGrow
  BY <1>2, <1>3 DEF NumbersGrow
<1>5. AllAmong(G \cup {})'
  <2>1. AllAmong(G \cup {}) /\ <<>> \in Seq(G \cup {})
    BY <1>1
  <2> QED BY <1>3, <2>1, ZenonT(60) DEF AllAmong, Set
<1>6. \A b \in Apps : phase'[b] = "closed" => call'[b] = None
  BY <1>2, <1>3 DEF AnswersInv
<1>7. DOMAIN call' = Ends /\ DOMAIN result' = Apps
  BY <1>2, <1>3 DEF Set
<1>8. CommandsMatch'
  <2>1. \A b \in Apps : result'[b] = None \/ result'[b] = result[b]
    BY <1>2 DEF Set
  <2> QED BY <2>1 DEF AnswersInv, CommandsMatch
<1> QED BY <1>1, <1>4, <1>5, <1>6, <1>7, <1>8, SendsOwn

\* Calls end, and packets move on, but nobody sends, calls or leaves.
LEMMA MovesKeepsAnswers ==
  ASSUME ProxyTypes, AnswersInv, NEW G, AllAmong(G), \A p \in G : Own(p), AllAmong(G)',
         UNCHANGED xid, DOMAIN call' = Ends, DOMAIN result' = Apps, CommandsMatch',
         \A a \in Apps : phase'[a] = "closed" <=> phase[a] = "closed",
         \A a \in Apps : call'[a] = call[a] \/ call'[a] = None
  PROVE  AnswersInv'
<1>1. NumbersGrow
  BY DEF NumbersGrow, ProxyTypes
<1>2. \A a \in Apps : phase'[a] = "closed" => call'[a] = None
  BY DEF AnswersInv
<1>3. PICK N : N = {}
  OBVIOUS
<1>4. AllAmong(G \cup N)' /\ \A p \in N : Own(p)'
  BY <1>3
<1>5. DOMAIN call' = Ends /\ DOMAIN result' = Apps /\ CommandsMatch'
  OBVIOUS
<1> QED BY <1>1, <1>2, <1>4, <1>5, SendsOwn

\* How a call's end moves the program on.
LEMMA ProceedsOpen ==
  ASSUME ProxyTypes, NEW a \in Apps, NEW ok, NEW body, Proceeds(a, ok, body)
  PROVE  \A b \in Apps : phase'[b] = "closed" <=> phase[b] = "closed"
<1>1. DOMAIN phase = Ends /\ \A b \in Apps : b \in Ends
  BY DEF ProxyTypes, Ends
<1>2. phase[a] \in {"claim", "list", "reset", "open"} /\ phase'[a] # "closed"
  BY <1>1 DEF Proceeds, Set
<1>3. \A b \in Apps \ {a} : phase'[b] = phase[b]
  <2>1. phase' = phase \/ \E x : phase' = [phase EXCEPT ![a] = x]
    BY DEF Proceeds, Set
  <2> QED BY <1>1, <2>1
<1> QED BY <1>2, <1>3

\* ria_recv takes a reply for the answer only if its number is that of the call.
LEMMA ReceiveKeepsAnswers ==
  ASSUME ProxyTypes, AnswersInv, NEW a \in Apps, Receive(a)
  PROVE  AnswersInv'
<1>1. PICK G : AllAmong(G) /\ \A p \in G : Own(p)
  BY DEF AnswersInv
<1>2. /\ a \in Ends /\ DOMAIN call = Ends /\ DOMAIN result = Apps
      /\ down \in [Ends -> Seq(G)] /\ down[a] # <<>> /\ call[a] # None
      /\ phase[a] # "closed"
  BY <1>1 DEF AllAmong, AnswersInv, Receive, Ends
<1> DEFINE p == Head(down[a])
<1>3. p \in G /\ Tail(down[a]) \in Seq(G)
  BY <1>2, HeadTailProperties
<1>4. UNCHANGED <<up, xid, sbuf, rbuf>> /\ down' = [down EXCEPT ![a] = Tail(down[a])]
  BY DEF Receive, appVars, Set
<1>5. AllAmong(G)'
  BY <1>1, <1>3, <1>4 DEF AllAmong
<1>6. /\ UNCHANGED xid /\ DOMAIN call' = Ends
      /\ \A b \in Apps : call'[b] = call[b] \/ call'[b] = None
  <2>1. call' = call \/ call' = [call EXCEPT ![a] = None]
    BY DEF Receive, Set
  <2>2. \A b \in Apps : b \in Ends
    BY DEF Ends
  <2>3. CASE call' = call
    BY <2>3, <1>2, <1>4
  <2>4. CASE call' = [call EXCEPT ![a] = None]
    BY <2>2, <2>4, <1>2, <1>4
  <2> QED BY <2>1, <2>3, <2>4
<1>7. CASE phase' = phase /\ result' = result
  <2>1. CommandsMatch' /\ DOMAIN result' = Apps
    BY <1>2, <1>7 DEF AnswersInv, CommandsMatch
  <2>2. \A b \in Apps : phase'[b] = "closed" <=> phase[b] = "closed"
    BY <1>7
  <2> QED BY <1>1, <1>5, <1>6, <2>1, <2>2, MovesKeepsAnswers
<1>8. CASE /\ IsAnswer(p, call[a]) /\ Proceeds(a, p.error = 0, p.body)
           /\ result' = Set(result, a, [call |-> call[a], answer |-> p])
  <2>1. p.by = a => p.cmd = call[a].cmd
    BY <1>1, <1>2, <1>3, <1>8 DEF IsAnswer, Own
  <2>2. \A b \in Apps : phase'[b] = "closed" <=> phase[b] = "closed"
    BY <1>8, ProceedsOpen
  <2> HIDE DEF p
  <2>3. result' = [result EXCEPT ![a] = [call |-> call[a], answer |-> p]]
    BY <1>8 DEF Set
  <2>4. CommandsMatch'
    <3>1. ASSUME NEW b \in Apps, result'[b] # None, result'[b].answer.by = b
          PROVE  result'[b].answer.cmd = result'[b].call.cmd
      <4>1. CASE b = a
        BY <2>1, <2>3, <3>1, <4>1, <1>2
      <4>2. CASE b # a
        BY <2>3, <3>1, <4>2, <1>2 DEF AnswersInv, CommandsMatch
      <4> QED BY <4>1, <4>2
    <3> QED BY <3>1 DEF CommandsMatch
  <2>5. DOMAIN result' = Apps
    BY <1>2, <2>3
  <2> QED BY <1>1, <1>5, <1>6, <2>2, <2>4, <2>5, MovesKeepsAnswers
<1> QED BY <1>7, <1>8 DEF Receive

\* An application opens its connection with a call.
LEMMA ConnectKeepsAnswers ==
  ASSUME RiaAssumption, ProxyTypes, AnswersInv, NEW a \in Apps, NEW cmd \in {"claim", "list"},
         NEW d, Connect(a, cmd, d)
  PROVE  AnswersInv'
<1>1. DOMAIN phase = Ends /\ a \in Ends /\ \A b \in Apps : b \in Ends
  BY DEF ProxyTypes, Ends
<1>2. /\ phase[a] = "new" /\ phase' = [phase EXCEPT ![a] = cmd]
      /\ Calls(a, <<SentBy(a, cmd, d, <<>>)>>, cmd) /\ UNCHANGED <<down, rbuf, result>>
  BY DEF Connect, Set
<1>3. phase[a] # "closed" /\ phase'[a] # "closed" /\ \A b \in Apps \ {a} : phase'[b] = phase[b]
  BY <1>1, <1>2
<1>4. PICK packets : packets = <<SentBy(a, cmd, d, <<>>)>>
  OBVIOUS
<1>5. \E q : packets = <<q>> /\ q.by = a /\ q.xid = xid[a] + 1 /\ q.cmd = cmd
  BY <1>4 DEF SentBy, Packet
<1> QED BY <1>2, <1>3, <1>4, <1>5, CallKeepsAnswers

LEMMA AppStepKeepsAnswers ==
  ASSUME RiaAssumption, RiaInv, AnswersInv, NEW a \in Apps, AppStep(a)
  PROVE  AnswersInv'
<1>0. ProxyTypes /\ a \in Ends /\ DOMAIN phase = Ends /\ DOMAIN call = Ends
      /\ \A b \in Apps : b \in Ends
  BY DEF RiaInv, ProxyTypes, AnswersInv, Ends
<1>1. ASSUME NEW d \in Devs, OpenRemote(a, d)
      PROVE  AnswersInv'
  BY <1>0, <1>1, ConnectKeepsAnswers DEF OpenRemote
<1>2. CASE ListDevices(a)
  BY <1>0, <1>2, ConnectKeepsAnswers DEF ListDevices
<1>3. ASSUME NEW cmd \in {"flush", "break", "config", "reset"},
             Calls(a, <<SentBy(a, cmd, None, <<>>)>>, cmd), UNCHANGED <<down, rbuf, result>>,
             phase[a] # "closed", phase'[a] # "closed", \A b \in Apps \ {a} : phase'[b] = phase[b]
      PROVE  AnswersInv'
  <2>1. PICK packets : packets = <<SentBy(a, cmd, None, <<>>)>>
    OBVIOUS
  <2>2. \E q : packets = <<q>> /\ q.by = a /\ q.xid = xid[a] + 1 /\ q.cmd = cmd
    BY <2>1 DEF SentBy, Packet
  <2> QED BY <1>0, <1>3, <2>1, <2>2, CallKeepsAnswers
<1>4. PICK G : AllAmong(G) /\ \A p \in G : Own(p)
  BY DEF AnswersInv
<1>5. CASE ResetDevice(a)
  <2>1. /\ phase[a] = "claimed" /\ phase' = [phase EXCEPT ![a] = "reset"]
        /\ UNCHANGED <<down, rbuf, result>>
    BY <1>5 DEF ResetDevice, Set
  <2>2. phase[a] # "closed" /\ phase'[a] # "closed" /\ \A b \in Apps \ {a} : phase'[b] = phase[b]
    BY <1>0, <2>1
  <2>3. CASE link[a] = "freed"
    <3>1. UNCHANGED <<call, xid, up, sbuf>>
      BY <1>5, <2>3 DEF ResetDevice
    <3>2. AllAmong(G)'
      BY <1>4, <2>1, <3>1 DEF AllAmong
    <3>3. DOMAIN call' = Ends /\ DOMAIN result' = Apps /\ CommandsMatch' /\ UNCHANGED xid
      BY <2>1, <3>1 DEF AnswersInv, CommandsMatch
    <3>4. /\ \A b \in Apps : phase'[b] = "closed" <=> phase[b] = "closed"
          /\ \A b \in Apps : call'[b] = call[b] \/ call'[b] = None
      BY <2>2, <3>1
    <3> QED BY <1>0, <1>4, <3>2, <3>3, <3>4, MovesKeepsAnswers
  <2>4. CASE link[a] # "freed"
    BY <1>3, <1>5, <2>1, <2>2, <2>4 DEF ResetDevice
  <2> QED BY <2>3, <2>4
<1>6. ASSUME NEW cmd \in {"flush", "break", "config"}, Command(a, cmd)
      PROVE  AnswersInv'
  <2>1. /\ phase[a] # "closed" /\ UNCHANGED <<phase, down, rbuf, result>>
        /\ Calls(a, <<SentBy(a, cmd, None, <<>>)>>, cmd)
    BY <1>6 DEF Command, Idle
  <2> QED BY <1>3, <2>1
<1>7. CASE SendData(a, 1) \/ SendData(a, 2)
  BY <1>0, <1>7, SendDataKeepsAnswers
<1>8. CASE RecvData(a)
  <2>1. phase[a] # "closed" /\ UNCHANGED <<phase, down, result, rbuf>>
    BY <1>8 DEF RecvData, Idle
  <2>2. CASE UNCHANGED <<up, call, xid, sbuf>>
    <3>1. AllAmong(G)'
      BY <1>4, <2>1, <2>2 DEF AllAmong
    <3>2. DOMAIN call' = Ends /\ DOMAIN result' = Apps /\ CommandsMatch' /\ UNCHANGED xid
      BY <2>1, <2>2 DEF AnswersInv, CommandsMatch
    <3>3. /\ \A b \in Apps : phase'[b] = "closed" <=> phase[b] = "closed"
          /\ \A b \in Apps : call'[b] = call[b] \/ call'[b] = None
      BY <2>1, <2>2
    <3> QED BY <1>0, <1>4, <3>1, <3>2, <3>3, MovesKeepsAnswers
  <2>3. CASE Calls(a, <<>>, "recv")
    <3>1. phase'[a] # "closed" /\ \A b \in Apps \ {a} : phase'[b] = phase[b]
      BY <2>1
    <3> QED BY <1>0, <2>1, <2>3, <3>1, CallKeepsAnswers
  <2> QED BY <1>8, <2>2, <2>3 DEF RecvData
<1>9. CASE GivesUp(a) \/ Close(a)
  <2>1. /\ Leaves(a) /\ UNCHANGED <<up, rbuf>> /\ sbuf' = Set(sbuf, a, <<>>)
        /\ result' = Set(result, a, None)
    BY <1>9 DEF GivesUp, Close, AppLeaves
  <2> QED BY <1>0, <2>1, LeavesKeepsAnswers
<1>10. CASE Receive(a)
  BY <1>0, <1>10, ReceiveKeepsAnswers
<1>11. CASE CallFails(a)
  <2>1. UNCHANGED <<up, down, xid, result, sbuf, rbuf>> /\ call' = [call EXCEPT ![a] = None]
        /\ Proceeds(a, FALSE, <<>>)
    BY <1>11 DEF CallFails, Set, appVars
  <2>2. AllAmong(G)'
    BY <1>4, <2>1 DEF AllAmong
  <2>3. DOMAIN call' = Ends /\ DOMAIN result' = Apps /\ CommandsMatch' /\ UNCHANGED xid
    BY <1>0, <2>1 DEF AnswersInv, CommandsMatch
  <2>4. /\ \A b \in Apps : phase'[b] = "closed" <=> phase[b] = "closed"
        /\ \A b \in Apps : call'[b] = call[b] \/ call'[b] = None
    <3>1. \A b \in Apps : phase'[b] = "closed" <=> phase[b] = "closed"
      BY <1>0, <2>1, ProceedsOpen
    <3> QED BY <1>0, <2>1, <3>1
  <2> QED BY <1>0, <1>4, <2>2, <2>3, <2>4, MovesKeepsAnswers
<1> QED BY <1>1, <1>2, <1>5, <1>6, <1>7, <1>8, <1>9, <1>10, <1>11 DEF AppStep

\* What an exporter sends is its own, or a reply to a call.
LEMMA ExporterKeepsAnswers ==
  ASSUME ProxyTypes, AnswersInv, NEW G, \A p \in G : Own(p),
         NEW N, \A p \in N : Own(p) \/ p.by \notin Apps, AllAmong(G \cup N)',
         UNCHANGED <<call, result>>, \A b \in Apps : phase'[b] = phase[b] /\ xid'[b] = xid[b]
  PROVE  AnswersInv'
<1>1. NumbersGrow
  BY DEF NumbersGrow, ProxyTypes
<1>2. \A p \in N : Own(p)'
  <2>1. ASSUME NEW p \in N, p.by \notin Apps PROVE Own(p)'
    BY <2>1 DEF Own
  <2> QED BY <1>1, <2>1, OwnStays
<1>3. /\ DOMAIN call' = Ends /\ DOMAIN result' = Apps /\ CommandsMatch'
      /\ \A b \in Apps : phase'[b] = "closed" => call'[b] = None
  BY DEF AnswersInv, CommandsMatch
<1> QED BY <1>1, <1>2, <1>3, SendsOwn

\* An exporter sends packet q.
LEMMA ExporterSends ==
  ASSUME RiaAssumption, ProxyTypes, AnswersInv, NEW G, AllAmong(G), \A p \in G : Own(p),
         NEW d \in Devs, NEW q, Own(q) \/ q.by = d, up' = Put(up, d, q),
         down' = [down EXCEPT ![d] = down'[d]] /\ down'[d] \in Seq(G),
         rbuf' = [rbuf EXCEPT ![d] = rbuf'[d]] /\ rbuf'[d] \in Seq(G),
         UNCHANGED <<call, result, sbuf>>, \A b \in Apps : phase'[b] = phase[b] /\ xid'[b] = xid[b]
  PROVE  AnswersInv'
<1>1. PICK N : N = {q}
  OBVIOUS
<1>2. AllAmong(G \cup N) /\ d \in Ends
  BY AmongMore DEF Ends
<1>3. Append(up[d], q) \in Seq(G \cup N) /\ down'[d] \in Seq(G \cup N) /\ rbuf'[d] \in Seq(G \cup N)
  <2>1. up[d] \in Seq(G \cup N) /\ q \in G \cup N
    BY <1>1, <1>2 DEF AllAmong
  <2>2. Seq(G) \subseteq Seq(G \cup N)
    BY SeqMonotonic
  <2> QED BY <2>1, <2>2, AppendProperties
<1>4. AllAmong(G \cup N)'
  <2>1. up' = [up EXCEPT ![d] = Append(up[d], q)]
    BY DEF Put
  <2>2. up' \in [Ends -> Seq(G \cup N)] /\ sbuf' \in [Apps -> Seq(G \cup N)]
    BY <1>2, <1>3, <2>1 DEF AllAmong
  <2>3. down' \in [Ends -> Seq(G \cup N)]
    BY <1>2, <1>3 DEF AllAmong
  <2>4. rbuf' \in [Devs -> Seq(G \cup N)]
    BY <1>2, <1>3 DEF AllAmong
  <2> QED BY <2>2, <2>3, <2>4 DEF AllAmong
<1>5. \A p \in N : Own(p) \/ p.by \notin Apps
  BY <1>1 DEF RiaAssumption
<1> QED BY <1>4, <1>5, ExporterKeepsAnswers

\* What an exporter processes is among the packets on their way.
LEMMA ProcessesKeepsAnswers ==
  ASSUME RiaAssumption, ProxyTypes, AnswersInv, NEW d \in Devs, ExporterProcesses(d)
  PROVE  AnswersInv'
<1>1. PICK G : AllAmong(G) /\ \A p \in G : Own(p)
  BY DEF AnswersInv
<1>2. /\ d \in Ends /\ down[d] # <<>> /\ down[d] \in Seq(G) /\ rbuf[d] \in Seq(G)
      /\ UNCHANGED <<phase, call, xid, result, sbuf>>
  BY <1>1 DEF AllAmong, Ends, ExporterProcesses, appVars
<1> DEFINE p == Head(rbuf[d] \o down[d])
<1>3. p \in G
  <2>1. rbuf[d] \o down[d] \in Seq(G) /\ rbuf[d] \o down[d] # <<>>
    BY <1>2, ConcatProperties, ConcatEqualIffEmpty
  <2> QED BY <2>1, HeadTailProperties
<1>4. /\ down' = [down EXCEPT ![d] = down'[d]] /\ down'[d] \in Seq(G)
      /\ rbuf' = [rbuf EXCEPT ![d] = rbuf'[d]] /\ rbuf'[d] \in Seq(G)
  <2>1. down \in [Ends -> Seq(G)] /\ rbuf \in [Devs -> Seq(G)]
    BY <1>1 DEF AllAmong
  <2>2. CASE rbuf[d] # <<>>
    <3>1. rbuf' = [rbuf EXCEPT ![d] = Tail(rbuf[d])] /\ down' = down
      BY <2>2 DEF ExporterProcesses, Set
    <3>2. Tail(rbuf[d]) \in Seq(G)
      BY <1>2, <2>2, HeadTailProperties
    <3>3. down' = [down EXCEPT ![d] = down'[d]] /\ down'[d] \in Seq(G)
      BY <1>2, <2>1, <3>1
    <3>4. rbuf' = [rbuf EXCEPT ![d] = rbuf'[d]] /\ rbuf'[d] \in Seq(G)
      BY <2>1, <3>1, <3>2
    <3> QED BY <3>3, <3>4
  <2>3. CASE rbuf[d] = <<>>
    <3>1. down' = [down EXCEPT ![d] = Tail(down[d])] /\ rbuf' = rbuf
      BY <2>3 DEF ExporterProcesses, Set
    <3>2. Tail(down[d]) \in Seq(G)
      BY <1>2, HeadTailProperties
    <3>3. rbuf' = [rbuf EXCEPT ![d] = rbuf'[d]] /\ rbuf'[d] \in Seq(G)
      BY <1>2, <2>1, <3>1
    <3>4. down' = [down EXCEPT ![d] = down'[d]] /\ down'[d] \in Seq(G)
      BY <1>2, <2>1, <3>1, <3>2
    <3> QED BY <3>3, <3>4
  <2> QED BY <2>2, <2>3
<1>5. CASE up' = up
  <2>1. AllAmong(G)'
    <3>1. down' \in [Ends -> Seq(G)] /\ rbuf' \in [Devs -> Seq(G)]
      BY <1>1, <1>4 DEF AllAmong
    <3> QED BY <1>1, <1>2, <1>5, <3>1 DEF AllAmong
  <2>2. DOMAIN call' = Ends /\ DOMAIN result' = Apps /\ CommandsMatch' /\ UNCHANGED xid
    BY <1>2 DEF AnswersInv, CommandsMatch
  <2>3. /\ \A b \in Apps : phase'[b] = "closed" <=> phase[b] = "closed"
        /\ \A b \in Apps : call'[b] = call[b] \/ call'[b] = None
    BY <1>2
  <2> QED BY <1>1, <2>1, <2>2, <2>3, MovesKeepsAnswers
<1>6. ASSUME NEW rc, NEW body, up' = Put(up, d, Reply(p, rc, body))
      PROVE  AnswersInv'
  <2>1. PICK q : q = Reply(p, rc, body)
    OBVIOUS
  <2>2. q.by = p.by /\ q.xid = p.xid /\ q.cmd = p.cmd
    <3> HIDE DEF p
    <3> QED BY <2>1 DEF Reply
  <2>3. Own(q)
    BY <1>1, <1>3, <2>2 DEF Own
  <2>4. up' = Put(up, d, q) /\ UNCHANGED <<call, result, sbuf>>
        /\ \A b \in Apps : phase'[b] = phase[b] /\ xid'[b] = xid[b]
    BY <1>2, <1>6, <2>1
  <2> QED BY <1>1, <1>4, <2>3, <2>4, ExporterSends
<1>7. up' = up \/ \E rc, body : up' = Put(up, d, Reply(p, rc, body))
  BY DEF ExporterProcesses
<1> QED BY <1>5, <1>6, <1>7

LEMMA DevStepKeepsAnswers ==
  ASSUME RiaAssumption, ProxyTypes, AnswersInv, NEW d \in Devs, DevStep(d)
  PROVE  AnswersInv'
<1>0. /\ d \in Ends /\ d \notin Apps /\ DOMAIN phase = Ends /\ DOMAIN xid = Ends
      /\ \A b \in Apps : b \in Ends /\ b # d
  BY DEF RiaAssumption, ProxyTypes, Ends
<1>1. PICK G : AllAmong(G) /\ \A p \in G : Own(p)
  BY DEF AnswersInv
<1>2. /\ down \in [Ends -> Seq(G)] /\ rbuf \in [Devs -> Seq(G)] /\ <<>> \in Seq(G)
      /\ down[d] \in Seq(G) /\ rbuf[d] \in Seq(G)
  BY <1>0, <1>1 DEF AllAmong
<1>3. ASSUME NEW q, q.by = d, up' = Put(up, d, q), UNCHANGED <<down, rbuf, call, result, sbuf>>,
             \A b \in Apps : phase'[b] = phase[b] /\ xid'[b] = xid[b]
      PROVE  AnswersInv'
  <2>1. /\ down' = [down EXCEPT ![d] = down'[d]] /\ down'[d] \in Seq(G)
        /\ rbuf' = [rbuf EXCEPT ![d] = rbuf'[d]] /\ rbuf'[d] \in Seq(G)
    BY <1>2, <1>3
  <2> QED BY <1>1, <1>3, <2>1, ExporterSends
<1>4. ASSUME UNCHANGED <<up, phase, call, xid, result, sbuf>>, AllAmong(G)'
      PROVE  AnswersInv'
  <2>1. DOMAIN call' = Ends /\ DOMAIN result' = Apps /\ CommandsMatch'
    BY <1>4 DEF AnswersInv, CommandsMatch
  <2>2. /\ \A b \in Apps : phase'[b] = "closed" <=> phase[b] = "closed"
        /\ \A b \in Apps : call'[b] = call[b] \/ call'[b] = None
    BY <1>4
  <2> QED BY <1>1, <1>4, <2>1, <2>2, MovesKeepsAnswers
<1>5. CASE Export(d)
  <2>1. PICK q : q = SentBy(d, "register", None, <<>>)
    OBVIOUS
  <2>2. q.by = d
    BY <2>1 DEF SentBy, Packet
  <2>3. /\ up' = Put(up, d, q) /\ UNCHANGED <<down, rbuf, call, result, sbuf>>
        /\ phase' = [phase EXCEPT ![d] = "register"] /\ xid' = [xid EXCEPT ![d] = 1]
    BY <1>5, <2>1 DEF Export, appVars, Set
  <2>4. \A b \in Apps : phase'[b] = phase[b] /\ xid'[b] = xid[b]
    BY <1>0, <2>3
  <2> QED BY <1>3, <2>2, <2>3, <2>4
<1>6. CASE Registered(d)
  <2>1. /\ down[d] # <<>> /\ UNCHANGED <<up, call, xid, result, sbuf>>
        /\ phase' = [phase EXCEPT ![d] = "loop"]
        /\ rbuf' = [rbuf EXCEPT ![d] = Tail(down[d])] /\ down' = [down EXCEPT ![d] = <<>>]
    BY <1>6 DEF Registered, appVars, Set
  <2>2. \A b \in Apps : phase'[b] = phase[b] /\ xid'[b] = xid[b]
    BY <1>0, <2>1
  <2>3. Tail(down[d]) \in Seq(G)
    BY <1>2, <2>1, HeadTailProperties
  <2>4. AllAmong(G)'
    BY <1>1, <1>2, <2>1, <2>3 DEF AllAmong
  <2>5. DOMAIN call' = Ends /\ DOMAIN result' = Apps /\ CommandsMatch' /\ UNCHANGED xid
    BY <2>1 DEF AnswersInv, CommandsMatch
  <2>6. /\ \A b \in Apps : phase'[b] = "closed" <=> phase[b] = "closed"
        /\ \A b \in Apps : call'[b] = call[b] \/ call'[b] = None
    BY <2>1, <2>2
  <2> QED BY <1>1, <2>4, <2>5, <2>6, MovesKeepsAnswers
<1>7. CASE ExporterProcesses(d)
  BY <1>7, ProcessesKeepsAnswers
<1>8. CASE LineToProxy(d)
  <2>1. PICK body : up' = Put(up, d, SentBy(d, "data", None, body))
    BY <1>8 DEF LineToProxy
  <2>2. PICK q : q = SentBy(d, "data", None, body)
    OBVIOUS
  <2>3. q.by = d
    BY <2>2 DEF SentBy, Packet
  <2>4. UNCHANGED <<down, rbuf, phase, call, result, sbuf>> /\ xid' = [xid EXCEPT ![d] = xid[d] + 1]
    BY <1>8 DEF LineToProxy, appVars, Set
  <2>5. \A b \in Apps : phase'[b] = phase[b] /\ xid'[b] = xid[b]
    BY <1>0, <2>4
  <2> QED BY <1>3, <2>1, <2>2, <2>3, <2>4, <2>5
<1>9. CASE DataToLine(d) \/ DeviceSends(d)
  <2>1. UNCHANGED <<up, down, phase, call, xid, result, sbuf, rbuf>>
    BY <1>9 DEF DataToLine, DeviceSends, appVars
  <2>2. AllAmong(G)'
    BY <1>1, <2>1 DEF AllAmong
  <2> QED BY <1>4, <2>1, <2>2
<1>10. CASE ExporterExits(d)
  <2>1. Leaves(d) /\ UNCHANGED <<up, sbuf, result>> /\ rbuf' = Set(rbuf, d, <<>>)
    BY <1>10 DEF ExporterExits, appVars
  <2> QED BY <1>0, <2>1, LeavesKeepsAnswers
<1> QED BY <1>5, <1>6, <1>7, <1>8, <1>9, <1>10 DEF DevStep

\* Every step keeps the packets' owners right.
LEMMA AnswersInvNext ==
  ASSUME RiaAssumption, RiaInv, AnswersInv, [Next]_vars
  PROVE  AnswersInv'
<1>1. CASE Next
  BY <1>1, ProxyStepKeepsAnswers, AppStepKeepsAnswers, DevStepKeepsAnswers DEF Next, RiaInv
<1>2. CASE UNCHANGED vars
  <2>1. UNCHANGED endVars /\ UNCHANGED <<up, down>> /\ ProxyTypes
    BY <1>2 DEF vars, RiaInv
  <2>2. PICK G : AllAmong(G) /\ \A p \in G : Own(p)
    BY DEF AnswersInv
  <2>3. PICK N : N = {}
    OBVIOUS
  <2>4. up' \in [Ends -> Seq(G \cup N)] /\ down' \in [Ends -> Seq(G \cup N)]
    BY <2>1, <2>2, <2>3 DEF AllAmong
  <2> QED BY <2>1, <2>2, <2>3, <2>4, ProxyKeepsAnswers
<1> QED BY <1>1, <1>2

LEMMA AnswersInvInit ==
  ASSUME Init
  PROVE  AnswersInv
<1>1. AllAmong({})
  BY EmptySeq DEF Init, AllAmong
<1>2. DOMAIN call = Ends /\ DOMAIN result = Apps /\ CommandsMatch
      /\ \A a \in Apps : phase[a] = "closed" => call[a] = None
  BY DEF Init, CommandsMatch, Ends
<1> QED BY <1>1, <1>2 DEF AnswersInv

-------------------------------------------------------------------------------
(* Whose turn it is.                                                         *)

\* Sequence t is s with some elements left out: place i of t was place f[i] of s.
Within(t, s) ==
  \E f \in [1 .. Len(t) -> 1 .. Len(s)] :
    /\ \A i \in 1 .. Len(t) : t[i] = s[f[i]]
    /\ \A i, j \in 1 .. Len(t) : i < j => f[i] < f[j]

LEMMA WithinSame ==
  ASSUME NEW S, NEW s \in Seq(S)
  PROVE  Within(s, s)
<1>1. PICK f : f = [i \in 1 .. Len(s) |-> i]
  OBVIOUS
<1>2. f \in [1 .. Len(s) -> 1 .. Len(s)] /\ \A i \in 1 .. Len(s) : f[i] = i
  BY <1>1
<1> QED BY <1>2 DEF Within

\* A segment v that goes leaves the rest in order.
LEMMA WithinCut ==
  ASSUME NEW S, NEW u \in Seq(S), NEW v \in Seq(S), NEW w \in Seq(S)
  PROVE  Within(u \o w, u \o v \o w)
<1>1. PICK t : t = u \o w
  OBVIOUS
<1>2. PICK x : x = u \o v
  OBVIOUS
<1>3. PICK s : s = x \o w
  OBVIOUS
<1>4. PICK m, n, k : m = Len(u) /\ n = Len(v) /\ k = Len(w)
  OBVIOUS
<1>5. /\ m \in Nat /\ n \in Nat /\ k \in Nat /\ x \in Seq(S) /\ Len(x) = m + n
      /\ \A i \in 1 .. m + n : x[i] = IF i <= m THEN u[i] ELSE v[i - m]
  <2>1. k \in Nat
    BY <1>4, LenProperties
  <2> QED BY <1>2, <1>4, <2>1, TwoParts
<1>6. /\ Len(t) = m + k
      /\ \A i \in 1 .. m + k : t[i] = IF i <= m THEN u[i] ELSE w[i - m]
  BY <1>1, <1>4, TwoParts
<1>7. /\ Len(s) = m + n + k
      /\ \A i \in 1 .. m + n + k : s[i] = IF i <= m + n THEN x[i] ELSE w[i - (m + n)]
  <2>1. x \in Seq(S)
    BY <1>5
  <2>2. /\ Len(x \o w) = Len(x) + Len(w)
        /\ \A i \in 1 .. Len(x) + Len(w) :
             (x \o w)[i] = IF i <= Len(x) THEN x[i] ELSE w[i - Len(x)]
    BY <2>1, TwoParts
  <2> QED BY <1>3, <1>4, <1>5, <2>2
<1>8. PICK f : f = [i \in 1 .. m + k |-> IF i <= m THEN i ELSE i + n]
  OBVIOUS
<1>9. ASSUME NEW i \in 1 .. m + k
      PROVE  f[i] \in 1 .. m + n + k /\ t[i] = s[f[i]]
  <2>1. CASE i <= m
    <3>1. f[i] = i /\ i \in 1 .. m + n /\ i \in 1 .. m + n + k
      BY <1>5, <1>8, <2>1
    <3> QED BY <1>5, <1>6, <1>7, <2>1, <3>1
  <2>2. CASE ~(i <= m)
    <3>1. f[i] = i + n /\ i + n \in 1 .. m + n + k /\ ~(i + n <= m + n) /\ i + n - (m + n) = i - m
      BY <1>5, <1>8, <2>2
    <3>2. PICK j : j = i + n
      OBVIOUS
    <3>3. j \in 1 .. m + n + k /\ ~(j <= m + n) /\ f[i] = j
      BY <3>1, <3>2, Zenon
    <3>6. j - (m + n) = i - m
      BY <1>5, <3>2
    <3>4. s[j] = w[j - (m + n)]
      BY <1>7, <3>3
    <3>5. s[f[i]] = w[i - m]
      BY <3>3, <3>4, <3>6
    <3> QED BY <1>6, <2>2, <3>1, <3>5
  <2> QED BY <2>1, <2>2
<1>10. f \in [1 .. m + k -> 1 .. m + n + k]
  <2>1. \A i \in 1 .. m + k : (IF i <= m THEN i ELSE i + n) \in 1 .. m + n + k
    BY <1>5
  <2> QED BY <1>8, <2>1
<1>11. \A i, j \in 1 .. m + k : i < j => f[i] < f[j]
  BY <1>5, <1>8
<1> QED BY <1>1, <1>2, <1>3, <1>6, <1>7, <1>9, <1>10, <1>11 DEF Within

LEMMA WithinTail ==
  ASSUME NEW S, NEW s \in Seq(S), s # <<>>
  PROVE  Within(Tail(s), s)
<1>1. <<Head(s)>> \in Seq(S) /\ Tail(s) \in Seq(S) /\ <<>> \in Seq(S)
  BY HeadTailProperties
<1>2. s = <<>> \o <<Head(s)>> \o Tail(s) /\ Tail(s) = <<>> \o Tail(s)
  BY <1>1
<1> QED BY <1>1, <1>2, WithinCut

LEMMA WithinPrefix ==
  ASSUME NEW S, NEW s \in Seq(S), NEW n \in 0 .. Len(s)
  PROVE  Within(SubSeq(s, 1, n), s) /\ SubSeq(s, 1, n) \in Seq(S)
<1>1. PICK t : t = SubSeq(s, 1, n)
  OBVIOUS
<1>2. t \in Seq(S) /\ Len(t) = n /\ \A i \in 1 .. n : t[i] = s[i]
  BY <1>1
<1>3. PICK f : f = [i \in 1 .. n |-> i]
  OBVIOUS
<1>4. f \in [1 .. n -> 1 .. Len(s)] /\ \A i \in 1 .. n : f[i] = i
  BY <1>3
<1> QED BY <1>1, <1>2, <1>4 DEF Within

\* An element behind the others.
LEMMA OneMore ==
  ASSUME NEW S, NEW s \in Seq(S), NEW e \in S
  PROVE  /\ Append(s, e) \in Seq(S) /\ Len(Append(s, e)) = Len(s) + 1 /\ Len(s) \in Nat
         /\ \A i \in 1 .. Len(s) : Append(s, e)[i] = s[i]
         /\ Append(s, e)[Len(s) + 1] = e
  BY AppendProperties, LenProperties

-------------------------------------------------------------------------------
(* Calls and data of an application, from its buffer to the serial line.  The *)
(* numbers of what it sends only grow; what has come to a device has a number *)
(* no greater than what it still sends (Covered).  Between what has come from *)
(* two clients of a device nothing comes from the first, because it has left. *)

Marks == [by : Apps \cup {None}, n : Nat]

\* What application a sends: a packet with data has one chunk of its own.
Mine(a) ==
  {p \in AppPackets : /\ p.by = a
                      /\ p.cmd = "data" => \E n \in Nat : p.body = <<[by |-> a, n |-> n]>>}

\* What comes to a device: a reply, a call, or a packet with one chunk.
Arrives(p) ==
  /\ Entry(p) \in Marks
  /\ ~p.dest /\ p.cmd = "data" => p.body = <<Entry(p)>> /\ Entry(p) \in Chunks

AllArrive(H) == \A p \in H : Arrives(p)

AllMarked(S) == \A p \in S : Entry(p) \in Marks

\* What an application has sent and the proxy has not read, the oldest first.
Yet(a) == Entries(up[a] \o sbuf[a])

\* An application that has not claimed a device.
Fresh(a) == link[a] = "none" \/ ~NoClaims(up[a])

\* The number n is none that application a has yet to send.
Covered(n, a) ==
  /\ \A i \in 1 .. Len(Yet(a)) : n <= Yet(a)[i].n
  /\ phase[a] # "closed" => n <= xid[a]

SentOrder(a) ==
  /\ up[a] \in Seq(Mine(a)) /\ sbuf[a] \in Seq(Mine(a))
  /\ \A i, j \in 1 .. Len(Yet(a)) : i <= j => Yet(a)[i].n <= Yet(a)[j].n
  /\ phase[a] # "closed" => \A i \in 1 .. Len(Yet(a)) : Yet(a)[i].n <= xid[a]

\* What a device gets of an application is in order, and by no other's.
InTurn(s) ==
  \A i, j \in 1 .. Len(s) : i < j /\ s[i].by = s[j].by /\ s[i].by # None =>
    /\ s[i].n <= s[j].n
    /\ \A k \in i .. j : s[k].by \in {s[i].by, None}

Before(s) ==
  \A i \in 1 .. Len(s) : s[i].by # None => ~Fresh(s[i].by) /\ Covered(s[i].n, s[i].by)

\* Since application a has claimed the device, nobody else has sent it anything.
Latest(s, a) ==
  \A i, j \in 1 .. Len(s) : i < j /\ s[i].by = a => s[j].by \in {a, None}

TurnTypes ==
  /\ written \in [Devs -> Seq(Chunks)]
  /\ DOMAIN data = Ends /\ \A d \in Devs : data[d] \in Seq(Chunks)
  /\ \E H : /\ \A d \in Devs : rbuf[d] \in Seq(H) /\ down[d] \in Seq(H)
            /\ AllArrive(H)

TurnInv ==
  /\ TurnTypes
  /\ \A a \in Apps : SentOrder(a)
  /\ \A d \in Devs : /\ InTurn(Coming(d)) /\ Before(Coming(d))
                     /\ peer[d] # None => Latest(Coming(d), peer[d])

LEMMA InTurnWithin ==
  ASSUME NEW s \in Seq(Marks), NEW t \in Seq(Marks), Within(t, s), InTurn(s)
  PROVE  InTurn(t)
<1>1. PICK f \in [1 .. Len(t) -> 1 .. Len(s)] :
        /\ \A i \in 1 .. Len(t) : t[i] = s[f[i]]
        /\ \A i, j \in 1 .. Len(t) : i < j => f[i] < f[j]
  BY DEF Within
<1>2. ASSUME NEW i \in 1 .. Len(t), NEW j \in 1 .. Len(t), i < j,
             t[i].by = t[j].by, t[i].by # None
      PROVE  /\ t[i].n <= t[j].n
             /\ \A k \in i .. j : t[k].by \in {t[i].by, None}
  <2>1. PICK x \in 1 .. Len(s), y \in 1 .. Len(s) :
          x = f[i] /\ y = f[j] /\ x < y /\ t[i] = s[x] /\ t[j] = s[y]
    BY <1>1, <1>2
  <2>2. s[x].n <= s[y].n /\ \A k \in x .. y : s[k].by \in {s[x].by, None}
    BY <1>2, <2>1 DEF InTurn
  <2>3. ASSUME NEW k \in i .. j
        PROVE  t[k].by \in {t[i].by, None}
    <3>1. k \in 1 .. Len(t) /\ (i = k \/ i < k) /\ (k = j \/ k < j)
      BY LenProperties
    <3>2. t[k] = s[f[k]] /\ f[k] \in 1 .. Len(s) /\ (x = f[k] \/ x < f[k]) /\ (f[k] = y \/ f[k] < y)
      BY <1>1, <2>1, <3>1
    <3>3. f[k] \in x .. y
      BY <3>2
    <3> QED BY <2>1, <2>2, <3>2, <3>3
  <2> QED BY <2>1, <2>2, <2>3
<1> QED BY <1>2 DEF InTurn

LEMMA LatestWithin ==
  ASSUME NEW s \in Seq(Marks), NEW t \in Seq(Marks), Within(t, s), NEW a, Latest(s, a)
  PROVE  Latest(t, a)
  BY DEF Latest, Within

\* What comes behind is no other's than the latest one's, and not older.
LEMMA InTurnMore ==
  ASSUME NEW s \in Seq(Marks), NEW e \in Marks, InTurn(s),
         e.by # None => /\ Latest(s, e.by)
                        /\ \A i \in 1 .. Len(s) : s[i].by = e.by => s[i].n <= e.n
  PROVE  InTurn(Append(s, e))
<1>1. PICK t, m : t = Append(s, e) /\ m = Len(s)
  OBVIOUS
<1>2. /\ Len(t) = m + 1 /\ m \in Nat /\ t[m + 1] = e
      /\ \A i \in 1 .. m : t[i] = s[i]
  BY <1>1, OneMore
<1>3. ASSUME NEW i \in 1 .. m + 1, NEW j \in 1 .. m + 1, i < j,
             t[i].by = t[j].by, t[i].by # None
      PROVE  /\ t[i].n <= t[j].n
             /\ \A k \in i .. j : t[k].by \in {t[i].by, None}
  <2>1. i \in 1 .. m /\ t[i] = s[i]
    BY <1>2, <1>3
  <2>2. CASE j \in 1 .. m
    <3>1. s[i].n <= s[j].n /\ \A k \in i .. j : s[k].by \in {s[i].by, None}
      BY <1>1, <1>2, <1>3, <2>1, <2>2 DEF InTurn
    <3>2. \A k \in i .. j : k \in 1 .. m
      BY <1>2, <2>2
    <3> QED BY <1>2, <2>1, <2>2, <3>1, <3>2
  <2>3. CASE j = m + 1
    <3>1. t[j] = e
      BY <1>2, <2>3
    <3>2. ASSUME NEW k \in i .. j
          PROVE  t[k].by \in {t[i].by, None}
      <4>1. k = i \/ k = m + 1 \/ (k \in 1 .. m /\ i < k)
        BY <1>2, <2>3
      <4>2. CASE k \in 1 .. m /\ i < k
        BY <1>1, <1>2, <1>3, <2>1, <3>1, <4>2 DEF Latest
      <4> QED BY <1>2, <1>3, <3>1, <4>1, <4>2
    <3>3. s[i].n <= e.n
      BY <1>1, <1>3, <2>1, <3>1
    <3> QED BY <2>1, <3>1, <3>2, <3>3
  <2> QED BY <1>2, <2>2, <2>3
<1> QED BY <1>1, <1>2, <1>3 DEF InTurn

LEMMA LatestMore ==
  ASSUME NEW s \in Seq(Marks), NEW e \in Marks, NEW a, Latest(s, a), e.by \in {a, None}
  PROVE  Latest(Append(s, e), a)
<1>1. PICK t, m : t = Append(s, e) /\ m = Len(s)
  OBVIOUS
<1>2. /\ Len(t) = m + 1 /\ m \in Nat /\ t[m + 1] = e
      /\ \A i \in 1 .. m : t[i] = s[i]
  BY <1>1, OneMore
<1>3. ASSUME NEW i \in 1 .. m + 1, NEW j \in 1 .. m + 1, i < j, t[i].by = a
      PROVE  t[j].by \in {a, None}
  <2>1. i \in 1 .. m /\ t[i] = s[i]
    BY <1>2, <1>3
  <2>2. CASE j \in 1 .. m
    BY <1>1, <1>2, <1>3, <2>1, <2>2 DEF Latest
  <2>3. CASE j = m + 1
    BY <1>2, <2>3
  <2> QED BY <1>2, <2>2, <2>3
<1> QED BY <1>1, <1>2, <1>3 DEF Latest

LEMMA EntriesAre ==
  ASSUME NEW S, NEW s \in Seq(S)
  PROVE  /\ Len(Entries(s)) = Len(s) /\ Len(s) \in Nat
         /\ \A i \in 1 .. Len(s) : Entries(s)[i] = Entry(s[i]) /\ s[i] \in S
         /\ AllMarked(S) => Entries(s) \in Seq(Marks)
<1>1. PICK n : n = Len(s)
  OBVIOUS
<1>2. n \in Nat /\ \A i \in 1 .. n : s[i] \in S
  BY <1>1, LenProperties, ElementOfSeq
<1>3. PICK e : e = [i \in 1 .. n |-> Entry(s[i])]
  OBVIOUS
<1>4. Entries(s) = e
  BY <1>1, <1>3 DEF Entries
<1>5. \A i \in 1 .. n : e[i] = Entry(s[i])
  BY <1>3
<1>6. DOMAIN e = 1 .. n /\ e \in [1 .. n -> {Entry(s[i]) : i \in 1 .. n}]
  BY <1>3
<1>7. Len(e) = n
  BY <1>2, <1>6
<1>8. ASSUME AllMarked(S)
      PROVE  e \in Seq(Marks)
  <2>1. e \in [1 .. n -> Marks]
    BY <1>2, <1>3, <1>8 DEF AllMarked
  <2> QED BY <1>2, <2>1
<1> QED BY <1>1, <1>2, <1>4, <1>5, <1>7, <1>8

LEMMA EntriesJoin ==
  ASSUME NEW S, AllMarked(S), NEW s \in Seq(S), NEW t \in Seq(S)
  PROVE  /\ Entries(s \o t) = Entries(s) \o Entries(t)
         /\ Entries(s) \in Seq(Marks) /\ Entries(t) \in Seq(Marks)
<1>1. Entries(s) \in Seq(Marks) /\ Entries(t) \in Seq(Marks)
  BY EntriesAre
<1>2. PICK u, m, n : u = s \o t /\ m = Len(s) /\ n = Len(t)
  OBVIOUS
<1>3. /\ u \in Seq(S) /\ Len(u) = m + n /\ m \in Nat /\ n \in Nat
      /\ \A i \in 1 .. m + n : u[i] = IF i <= m THEN s[i] ELSE t[i - m]
  BY <1>2, TwoParts
<1>4. PICK x, y, z : x = Entries(u) /\ y = Entries(s) /\ z = Entries(t)
  OBVIOUS
<1>5. /\ x \in Seq(Marks) /\ Len(x) = m + n /\ \A i \in 1 .. m + n : x[i] = Entry(u[i])
  BY <1>3, <1>4, EntriesAre
<1>6. /\ y \in Seq(Marks) /\ Len(y) = m /\ \A i \in 1 .. m : y[i] = Entry(s[i])
  BY <1>2, <1>4, EntriesAre
<1>7. /\ z \in Seq(Marks) /\ Len(z) = n /\ \A i \in 1 .. n : z[i] = Entry(t[i])
  BY <1>2, <1>4, EntriesAre
<1>8. PICK w : w = y \o z
  OBVIOUS
<1>9. /\ w \in Seq(Marks) /\ Len(w) = m + n
      /\ \A i \in 1 .. m + n : w[i] = IF i <= m THEN y[i] ELSE z[i - m]
  BY <1>6, <1>7, <1>8, TwoParts
<1>10. ASSUME NEW i \in 1 .. m + n
       PROVE  x[i] = w[i]
  <2>1. CASE i <= m
    <3>1. i \in 1 .. m
      BY <1>3, <2>1
    <3> QED BY <1>3, <1>5, <1>6, <1>9, <2>1, <3>1
  <2>2. CASE ~(i <= m)
    <3>1. i - m \in 1 .. n
      BY <1>3, <2>2
    <3>2. x[i] = Entry(t[i - m])
      BY <1>3, <1>5, <2>2
    <3>3. w[i] = z[i - m]
      BY <1>9, <2>2
    <3> QED BY <1>7, <3>1, <3>2, <3>3
  <2> QED BY <2>1, <2>2
<1>11. x = w
  BY <1>5, <1>9, <1>10, SeqEqual
<1> QED BY <1>1, <1>2, <1>4, <1>8, <1>11

LEMMA EntriesOne ==
  ASSUME NEW p
  PROVE  Entries(<<p>>) = <<Entry(p)>>
  BY DEF Entries

LEMMA EntriesNone == Entries(<<>>) = <<>>
  BY DEF Entries

\* What an application sends comes to a device as its own.
LEMMA MineArrives ==
  ASSUME NEW a \in Apps, a # None, NEW p \in Mine(a)
  PROVE  Entry(p) \in Marks /\ Entry(p).by = a /\ Entry(p).by # None /\ Arrives(p) /\ ~p.dest
<1>1. p.dest = FALSE /\ p.by = a /\ p.xid \in Nat
  BY DEF Mine, AppPackets
<1>2. CASE p.cmd = "data"
  <2>1. PICK n \in Nat : p.body = <<[by |-> a, n |-> n]>>
    BY <1>2 DEF Mine
  <2>2. PICK c : c = [by |-> a, n |-> n]
    OBVIOUS
  <2>3. c \in Chunks /\ c \in Marks /\ c.by = a
    BY <2>2 DEF Chunks, Marks
  <2>4. Entry(p) = c /\ p.body = <<c>>
    <3>1. p.body = <<c>>
      BY <2>1, <2>2
    <3> QED BY <1>1, <1>2, <3>1 DEF Entry
  <2> QED BY <1>1, <2>3, <2>4 DEF Arrives
<1>3. CASE p.cmd # "data"
  <2>1. Entry(p) = [by |-> a, n |-> p.xid]
    BY <1>1, <1>3 DEF Entry
  <2>2. Entry(p) \in Marks /\ Entry(p).by = a
    BY <1>1, <2>1 DEF Marks
  <2> QED BY <1>1, <1>3, <2>2 DEF Arrives
<1> QED BY <1>2, <1>3

\* What an application has yet to send bears its name.
LEMMA YetIs ==
  ASSUME RiaAssumption, NEW a \in Apps, SentOrder(a)
  PROVE  /\ Yet(a) = Entries(up[a]) \o Entries(sbuf[a])
         /\ Entries(up[a]) \in Seq(Marks) /\ Entries(sbuf[a]) \in Seq(Marks)
         /\ Yet(a) \in Seq(Marks)
<1>1. a # None
  BY DEF RiaAssumption
<1>2. AllMarked(Mine(a))
  BY <1>1, MineArrives DEF AllMarked
<1>3. up[a] \in Seq(Mine(a)) /\ sbuf[a] \in Seq(Mine(a))
  BY DEF SentOrder
<1>4. /\ Entries(up[a] \o sbuf[a]) = Entries(up[a]) \o Entries(sbuf[a])
      /\ Entries(up[a]) \in Seq(Marks) /\ Entries(sbuf[a]) \in Seq(Marks)
  BY <1>2, <1>3, EntriesJoin
<1> QED BY <1>4, ConcatProperties DEF Yet

\* An application that sends nothing more, or loses some of what it has sent.
LEMMA YetShrinks ==
  ASSUME NEW a \in Apps, SentOrder(a),
         up'[a] \in Seq(Mine(a)), sbuf'[a] \in Seq(Mine(a)), Within(Yet(a)', Yet(a)),
         phase'[a] # "closed" => phase[a] # "closed" /\ xid'[a] = xid[a]
  PROVE  SentOrder(a)' /\ \A n \in Nat : Covered(n, a) => Covered(n, a)'
<1>1. PICK y, z : y = Yet(a) /\ z = Yet(a)'
  OBVIOUS
<1>2. PICK f \in [1 .. Len(z) -> 1 .. Len(y)] :
        /\ \A i \in 1 .. Len(z) : z[i] = y[f[i]]
        /\ \A i, j \in 1 .. Len(z) : i < j => f[i] < f[j]
  BY <1>1 DEF Within
<1>3. ASSUME NEW i \in 1 .. Len(z), NEW j \in 1 .. Len(z), i <= j
      PROVE  z[i].n <= z[j].n
  <2>1. f[i] <= f[j] /\ f[i] \in 1 .. Len(y) /\ f[j] \in 1 .. Len(y)
    <3>1. i = j \/ i < j
      BY <1>3
    <3> QED BY <1>2, <3>1
  <2> QED BY <1>1, <1>2, <2>1 DEF SentOrder
<1>4. phase'[a] # "closed" => \A i \in 1 .. Len(z) : z[i].n <= xid'[a]
  BY <1>1, <1>2 DEF SentOrder
<1>5. ASSUME NEW n \in Nat, Covered(n, a)
      PROVE  Covered(n, a)'
  <2>1. \A i \in 1 .. Len(z) : n <= z[i].n
    BY <1>1, <1>2, <1>5 DEF Covered
  <2> QED BY <1>1, <1>5, <2>1 DEF Covered
<1> QED BY <1>1, <1>3, <1>4, <1>5 DEF SentOrder

\* An application that sends, under numbers it has not given out.
LEMMA YetGrows ==
  ASSUME NEW a \in Apps, SentOrder(a), NEW y \in Seq(Marks), y = Yet(a), phase[a] # "closed",
         up'[a] \in Seq(Mine(a)), sbuf'[a] \in Seq(Mine(a)),
         NEW m \in Seq(Marks), Yet(a)' = y \o m,
         xid[a] \in Nat, xid'[a] \in Nat, xid[a] <= xid'[a],
         \A i \in 1 .. Len(m) : xid[a] <= m[i].n /\ m[i].n <= xid'[a],
         \A i, j \in 1 .. Len(m) : i <= j => m[i].n <= m[j].n
  PROVE  SentOrder(a)' /\ \A n \in Nat : Covered(n, a) => Covered(n, a)'
<1>1. PICK z, k, l : z = y \o m /\ k = Len(y) /\ l = Len(m)
  OBVIOUS
<1>2. /\ Len(z) = k + l /\ k \in Nat /\ l \in Nat
      /\ \A i \in 1 .. k + l : z[i] = IF i <= k THEN y[i] ELSE m[i - k]
  BY <1>1, TwoParts
<1>3. /\ \A i \in 1 .. k : y[i].n \in Nat /\ y[i].n <= xid[a]
      /\ \A i \in 1 .. l : m[i].n \in Nat
  <2>1. \A i \in 1 .. k : y[i] \in Marks
    BY <1>1, ElementOfSeq
  <2>2. \A i \in 1 .. l : m[i] \in Marks
    BY <1>1, ElementOfSeq
  <2>3. \A i \in 1 .. k : y[i].n <= xid[a]
    BY <1>1 DEF SentOrder
  <2> QED BY <2>1, <2>2, <2>3 DEF Marks
<1>4. \A i \in 1 .. k + l : \/ i \in 1 .. k /\ z[i] = y[i]
                            \/ i - k \in 1 .. l /\ ~(i <= k) /\ z[i] = m[i - k]
  BY <1>2
<1>5. ASSUME NEW i \in 1 .. k + l, NEW j \in 1 .. k + l, i <= j
      PROVE  z[i].n <= z[j].n
  <2>1. CASE i \in 1 .. k /\ j \in 1 .. k /\ z[i] = y[i] /\ z[j] = y[j]
    BY <1>1, <1>5, <2>1 DEF SentOrder
  <2>2. CASE i \in 1 .. k /\ z[i] = y[i] /\ j - k \in 1 .. l /\ z[j] = m[j - k]
    <3>1. y[i].n <= xid[a] /\ xid[a] <= m[j - k].n /\ y[i].n \in Nat /\ m[j - k].n \in Nat
      BY <1>1, <1>3, <2>2
    <3> QED BY <2>2, <3>1
  <2>3. CASE i - k \in 1 .. l /\ z[i] = m[i - k] /\ j - k \in 1 .. l /\ z[j] = m[j - k]
    <3>1. i - k <= j - k
      BY <1>2, <1>5
    <3> QED BY <1>1, <2>3, <3>1
  <2>4. ~(i - k \in 1 .. l /\ ~(i <= k) /\ j \in 1 .. k)
    BY <1>2, <1>5
  <2> QED BY <1>4, <2>1, <2>2, <2>3, <2>4
<1>6. ASSUME NEW i \in 1 .. k + l
      PROVE  z[i].n <= xid'[a]
  <2>1. CASE i \in 1 .. k /\ z[i] = y[i]
    BY <1>3, <2>1
  <2>2. CASE i - k \in 1 .. l /\ z[i] = m[i - k]
    BY <1>1, <2>2
  <2> QED BY <1>4, <2>1, <2>2
<1>7. ASSUME NEW n \in Nat, Covered(n, a)
      PROVE  Covered(n, a)'
  <2>1. n <= xid[a] /\ \A i \in 1 .. k : n <= y[i].n
    BY <1>1, <1>7 DEF Covered
  <2>2. ASSUME NEW i \in 1 .. k + l
        PROVE  n <= z[i].n
    <3>1. CASE i \in 1 .. k /\ z[i] = y[i]
      BY <2>1, <3>1
    <3>2. CASE i - k \in 1 .. l /\ z[i] = m[i - k]
      <4>1. xid[a] <= m[i - k].n /\ m[i - k].n \in Nat
        BY <1>1, <1>3, <3>2
      <4> QED BY <2>1, <3>2, <4>1
    <3> QED BY <1>4, <3>1, <3>2
  <2>3. n <= xid'[a]
    BY <2>1
  <2> QED BY <1>1, <1>2, <2>2, <2>3 DEF Covered
<1> QED BY <1>1, <1>2, <1>5, <1>6, <1>7 DEF SentOrder

\* An application whose connection a step leaves alone.
LEMMA YetStays ==
  ASSUME NEW a \in Apps, SentOrder(a), UNCHANGED <<up[a], sbuf[a], xid[a]>>,
         phase'[a] = "closed" <=> phase[a] = "closed"
  PROVE  SentOrder(a)' /\ \A n \in Nat : Covered(n, a) => Covered(n, a)'
<1>1. Yet(a)' = Yet(a)
  BY DEF Yet
<1> QED BY <1>1 DEF SentOrder, Covered

\* What is enough of a step: what was sent stays in order, what comes to a device loses
\* some of it, or gets one more of the device's client, and a claim is a fresh client's.
LEMMA TurnStep ==
  ASSUME RiaAssumption, RiaInv, RiaInv', TurnInv, TurnTypes', \A a \in Apps : SentOrder(a)',
         \A d \in Devs : Coming(d) \in Seq(Marks) /\ Coming(d)' \in Seq(Marks),
         \A a \in Apps : Fresh(a)' => Fresh(a),
         \A a \in Apps, n \in Nat : Covered(n, a) => Covered(n, a)',
         \A d \in Devs :
           \/ Within(Coming(d)', Coming(d))
           \/ \E e \in Marks : /\ Coming(d)' = Append(Coming(d), e)
                               /\ e.by # None =>
                                    /\ e.by = peer[d] /\ ~Fresh(e.by)'
                                    /\ Covered(e.n, e.by)'
                                    /\ \A n \in Nat : Covered(n, e.by) => n <= e.n
                               /\ peer'[d] # None => e.by \in {peer'[d], None},
         \A d \in Devs : peer'[d] # None => peer'[d] = peer[d] \/ Fresh(peer'[d])
  PROVE  TurnInv'
<1> SUFFICES ASSUME NEW d \in Devs
             PROVE  /\ InTurn(Coming(d)') /\ Before(Coming(d))'
                    /\ peer'[d] # None => Latest(Coming(d)', peer'[d])
  BY DEF TurnInv, InTurn, Latest
<1>1. PICK s, t : s = Coming(d) /\ t = Coming(d)' /\ s \in Seq(Marks) /\ t \in Seq(Marks)
  OBVIOUS
<1>2. InTurn(s) /\ Before(s) /\ (peer[d] # None => Latest(s, peer[d]))
  BY <1>1 DEF TurnInv
<1>3. ASSUME NEW i \in 1 .. Len(s), s[i].by # None
      PROVE  /\ s[i].by \in Apps /\ s[i].n \in Nat /\ ~Fresh(s[i].by) /\ ~Fresh(s[i].by)'
             /\ Covered(s[i].n, s[i].by) /\ Covered(s[i].n, s[i].by)'
  <2>1. s[i].by \in Apps /\ s[i].n \in Nat
    <3>1. s[i] \in Marks
      BY <1>1, ElementOfSeq
    <3> QED BY <1>3, <3>1 DEF Marks
  <2>2. ~Fresh(s[i].by) /\ Covered(s[i].n, s[i].by)
    BY <1>2, <1>3 DEF Before
  <2> QED BY <2>1, <2>2
<1>4. peer'[d] # None => Latest(s, peer'[d])
  <2>1. ASSUME Fresh(peer'[d]), peer'[d] # None
        PROVE  Latest(s, peer'[d])
    <3>1. \A i \in 1 .. Len(s) : s[i].by # peer'[d]
      BY <1>3, <2>1
    <3> QED BY <3>1 DEF Latest
  <2> QED BY <1>2, <2>1
<1>5. CASE Within(t, s)
  <2>1. InTurn(t) /\ (peer'[d] # None => Latest(t, peer'[d]))
    BY <1>1, <1>2, <1>4, <1>5, InTurnWithin, LatestWithin
  <2>2. \A i \in 1 .. Len(t) : \E j \in 1 .. Len(s) : t[i] = s[j]
    BY <1>5 DEF Within
  <2>3. Before(t)'
    BY <1>3, <2>2 DEF Before
  <2> QED BY <1>1, <2>1, <2>3
<1>6. ASSUME NEW e \in Marks, t = Append(s, e),
             e.by # None => /\ e.by = peer[d] /\ ~Fresh(e.by)'
                            /\ Covered(e.n, e.by)'
                            /\ \A n \in Nat : Covered(n, e.by) => n <= e.n,
             peer'[d] # None => e.by \in {peer'[d], None}
      PROVE  InTurn(t) /\ Before(t)' /\ (peer'[d] # None => Latest(t, peer'[d]))
  <2>1. ASSUME e.by # None
        PROVE  /\ Latest(s, e.by)
               /\ \A i \in 1 .. Len(s) : s[i].by = e.by => s[i].n <= e.n
    BY <1>2, <1>3, <1>6, <2>1
  <2>2. InTurn(t)
    BY <1>1, <1>2, <1>6, <2>1, InTurnMore
  <2>3. peer'[d] # None => Latest(t, peer'[d])
    BY <1>1, <1>4, <1>6, LatestMore
  <2>4. \A i \in 1 .. Len(t) : t[i] = e \/ \E j \in 1 .. Len(s) : t[i] = s[j]
    <3>1. Len(t) = Len(s) + 1 /\ Len(s) \in Nat /\ t[Len(s) + 1] = e
          /\ \A i \in 1 .. Len(s) : t[i] = s[i]
      BY <1>1, <1>6, OneMore
    <3> QED BY <3>1
  <2>5. Before(t)'
    BY <1>3, <1>6, <2>4 DEF Before
  <2> QED BY <2>2, <2>3, <2>5
<1> QED BY <1>1, <1>5, <1>6

\* What comes to a device is marked by who it comes from.
LEMMA Marked ==
  ASSUME NEW H, AllArrive(H), NEW w \in Seq(Chunks), NEW x \in Seq(Chunks),
         NEW r \in Seq(H), NEW q \in Seq(H)
  PROVE  /\ w \in Seq(Marks) /\ x \in Seq(Marks)
         /\ AllMarked(H)
         /\ Entries(r \o q) = Entries(r) \o Entries(q)
         /\ Entries(r \o q) \in Seq(Marks)
         /\ Entries(r) \in Seq(Marks) /\ Entries(q) \in Seq(Marks)
         /\ w \o x \in Seq(Marks)
         /\ w \o x \o Entries(r \o q) \in Seq(Marks)
<1>1. w \in Seq(Marks) /\ x \in Seq(Marks)
  <2>1. Chunks \subseteq Marks
    BY DEF Chunks, Marks
  <2>2. Seq(Chunks) \subseteq Seq(Marks)
    BY <2>1, SeqMonotonic
  <2> QED BY <2>2
<1>2. AllMarked(H)
  BY DEF Arrives, AllArrive, AllMarked
<1>3. /\ Entries(r \o q) = Entries(r) \o Entries(q)
      /\ Entries(r) \in Seq(Marks) /\ Entries(q) \in Seq(Marks)
  BY <1>2, EntriesJoin
<1>4. Entries(r \o q) \in Seq(Marks)
  BY <1>3, ConcatProperties
<1>5. w \o x \in Seq(Marks)
  BY <1>1, ConcatProperties
<1>6. w \o x \o Entries(r \o q) \in Seq(Marks)
  BY <1>4, <1>5, ConcatProperties
<1> QED BY <1>1, <1>2, <1>3, <1>4, <1>5, <1>6

LEMMA ComingIs ==
  ASSUME TurnTypes, NEW d \in Devs
  PROVE  Coming(d) \in Seq(Marks)
<1>1. PICK H : /\ \A e \in Devs : rbuf[e] \in Seq(H) /\ down[e] \in Seq(H)
               /\ AllArrive(H)
  BY DEF TurnTypes
<1>2. PICK w, x, r, q : w = written[d] /\ x = data[d] /\ r = rbuf[d] /\ q = down[d]
  OBVIOUS
<1>3. w \in Seq(Chunks) /\ x \in Seq(Chunks) /\ r \in Seq(H) /\ q \in Seq(H)
  BY <1>1, <1>2 DEF TurnTypes
<1>4. w \o x \o Entries(r \o q) \in Seq(Marks)
  BY <1>1, <1>3, Marked
<1> QED BY <1>2, <1>4 DEF Coming

\* What a step of application a leaves alone.
Aside(a) ==
  /\ UNCHANGED <<peer, written, rbuf>> /\ DOMAIN data' = Ends
  /\ \A d \in Devs : data'[d] = data[d] /\ down'[d] = down[d]
  /\ \A b \in Apps \ {a} : UNCHANGED <<up[b], sbuf[b], xid[b], phase[b], link[b]>>

\* What an application has sent stays in order, and it has not claimed a device before.
Sends(a) ==
  /\ SentOrder(a)' /\ \A n \in Nat : Covered(n, a) => Covered(n, a)'
  /\ Fresh(a)' => Fresh(a)

LEMMA AsideKeepsTurn ==
  ASSUME RiaAssumption, RiaInv, RiaInv', TurnInv, NEW a \in Apps, Aside(a), Sends(a)
  PROVE  TurnInv'
<1>1. \A b \in Apps \ {a} : Sends(b)
  <2> SUFFICES ASSUME NEW b \in Apps \ {a}
               PROVE  Sends(b)
    OBVIOUS
  <2>1. UNCHANGED <<up[b], sbuf[b], xid[b], phase[b], link[b]>> /\ SentOrder(b)
    BY DEF Aside, TurnInv
  <2>2. SentOrder(b)' /\ \A n \in Nat : Covered(n, b) => Covered(n, b)'
    BY <2>1, YetStays
  <2>3. Fresh(b)' => Fresh(b)
    BY <2>1 DEF Fresh, NoClaims
  <2> QED BY <2>2, <2>3 DEF Sends
<1>2. \A b \in Apps : Sends(b)
  BY <1>1
<1>3. ASSUME NEW d \in Devs
      PROVE  /\ Coming(d)' = Coming(d) /\ Coming(d) \in Seq(Marks) /\ Within(Coming(d)', Coming(d))
             /\ peer'[d] = peer[d]
  <2>1. Coming(d)' = Coming(d) /\ peer'[d] = peer[d]
    BY DEF Aside, Coming
  <2>2. Coming(d) \in Seq(Marks)
    BY ComingIs DEF TurnInv
  <2>3. PICK s : s = Coming(d)
    OBVIOUS
  <2>4. Within(s, s)
    BY <2>2, <2>3, WithinSame
  <2> QED BY <2>1, <2>2, <2>3, <2>4
<1>4. TurnTypes'
  <2>1. TurnTypes
    BY DEF TurnInv
  <2> QED BY <2>1 DEF Aside, TurnTypes
<1> QED BY <1>2, <1>3, <1>4, TurnStep DEF Sends

\* A call adds the packet of the call, under the next number, or nothing.
LEMMA CallSends ==
  ASSUME RiaAssumption, RiaInv, TurnInv, NEW a \in Apps, NEW cmd, NEW packets \in Seq(Mine(a)),
         phase[a] # "closed", Calls(a, packets, cmd),
         Len(packets) = 0 \/ (Len(packets) = 1 /\ Entry(packets[1]).n = xid[a] + 1),
         Fresh(a) \/ (NoClaims(packets) /\ link' = link)
  PROVE  Sends(a)
<1>1. /\ a \in Ends /\ a # None /\ SentOrder(a) /\ up[a] \in Seq(Mine(a)) /\ sbuf[a] \in Seq(Mine(a))
      /\ DOMAIN up = Ends /\ DOMAIN sbuf = Apps /\ DOMAIN xid = Ends /\ xid[a] \in Nat
  BY DEF Ends, RiaAssumption, RiaInv, ProxyTypes, TurnInv, SentOrder
<1>2. PICK u, v : u = up[a] \o sbuf[a] /\ v = u \o packets
  OBVIOUS
<1>3. u \in Seq(Mine(a)) /\ v \in Seq(Mine(a))
  BY <1>1, <1>2, ConcatProperties
<1>4. up'[a] = v /\ sbuf'[a] = <<>> /\ xid'[a] = xid[a] + Len(packets)
  BY <1>1, <1>2 DEF Calls, Set
<1>5. AllMarked(Mine(a))
  BY <1>1, MineArrives DEF AllMarked
<1>6. PICK y, m : y = Entries(u) /\ m = Entries(packets)
  OBVIOUS
<1>7. Entries(v) = y \o m /\ y \in Seq(Marks) /\ m \in Seq(Marks)
  BY <1>2, <1>3, <1>5, <1>6, EntriesJoin
<1>8. Yet(a) = y /\ Yet(a)' = y \o m
  <2>1. v \o <<>> = v
    BY <1>3
  <2> QED BY <1>2, <1>4, <1>6, <1>7, <2>1 DEF Yet
<1>9. /\ Len(m) = Len(packets) /\ \A i \in 1 .. Len(m) : m[i] = Entry(packets[i])
  BY <1>6, EntriesAre
<1>10. /\ xid'[a] \in Nat /\ xid[a] <= xid'[a]
       /\ \A i \in 1 .. Len(m) : xid[a] <= m[i].n /\ m[i].n <= xid'[a]
       /\ \A i, j \in 1 .. Len(m) : i <= j => m[i].n <= m[j].n
  <2>1. CASE Len(packets) = 0
    BY <1>1, <1>4, <1>9, <2>1
  <2>2. CASE Len(packets) = 1 /\ Entry(packets[1]).n = xid[a] + 1
    <3>1. \A i \in 1 .. Len(m) : i = 1 /\ m[i].n = xid[a] + 1
      BY <1>9, <2>2
    <3>2. xid'[a] = xid[a] + 1
      BY <1>4, <2>2
    <3> QED BY <1>1, <3>1, <3>2
  <2> QED BY <2>1, <2>2
<1>11. up'[a] \in Seq(Mine(a)) /\ sbuf'[a] \in Seq(Mine(a))
  BY <1>3, <1>4
<1>12. SentOrder(a)' /\ \A n \in Nat : Covered(n, a) => Covered(n, a)'
  BY <1>1, <1>7, <1>8, <1>10, <1>11, YetGrows
<1>13. Fresh(a)' => Fresh(a)
  <2>1. CASE ~Fresh(a) /\ NoClaims(packets) /\ link' = link
    <3>1. packets \in Seq(AppPackets)
      <4>1. Mine(a) \subseteq AppPackets
        BY DEF Mine
      <4> QED BY <4>1, SeqMonotonic
    <3>2. \A i \in 1 .. Len(up'[a]) : up'[a][i].cmd = "claim" =>
            i \in 1 .. Len(up[a]) /\ up'[a][i] = up[a][i]
      BY <2>1, <3>1, CallsEffect DEF RiaInv, NoClaims
    <3> QED BY <2>1, <3>2 DEF Fresh, NoClaims
  <2> QED BY <2>1
<1> QED BY <1>12, <1>13 DEF Sends

\* Every chunk of ifd_remote_send is in a packet with the next number.
LEMMA DataSends ==
  ASSUME RiaAssumption, RiaInv, TurnInv, NEW a \in Apps, NEW k \in {1, 2}, SendData(a, k)
  PROVE  Sends(a)
<1>1. /\ a \in Ends /\ a # None /\ SentOrder(a) /\ up[a] \in Seq(Mine(a)) /\ sbuf[a] \in Seq(Mine(a))
      /\ DOMAIN up = Ends /\ DOMAIN sbuf = Apps /\ DOMAIN xid = Ends /\ xid[a] \in Nat
      /\ k \in Nat
  BY DEF Ends, RiaAssumption, RiaInv, ProxyTypes, TurnInv, SentOrder
<1>2. PICK s : s = Chunked(a, k)
  OBVIOUS
<1>3. xid' = [xid EXCEPT ![a] = xid[a] + k] /\ UNCHANGED <<link, phase>> /\ phase[a] = "open"
  BY DEF SendData, Idle, Set, proxyVars
<1>4. s \in Seq(AppPackets) /\ Len(s) = k /\ \A i \in 1 .. k : s[i] \in AppPackets
  <2>1. s \in Seq(AppPackets) /\ Len(s) = k
    BY <1>1, <1>2, ChunkedAre
  <2> QED BY <2>1, ElementOfSeq
<1>5. ASSUME NEW i \in 1 .. k
      PROVE  s[i] \in Mine(a) /\ Entry(s[i]).n = xid[a] + 1
  <2>1. PICK n : n = xid[a] + 1
    OBVIOUS
  <2>2. n \in Nat
    BY <1>1, <2>1
  <2>7. s[i].body = <<[by |-> a, n |-> n]>>
    BY <1>1, <1>2, <2>1, ChunkIs DEF FirstChunk
  <2>3. s[i].by = a /\ s[i].cmd = "data"
    BY <1>1, <1>2, ChunkIs
  <2>8. s[i].dest = FALSE
    BY <1>4 DEF AppPackets
  <2>4. s[i] \in Mine(a)
    BY <1>4, <2>2, <2>3, <2>7 DEF Mine
  <2>5. PICK c : c = [by |-> a, n |-> n]
    OBVIOUS
  <2>6. Entry(s[i]) = c /\ c.n = n
    <3>1. s[i].body = <<c>>
      BY <2>5, <2>7
    <3> QED BY <2>3, <2>5, <2>8, <3>1 DEF Entry
  <2> QED BY <2>1, <2>4, <2>6
<1>6. s \in Seq(Mine(a)) /\ Len(s) = k
  <2>1. DOMAIN s = 1 .. k
    BY <1>4
  <2>2. s \in [1 .. k -> Mine(a)]
    <3>1. s = [i \in 1 .. k |-> s[i]]
      BY <1>4, <2>1
    <3> QED BY <1>5, <3>1
  <2> QED BY <1>4, <2>2
<1>7. AllMarked(Mine(a))
  BY <1>1, MineArrives DEF AllMarked
<1>19. PICK q, r \in Seq(Mine(a)) : Flushes(a, q, r, s)
  BY <1>1, <1>2, <1>6, SendDataIs
<1>8. /\ q \o r = sbuf[a] \o s
      /\ up' = [up EXCEPT ![a] = up[a] \o q] /\ sbuf' = [sbuf EXCEPT ![a] = r]
  BY <1>19 DEF Flushes, Set
<1>9. up'[a] = up[a] \o q /\ sbuf'[a] = r /\ xid'[a] = xid[a] + k
  BY <1>1, <1>3, <1>8
<1>10. PICK u : u = up[a] \o sbuf[a]
  OBVIOUS
<1>11. /\ u \in Seq(Mine(a)) /\ up[a] \o q \in Seq(Mine(a))
       /\ (up[a] \o q) \o r = u \o s
  <2>1. u \in Seq(Mine(a)) /\ up[a] \o q \in Seq(Mine(a))
    BY <1>1, <1>8, <1>10, ConcatProperties
  <2>2. PICK x, z : x = up[a] /\ z = sbuf[a]
    OBVIOUS
  <2>3. x \in Seq(Mine(a)) /\ z \in Seq(Mine(a))
    BY <1>1, <2>2
  <2>4. (x \o q) \o r = x \o (q \o r)
    BY <2>3, AssociativeAgain
  <2>8. s \in Seq(Mine(a))
    BY <1>6
  <2>9. PICK v : v = s /\ v \in Seq(Mine(a))
    BY <2>8
  <2>10. (x \o z) \o v = x \o (z \o v)
    BY <2>3, <2>9, AssociativeAgain
  <2>7. x \o (z \o s) = (x \o z) \o s
    BY <2>9, <2>10
  <2>5. q \o r = z \o s
    BY <1>8, <2>2
  <2>6. (x \o q) \o r = (x \o z) \o s
    BY <2>4, <2>5, <2>7
  <2> QED BY <1>10, <2>1, <2>2, <2>6
<1>12. PICK y, m : y = Entries(u) /\ m = Entries(s)
  OBVIOUS
<1>13. Entries(u \o s) = y \o m /\ y \in Seq(Marks) /\ m \in Seq(Marks)
  BY <1>6, <1>7, <1>11, <1>12, EntriesJoin
<1>14. Yet(a) = y /\ Yet(a)' = y \o m
  <2>1. Yet(a)' = Entries((up[a] \o q) \o r)
    BY <1>9 DEF Yet
  <2> QED BY <1>10, <1>11, <1>12, <1>13, <2>1 DEF Yet
<1>15. Len(m) = k /\ \A i \in 1 .. Len(m) : m[i].n = xid[a] + 1
  BY <1>5, <1>6, <1>12, EntriesAre
<1>16. /\ xid'[a] \in Nat /\ xid[a] <= xid'[a]
       /\ \A i \in 1 .. Len(m) : xid[a] <= m[i].n /\ m[i].n <= xid'[a]
       /\ \A i, j \in 1 .. Len(m) : i <= j => m[i].n <= m[j].n
  BY <1>1, <1>9, <1>15
<1>17. SentOrder(a)' /\ \A n \in Nat : Covered(n, a) => Covered(n, a)'
  <2>1. up'[a] \in Seq(Mine(a)) /\ sbuf'[a] \in Seq(Mine(a))
    BY <1>8, <1>9, <1>11
  <2> QED BY <1>1, <1>3, <1>9, <1>13, <1>14, <1>16, <2>1, YetGrows
<1>18. Fresh(a)' => Fresh(a)
  <2>1. link[a] # "none" /\ link' = link
    BY <1>3 DEF RiaInv, Unconnected
  <2>2. ASSUME NoClaims(up[a])
        PROVE  NoClaims(up'[a])
    <3>1. up[a] \in Seq(AppPackets) /\ q \in Seq(AppPackets) /\ r \in Seq(AppPackets)
      <4>1. Mine(a) \subseteq AppPackets
        BY DEF Mine
      <4> QED BY <1>1, <1>8, <4>1, SeqMonotonic
    <3>2. NoClaims(q)
      <4>1. NoClaims(sbuf[a]) /\ sbuf[a] \in Seq(AppPackets)
        BY DEF RiaInv, FirstIsClaim, ProxyTypes
      <4>2. NoClaims(s)
        BY <1>2, <1>1, <1>4, ChunkIs DEF NoClaims
      <4>3. NoClaims(sbuf[a] \o s)
        BY <1>4, <4>1, <4>2, WholeClaimsNothing
      <4> QED BY <1>8, <3>1, <4>3, PartsClaimNothing
    <3> QED BY <1>9, <2>2, <3>1, <3>2, WholeClaimsNothing
  <2> QED BY <2>1, <2>2 DEF Fresh
<1> QED BY <1>17, <1>18 DEF Sends

\* A program that leaves takes what it has not flushed with it.
LEMMA LeavingSends ==
  ASSUME RiaAssumption, RiaInv, TurnInv, NEW a \in Apps, AppLeaves(a), phase[a] # "new"
  PROVE  Sends(a)
<1>1. /\ a \in Ends /\ a # None /\ SentOrder(a) /\ up[a] \in Seq(Mine(a)) /\ sbuf[a] \in Seq(Mine(a))
      /\ DOMAIN sbuf = Apps /\ DOMAIN phase = Ends /\ link[a] # "none"
  BY DEF Ends, RiaAssumption, RiaInv, ProxyTypes, Unconnected, TurnInv, SentOrder
<1>2. /\ phase'[a] = "closed" /\ up' = up /\ sbuf'[a] = <<>>
      /\ link' = link \/ link' = [link EXCEPT ![a] = "reset"]
  BY <1>1 DEF AppLeaves, Leaves, Set
<1>3. PICK u, v, e : u = Entries(up[a]) /\ v = Entries(sbuf[a]) /\ e = Yet(a)
  OBVIOUS
<1>4. e = u \o v /\ u \in Seq(Marks) /\ v \in Seq(Marks)
  BY <1>1, <1>3, YetIs
<1>5. Yet(a)' = u
  <2>1. up[a] \o <<>> = up[a]
    BY <1>1
  <2> QED BY <1>2, <1>3, <2>1 DEF Yet
<1>6. Within(u, e)
  <2>1. <<>> \in Seq(Marks) /\ u \o <<>> = u /\ u \o v \o <<>> = u \o v
    <3>1. u \o v \in Seq(Marks)
      BY <1>4, ConcatProperties
    <3> QED BY <1>4, <3>1, ConcatEmptySeq, EmptySeq
  <2>2. Within(u \o <<>>, u \o v \o <<>>)
    BY <1>4, <2>1, WithinCut
  <2> QED BY <1>4, <2>1, <2>2
<1>7. up'[a] \in Seq(Mine(a)) /\ sbuf'[a] \in Seq(Mine(a))
  BY <1>1, <1>2, EmptySeq
<1>8. SentOrder(a)' /\ \A n \in Nat : Covered(n, a) => Covered(n, a)'
  BY <1>1, <1>2, <1>3, <1>5, <1>6, <1>7, YetShrinks
<1>9. Fresh(a)' => Fresh(a)
  <2>1. link'[a] # "none"
    BY <1>1, <1>2 DEF RiaInv, ProxyTypes
  <2> QED BY <1>2, <2>1 DEF Fresh, NoClaims
<1> QED BY <1>8, <1>9 DEF Sends

\* An application that takes something, and sends nothing.
LEMMA IdleSends ==
  ASSUME TurnInv, NEW a \in Apps, UNCHANGED <<up, sbuf, xid, link>>,
         phase'[a] = "closed" <=> phase[a] = "closed"
  PROVE  Sends(a)
<1>1. SentOrder(a)
  BY DEF TurnInv
<1>2. SentOrder(a)' /\ \A n \in Nat : Covered(n, a) => Covered(n, a)'
  BY <1>1, YetStays
<1> QED BY <1>2 DEF Sends, Fresh, NoClaims

\* The packet of a call.
LEMMA CallPacket ==
  ASSUME RiaAssumption, NEW a \in Apps, xid[a] \in Nat, NEW cmd \in Cmds \ {"data"},
         NEW dev \in Devs \cup {None}
  PROVE  /\ <<SentBy(a, cmd, dev, <<>>)>> \in Seq(Mine(a))
         /\ Len(<<SentBy(a, cmd, dev, <<>>)>>) = 1
         /\ Entry((<<SentBy(a, cmd, dev, <<>>)>>)[1]).n = xid[a] + 1
         /\ cmd # "claim" => NoClaims(<<SentBy(a, cmd, dev, <<>>)>>)
<1>1. <<>> \in Seq(Chunks) /\ cmd \in Cmds
  OBVIOUS
<1>2. PICK q : q = SentBy(a, cmd, dev, <<>>)
  OBVIOUS
<1>3. q \in AppPackets /\ q.cmd = cmd
  BY <1>1, <1>2, SentPacket, ZenonT(60)
<1>4. q.by = a /\ q.dest = FALSE /\ q.xid = xid[a] + 1
  BY <1>2 DEF SentBy, Packet
<1>5. q \in Mine(a)
  BY <1>3, <1>4 DEF Mine
<1>6. Entry(q).n = xid[a] + 1
  BY <1>3, <1>4 DEF Entry
<1>7. PICK s : s = <<q>>
  OBVIOUS
<1>8. s \in Seq(Mine(a)) /\ Len(s) = 1 /\ s[1] = q
  BY <1>5, <1>7
<1>9. cmd # "claim" => NoClaims(s)
  BY <1>3, <1>8 DEF NoClaims
<1> QED BY <1>2, <1>6, <1>7, <1>8, <1>9

LEMMA SetElse ==
  ASSUME NEW S, NEW f, DOMAIN f = S, NEW c, NEW v
  PROVE  DOMAIN Set(f, c, v) = S /\ \A b \in S \ {c} : Set(f, c, v)[b] = f[b]
  BY DEF Set

\* The variables in which a step of application a changes its own.
LEMMA AsideIs ==
  ASSUME RiaAssumption, RiaInv, AnswersInv, TurnInv, NEW a \in Apps,
         UNCHANGED <<peer, written, rbuf>>,
         up' = up \/ \E v : up' = Set(up, a, v),
         sbuf' = sbuf \/ \E v : sbuf' = Set(sbuf, a, v),
         xid' = xid \/ \E v : xid' = Set(xid, a, v),
         phase' = phase \/ \E v : phase' = Set(phase, a, v),
         link' = link \/ \E v : link' = Set(link, a, v),
         data' = data \/ \E v : data' = Set(data, a, v),
         down' = down \/ \E v : down' = Set(down, a, v)
  PROVE  Aside(a)
<1>1. /\ DOMAIN up = Ends /\ DOMAIN sbuf = Apps /\ DOMAIN xid = Ends /\ DOMAIN phase = Ends
      /\ DOMAIN link = Ends /\ DOMAIN data = Ends /\ DOMAIN down = Ends
  BY DEF RiaInv, ProxyTypes, AnswersInv, AllAmong, TurnInv, TurnTypes
<1>2. /\ \A b \in Apps \ {a} : b \in Ends \ {a} /\ b \in Apps \ {a}
      /\ \A d \in Devs : d \in Ends \ {a}
  BY DEF Ends, RiaAssumption
<1>3. /\ \A b \in Ends \ {a} : up'[b] = up[b] /\ xid'[b] = xid[b]
      /\ \A b \in Apps \ {a} : sbuf'[b] = sbuf[b]
  BY <1>1, SetElse
<1>4. \A b \in Ends \ {a} : phase'[b] = phase[b] /\ link'[b] = link[b]
  BY <1>1, SetElse
<1>5. DOMAIN data' = Ends /\ \A b \in Ends \ {a} : data'[b] = data[b] /\ down'[b] = down[b]
  BY <1>1, SetElse
<1> QED BY <1>2, <1>3, <1>4, <1>5 DEF Aside

LEMMA ConnectTurns ==
  ASSUME RiaAssumption, RiaInv, AnswersInv, TurnInv, NEW a \in Apps, NEW cmd \in {"claim", "list"},
         NEW dev \in Devs \cup {None}, Connect(a, cmd, dev)
  PROVE  Aside(a) /\ Sends(a)
<1>1. PICK s : s = <<SentBy(a, cmd, dev, <<>>)>>
  OBVIOUS
<1>2. /\ phase[a] = "new" /\ link[a] = "none" /\ Calls(a, s, cmd)
      /\ \E v : link' = Set(link, a, v)
      /\ \E v : phase' = Set(phase, a, v)
      /\ UNCHANGED <<peer, down, data, rbuf, written>>
  BY <1>1 DEF Connect, Accepts, deviceVars
<1>3. xid[a] \in Nat /\ cmd \in Cmds \ {"data"}
  BY DEF RiaInv, ProxyTypes, Cmds
<1>4. s \in Seq(Mine(a)) /\ Len(s) = 1 /\ Entry(s[1]).n = xid[a] + 1
  BY <1>1, <1>3, CallPacket
<1>5. phase[a] # "closed" /\ Fresh(a)
  BY <1>2 DEF Fresh
<1>6. Sends(a)
  BY <1>2, <1>4, <1>5, CallSends
<1>7. /\ \E v : up' = Set(up, a, v)
      /\ \E v : xid' = Set(xid, a, v)
      /\ \E v : sbuf' = Set(sbuf, a, v)
  BY <1>2 DEF Calls
<1>8. Aside(a)
  BY <1>2, <1>7, AsideIs
<1> QED BY <1>6, <1>8

\* A call on a connection that there is.
LEMMA CallTurns ==
  ASSUME RiaAssumption, RiaInv, AnswersInv, TurnInv, NEW a \in Apps,
         NEW cmd \in {"flush", "break", "config", "reset"}, Calls(a, <<SentBy(a, cmd, None, <<>>)>>, cmd),
         phase[a] # "closed", UNCHANGED <<link, peer, down, data, rbuf, written>>,
         phase' = phase \/ \E v : phase' = Set(phase, a, v)
  PROVE  Aside(a) /\ Sends(a)
<1>1. PICK s : s = <<SentBy(a, cmd, None, <<>>)>>
  OBVIOUS
<1>2. xid[a] \in Nat /\ cmd \in Cmds \ {"data"} /\ None \in Devs \cup {None} /\ cmd # "claim"
  BY DEF RiaInv, ProxyTypes, Cmds
<1>3. s \in Seq(Mine(a)) /\ Len(s) = 1 /\ Entry(s[1]).n = xid[a] + 1 /\ NoClaims(s)
  BY <1>1, <1>2, CallPacket
<1>4. Calls(a, s, cmd) /\ link' = link
  BY <1>1
<1>5. Sends(a)
  BY <1>3, <1>4, CallSends
<1>6. /\ \E v : up' = Set(up, a, v)
      /\ \E v : xid' = Set(xid, a, v)
      /\ \E v : sbuf' = Set(sbuf, a, v)
  BY DEF Calls
<1>7. Aside(a)
  BY <1>6, AsideIs
<1> QED BY <1>5, <1>7

LEMMA AppStepTurns ==
  ASSUME RiaAssumption, RiaInv, AnswersInv, TurnInv, NEW a \in Apps, AppStep(a)
  PROVE  Aside(a) /\ Sends(a)
<1>1. ASSUME NEW d \in Devs, OpenRemote(a, d)
      PROVE  Aside(a) /\ Sends(a)
  BY <1>1, ConnectTurns DEF OpenRemote
<1>2. CASE ListDevices(a)
  BY <1>2, ConnectTurns DEF ListDevices
<1>3. CASE ResetDevice(a)
  <2>1. /\ phase[a] # "closed" /\ \E v : phase' = Set(phase, a, v)
        /\ UNCHANGED <<link, peer, down, data, rbuf, written>>
    BY <1>3 DEF ResetDevice, proxyVars, deviceVars
  <2>2. CASE link[a] = "freed"
    <3>1. UNCHANGED <<up, sbuf, xid, link>>
      BY <1>3, <2>1, <2>2 DEF ResetDevice
    <3>2. phase[a] # "closed" /\ phase'[a] # "closed"
      BY <1>3 DEF ResetDevice, Set, RiaInv, ProxyTypes, Ends
    <3> QED BY <2>1, <3>1, <3>2, IdleSends, AsideIs
  <2>3. CASE link[a] # "freed"
    BY <1>3, <2>1, <2>3, CallTurns DEF ResetDevice
  <2> QED BY <2>2, <2>3
<1>4. ASSUME NEW cmd \in {"flush", "break", "config"}, Command(a, cmd)
      PROVE  Aside(a) /\ Sends(a)
  <2>1. /\ phase[a] # "closed" /\ UNCHANGED <<phase, link, peer, down, data, rbuf, written>>
        /\ Calls(a, <<SentBy(a, cmd, None, <<>>)>>, cmd)
    BY <1>4 DEF Command, Idle, proxyVars, deviceVars
  <2> QED BY <2>1, CallTurns
<1>5. ASSUME NEW k \in {1, 2}, SendData(a, k)
      PROVE  Aside(a) /\ Sends(a)
  <2>1. /\ UNCHANGED <<link, peer, down, phase, data, rbuf, written>>
        /\ \E v : xid' = Set(xid, a, v)
        /\ \E v : up' = Set(up, a, v)
        /\ \E v : sbuf' = Set(sbuf, a, v)
    BY <1>5 DEF SendData, proxyVars, deviceVars
  <2> QED BY <1>5, <2>1, DataSends, AsideIs
<1>6. CASE RecvData(a)
  <2>1. phase[a] # "closed" /\ UNCHANGED <<link, peer, phase, down, rbuf, written>>
    BY <1>6 DEF RecvData, Idle, proxyVars, deviceVars
  <2>2. CASE UNCHANGED <<up, xid, sbuf>> /\ \E v : data' = Set(data, a, v)
    BY <2>1, <2>2, IdleSends, AsideIs
  <2>3. CASE Calls(a, <<>>, "recv") /\ UNCHANGED data
    <3>1. /\ \E v : up' = Set(up, a, v)
          /\ \E v : xid' = Set(xid, a, v)
          /\ \E v : sbuf' = Set(sbuf, a, v)
      BY <2>3 DEF Calls
    <3>2. PICK s : s = <<>>
      OBVIOUS
    <3>5. s \in Seq(Mine(a)) /\ Len(s) = 0 /\ NoClaims(s)
      BY <3>2, EmptySeq DEF NoClaims
    <3>3. Calls(a, s, "recv") /\ link' = link
      BY <2>1, <2>3, <3>2
    <3>4. Sends(a)
      BY <2>1, <3>3, <3>5, CallSends
    <3> QED BY <2>1, <2>3, <3>1, <3>4, AsideIs
  <2> QED BY <1>6, <2>2, <2>3 DEF RecvData
<1>7. CASE GivesUp(a) \/ Close(a)
  <2>1. AppLeaves(a) /\ phase[a] # "new"
    BY <1>7 DEF GivesUp, Close
  <2>2. /\ UNCHANGED <<up, peer, written, rbuf>> /\ \E v : sbuf' = Set(sbuf, a, v)
        /\ \E v : xid' = Set(xid, a, v)
        /\ \E v : phase' = Set(phase, a, v)
        /\ \E v : data' = Set(data, a, v)
        /\ down' = down \/ \E v : down' = Set(down, a, v)
        /\ link' = link \/ \E v : link' = Set(link, a, v)
    BY <2>1 DEF AppLeaves, Leaves, deviceVars
  <2> QED BY <2>1, <2>2, LeavingSends, AsideIs
<1>8. CASE Receive(a)
  <2>1. /\ UNCHANGED <<up, sbuf, xid, link, peer, written, rbuf>>
        /\ \E v : down' = Set(down, a, v)
        /\ data' = data \/ \E v : data' = Set(data, a, v)
        /\ phase' = phase \/ \E ok, body : Proceeds(a, ok, body)
    BY <1>8 DEF Receive, Kept, proxyVars, appVars, deviceVars
  <2>2. /\ phase' = phase \/ \E v : phase' = Set(phase, a, v)
        /\ phase'[a] = "closed" <=> phase[a] = "closed"
    BY <2>1, ProceedsOpen DEF Proceeds, RiaInv
  <2> QED BY <2>1, <2>2, IdleSends, AsideIs
<1>9. CASE CallFails(a)
  <2>1. /\ UNCHANGED <<up, sbuf, xid, link, peer, written, rbuf, down>>
        /\ data' = data \/ \E v : data' = Set(data, a, v)
        /\ Proceeds(a, FALSE, <<>>)
    BY <1>9 DEF CallFails, Kept, proxyVars, appVars, deviceVars
  <2>2. phase' = phase \/ \E v : phase' = Set(phase, a, v)
    BY <2>1 DEF Proceeds
  <2>3. phase'[a] = "closed" <=> phase[a] = "closed"
    BY <2>1, ProceedsOpen DEF RiaInv
  <2> QED BY <2>1, <2>2, <2>3, IdleSends, AsideIs
<1> QED BY <1>1, <1>2, <1>3, <1>4, <1>5, <1>6, <1>7, <1>8, <1>9 DEF AppStep

\* The marks of the first packet, and of those behind it.
LEMMA EntriesCons ==
  ASSUME NEW S, AllMarked(S), NEW s \in Seq(S), s # <<>>
  PROVE  /\ Head(s) \in S /\ Tail(s) \in Seq(S)
         /\ Entries(s) = <<Entry(Head(s))>> \o Entries(Tail(s))
         /\ <<Entry(Head(s))>> \in Seq(Marks) /\ Entries(Tail(s)) \in Seq(Marks)
<1>1. PICK h, t : h = Head(s) /\ t = Tail(s)
  OBVIOUS
<1>2. h \in S /\ t \in Seq(S) /\ s = <<h>> \o t /\ <<h>> \in Seq(S)
  BY <1>1, HeadTailProperties
<1>3. Entries(<<h>> \o t) = Entries(<<h>>) \o Entries(t) /\ Entries(t) \in Seq(Marks)
  BY <1>2, EntriesJoin
<1>4. Entries(<<h>>) = <<Entry(h)>>
  BY EntriesOne
<1>5. <<Entry(h)>> \in Seq(Marks)
  BY <1>2 DEF AllMarked
<1> QED BY <1>1, <1>2, <1>3, <1>4, <1>5

\* What is left of two sequences in order when the first element goes.
LEMMA TailOfTwo ==
  ASSUME NEW S, NEW r \in Seq(S), NEW q \in Seq(S), r # <<>>
  PROVE  r \o q \in Seq(S) /\ r \o q # <<>> /\ Tail(r) \in Seq(S) /\ Tail(r) \o q = Tail(r \o q)
<1>1. PICK h, t : h = Head(r) /\ t = Tail(r)
  OBVIOUS
<1>2. t \in Seq(S) /\ <<h>> \in Seq(S) /\ r = <<h>> \o t
  BY <1>1, HeadTailProperties
<1>3. (<<h>> \o t) \o q = <<h>> \o (t \o q) /\ t \o q \in Seq(S)
  <2>1. <<h>> \o (t \o q) = (<<h>> \o t) \o q
    BY <1>2, ConcatAssociative
  <2> QED BY <1>2, <2>1, ConcatProperties
<1>4. Tail(<<h>> \o (t \o q)) = t \o q /\ <<h>> \o (t \o q) # <<>>
  <2>1. PICK z : z = t \o q
    OBVIOUS
  <2>2. z \in Seq(S)
    BY <1>3, <2>1
  <2>3. Tail(<<h>> \o z) = z /\ <<h>> \o z # <<>>
    BY <1>2, <2>2
  <2> QED BY <2>1, <2>3
<1>5. r \o q \in Seq(S)
  BY ConcatProperties
<1> QED BY <1>1, <1>2, <1>3, <1>4, <1>5

\* A step of an exporter, as far as it matters here.
LEMMA DevKeepsTurn ==
  ASSUME RiaAssumption, RiaInv, RiaInv', TurnInv, NEW d \in Devs, UNCHANGED <<peer, sbuf>>,
         \A a \in Apps : UNCHANGED <<up[a], xid[a], phase[a], link[a]>>,
         \A e \in Devs \ {d} : UNCHANGED <<written[e], data[e], rbuf[e], down[e]>>,
         written' = [written EXCEPT ![d] = written'[d]], DOMAIN data' = Ends,
         written'[d] \in Seq(Chunks), data'[d] \in Seq(Chunks),
         NEW H, AllArrive(H), \A e \in Devs : rbuf[e] \in Seq(H) /\ down[e] \in Seq(H),
         rbuf'[d] \in Seq(H), down'[d] \in Seq(H), Within(Coming(d)', Coming(d))
  PROVE  TurnInv'
<1>1. \A a \in Apps : /\ SentOrder(a)' /\ \A n \in Nat : Covered(n, a) => Covered(n, a)'
                      /\ Fresh(a)' => Fresh(a)
  <2> SUFFICES ASSUME NEW a \in Apps
               PROVE  /\ SentOrder(a)' /\ \A n \in Nat : Covered(n, a) => Covered(n, a)'
                      /\ Fresh(a)' => Fresh(a)
    OBVIOUS
  <2>1. SentOrder(a) /\ UNCHANGED <<up[a], sbuf[a], xid[a], phase[a], link[a]>>
    BY DEF TurnInv
  <2>2. SentOrder(a)' /\ \A n \in Nat : Covered(n, a) => Covered(n, a)'
    BY <2>1, YetStays
  <2> QED BY <2>1, <2>2 DEF Fresh, NoClaims
<1>2. TurnTypes'
  <2>1. \A e \in Devs : written'[e] \in Seq(Chunks) /\ data'[e] \in Seq(Chunks)
    BY DEF TurnInv, TurnTypes
  <2>2. written' \in [Devs -> Seq(Chunks)]
    BY DEF TurnInv, TurnTypes
  <2>3. \A e \in Devs : rbuf'[e] \in Seq(H) /\ down'[e] \in Seq(H)
    OBVIOUS
  <2>4. AllArrive(H)'
    BY DEF AllArrive, Arrives, Entry
  <2> QED BY <2>1, <2>2, <2>3, <2>4 DEF TurnTypes
<1>3. ASSUME NEW e \in Devs
      PROVE  /\ Coming(e) \in Seq(Marks) /\ Coming(e)' \in Seq(Marks)
             /\ Within(Coming(e)', Coming(e))
  <2>1. Coming(e) \in Seq(Marks) /\ Coming(e)' \in Seq(Marks)
    <3>1. PICK w, x, r, q : w = written'[e] /\ x = data'[e] /\ r = rbuf'[e] /\ q = down'[e]
      OBVIOUS
    <3>2. w \in Seq(Chunks) /\ x \in Seq(Chunks) /\ r \in Seq(H) /\ q \in Seq(H)
      BY <3>1 DEF TurnInv, TurnTypes
    <3>3. w \o x \o Entries(r \o q) \in Seq(Marks)
      BY <3>2, Marked
    <3> QED BY <3>1, <3>3, ComingIs DEF TurnInv, Coming
  <2>2. CASE e # d
    <3>1. Coming(e)' = Coming(e)
      BY <2>2 DEF Coming
    <3>2. PICK s : s = Coming(e)
      OBVIOUS
    <3>3. Within(s, s)
      BY <2>1, <3>2, WithinSame
    <3> QED BY <2>1, <3>1, <3>2, <3>3
  <2> QED BY <2>1, <2>2
<1> QED BY <1>1, <1>2, <1>3, TurnStep

\* Two sequences put together.
Join(s, t) == s \o t

LEMMA JoinThree ==
  ASSUME NEW M, NEW u \in Seq(M), NEW v \in Seq(M), NEW w \in Seq(M)
  PROVE  Join(u, v) \in Seq(M) /\ Join(u, Join(v, w)) = Join(Join(u, v), w)
<1>1. (u \o v) \o w = u \o (v \o w) /\ u \o v \in Seq(M)
  BY ConcatAssociative, ConcatProperties
<1> QED BY <1>1 DEF Join

LEMMA JoinCut ==
  ASSUME NEW M, NEW u \in Seq(M), NEW v \in Seq(M), NEW w \in Seq(M)
  PROVE  Within(Join(u, w), Join(Join(u, v), w))
  BY WithinCut DEF Join

\* A segment of what comes to a device goes.
LEMMA SegmentGoes ==
  ASSUME NEW w \in Seq(Marks), NEW x \in Seq(Marks), NEW r \in Seq(Marks), NEW h \in Seq(Marks),
         NEW q \in Seq(Marks)
  PROVE  /\ Within(w \o x \o q, w \o x \o (r \o (h \o q)))
         /\ Within(w \o q, w \o x \o (r \o q))
         /\ Within(w, w \o x \o q)
<1>1. PICK M : M = Seq(Marks)
  OBVIOUS
<1>2. w \in M /\ x \in M /\ r \in M /\ h \in M /\ q \in M
  BY <1>1
<1>3. /\ \A u, v \in M : Join(u, v) \in M
      /\ \A u, v, z \in M : Join(u, Join(v, z)) = Join(Join(u, v), z)
  BY <1>1, JoinThree
<1>4. \A u, v, z \in M : Within(Join(u, z), Join(Join(u, v), z))
  BY <1>1, JoinCut
<1>5. Within(Join(Join(w, x), q), Join(Join(w, x), Join(r, Join(h, q))))
  <2>1. PICK u, v : u = Join(w, x) /\ v = Join(r, h)
    OBVIOUS
  <2>2. u \in M /\ v \in M
    BY <1>2, <1>3, <2>1
  <2>3. Join(r, Join(h, q)) = Join(v, q) /\ Join(u, Join(v, q)) = Join(Join(u, v), q)
    BY <1>2, <1>3, <2>1, <2>2
  <2> QED BY <1>2, <1>4, <2>1, <2>2, <2>3
<1>6. Within(Join(w, q), Join(Join(w, x), Join(r, q)))
  <2>1. PICK y, z : y = Join(x, r) /\ z = Join(r, q)
    OBVIOUS
  <2>2. y \in M /\ z \in M
    BY <1>2, <1>3, <2>1
  <2>3. Join(w, Join(x, z)) = Join(Join(w, x), z)
    BY <1>2, <1>3, <2>2
  <2>4. Join(x, z) = Join(y, q) /\ Join(w, Join(y, q)) = Join(Join(w, y), q)
    BY <1>2, <1>3, <2>1, <2>2
  <2> QED BY <1>2, <1>4, <2>1, <2>2, <2>3, <2>4
<1>7. Within(w, Join(Join(w, x), q))
  <2>1. PICK e, y : e = <<>> /\ y = Join(x, q)
    OBVIOUS
  <2>2. e \in M /\ \A u \in M : Join(u, e) = u
    BY <1>1, <2>1, EmptySeq, ConcatEmptySeq DEF Join
  <2>3. y \in M /\ Join(w, y) \in M /\ Join(w, y) = Join(Join(w, x), q)
    BY <1>2, <1>3, <2>1
  <2>4. Within(Join(w, e), Join(Join(w, y), e))
    BY <1>2, <1>4, <2>2, <2>3
  <2>5. Join(w, e) = w /\ Join(Join(w, y), e) = Join(w, y)
    BY <1>2, <2>2, <2>3
  <2> QED BY <2>3, <2>4, <2>5
<1> QED BY <1>5, <1>6, <1>7 DEF Join

\* What a step of exporter d leaves alone.
Serves(d) ==
  /\ UNCHANGED <<peer, sbuf>>
  /\ \A a \in Apps : UNCHANGED <<up[a], xid[a], phase[a], link[a]>>
  /\ \A e \in Devs \ {d} : UNCHANGED <<written[e], data[e], rbuf[e], down[e]>>
  /\ written' = [written EXCEPT ![d] = written'[d]] /\ DOMAIN data' = Ends

LEMMA ServesIs ==
  ASSUME RiaAssumption, RiaInv, AnswersInv, TurnInv, NEW d \in Devs,
         UNCHANGED <<peer, sbuf>>,
         up' = up \/ \E v : up' = Set(up, d, v),
         xid' = xid \/ \E v : xid' = Set(xid, d, v),
         phase' = phase \/ \E v : phase' = Set(phase, d, v),
         link' = link \/ \E v : link' = Set(link, d, v),
         written' = written \/ \E v : written' = Set(written, d, v),
         data' = data \/ \E v : data' = Set(data, d, v),
         rbuf' = rbuf \/ \E v : rbuf' = Set(rbuf, d, v),
         down' = down \/ \E v : down' = Set(down, d, v)
  PROVE  Serves(d)
<1>1. /\ DOMAIN up = Ends /\ DOMAIN rbuf = Devs /\ DOMAIN xid = Ends /\ DOMAIN phase = Ends
      /\ DOMAIN link = Ends /\ DOMAIN data = Ends /\ DOMAIN down = Ends
  BY DEF RiaInv, ProxyTypes, AnswersInv, AllAmong, TurnInv, TurnTypes
<1>2. /\ \A b \in Apps : b \in Ends \ {d}
      /\ \A e \in Devs \ {d} : e \in Ends \ {d}
      /\ written \in [Devs -> Seq(Chunks)]
  BY DEF Ends, RiaAssumption, TurnInv, TurnTypes
<1>3. \A b \in Ends \ {d} : up'[b] = up[b] /\ xid'[b] = xid[b]
  BY <1>1, SetElse
<1>4. \A b \in Ends \ {d} : phase'[b] = phase[b] /\ link'[b] = link[b]
  BY <1>1, SetElse
<1>5. DOMAIN data' = Ends /\ \A b \in Ends \ {d} : data'[b] = data[b] /\ down'[b] = down[b]
  BY <1>1, SetElse
<1>6. \A e \in Devs \ {d} : rbuf'[e] = rbuf[e]
  BY <1>1, SetElse
<1>7. /\ written' = [written EXCEPT ![d] = written'[d]]
      /\ \A e \in Devs \ {d} : written'[e] = written[e]
  BY <1>2 DEF Set
<1> QED BY <1>2, <1>3, <1>4, <1>5, <1>6, <1>7 DEF Serves

\* The variables of a device, by rigid names.
Has(d, w, x, r, q) == w = written[d] /\ x = data[d] /\ r = rbuf[d] /\ q = down[d]

\* What an exporter's step does to what has come to its device is told of the values.
LEMMA ServesTurn ==
  ASSUME RiaAssumption, RiaInv, RiaInv', TurnInv, NEW d \in Devs, Serves(d),
         NEW H, AllArrive(H), \A e \in Devs : rbuf[e] \in Seq(H) /\ down[e] \in Seq(H),
         NEW w, NEW x, NEW r, NEW q, Has(d, w, x, r, q),
         NEW w2 \in Seq(Chunks), NEW x2 \in Seq(Chunks), NEW r2 \in Seq(H), NEW q2 \in Seq(H),
         Has(d, w2, x2, r2, q2)',
         Within(w2 \o x2 \o Entries(r2 \o q2), w \o x \o Entries(r \o q))
  PROVE  TurnInv'
<1>1. w2 = written'[d] /\ x2 = data'[d] /\ r2 = rbuf'[d] /\ q2 = down'[d]
  BY DEF Has
<1>2. Within(Coming(d)', Coming(d))
  BY <1>1 DEF Has, Coming
<1> QED BY <1>1, <1>2, DevKeepsTurn DEF Serves

LEMMA RegisteredTurns ==
  ASSUME RiaAssumption, RiaInv, RiaInv', AnswersInv, TurnInv, NEW d \in Devs, Registered(d)
  PROVE  TurnInv'
<1>1. /\ down[d] # <<>> /\ rbuf' = Set(rbuf, d, Tail(down[d])) /\ down' = Set(down, d, <<>>)
      /\ UNCHANGED <<peer, sbuf, up, xid, link, written, data>>
      /\ \E v : phase' = Set(phase, d, v)
  BY DEF Registered, proxyVars, appVars, deviceVars
<1>2. Serves(d)
  BY <1>1, ServesIs
<1>3. PICK H : /\ \A e \in Devs : rbuf[e] \in Seq(H) /\ down[e] \in Seq(H)
               /\ AllArrive(H)
  BY DEF TurnInv, TurnTypes
<1>4. PICK w, x, r, q : Has(d, w, x, r, q)
  BY DEF Has
<1>5. /\ w \in Seq(Chunks) /\ x \in Seq(Chunks) /\ r \in Seq(H) /\ q \in Seq(H) /\ q # <<>>
  BY <1>1, <1>3, <1>4 DEF Has, TurnInv, TurnTypes
<1>6. PICK t, n : t = Tail(q) /\ n = <<>>
  OBVIOUS
<1>7. Has(d, w, x, t, n)'
  <2>1. d \in DOMAIN rbuf /\ d \in DOMAIN down
    BY DEF AnswersInv, AllAmong, Ends
  <2> QED BY <1>1, <1>4, <1>6, <2>1 DEF Has, Set
<1>8. /\ w \in Seq(Marks) /\ x \in Seq(Marks) /\ AllMarked(H)
      /\ Entries(r \o q) = Entries(r) \o Entries(q) /\ Entries(r) \in Seq(Marks)
  BY <1>3, <1>5, Marked
<1>9. PICK e : e = <<Entry(Head(q))>>
  OBVIOUS
<1>10. /\ t \in Seq(H) /\ Entries(q) = e \o Entries(t)
       /\ e \in Seq(Marks) /\ Entries(t) \in Seq(Marks)
  BY <1>5, <1>6, <1>8, <1>9, EntriesCons
<1>11. n \in Seq(H) /\ t \o n = t
  BY <1>6, <1>10, EmptySeq, ConcatEmptySeq
<1>12. Within(w \o x \o Entries(t), w \o x \o (Entries(r) \o (e \o Entries(t))))
  BY <1>8, <1>10, SegmentGoes
<1>13. Within(w \o x \o Entries(t \o n), w \o x \o Entries(r \o q))
  BY <1>8, <1>10, <1>11, <1>12
<1> QED BY <1>2, <1>3, <1>4, <1>5, <1>7, <1>10, <1>11, <1>13, ServesTurn

\* What ria_devsock_process takes is a chunk, which goes to the queue or is dropped, or
\* another packet, which goes.
LEMMA ProcessesTurns ==
  ASSUME RiaAssumption, RiaInv, RiaInv', AnswersInv, TurnInv, NEW d \in Devs,
         ExporterProcesses(d)
  PROVE  TurnInv'
<1>1. PICK w, x, r, q : Has(d, w, x, r, q)
  BY DEF Has
<1>2. PICK w2, x2, r2, q2 : Has(d, w2, x2, r2, q2)'
  BY DEF Has
<1>3. PICK H : /\ \A e \in Devs : rbuf[e] \in Seq(H) /\ down[e] \in Seq(H)
               /\ AllArrive(H)
  BY DEF TurnInv, TurnTypes
<1>4. /\ w \in Seq(Chunks) /\ x \in Seq(Chunks) /\ r \in Seq(H) /\ q \in Seq(H)
  BY <1>1, <1>3 DEF Has, TurnInv, TurnTypes
<1>5. PICK z : z = r \o q
  OBVIOUS
<1>6. PICK p : p = Head(z)
  OBVIOUS
<1>7. /\ q # <<>> /\ UNCHANGED <<peer, sbuf, xid, link, phase, written>>
      /\ up' = up \/ \E v : up' = Set(up, d, v)
      /\ data' = data \/ (~p.dest /\ p.cmd = "data" /\ data' = Set(data, d, Queued(data[d], p.body)))
      /\ IF r # <<>> THEN rbuf' = Set(rbuf, d, Tail(r)) /\ down' = down
                     ELSE down' = Set(down, d, Tail(q)) /\ rbuf' = rbuf
  <2>1. p = Head(rbuf[d] \o down[d]) /\ r = rbuf[d] /\ q = down[d]
    BY <1>1, <1>5, <1>6 DEF Has
  <2> QED BY <2>1 DEF ExporterProcesses, proxyVars, appVars, Put, Set
<1>8. Serves(d)
  BY <1>7, ServesIs
<1>9. d \in DOMAIN rbuf /\ d \in DOMAIN down /\ d \in DOMAIN data
  BY DEF AnswersInv, AllAmong, Ends, TurnInv, TurnTypes
<1>10. /\ w2 = w
       /\ x2 = x \/ (~p.dest /\ p.cmd = "data" /\ x2 = Queued(x, p.body))
       /\ IF r # <<>> THEN r2 = Tail(r) /\ q2 = q ELSE q2 = Tail(q) /\ r2 = r
  BY <1>1, <1>2, <1>7, <1>9 DEF Has, Set
<1>11. /\ z \in Seq(H) /\ z # <<>> /\ r2 \in Seq(H) /\ q2 \in Seq(H) /\ r2 \o q2 = Tail(z)
  <2>1. CASE r # <<>>
    <3>1. r2 = Tail(r) /\ q2 = q
      BY <1>10, <2>1
    <3>2. /\ r \o q \in Seq(H) /\ r \o q # <<>> /\ Tail(r) \in Seq(H)
          /\ Tail(r) \o q = Tail(r \o q)
      BY <1>4, <2>1, TailOfTwo
    <3> QED BY <1>4, <1>5, <3>1, <3>2
  <2>2. CASE r = <<>>
    <3>1. r2 = <<>> /\ q2 = Tail(q)
      BY <1>10, <2>2
    <3>2. Tail(q) \in Seq(H) /\ <<>> \in Seq(H) /\ <<>> \o q = q /\ q # <<>>
      BY <1>4, <1>7, HeadTailProperties, ConcatEmptySeq
    <3>3. <<>> \o Tail(q) = Tail(q)
      BY <3>2, ConcatEmptySeq
    <3>4. z = q
      BY <1>5, <2>2, <3>2
    <3> QED BY <1>4, <3>1, <3>2, <3>3, <3>4
  <2> QED BY <2>1, <2>2
<1>12. PICK e, t : e = Entry(p) /\ t = Entries(r2 \o q2)
  OBVIOUS
<1>13. /\ w \in Seq(Marks) /\ x \in Seq(Marks) /\ AllMarked(H)
  BY <1>3, <1>4, Marked
<1>14. /\ p \in H /\ Arrives(p) /\ Entries(z) = <<e>> \o t
       /\ <<e>> \in Seq(Marks) /\ t \in Seq(Marks)
  BY <1>3, <1>6, <1>11, <1>12, <1>13, EntriesCons DEF AllArrive
<1>15. x2 = x \/ (x2 = x \o <<e>> /\ e \in Chunks)
  BY <1>10, <1>12, <1>14 DEF Queued, Arrives
<1>16. x2 \in Seq(Chunks)
  <2>1. CASE x2 = x \o <<e>> /\ e \in Chunks
    <3>1. <<e>> \in Seq(Chunks)
      BY <2>1
    <3> QED BY <1>4, <2>1, <3>1, ConcatProperties
  <2> QED BY <1>4, <1>15, <2>1
<1>17. Within(w \o x2 \o t, w \o x \o (<<e>> \o t))
  <2>1. PICK f : f = <<e>>
    OBVIOUS
  <2>2. f \in Seq(Marks)
    BY <1>14, <2>1
  <2>3. CASE x2 = x
    <3>1. PICK n : n = <<>>
      OBVIOUS
    <3>2. n \in Seq(Marks) /\ f \o t \in Seq(Marks) /\ n \o (f \o t) = f \o t
      BY <1>14, <2>2, <3>1, EmptySeq, ConcatProperties, ConcatEmptySeq
    <3>3. Within(w \o x \o t, w \o x \o (n \o (f \o t)))
      BY <1>13, <1>14, <2>2, <3>2, SegmentGoes
    <3> QED BY <2>1, <2>3, <3>2, <3>3
  <2>4. CASE x2 = x \o f
    <3>1. PICK y : y = Join(w, x)
      OBVIOUS
    <3>2. y \in Seq(Marks) /\ Join(y, Join(f, t)) = Join(Join(y, f), t)
          /\ Join(w, Join(x, f)) = Join(y, f) /\ Join(y, f) \in Seq(Marks)
      BY <1>13, <1>14, <2>2, <3>1, JoinThree
    <3>3. Join(Join(w, x2), t) = Join(Join(w, x), Join(f, t)) /\ Join(Join(w, x2), t) \in Seq(Marks)
      <4>1. x2 = Join(x, f)
        BY <2>4 DEF Join
      <4>2. Join(Join(w, x2), t) \in Seq(Marks)
        BY <1>14, <3>2, <4>1, JoinThree
      <4> QED BY <3>1, <3>2, <4>1, <4>2
    <3>4. PICK g : g = Join(Join(w, x2), t)
      OBVIOUS
    <3>5. Within(g, g)
      BY <3>3, <3>4, WithinSame
    <3> QED BY <2>1, <3>3, <3>4, <3>5 DEF Join
  <2> QED BY <1>15, <2>1, <2>3, <2>4
<1>18. Within(w2 \o x2 \o Entries(r2 \o q2), w \o x \o Entries(r \o q))
  BY <1>5, <1>10, <1>12, <1>14, <1>17
<1> QED BY <1>1, <1>2, <1>3, <1>4, <1>8, <1>10, <1>11, <1>16, <1>18, ServesTurn

\* What is queued goes to the serial line in order.
LEMMA ToLineTurns ==
  ASSUME RiaAssumption, RiaInv, RiaInv', AnswersInv, TurnInv, NEW d \in Devs, DataToLine(d)
  PROVE  TurnInv'
<1>1. PICK w, x, r, q : Has(d, w, x, r, q)
  BY DEF Has
<1>2. PICK H : /\ \A e \in Devs : rbuf[e] \in Seq(H) /\ down[e] \in Seq(H)
               /\ AllArrive(H)
  BY DEF TurnInv, TurnTypes
<1>3. /\ w \in Seq(Chunks) /\ x \in Seq(Chunks) /\ r \in Seq(H) /\ q \in Seq(H)
  BY <1>1, <1>2 DEF Has, TurnInv, TurnTypes
<1>4. PICK n \in 1 .. Len(x) :
        /\ written' = Set(written, d, w \o SubSeq(x, 1, n))
        /\ data' = Set(data, d, SubSeq(x, n + 1, Len(x)))
  BY <1>1 DEF DataToLine, Has
<1>5. PICK s, t : s = SubSeq(x, 1, n) /\ t = SubSeq(x, n + 1, Len(x))
  OBVIOUS
<1>6. s \in Seq(Chunks) /\ t \in Seq(Chunks) /\ s \o t = x
  BY <1>3, <1>5, SplitAt
<1>7. UNCHANGED <<peer, sbuf, up, xid, link, phase, rbuf, down>>
  BY DEF DataToLine, proxyVars, appVars
<1>8. Serves(d)
  BY <1>4, <1>7, ServesIs
<1>9. PICK w2 : w2 = w \o s
  OBVIOUS
<1>10. Has(d, w2, t, r, q)'
  <2>1. d \in DOMAIN written /\ d \in DOMAIN data
    BY DEF Ends, TurnInv, TurnTypes
  <2> QED BY <1>1, <1>4, <1>5, <1>7, <1>9, <2>1 DEF Has, Set
<1>11. w2 \in Seq(Chunks) /\ w2 \o t = w \o x
  <2>1. w \o s \in Seq(Chunks)
    BY <1>3, <1>6, ConcatProperties
  <2>2. Join(w, Join(s, t)) = Join(Join(w, s), t)
    BY <1>3, <1>6, JoinThree
  <2> QED BY <1>6, <1>9, <2>1, <2>2 DEF Join
<1>12. PICK g : g = w \o x \o Entries(r \o q)
  OBVIOUS
<1>13. g \in Seq(Marks)
  BY <1>2, <1>3, <1>12, Marked
<1>14. Within(g, g)
  BY <1>13, WithinSame
<1>15. Within(w2 \o t \o Entries(r \o q), w \o x \o Entries(r \o q))
  BY <1>11, <1>12, <1>14
<1> QED BY <1>1, <1>2, <1>3, <1>6, <1>8, <1>10, <1>11, <1>15, ServesTurn

\* What an exporter has read goes with it.
LEMMA ExitsTurns ==
  ASSUME RiaAssumption, RiaInv, RiaInv', AnswersInv, TurnInv, NEW d \in Devs, ExporterExits(d)
  PROVE  TurnInv'
<1>1. PICK w, x, r, q : Has(d, w, x, r, q)
  BY DEF Has
<1>2. PICK H : /\ \A e \in Devs : rbuf[e] \in Seq(H) /\ down[e] \in Seq(H)
               /\ AllArrive(H)
  BY DEF TurnInv, TurnTypes
<1>3. /\ w \in Seq(Chunks) /\ x \in Seq(Chunks) /\ r \in Seq(H) /\ q \in Seq(H)
  BY <1>1, <1>2 DEF Has, TurnInv, TurnTypes
<1>4. /\ UNCHANGED <<peer, sbuf, up, written>>
      /\ \E v : xid' = Set(xid, d, v)
      /\ \E v : phase' = Set(phase, d, v)
      /\ link' = link \/ \E v : link' = Set(link, d, v)
      /\ data' = Set(data, d, <<>>) /\ rbuf' = Set(rbuf, d, <<>>)
      /\ down' = down \/ down' = Set(down, d, <<>>)
  BY DEF ExporterExits, Leaves, appVars
<1>5. Serves(d)
  BY <1>4, ServesIs
<1>6. PICK n, q2 : n = <<>> /\ q2 = down'[d]
  OBVIOUS
<1>7. Has(d, w, n, n, q2)' /\ (q2 = q \/ q2 = <<>>)
  <2>1. d \in DOMAIN rbuf /\ d \in DOMAIN down /\ d \in DOMAIN data
    BY DEF AnswersInv, AllAmong, Ends, TurnInv, TurnTypes
  <2> QED BY <1>1, <1>4, <1>6, <2>1 DEF Has, Set
<1>8. n \in Seq(Chunks) /\ n \in Seq(H) /\ q2 \in Seq(H) /\ n \o q2 = q2 /\ w \o n = w
  BY <1>3, <1>6, <1>7, EmptySeq, ConcatEmptySeq
<1>9. /\ w \in Seq(Marks) /\ x \in Seq(Marks)
      /\ Entries(r \o q) = Entries(r) \o Entries(q) /\ Entries(r \o q) \in Seq(Marks)
      /\ Entries(r) \in Seq(Marks) /\ Entries(q) \in Seq(Marks)
  <2>1. AllArrive(H)
    BY <1>2
  <2>2. w \in Seq(Marks) /\ x \in Seq(Marks) /\ AllMarked(H)
    BY <1>3, <2>1, Marked
  <2>3. /\ Entries(r \o q) = Entries(r) \o Entries(q)
        /\ Entries(r) \in Seq(Marks) /\ Entries(q) \in Seq(Marks)
    BY <1>3, <2>2, EntriesJoin
  <2>4. Entries(r \o q) \in Seq(Marks)
    BY <2>3, ConcatProperties
  <2> QED BY <2>2, <2>3, <2>4
<1>10. Within(w \o Entries(q2), w \o x \o Entries(r \o q))
  <2>1. CASE q2 = q
    BY <1>9, <2>1, SegmentGoes
  <2>2. CASE q2 = <<>>
    <3>1. Entries(q2) = <<>>
      BY <2>2, EntriesNone
    <3>2. w \o Entries(q2) = w
      BY <1>9, <3>1, ConcatEmptySeq
    <3> QED BY <1>9, <3>2, SegmentGoes
  <2> QED BY <1>7, <2>1, <2>2
<1>11. Within(w \o n \o Entries(n \o q2), w \o x \o Entries(r \o q))
  BY <1>8, <1>10
<1> QED BY <1>1, <1>2, <1>3, <1>5, <1>7, <1>8, <1>11, ServesTurn

LEMMA DevStepKeepsTurn ==
  ASSUME RiaAssumption, RiaInv, RiaInv', AnswersInv, TurnInv, NEW d \in Devs, DevStep(d)
  PROVE  TurnInv'
<1>1. ASSUME UNCHANGED <<peer, sbuf, written, data, rbuf, down>>,
             up' = up \/ \E v : up' = Set(up, d, v),
             xid' = xid \/ \E v : xid' = Set(xid, d, v),
             phase' = phase \/ \E v : phase' = Set(phase, d, v),
             link' = link \/ \E v : link' = Set(link, d, v)
      PROVE  TurnInv'
  <2>1. Serves(d)
    BY <1>1, ServesIs
  <2>2. PICK w, x, r, q : Has(d, w, x, r, q)
    BY DEF Has
  <2>3. PICK H : /\ \A e \in Devs : rbuf[e] \in Seq(H) /\ down[e] \in Seq(H)
                 /\ AllArrive(H)
    BY DEF TurnInv, TurnTypes
  <2>4. /\ w \in Seq(Chunks) /\ x \in Seq(Chunks) /\ r \in Seq(H) /\ q \in Seq(H)
    BY <2>2, <2>3 DEF Has, TurnInv, TurnTypes
  <2>5. Has(d, w, x, r, q)'
    BY <1>1, <2>2 DEF Has
  <2>6. PICK g : g = w \o x \o Entries(r \o q)
    OBVIOUS
  <2>7. g \in Seq(Marks)
    BY <2>3, <2>4, <2>6, Marked
  <2>8. Within(g, g)
    BY <2>7, WithinSame
  <2> QED BY <2>1, <2>2, <2>3, <2>4, <2>5, <2>6, <2>8, ServesTurn
<1>2. CASE Export(d)
  <2>1. /\ UNCHANGED <<peer, sbuf, written, data, rbuf, down>>
        /\ \E v : up' = Set(up, d, v)
        /\ \E v : xid' = Set(xid, d, v)
        /\ \E v : phase' = Set(phase, d, v)
        /\ \E v : link' = Set(link, d, v)
    BY <1>2 DEF Export, Accepts, Put, Set, appVars, deviceVars
  <2> QED BY <1>1, <2>1
<1>3. CASE LineToProxy(d)
  <2>1. /\ UNCHANGED <<peer, sbuf, written, data, rbuf, down, phase, link>>
        /\ \E v : up' = Set(up, d, v)
        /\ \E v : xid' = Set(xid, d, v)
    BY <1>3 DEF LineToProxy, Put, Set, appVars, proxyVars
  <2> QED BY <1>1, <2>1
<1>4. CASE DeviceSends(d)
  <2>1. UNCHANGED <<peer, sbuf, written, data, rbuf, down, phase, link, up, xid>>
    BY <1>4 DEF DeviceSends, proxyVars
  <2> QED BY <1>1, <2>1
<1> QED BY <1>2, <1>3, <1>4, RegisteredTurns, ProcessesTurns, ToLineTurns, ExitsTurns DEF DevStep

\* The end of what comes to a device goes.
LEMMA EndGoes ==
  ASSUME NEW H, AllArrive(H), NEW w \in Seq(Chunks), NEW x \in Seq(Chunks),
         NEW r \in Seq(H), NEW q \in Seq(H), NEW k \in 0 .. Len(q), NEW q2, q2 = SubSeq(q, 1, k)
  PROVE  q2 \in Seq(H) /\ Within(w \o x \o Entries(r \o q2), w \o x \o Entries(r \o q))
<1>1. CASE k = 0
  <2>1. q2 = <<>>
    BY <1>1
  <2>2. q2 \in Seq(H) /\ r \o q2 = r
    BY <2>1, EmptySeq, ConcatEmptySeq
  <2>3. PICK u, v, o : u = w \o x /\ v = Entries(r) /\ o = Entries(q)
    OBVIOUS
  <2>4. u \in Seq(Marks) /\ v \in Seq(Marks) /\ o \in Seq(Marks) /\ Entries(r \o q) = v \o o
    <3>1. w \o x \in Seq(Marks) /\ AllMarked(H)
      BY Marked
    <3>2. Entries(r \o q) = Entries(r) \o Entries(q)
          /\ Entries(r) \in Seq(Marks) /\ Entries(q) \in Seq(Marks)
      BY <3>1, EntriesJoin
    <3> QED BY <2>3, <3>1, <3>2
  <2>5. PICK e, m : e = <<>> /\ m = u \o v
    OBVIOUS
  <2>6. e \in Seq(Marks) /\ m \in Seq(Marks)
    BY <2>4, <2>5, EmptySeq, ConcatProperties
  <2>7. Within(m, m \o o \o e)
    BY <2>4, <2>6, SegmentGoes
  <2>8. m \o o \o e = m \o o
    <3>1. m \o o \in Seq(Marks)
      BY <2>4, <2>6, ConcatProperties
    <3> QED BY <2>5, <3>1, ConcatEmptySeq
  <2>9. m \o o = u \o (v \o o)
    <3>1. Join(u, Join(v, o)) = Join(Join(u, v), o)
      BY <2>4, JoinThree
    <3> QED BY <2>5, <3>1 DEF Join
  <2> QED BY <2>2, <2>3, <2>4, <2>5, <2>7, <2>8, <2>9
<1>2. CASE k # 0
  <2>1. k \in 1 .. Len(q)
    BY <1>2, LenProperties
  <2>2. PICK t : t = SubSeq(q, k + 1, Len(q))
    OBVIOUS
  <2>3. q2 \in Seq(H) /\ t \in Seq(H) /\ q2 \o t = q
    BY <2>1, <2>2, SplitAt
  <2>4. PICK u, v, o, f : u = w \o x /\ v = Entries(r) /\ o = Entries(q2) /\ f = Entries(t)
    OBVIOUS
  <2>5. AllMarked(H)
    BY Marked
  <2>6. /\ u \in Seq(Marks) /\ v \in Seq(Marks) /\ o \in Seq(Marks)
        /\ Entries(r \o q2) = v \o o
    <3>1. w \o x \in Seq(Marks)
      BY Marked
    <3>2. Entries(r \o q2) = Entries(r) \o Entries(q2)
          /\ Entries(r) \in Seq(Marks) /\ Entries(q2) \in Seq(Marks)
      BY <2>3, <2>5, EntriesJoin
    <3> QED BY <2>4, <3>1, <3>2
  <2>7. Entries(r \o q) = v \o (o \o f) /\ f \in Seq(Marks)
    <3>1. Entries(q) = o \o f /\ f \in Seq(Marks)
      BY <2>3, <2>4, <2>5, EntriesJoin
    <3>2. Entries(r \o q) = v \o Entries(q)
      BY <2>4, <2>5, EntriesJoin
    <3> QED BY <3>1, <3>2
  <2>8. PICK m, e : m = Join(u, Join(v, o)) /\ e = <<>>
    OBVIOUS
  <2>9. /\ m \in Seq(Marks) /\ e \in Seq(Marks) /\ Join(m, f) \in Seq(Marks)
        /\ Join(u, Join(v, Join(o, f))) = Join(m, f)
    <3>1. PICK y : y = Join(v, o)
      OBVIOUS
    <3>2. y \in Seq(Marks) /\ Join(v, Join(o, f)) = Join(y, f)
      BY <2>6, <2>7, <3>1, JoinThree
    <3>3. Join(u, y) \in Seq(Marks) /\ Join(u, Join(y, f)) = Join(Join(u, y), f)
      BY <2>6, <2>7, <3>2, JoinThree
    <3>4. Join(m, f) \in Seq(Marks)
      BY <2>7, <2>8, <3>1, <3>3, JoinThree
    <3> QED BY <2>8, <3>1, <3>2, <3>3, <3>4, EmptySeq
  <2>10. Within(m, m \o f \o e)
    BY <2>7, <2>9, SegmentGoes
  <2>11. m \o f \o e = m \o f
    BY <2>8, <2>9, ConcatEmptySeq DEF Join
  <2>12. Within(m, m \o f)
    BY <2>10, <2>11
  <2>13. m = w \o x \o Entries(r \o q2)
    BY <2>4, <2>6, <2>8 DEF Join
  <2>14. m \o f = w \o x \o Entries(r \o q)
    BY <2>4, <2>7, <2>9 DEF Join
  <2> QED BY <2>3, <2>12, <2>13, <2>14
<1> QED BY <1>1, <1>2

Comes(w, x, r, q) == w \o x \o Entries(r \o q)

\* A packet is put behind the others.
LEMMA OneComes ==
  ASSUME NEW H, AllArrive(H), NEW w \in Seq(Chunks), NEW x \in Seq(Chunks),
         NEW r \in Seq(H), NEW q \in Seq(H), NEW p \in H
  PROVE  /\ Append(q, p) \in Seq(H) /\ Entry(p) \in Marks
         /\ Comes(w, x, r, Append(q, p)) = Append(Comes(w, x, r, q), Entry(p))
<1>1. PICK o, e, f : o = <<p>> /\ e = Entry(p) /\ f = <<e>>
  OBVIOUS
<1>2. o \in Seq(H) /\ Append(q, p) = q \o o /\ Append(q, p) \in Seq(H)
  BY <1>1, AppendProperties, AppendIsConcat
<1>3. Entries(o) = f /\ AllMarked(H)
  BY <1>1, EntriesOne, Marked
<1>4. e \in Marks /\ f \in Seq(Marks)
  BY <1>1, <1>3 DEF AllMarked
<1>5. PICK u, v : u = w \o x /\ v = Entries(r \o q)
  OBVIOUS
<1>6. u \in Seq(Marks) /\ v \in Seq(Marks)
  BY <1>5, Marked
<1>7. Entries(r \o (q \o o)) = v \o f
  <2>1. Join(r, Join(q, o)) = Join(Join(r, q), o) /\ Join(r, q) \in Seq(H)
    BY <1>2, JoinThree
  <2>2. r \o (q \o o) = (r \o q) \o o /\ r \o q \in Seq(H)
    BY <2>1 DEF Join
  <2>3. PICK z : z = r \o q
    OBVIOUS
  <2>4. Entries(z \o o) = Entries(z) \o Entries(o)
    BY <1>2, <1>3, <2>2, <2>3, EntriesJoin
  <2> QED BY <1>3, <1>5, <2>2, <2>3, <2>4
<1>8. Join(u, Join(v, f)) = Join(Join(u, v), f) /\ Join(u, v) \in Seq(Marks)
  BY <1>4, <1>6, JoinThree
<1>9. PICK y : y = Join(u, v)
  OBVIOUS
<1>10. Append(y, e) = y \o f
  BY <1>1, <1>4, <1>8, <1>9, AppendIsConcat
<1>11. u \o (v \o f) = Append(y, e)
  BY <1>8, <1>9, <1>10 DEF Join
<1> QED BY <1>1, <1>2, <1>4, <1>5, <1>7, <1>9, <1>11 DEF Join, Comes

\* What the proxy does to the packets for device d: it loses the last ones, or passes
\* one on that is new to the device.
Brings(d, p) ==
  /\ Arrives(p) /\ down'[d] = Append(down[d], p)
  /\ Entry(p).by # None =>
       /\ Entry(p).by = peer[d] /\ ~Fresh(Entry(p).by)'
       /\ Covered(Entry(p).n, Entry(p).by)'
       /\ \A n \in Nat : Covered(n, Entry(p).by) => n <= Entry(p).n
  /\ peer'[d] # None => Entry(p).by \in {peer'[d], None}

Loses(d) == \E k \in 0 .. Len(down[d]) : down'[d] = SubSeq(down[d], 1, k)

LEMMA ProxyKeepsTurn ==
  ASSUME RiaAssumption, RiaInv, RiaInv', TurnInv, UNCHANGED endVars, \A a \in Apps : Sends(a),
         \A d \in Devs : down'[d] = down[d] \/ Loses(d) \/ \E p : Brings(d, p),
         \A d \in Devs : peer'[d] # None => peer'[d] = peer[d] \/ Fresh(peer'[d])
  PROVE  TurnInv'
<1>1. PICK G : /\ \A e \in Devs : rbuf[e] \in Seq(G) /\ down[e] \in Seq(G)
               /\ AllArrive(G)
  BY DEF TurnInv, TurnTypes
<1>2. PICK N : N = {down'[d][Len(down'[d])] : d \in {e \in Devs : \E p : Brings(e, p)}}
  OBVIOUS
<1>3. PICK H : H = G \cup {p \in N : Arrives(p)}
  OBVIOUS
<1>4. /\ \A e \in Devs : rbuf[e] \in Seq(H) /\ down[e] \in Seq(H)
      /\ AllArrive(H)
  <2>1. Seq(G) \subseteq Seq(H)
    BY <1>3, SeqMonotonic
  <2> QED BY <1>1, <1>3, <2>1 DEF AllArrive
<1>5. ASSUME NEW d \in Devs, NEW p, Brings(d, p)
      PROVE  p \in H
  <2>1. Append(down[d], p)[Len(Append(down[d], p))] = p
    <3>1. PICK q, S : q = down[d] /\ S = G \cup {p}
      OBVIOUS
    <3>2. q \in Seq(S) /\ p \in S
      <4>1. Seq(G) \subseteq Seq(S)
        BY <3>1, SeqMonotonic
      <4> QED BY <1>1, <3>1, <4>1
    <3>3. Append(q, p)[Len(Append(q, p))] = p
      BY <3>2, OneMore
    <3> QED BY <3>1, <3>3
  <2>2. p = down'[d][Len(down'[d])]
    BY <1>5, <2>1 DEF Brings
  <2>3. p \in N
    BY <1>2, <1>5, <2>2
  <2> QED BY <1>3, <1>5, <2>3 DEF Brings
<1>6. UNCHANGED <<written, data, rbuf>>
  BY DEF endVars, deviceVars
<1>7. ASSUME NEW d \in Devs
      PROVE  /\ down'[d] \in Seq(H) /\ Coming(d) \in Seq(Marks) /\ Coming(d)' \in Seq(Marks)
             /\ \/ Within(Coming(d)', Coming(d))
                \/ \E e \in Marks : /\ Coming(d)' = Append(Coming(d), e)
                                    /\ e.by # None =>
                                         /\ e.by = peer[d] /\ ~Fresh(e.by)'
                                         /\ Covered(e.n, e.by)'
                                         /\ \A n \in Nat : Covered(n, e.by) => n <= e.n
                                    /\ peer'[d] # None => e.by \in {peer'[d], None}
  <2>1. PICK w, x, r, q : Has(d, w, x, r, q)
    BY DEF Has
  <2>2. /\ w \in Seq(Chunks) /\ x \in Seq(Chunks) /\ r \in Seq(H) /\ q \in Seq(H)
    BY <1>4, <2>1 DEF Has, TurnInv, TurnTypes
  <2>3. PICK q2, s, t : q2 = down'[d] /\ s = w \o x \o Entries(r \o q)
                        /\ t = w \o x \o Entries(r \o q2)
    OBVIOUS
  <2>4. s = Coming(d) /\ t = Coming(d)'
    BY <1>6, <2>1, <2>3 DEF Has, Coming
  <2>5. s \in Seq(Marks)
    BY <1>4, <2>2, <2>3, Marked
  <2>6. CASE q2 = q
    <3>1. Within(s, s)
      BY <2>5, WithinSame
    <3> QED BY <2>2, <2>3, <2>4, <2>5, <2>6, <3>1
  <2>7. CASE Loses(d)
    <3>1. PICK k \in 0 .. Len(q) : q2 = SubSeq(q, 1, k)
      BY <2>1, <2>3, <2>7 DEF Loses, Has
    <3>2. q2 \in Seq(H) /\ Within(t, s)
      BY <1>4, <2>2, <2>3, <3>1, EndGoes
    <3>3. t \in Seq(Marks)
      BY <1>4, <2>2, <2>3, <3>2, Marked
    <3> QED BY <2>3, <2>4, <2>5, <3>2, <3>3
  <2>8. ASSUME NEW p, Brings(d, p)
        PROVE  /\ q2 \in Seq(H) /\ t \in Seq(Marks) /\ t = Append(s, Entry(p)) /\ Entry(p) \in Marks
    <3>1. p \in H /\ q2 = Append(q, p)
      BY <1>5, <2>1, <2>3, <2>8 DEF Brings, Has
    <3>2. /\ Append(q, p) \in Seq(H) /\ Entry(p) \in Marks
          /\ Comes(w, x, r, Append(q, p)) = Append(Comes(w, x, r, q), Entry(p))
      <4>1. AllArrive(H)
        BY <1>4
      <4>2. p \in H
        BY <3>1
      <4> QED BY <2>2, <4>1, <4>2, OneComes
    <3>3. t = Append(s, Entry(p))
      BY <2>3, <3>1, <3>2 DEF Comes
    <3>4. t \in Seq(Marks)
      BY <2>5, <3>2, <3>3, AppendProperties
    <3> QED BY <3>1, <3>2, <3>3, <3>4
  <2>9. CASE \E p : Brings(d, p)
    <3>1. PICK p : Brings(d, p)
      BY <2>9
    <3> QED BY <2>3, <2>4, <2>5, <2>8, <3>1 DEF Brings
  <2> QED BY <2>1, <2>3, <2>6, <2>7, <2>9 DEF Has
<1>8. TurnTypes'
  <2>1. \A e \in Devs : rbuf'[e] \in Seq(H) /\ down'[e] \in Seq(H)
    BY <1>4, <1>6, <1>7
  <2>2. AllArrive(H)'
    BY <1>4 DEF AllArrive, Arrives, Entry
  <2> QED BY <1>6, <2>1, <2>2 DEF TurnInv, TurnTypes
<1> QED BY <1>7, <1>8, TurnStep DEF Sends

\* A connection the proxy reads from, or has freed: what it has yet to read is the rest.
LEMMA ReadSends ==
  ASSUME RiaAssumption, RiaInv, TurnInv, NEW a \in Apps, UNCHANGED <<sbuf[a], xid[a], phase[a]>>,
         up[a] # <<>>, up'[a] = Tail(up[a]), ~Fresh(a)', NEW p, p = Head(up[a])
  PROVE  /\ Sends(a) /\ p \in Mine(a) /\ Covered(Entry(p).n, a)'
         /\ \A n \in Nat : Covered(n, a) => n <= Entry(p).n
<1>1. /\ a # None /\ SentOrder(a) /\ up[a] \in Seq(Mine(a)) /\ sbuf[a] \in Seq(Mine(a))
  BY DEF RiaAssumption, TurnInv, SentOrder
<1>2. AllMarked(Mine(a))
  BY <1>1, MineArrives DEF AllMarked
<1>3. PICK t : t = Tail(up[a])
  OBVIOUS
<1>4. PICK e, f, v, b : e = Entry(p) /\ f = Entries(t) /\ v = Entries(sbuf[a]) /\ b = sbuf[a]
  OBVIOUS
<1>5. PICK u : u = Entries(up[a])
  OBVIOUS
<1>6. /\ p \in Mine(a) /\ t \in Seq(Mine(a)) /\ u = <<e>> \o f
      /\ <<e>> \in Seq(Marks) /\ f \in Seq(Marks)
  BY <1>1, <1>2, <1>3, <1>4, <1>5, EntriesCons
<1>7. PICK y, z : y = Yet(a) /\ z = Yet(a)'
  OBVIOUS
<1>8. y = u \o v /\ u \in Seq(Marks) /\ v \in Seq(Marks) /\ y \in Seq(Marks)
  BY <1>1, <1>4, <1>5, <1>7, YetIs
<1>9. z = f \o v
  <2>1. Entries(t \o b) = Entries(t) \o Entries(b)
    <3>1. PICK S : S = Mine(a)
      OBVIOUS
    <3>2. t \in Seq(S) /\ b \in Seq(S) /\ AllMarked(S)
      BY <1>1, <1>2, <1>4, <1>6, <3>1
    <3> QED BY <3>2, EntriesJoin
  <2>2. z = Entries(t \o b)
    BY <1>3, <1>4, <1>7 DEF Yet
  <2> QED BY <1>4, <2>1, <2>2
<1>10. PICK o : o = <<e>>
  OBVIOUS
<1>11. y = o \o z /\ z \in Seq(Marks) /\ o \in Seq(Marks)
  <2>2. o \in Seq(Marks) /\ f \in Seq(Marks) /\ v \in Seq(Marks)
    BY <1>6, <1>8, <1>10
  <2>1. Join(o, Join(f, v)) = Join(Join(o, f), v) /\ Join(f, v) \in Seq(Marks)
    BY <2>2, JoinThree
  <2> QED BY <1>6, <1>8, <1>9, <1>10, <2>1 DEF Join
<1>12. Within(z, y)
  <2>1. PICK n : n = <<>>
    OBVIOUS
  <2>2. n \in Seq(Marks) /\ n \o z = z /\ n \o o = o
    BY <1>11, <2>1, EmptySeq, ConcatEmptySeq
  <2>3. Within(n \o z, n \o o \o z)
    BY <1>11, <2>2, WithinCut
  <2> QED BY <1>11, <2>2, <2>3
<1>13. up'[a] \in Seq(Mine(a)) /\ sbuf'[a] \in Seq(Mine(a))
  BY <1>1, <1>3, <1>6
<1>14. SentOrder(a)' /\ \A n \in Nat : Covered(n, a) => Covered(n, a)'
  BY <1>1, <1>7, <1>12, <1>13, YetShrinks
<1>15. Sends(a)
  BY <1>14 DEF Sends
<1>16. 1 \in 1 .. Len(y) /\ y[1] = e
  <2>1. Len(o) = 1 /\ o[1] = e /\ Len(z) \in Nat
    BY <1>10, <1>11, LenProperties
  <2>2. /\ Len(o \o z) = Len(o) + Len(z)
        /\ \A i \in 1 .. Len(o) + Len(z) : (o \o z)[i] = IF i <= Len(o) THEN o[i] ELSE z[i - Len(o)]
    BY <1>11, TwoParts
  <2> QED BY <1>11, <2>1, <2>2
<1>17. e.n \in Nat
  BY <1>2, <1>4, <1>6 DEF AllMarked, Marks
<1>18. Covered(e.n, a)
  <2>1. \A i \in 1 .. Len(y) : e.n <= y[i].n
    <3>1. ASSUME NEW i \in 1 .. Len(y) PROVE e.n <= y[i].n
      <4>1. 1 <= i
        BY <1>16
      <4> QED BY <1>1, <1>7, <1>16, <4>1 DEF SentOrder
    <3> QED BY <3>1
  <2>2. phase[a] # "closed" => e.n <= xid[a]
    BY <1>1, <1>7, <1>16 DEF SentOrder
  <2> QED BY <1>7, <2>1, <2>2 DEF Covered
<1>19. \A n \in Nat : Covered(n, a) => n <= e.n
  BY <1>7, <1>16 DEF Covered
<1>20. Covered(e.n, a)'
  BY <1>14, <1>17, <1>18
<1>21. e = Entry(p)
  BY <1>4
<1>22. Covered(Entry(p).n, a)'
  BY <1>20, <1>21, Zenon
<1>23. \A n \in Nat : Covered(n, a) => n <= Entry(p).n
  BY <1>19, <1>21, Zenon
<1> QED BY <1>6, <1>15, <1>22, <1>23

\* A connection the proxy frees, or does not touch.
LEMMA FreedSends ==
  ASSUME RiaAssumption, RiaInv, TurnInv, NEW a \in Apps, UNCHANGED <<sbuf[a], xid[a], phase[a]>>,
         \/ UNCHANGED <<up[a], link[a]>>
         \/ up'[a] = <<>> /\ link'[a] = "freed"
  PROVE  Sends(a)
<1>1. /\ a # None /\ SentOrder(a) /\ up[a] \in Seq(Mine(a)) /\ sbuf[a] \in Seq(Mine(a))
  BY DEF RiaAssumption, TurnInv, SentOrder
<1>2. CASE UNCHANGED <<up[a], link[a]>>
  <2>1. SentOrder(a)' /\ \A n \in Nat : Covered(n, a) => Covered(n, a)'
    BY <1>1, <1>2, YetStays
  <2> QED BY <1>2, <2>1 DEF Sends, Fresh, NoClaims
<1>3. CASE up'[a] = <<>> /\ link'[a] = "freed"
  <2>1. PICK u, v, y : u = Entries(up[a]) /\ v = Entries(sbuf[a]) /\ y = Yet(a)
    OBVIOUS
  <2>2. y = u \o v /\ u \in Seq(Marks) /\ v \in Seq(Marks)
    BY <1>1, <2>1, YetIs
  <2>3. Yet(a)' = v
    <3>1. <<>> \o sbuf[a] = sbuf[a]
      BY <1>1, ConcatEmptySeq
    <3> QED BY <1>3, <2>1, <3>1 DEF Yet
  <2>4. Within(v, y)
    <3>1. PICK n : n = <<>>
      OBVIOUS
    <3>2. n \in Seq(Marks) /\ n \o v = v /\ n \o u = u
      BY <2>2, <3>1, EmptySeq, ConcatEmptySeq
    <3>3. Within(n \o v, n \o u \o v)
      BY <2>2, <3>2, WithinCut
    <3> QED BY <2>2, <3>2, <3>3
  <2>5. up'[a] \in Seq(Mine(a)) /\ sbuf'[a] \in Seq(Mine(a))
    BY <1>1, <1>3, EmptySeq
  <2>6. SentOrder(a)' /\ \A n \in Nat : Covered(n, a) => Covered(n, a)'
    BY <1>1, <2>1, <2>3, <2>4, <2>5, YetShrinks
  <2>7. ~Fresh(a)'
    BY <1>3 DEF Fresh, NoClaims
  <2> QED BY <2>6, <2>7 DEF Sends
<1> QED BY <1>2, <1>3

\* The claim is the first thing an application asks for: what it asks next is no claim.
LEMMA RequestNotFresh ==
  ASSUME RiaInv, NEW a \in Apps, AppRequest(a)
  PROVE  ~Fresh(a)'
<1>1. Listed(a) /\ up[a] # <<>> /\ up' = Set(up, a, Tail(up[a])) /\ UNCHANGED link
  BY DEF AppRequest
<1>2. up'[a] = Tail(up[a]) /\ link'[a] # "none"
  BY <1>1 DEF Set, Listed, RiaInv, ProxyTypes, Ends
<1>3. up[a] \in Seq(AppPackets)
  BY DEF RiaInv, ProxyTypes
<1>4. ASSUME NEW i \in 1 .. Len(Tail(up[a]))
      PROVE  Tail(up[a])[i].cmd # "claim"
  <2>1. i + 1 \in 1 .. Len(up[a]) /\ i + 1 # 1 /\ Tail(up[a])[i] = up[a][i + 1]
    BY <1>1, <1>3, HeadTailProperties
  <2> QED BY <2>1 DEF RiaInv, FirstIsClaim
<1> QED BY <1>2, <1>4 DEF Fresh, NoClaims

\* ria_svc_app_handler passes a packet on to the device its sender has claimed; the claim
\* of a device is the first thing an application asks for.
LEMMA AppRequestTurns ==
  ASSUME RiaAssumption, RiaInv, RiaInv', AnswersInv, TurnInv, NEW a \in Apps, AppRequest(a)
  PROVE  TurnInv'
<1>1. PICK p : p = Head(up[a])
  OBVIOUS
<1>2. /\ Listed(a) /\ up[a] # <<>> /\ up' = Set(up, a, Tail(up[a]))
      /\ UNCHANGED <<link, registered, endVars>>
      /\ \/ /\ \E rc, body : Respond(a, p, rc, body)
            /\ \/ UNCHANGED peer
               \/ /\ p.cmd = "claim" /\ Claimable(p.dev)
                  /\ peer' = [peer EXCEPT ![a] = p.dev, ![p.dev] = a]
         \/ /\ p.cmd \notin {"list", "claim"} /\ peer[a] # None
            /\ down' = Put(down, peer[a], p) /\ UNCHANGED peer
  BY <1>1 DEF AppRequest
<1>3. /\ a \in Ends /\ a \notin Devs /\ \A b \in Apps : b \in Ends
      /\ DOMAIN up = Ends /\ DOMAIN down = Ends /\ peer \in [Ends -> Ends \cup {None}]
      /\ \A d \in Devs : d \in Ends
  BY DEF RiaAssumption, Ends, RiaInv, ProxyTypes, AnswersInv, AllAmong
<1>4. UNCHANGED <<sbuf, xid, phase, link>>
  BY <1>2 DEF endVars, appVars
<1>5. up'[a] = Tail(up[a]) /\ \A b \in Apps \ {a} : up'[b] = up[b]
  BY <1>2, <1>3 DEF Set
<1>6. ~Fresh(a)'
  BY RequestNotFresh
<1>7. /\ Sends(a) /\ p \in Mine(a) /\ Covered(Entry(p).n, a)'
      /\ \A n \in Nat : Covered(n, a) => n <= Entry(p).n
  <2>1. UNCHANGED <<sbuf[a], xid[a], phase[a]>> /\ up[a] # <<>> /\ up'[a] = Tail(up[a])
    BY <1>2, <1>4, <1>5
  <2> QED BY <1>1, <1>6, <2>1, ReadSends
<1>8. \A b \in Apps : Sends(b)
  BY <1>4, <1>5, <1>7, FreedSends
<1>9. UNCHANGED endVars
  BY <1>2
<1>10. CASE \E rc, body : Respond(a, p, rc, body)
  <2>1. down' = down \/ \E v : down' = Set(down, a, v)
    BY <1>10 DEF Respond, Put, Set
  <2>2. \A d \in Devs : down'[d] = down[d]
    BY <1>3, <2>1, SetElse
  <2>3. \A d \in Devs : peer'[d] # None => peer'[d] = peer[d] \/ Fresh(peer'[d])
    <3>1. CASE UNCHANGED peer
      BY <3>1
    <3>2. CASE p.cmd = "claim" /\ Claimable(p.dev) /\ peer' = [peer EXCEPT ![a] = p.dev, ![p.dev] = a]
      <4>1. Fresh(a)
        <5>1. up[a] \in Seq(AppPackets)
          BY DEF RiaInv, ProxyTypes
        <5>2. 1 \in 1 .. Len(up[a]) /\ up[a][1] = p
          BY <1>1, <1>2, <5>1, HeadTailProperties
        <5> QED BY <3>2, <5>2 DEF Fresh, NoClaims
      <4>2. \A d \in Devs : peer'[d] = peer[d] \/ peer'[d] = a
        BY <1>3, <3>2
      <4> QED BY <4>1, <4>2
    <3> QED BY <1>2, <1>3, <3>1, <3>2
  <2> QED BY <1>8, <1>9, <2>2, <2>3, ProxyKeepsTurn
<1>11. CASE peer[a] # None /\ down' = Put(down, peer[a], p) /\ UNCHANGED peer
  <2>1. PICK k : k = peer[a]
    OBVIOUS
  <2>2. k \in Devs /\ peer[k] = a
    BY <1>3, <1>11, <2>1 DEF RiaInv, PeersPaired, PeersDiffer
  <2>3. down'[k] = Append(down[k], p) /\ \A d \in Devs \ {k} : down'[d] = down[d]
    BY <1>3, <1>11, <2>1, <2>2 DEF Put
  <2>4. Arrives(p) /\ Entry(p).by = a
    BY <1>7, MineArrives DEF RiaAssumption
  <2>5. Brings(k, p)
    BY <1>6, <1>7, <1>11, <2>2, <2>3, <2>4 DEF Brings
  <2>6. \A d \in Devs : down'[d] = down[d] \/ Loses(d) \/ \E q : Brings(d, q)
    BY <2>3, <2>5
  <2>7. \A d \in Devs : peer'[d] # None => peer'[d] = peer[d] \/ Fresh(peer'[d])
    BY <1>11
  <2> QED BY <1>8, <1>9, <2>6, <2>7, ProxyKeepsTurn
<1> QED BY <1>2, <1>10, <1>11

LEMMA RepliesMarked ==
  ASSUME NEW p, NEW rc, NEW body
  PROVE  /\ Entry(Reply(p, rc, body)) \in Marks /\ Entry(Reply(p, rc, body)).by = None
         /\ Arrives(Reply(p, rc, body))
<1>1. PICK q : q = Reply(p, rc, body)
  OBVIOUS
<1>2. q.dest
  BY <1>1 DEF Reply
<1>3. Entry(q) = [by |-> None, n |-> 0]
  BY <1>2 DEF Entry
<1>4. Entry(q) \in Marks /\ Entry(q).by = None
  BY <1>3 DEF Marks
<1> QED BY <1>1, <1>2, <1>4 DEF Arrives

\* What the proxy answers an exporter is a reply, and so nobody's call.
LEMMA DevRequestTurns ==
  ASSUME RiaAssumption, RiaInv, RiaInv', AnswersInv, TurnInv, NEW d \in Devs, DevRequest(d)
  PROVE  TurnInv'
<1>1. PICK p : p = Head(up[d])
  OBVIOUS
<1>2. /\ up' = Set(up, d, Tail(up[d])) /\ UNCHANGED <<link, peer, endVars>>
      /\ \/ \E rc, body : Respond(d, p, rc, body)
         \/ peer[d] # None /\ down' = Put(down, peer[d], p)
  BY <1>1 DEF DevRequest
<1>3. /\ d \in Ends /\ \A b \in Apps : b \in Ends /\ b # d
      /\ DOMAIN up = Ends /\ DOMAIN down = Ends /\ peer \in [Ends -> Ends \cup {None}]
      /\ \A e \in Devs : e \in Ends /\ e \notin Apps
  BY DEF RiaAssumption, Ends, RiaInv, ProxyTypes, AnswersInv, AllAmong
<1>4. UNCHANGED <<sbuf, xid, phase, link>>
  BY <1>2 DEF endVars, appVars
<1>5. \A b \in Apps : up'[b] = up[b]
  BY <1>2, <1>3 DEF Set
<1>6. \A b \in Apps : Sends(b)
  BY <1>4, <1>5, FreedSends
<1>7. CASE \E rc, body : Respond(d, p, rc, body)
  <2>1. PICK rc, body : Respond(d, p, rc, body)
    BY <1>7
  <2>2. PICK q : q = Reply(p, rc, body)
    OBVIOUS
  <2>3. down' = down \/ down' = [down EXCEPT ![d] = Append(down[d], q)]
    BY <2>1, <2>2 DEF Respond, Put
  <2>4. CASE down' = down
    BY <1>2, <1>6, <2>4, ProxyKeepsTurn
  <2>5. CASE down' = [down EXCEPT ![d] = Append(down[d], q)]
    <3>1. down'[d] = Append(down[d], q) /\ \A e \in Devs \ {d} : down'[e] = down[e]
      BY <1>3, <2>5
    <3>2. Entry(q) \in Marks /\ Entry(q).by = None /\ Arrives(q)
      BY <2>1, <2>2, RepliesMarked
    <3>3. Brings(d, q)
      BY <3>1, <3>2 DEF Brings
    <3>4. \A e \in Devs : down'[e] = down[e] \/ Loses(e) \/ \E o : Brings(e, o)
      BY <3>1, <3>3
    <3> QED BY <1>2, <1>6, <3>4, ProxyKeepsTurn
  <2> QED BY <2>3, <2>4, <2>5
<1>8. CASE peer[d] # None /\ down' = Put(down, peer[d], p)
  <2>1. peer[d] \in Apps
    BY <1>3, <1>8 DEF RiaInv, PeersDiffer, Ends
  <2>2. \A e \in Devs : down'[e] = down[e]
    BY <1>3, <1>8, <2>1 DEF Put
  <2> QED BY <1>2, <1>6, <2>2, ProxyKeepsTurn
<1> QED BY <1>2, <1>7, <1>8

\* What the proxy has in its own buffers of a connection goes with it.
LEMMA UnsentLoses ==
  ASSUME RiaAssumption, AnswersInv, NEW C \in SUBSET Ends, Unsent(C), NEW d \in Ends
  PROVE  down'[d] = down[d] \/ Loses(d)
<1>1. PICK kept \in [C -> 0 .. MaxDown] :
        down' = [c \in Ends |-> IF c \in C
                   THEN SubSeq(down[c], 1, IF kept[c] < Len(down[c])
                                           THEN kept[c] ELSE Len(down[c]))
                   ELSE down[c]]
  BY DEF Unsent
<1>2. d \in Ends
  OBVIOUS
<1>3. Len(down[d]) \in Nat
  BY LenProperties DEF AnswersInv, AllAmong
<1>4. CASE d \in C
  <2>1. PICK k : k = (IF kept[d] < Len(down[d]) THEN kept[d] ELSE Len(down[d]))
    OBVIOUS
  <2>2. kept[d] \in Nat
    BY <1>1, <1>4 DEF RiaAssumption
  <2>3. k \in 0 .. Len(down[d])
    BY <1>3, <2>1, <2>2
  <2>4. down'[d] = SubSeq(down[d], 1, k)
    BY <1>1, <1>2, <1>4, <2>1
  <2> QED BY <2>3, <2>4 DEF Loses
<1>5. CASE d \notin C
  BY <1>1, <1>2, <1>5
<1> QED BY <1>4, <1>5

LEMMA EmptyLoses ==
  ASSUME AnswersInv, NEW d \in Ends, down'[d] = <<>>
  PROVE  Loses(d)
<1>1. PICK q : q = down[d]
  OBVIOUS
<1>2. PICK H : q \in Seq(H)
  BY <1>1 DEF AnswersInv, AllAmong
<1>3. Len(q) \in Nat
  BY <1>2, LenProperties
<1>4. SubSeq(q, 1, 0) = <<>> /\ 0 \in 0 .. Len(q)
  BY <1>2, <1>3
<1> QED BY <1>1, <1>4 DEF Loses

\* A connection the proxy frees takes some of its packets with it, and its claim.
LEMMA DropClientTurns ==
  ASSUME RiaAssumption, RiaInv, RiaInv', AnswersInv, TurnInv, NEW c \in Ends, DropClient(c)
  PROVE  TurnInv'
<1>1. /\ DOMAIN up = Ends /\ DOMAIN down = Ends /\ DOMAIN link = Ends
      /\ \A a \in Apps : a \in Ends
      /\ \A d \in Devs : d \in Ends
  BY DEF Ends, RiaInv, ProxyTypes, AnswersInv, AllAmong
<1>2. /\ link' = Set(link, c, "freed") /\ up' = Set(up, c, <<>>) /\ peer' = Detached(c)
      /\ UNCHANGED endVars
      /\ down' = Set(down, c, <<>>) \/ Unsent({c})
  BY DEF DropClient
<1>3. UNCHANGED <<sbuf, xid, phase>>
  BY <1>2 DEF endVars, appVars
<1>4. \A a \in Apps : UNCHANGED <<up[a], link[a]>> \/ (up'[a] = <<>> /\ link'[a] = "freed")
  BY <1>1, <1>2 DEF Set
<1>5. \A a \in Apps : Sends(a)
  BY <1>3, <1>4, FreedSends
<1>6. ASSUME NEW d \in Devs
      PROVE  down'[d] = down[d] \/ Loses(d)
  <2>1. CASE down' = Set(down, c, <<>>)
    <3>1. down'[d] = down[d] \/ down'[d] = <<>>
      BY <1>1, <2>1 DEF Set
    <3> QED BY <1>1, <3>1, EmptyLoses
  <2>2. CASE Unsent({c})
    <3>1. {c} \in SUBSET Ends
      OBVIOUS
    <3> QED BY <1>1, <2>2, <3>1, UnsentLoses
  <2> QED BY <1>2, <2>1, <2>2
<1>7. \A d \in Devs : peer'[d] # None => peer'[d] = peer[d] \/ Fresh(peer'[d])
  BY <1>1, <1>2 DEF Detached
<1> QED BY <1>2, <1>5, <1>6, <1>7, ProxyKeepsTurn

LEMMA ProxyDiesTurns ==
  ASSUME RiaAssumption, RiaInv, RiaInv', AnswersInv, TurnInv, ProxyDies
  PROVE  TurnInv'
<1>1. /\ DOMAIN down = Ends /\ Ends \in SUBSET Ends
      /\ \A a \in Apps : a \in Ends
      /\ \A d \in Devs : d \in Ends
  BY DEF Ends, AnswersInv, AllAmong
<1>2. /\ link' = [e \in Ends |-> "freed"] /\ up' = [e \in Ends |-> <<>>]
      /\ peer' = [e \in Ends |-> None] /\ UNCHANGED endVars /\ Unsent(Ends)
  BY DEF ProxyDies
<1>3. UNCHANGED <<sbuf, xid, phase>>
  BY <1>2 DEF endVars, appVars
<1>4. \A a \in Apps : up'[a] = <<>> /\ link'[a] = "freed"
  BY <1>1, <1>2
<1>5. \A a \in Apps : Sends(a)
  BY <1>3, <1>4, FreedSends
<1>6. \A d \in Devs : down'[d] = down[d] \/ Loses(d)
  BY <1>1, <1>2, UnsentLoses
<1>7. \A d \in Devs : peer'[d] # None => peer'[d] = peer[d] \/ Fresh(peer'[d])
  BY <1>1, <1>2
<1> QED BY <1>2, <1>5, <1>6, <1>7, ProxyKeepsTurn

LEMMA TurnInvInit ==
  ASSUME RiaAssumption, Init
  PROVE  TurnInv
<1>1. TurnTypes
  <2>1. AllArrive({})
    BY DEF AllArrive
  <2>2. \A d \in Devs : rbuf[d] \in Seq({}) /\ down[d] \in Seq({})
    BY EmptySeq DEF Init, Ends
  <2>3. DOMAIN data = Ends /\ \A d \in Devs : data[d] \in Seq(Chunks)
    BY EmptySeq DEF Init, Ends
  <2>4. written \in [Devs -> Seq(Chunks)]
    BY EmptySeq DEF Init
  <2> QED BY <2>1, <2>2, <2>3, <2>4 DEF TurnTypes
<1>2. ASSUME NEW a \in Apps
      PROVE  SentOrder(a)
  <2>1. up[a] = <<>> /\ sbuf[a] = <<>>
    BY DEF Init, Ends
  <2>2. Yet(a) = <<>>
    <3>1. <<>> \o <<>> = <<>>
      OBVIOUS
    <3> QED BY <2>1, <3>1, EntriesNone DEF Yet
  <2>3. Len(Yet(a)) = 0
    BY <2>2
  <2> QED BY <2>1, <2>3, EmptySeq DEF SentOrder
<1>3. ASSUME NEW d \in Devs
      PROVE  Len(Coming(d)) = 0
  <2>1. written[d] = <<>> /\ data[d] = <<>> /\ rbuf[d] = <<>> /\ down[d] = <<>>
    BY DEF Init, Ends
  <2>2. <<>> \o <<>> = <<>>
    OBVIOUS
  <2>3. Coming(d) = <<>>
    BY <2>1, <2>2, EntriesNone DEF Coming
  <2> QED BY <2>3
<1>4. \A d \in Devs : /\ InTurn(Coming(d)) /\ Before(Coming(d))
                      /\ peer[d] # None => Latest(Coming(d), peer[d])
  BY <1>3 DEF InTurn, Before, Latest
<1> QED BY <1>1, <1>2, <1>4 DEF TurnInv

\* Every step keeps calls and data of the clients of a device apart and in order.
LEMMA TurnInvNext ==
  ASSUME RiaAssumption, RiaInv, RiaInv', AnswersInv, TurnInv, [Next]_vars
  PROVE  TurnInv'
<1>1. CASE ProxyStep
  BY <1>1, DropClientTurns, AppRequestTurns, DevRequestTurns, ProxyDiesTurns DEF ProxyStep
<1>2. ASSUME NEW a \in Apps, AppStep(a)
      PROVE  TurnInv'
  BY <1>2, AppStepTurns, AsideKeepsTurn
<1>3. ASSUME NEW d \in Devs, DevStep(d)
      PROVE  TurnInv'
  BY <1>3, DevStepKeepsTurn
<1>4. CASE UNCHANGED vars
  <2>1. UNCHANGED endVars /\ UNCHANGED <<up, down, link, peer>>
    BY <1>4 DEF vars, proxyVars
  <2>2. UNCHANGED <<sbuf, xid, phase>>
    BY <2>1 DEF endVars, appVars
  <2>3. \A a \in Apps : Sends(a)
    BY <2>1, <2>2, FreedSends
  <2> QED BY <2>1, <2>3, ProxyKeepsTurn
<1> QED BY <1>1, <1>2, <1>3, <1>4 DEF Next

-------------------------------------------------------------------------------
(* What an application reads.  The device numbers the chunks it makes; on the *)
(* way from its serial line through the exporter, the proxy and the queue of  *)
(* the application they stay in order.  What an application has, of all       *)
(* devices that it could have, comes before what its device still sends: it   *)
(* claims one device, and had nothing before (Fresh).                         *)

Rising(s) == \A k, l \in 1 .. Len(s) : k < l => s[k] < s[l]

Elems(s) == {s[k] : k \in 1 .. Len(s)}

Below(M, N) == \A m \in M, n \in N : m < n

\* The chunks that packets bring from the device.
Nums(ps) == UNION {Elems(Body(ps[i])) : i \in 1 .. Len(ps)}

InOrder(ps) ==
  \A i \in 1 .. Len(ps) :
    /\ Body(ps[i]) \in Seq(Nat) /\ Rising(Body(ps[i]))
    /\ \A j \in 1 .. Len(ps) : i < j => Below(Elems(Body(ps[i])), Elems(Body(ps[j])))

LEMMA ElemsAre ==
  ASSUME NEW s \in Seq(Nat)
  PROVE  Elems(s) \subseteq Nat
  BY ElementOfSeq DEF Elems

LEMMA NoElems == Elems(<<>>) = {} /\ Rising(<<>>) /\ <<>> \in Seq(Nat) /\ InOrder(<<>>) /\ Nums(<<>>) = {}
<1>1. Len(<<>>) = 0 /\ 1 .. 0 = {}
  OBVIOUS
<1>2. Nums(<<>>) = {}
  BY <1>1 DEF Nums
<1> QED BY <1>1, <1>2, EmptySeq DEF Elems, Rising, InOrder

LEMMA RisingJoin ==
  ASSUME NEW s \in Seq(Nat), NEW t \in Seq(Nat), Rising(s), Rising(t), Below(Elems(s), Elems(t))
  PROVE  s \o t \in Seq(Nat) /\ Rising(s \o t) /\ Elems(s \o t) = Elems(s) \cup Elems(t)
<1>1. PICK u, m, n : u = s \o t /\ m = Len(s) /\ n = Len(t)
  OBVIOUS
<1>2. /\ u \in Seq(Nat) /\ Len(u) = m + n /\ m \in Nat /\ n \in Nat
      /\ \A i \in 1 .. m + n : u[i] = IF i <= m THEN s[i] ELSE t[i - m]
  BY <1>1, TwoParts
<1>3. \A i \in 1 .. m + n : \/ i \in 1 .. m /\ u[i] = s[i]
                            \/ i - m \in 1 .. n /\ ~(i <= m) /\ u[i] = t[i - m]
  BY <1>2
<1>4. /\ \A i \in 1 .. m : s[i] \in Elems(s)
      /\ \A i \in 1 .. n : t[i] \in Elems(t)
  BY <1>1 DEF Elems
<1>5. ASSUME NEW k \in 1 .. m + n, NEW l \in 1 .. m + n, k < l
      PROVE  u[k] < u[l]
  <2>1. CASE k \in 1 .. m /\ u[k] = s[k] /\ l \in 1 .. m /\ u[l] = s[l]
    BY <1>1, <1>5, <2>1 DEF Rising
  <2>2. CASE k \in 1 .. m /\ u[k] = s[k] /\ l - m \in 1 .. n /\ u[l] = t[l - m]
    BY <1>4, <2>2 DEF Below
  <2>3. CASE k - m \in 1 .. n /\ u[k] = t[k - m] /\ l - m \in 1 .. n /\ u[l] = t[l - m]
    <3>1. k - m < l - m
      BY <1>2, <1>5
    <3> QED BY <1>1, <2>3, <3>1 DEF Rising
  <2>4. ~(k - m \in 1 .. n /\ ~(k <= m) /\ l \in 1 .. m)
    BY <1>2, <1>5
  <2> QED BY <1>3, <2>1, <2>2, <2>3, <2>4
<1>6. Rising(u)
  BY <1>2, <1>5 DEF Rising
<1>7. \A i \in 1 .. m : i \in 1 .. m + n /\ u[i] = s[i]
  BY <1>2
<1>8. ASSUME NEW i \in 1 .. n
      PROVE  i + m \in 1 .. m + n /\ u[i + m] = t[i]
  <2>1. i + m \in 1 .. m + n /\ ~(i + m <= m) /\ i + m - m = i
    BY <1>2
  <2>2. u[i + m] = t[i + m - m]
    BY <1>2, <2>1
  <2> QED BY <2>1, <2>2
<1>9. Elems(u) = Elems(s) \cup Elems(t)
  <2>1. Elems(u) = {u[i] : i \in 1 .. m + n}
    BY <1>2 DEF Elems
  <2>2. Elems(s) = {s[i] : i \in 1 .. m} /\ Elems(t) = {t[i] : i \in 1 .. n}
    BY <1>1 DEF Elems
  <2>3. \A i \in 1 .. m + n : u[i] \in Elems(s) \cup Elems(t)
    BY <1>3, <1>4
  <2>4. (\A i \in 1 .. m : s[i] \in Elems(u)) /\ (\A i \in 1 .. n : t[i] \in Elems(u))
    BY <1>7, <1>8, <2>1
  <2> QED BY <2>1, <2>2, <2>3, <2>4
<1> QED BY <1>1, <1>2, <1>6, <1>9

\* A rising sequence cut in two.
LEMMA RisingCut ==
  ASSUME NEW s \in Seq(Nat), Rising(s), NEW n \in 1 .. Len(s), NEW u, NEW v,
         u = SubSeq(s, 1, n), v = SubSeq(s, n + 1, Len(s))
  PROVE  /\ u \in Seq(Nat) /\ v \in Seq(Nat) /\ Rising(u) /\ Rising(v)
         /\ Below(Elems(u), Elems(v)) /\ Elems(u) \subseteq Elems(s) /\ Elems(v) \subseteq Elems(s)
<1>1. PICK m : m = Len(s) /\ m \in Nat
  BY LenProperties
<1>2. u \in Seq(Nat) /\ Len(u) = n /\ \A i \in 1 .. n : u[i] = s[i] /\ i \in 1 .. m
  BY <1>1
<1>3. v \in Seq(Nat) /\ Len(v) = m - n /\ \A i \in 1 .. m - n : v[i] = s[n + i] /\ n + i \in 1 .. m
  BY <1>1
<1>4. Rising(u)
  <2>1. \A k, l \in 1 .. n : k < l => s[k] < s[l]
    BY <1>1, <1>2 DEF Rising
  <2>2. \A k, l \in 1 .. n : k < l => u[k] < u[l]
    BY <1>2, <2>1
  <2> QED BY <1>2, <2>2 DEF Rising
<1>5. ASSUME NEW k \in 1 .. m - n, NEW l \in 1 .. m - n, k < l
      PROVE  v[k] < v[l]
  <2>1. n + k < n + l
    BY <1>1, <1>5
  <2> QED BY <1>1, <1>3, <2>1 DEF Rising
<1>6. Rising(v)
  BY <1>3, <1>5 DEF Rising
<1>7. ASSUME NEW k \in 1 .. n, NEW l \in 1 .. m - n
      PROVE  u[k] < v[l]
  <2>1. k < n + l /\ k \in 1 .. m
    BY <1>1
  <2> QED BY <1>1, <1>2, <1>3, <2>1 DEF Rising
<1>8. /\ Elems(u) = {u[i] : i \in 1 .. n} /\ Elems(v) = {v[i] : i \in 1 .. m - n}
      /\ Elems(s) = {s[i] : i \in 1 .. m}
  BY <1>1, <1>2, <1>3 DEF Elems
<1>9. Below(Elems(u), Elems(v)) /\ Elems(u) \subseteq Elems(s) /\ Elems(v) \subseteq Elems(s)
  BY <1>2, <1>3, <1>7, <1>8 DEF Below
<1> QED BY <1>2, <1>3, <1>4, <1>6, <1>9

LEMMA RisingFirst ==
  ASSUME NEW s \in Seq(Nat), s # <<>>, Rising(s), NEW h, NEW t, h = Head(s), t = Tail(s)
  PROVE  /\ h \in Nat /\ t \in Seq(Nat) /\ Rising(t) /\ Below({h}, Elems(t))
         /\ h \in Elems(s) /\ Elems(t) \subseteq Elems(s)
<1>1. PICK m : m = Len(s) /\ m \in Nat
  BY LenProperties
<1>2. m >= 1 /\ h = s[1] /\ 1 \in 1 .. m /\ h \in Nat
  BY <1>1, HeadTailProperties
<1>3. t \in Seq(Nat) /\ Len(t) = m - 1 /\ \A i \in 1 .. m - 1 : t[i] = s[i + 1] /\ i + 1 \in 1 .. m
  BY <1>1, <1>2, HeadTailProperties
<1>4. ASSUME NEW k \in 1 .. m - 1, NEW l \in 1 .. m - 1, k < l
      PROVE  t[k] < t[l]
  <2>1. k + 1 < l + 1
    BY <1>1, <1>4
  <2> QED BY <1>1, <1>3, <2>1 DEF Rising
<1>5. Rising(t)
  BY <1>3, <1>4 DEF Rising
<1>6. ASSUME NEW l \in 1 .. m - 1
      PROVE  h < t[l]
  <2>1. 1 < l + 1
    BY <1>1
  <2> QED BY <1>1, <1>2, <1>3, <2>1 DEF Rising
<1>7. Below({h}, Elems(t))
  BY <1>3, <1>6 DEF Below, Elems
<1>8. h \in Elems(s) /\ Elems(t) \subseteq Elems(s)
  BY <1>1, <1>2, <1>3 DEF Elems
<1> QED BY <1>2, <1>3, <1>5, <1>7, <1>8

LEMMA OrderWithin ==
  ASSUME NEW s, NEW t, Within(t, s), InOrder(s)
  PROVE  InOrder(t) /\ Nums(t) \subseteq Nums(s)
<1>1. PICK f \in [1 .. Len(t) -> 1 .. Len(s)] :
        /\ \A i \in 1 .. Len(t) : t[i] = s[f[i]]
        /\ \A i, j \in 1 .. Len(t) : i < j => f[i] < f[j]
  BY DEF Within
<1>2. InOrder(t)
  <2>1. \A i \in 1 .. Len(t) : f[i] \in 1 .. Len(s)
    BY <1>1
  <2>2. ASSUME NEW i \in 1 .. Len(t)
        PROVE  Body(t[i]) \in Seq(Nat) /\ Rising(Body(t[i]))
    <3>1. Body(s[f[i]]) \in Seq(Nat) /\ Rising(Body(s[f[i]]))
      BY <2>1 DEF InOrder
    <3> QED BY <1>1, <3>1
  <2>3. ASSUME NEW i \in 1 .. Len(t), NEW j \in 1 .. Len(t), i < j
        PROVE  Below(Elems(Body(t[i])), Elems(Body(t[j])))
    <3>1. f[i] < f[j] /\ f[i] \in 1 .. Len(s) /\ f[j] \in 1 .. Len(s)
      BY <1>1, <2>1, <2>3
    <3>2. Below(Elems(Body(s[f[i]])), Elems(Body(s[f[j]])))
      BY <3>1 DEF InOrder
    <3> QED BY <1>1, <3>2
  <2> QED BY <2>2, <2>3 DEF InOrder
<1>3. Nums(t) \subseteq Nums(s)
  BY <1>1 DEF Nums
<1> QED BY <1>2, <1>3

LEMMA OrderFirst ==
  ASSUME NEW G, NEW s \in Seq(G), s # <<>>, InOrder(s), NEW p, NEW t, p = Head(s), t = Tail(s)
  PROVE  /\ Body(p) \in Seq(Nat) /\ Rising(Body(p)) /\ Elems(Body(p)) \subseteq Nums(s)
         /\ t \in Seq(G) /\ InOrder(t) /\ Nums(t) \subseteq Nums(s)
         /\ Below(Elems(Body(p)), Nums(t))
<1>1. PICK m : m = Len(s) /\ m \in Nat
  BY LenProperties
<1>2. m >= 1 /\ p = s[1] /\ 1 \in 1 .. m
  BY <1>1, HeadTailProperties
<1>3. t \in Seq(G) /\ Len(t) = m - 1 /\ \A i \in 1 .. m - 1 : t[i] = s[i + 1] /\ i + 1 \in 1 .. m /\ 1 < i + 1
  BY <1>1, <1>2, HeadTailProperties
<1>4. Within(t, s)
  BY WithinTail
<1>5. \A i \in 1 .. m - 1 : Below(Elems(Body(p)), Elems(Body(t[i])))
  BY <1>1, <1>2, <1>3 DEF InOrder
<1>6. Below(Elems(Body(p)), Nums(t))
  BY <1>3, <1>5 DEF Below, Nums
<1>7. Body(p) \in Seq(Nat) /\ Rising(Body(p))
  BY <1>1, <1>2 DEF InOrder
<1>8. Elems(Body(p)) \subseteq Nums(s)
  BY <1>1, <1>2 DEF Nums
<1> QED BY <1>3, <1>4, <1>6, <1>7, <1>8, OrderWithin

LEMMA OrderMore ==
  ASSUME NEW G, NEW s \in Seq(G), InOrder(s), NEW p, Body(p) \in Seq(Nat), Rising(Body(p)),
         Below(Nums(s), Elems(Body(p)))
  PROVE  InOrder(Append(s, p)) /\ Nums(Append(s, p)) = Nums(s) \cup Elems(Body(p))
<1>1. PICK m, t : m = Len(s) /\ t = Append(s, p)
  OBVIOUS
<1>2. /\ Len(t) = m + 1 /\ m \in Nat /\ t[m + 1] = p
      /\ \A i \in 1 .. m : t[i] = s[i]
  <2>1. PICK S : S = G \cup {p}
    OBVIOUS
  <2>2. s \in Seq(S) /\ p \in S
    <3>1. Seq(G) \subseteq Seq(S)
      BY <2>1, SeqMonotonic
    <3> QED BY <2>1, <3>1
  <2> QED BY <1>1, <2>2, OneMore
<1>3. \A i \in 1 .. m + 1 : i \in 1 .. m \/ i = m + 1
  BY <1>2
<1>4. \A i \in 1 .. m : Elems(Body(s[i])) \subseteq Nums(s)
  BY <1>1 DEF Nums
<1>5. ASSUME NEW i \in 1 .. m + 1
      PROVE  Body(t[i]) \in Seq(Nat) /\ Rising(Body(t[i]))
  BY <1>1, <1>2, <1>3 DEF InOrder
<1>6. ASSUME NEW i \in 1 .. m + 1, NEW j \in 1 .. m + 1, i < j
      PROVE  Below(Elems(Body(t[i])), Elems(Body(t[j])))
  <2>1. i \in 1 .. m /\ t[i] = s[i]
    BY <1>2, <1>6
  <2>2. CASE j \in 1 .. m
    BY <1>1, <1>2, <1>6, <2>1, <2>2 DEF InOrder
  <2>3. CASE j = m + 1
    <3>1. t[j] = p
      BY <1>2, <2>3
    <3> QED BY <1>4, <2>1, <3>1 DEF Below
  <2> QED BY <1>3, <2>2, <2>3
<1>7. InOrder(t)
  BY <1>2, <1>5, <1>6 DEF InOrder
<1>8. Nums(t) = Nums(s) \cup Elems(Body(p))
  <2>1. Nums(t) = UNION {Elems(Body(t[i])) : i \in 1 .. m + 1}
    BY <1>2 DEF Nums
  <2>2. Nums(s) = UNION {Elems(Body(s[i])) : i \in 1 .. m}
    BY <1>1 DEF Nums
  <2>3. m + 1 \in 1 .. m + 1 /\ \A i \in 1 .. m : i \in 1 .. m + 1
    BY <1>2
  <2> QED BY <1>2, <1>3, <2>1, <2>2, <2>3
<1> QED BY <1>1, <1>7, <1>8

LEMMA OrderPrefix ==
  ASSUME NEW G, NEW s \in Seq(G), InOrder(s), NEW k \in 0 .. Len(s)
  PROVE  InOrder(SubSeq(s, 1, k)) /\ Nums(SubSeq(s, 1, k)) \subseteq Nums(s)
<1>1. PICK t : t = SubSeq(s, 1, k)
  OBVIOUS
<1>2. Within(t, s)
  BY <1>1, WithinPrefix
<1> QED BY <1>1, <1>2, OrderWithin

\* What an application has: it has read x, has y in its queue, and packets s come.
Having(x, y, s) == Elems(x) \cup Elems(y) \cup Nums(s)
Readable(x, y, s) ==
  /\ x \in Seq(Nat) /\ Rising(x) /\ y \in Seq(Nat) /\ Rising(y) /\ InOrder(s)
  /\ Below(Elems(x), Elems(y)) /\ Below(Elems(x) \cup Elems(y), Nums(s))

\* What a device owes: it has made m chunks, has l on its line, and packets u left it.
Owing(l, u) == Nums(u) \cup Elems(l)
Feeding(m, l, u) ==
  /\ m \in Nat /\ l \in Seq(Nat) /\ Rising(l) /\ InOrder(u) /\ Below(Nums(u), Elems(l))
  /\ \A n \in Owing(l, u) : n <= m

Had(a) == Having(taken[a], data[a], down[a])
Reads(a) == Readable(taken[a], data[a], down[a])
Due(d) == Owing(line[d], up[d])
Feeds(d) == Feeding(made[d], line[d], up[d])

\* All that a has had of device d comes before what d still owes.
Follows(a, d) == Below(Had(a), Due(d)) /\ \A n \in Had(a) : n <= made[d]

ReadInv ==
  /\ DOMAIN taken = Apps /\ DOMAIN line = Devs /\ DOMAIN made = Devs
  /\ \A a \in Apps : /\ Reads(a)
                     /\ Fresh(a) => Had(a) = {}
                     /\ peer[a] # None => Follows(a, peer[a])
  /\ \A d \in Devs : Feeds(d)

\* What a step leaves of what an application has, and of what a device owes.
Keeps(a) == Reads(a)' /\ Had(a)' \subseteq Had(a)

Owes(d) ==
  Feeds(d)' /\ made[d] <= made'[d] /\ \A n \in Due(d)' : n \in Due(d) \/ made[d] < n

LEMMA NumsAre ==
  ASSUME NEW ps, InOrder(ps)
  PROVE  Nums(ps) \subseteq Nat
<1>1. \A i \in 1 .. Len(ps) : Elems(Body(ps[i])) \subseteq Nat
  BY ElemsAre DEF InOrder
<1> QED BY <1>1 DEF Nums

LEMMA HadAre ==
  ASSUME NEW a, Reads(a)
  PROVE  Had(a) \subseteq Nat
  BY NumsAre, ElemsAre DEF Reads, Had, Readable, Having

LEMMA DueAre ==
  ASSUME NEW d, Feeds(d)
  PROVE  Due(d) \subseteq Nat
  BY NumsAre, ElemsAre DEF Feeds, Due, Feeding, Owing

LEMMA ReadStep ==
  ASSUME RiaAssumption, RiaInv', ReadInv, DOMAIN taken' = Apps, DOMAIN line' = Devs, DOMAIN made' = Devs,
         \A a \in Apps : Keeps(a),
         \A d \in Devs : Owes(d),
         \A a \in Apps : Fresh(a)' => Fresh(a),
         \A a \in Apps : peer'[a] # None => peer'[a] = peer[a] \/ Fresh(a)
  PROVE  ReadInv'
<1>1. ASSUME NEW a \in Apps
      PROVE  /\ Reads(a)'
             /\ Fresh(a)' => Had(a)' = {}
             /\ peer'[a] # None => Follows(a, peer[a])'
  <2>1. PICK D : D = peer'[a]
    OBVIOUS
  <2>2. PICK M, L : M = Had(a) /\ L = Had(a)'
    OBVIOUS
  <2>3. Reads(a) /\ Reads(a)' /\ L \subseteq M
    BY <2>2 DEF Keeps, ReadInv
  <2>4. Fresh(a) => L = {}
    BY <2>2, <2>3 DEF ReadInv
  <2>5. ASSUME D # None
        PROVE  Follows(a, D)'
    <3>1. D \in Devs
      BY <2>1, <2>5 DEF RiaInv, PeersDiffer, Ends
    <3>2. CASE Fresh(a)
      BY <2>2, <2>4, <3>2 DEF Follows, Below
    <3>3. CASE D = peer[a]
      <4>1. Follows(a, D) /\ Feeds(D) /\ Owes(D)
        BY <2>5, <3>1, <3>3 DEF ReadInv
      <4>2. L \subseteq Nat /\ M \subseteq Nat
        BY <2>2, <2>3, HadAre
      <4>3. PICK P, Q, m, n : P = Due(D) /\ Q = Due(D)' /\ m = made[D] /\ n = made'[D]
        OBVIOUS
      <4>4. m \in Nat /\ n \in Nat /\ m <= n /\ \A x \in Q : x \in P \/ m < x
        BY <4>1, <4>3 DEF Feeds, Feeding, Owes
      <4>5. P \subseteq Nat /\ Q \subseteq Nat
        <5>1. P \subseteq Nat
          BY <4>1, <4>3, DueAre
        <5>2. Q \subseteq Nat
          BY <4>1, <4>3, NumsAre, ElemsAre DEF Owes, Feeds, Due, Feeding, Owing
        <5> QED BY <5>1, <5>2
      <4>6. Below(M, P) /\ \A x \in M : x <= m
        BY <2>2, <4>1, <4>3 DEF Follows
      <4>7. Below(L, Q) /\ \A x \in L : x <= n
        BY <2>3, <4>2, <4>4, <4>5, <4>6 DEF Below
      <4>8. Below(Had(a), Due(D))' /\ \A x \in Had(a)' : x <= made'[D]
        BY <2>2, <4>3, <4>7 DEF Below
      <4> QED BY <4>8 DEF Follows
    <3> QED BY <2>1, <2>5, <3>2, <3>3
  <2> QED BY <2>1, <2>2, <2>3, <2>4, <2>5
<1>2. \A d \in Devs : Feeds(d)'
  BY DEF Owes
<1> QED BY <1>1, <1>2 DEF ReadInv

LEMMA ReadsSame ==
  ASSUME ReadInv, NEW a \in Apps, UNCHANGED <<taken[a], data[a], down[a]>>
  PROVE  Keeps(a)
  BY DEF ReadInv, Keeps, Reads, Had

LEMMA FeedsSame ==
  ASSUME ReadInv, NEW d \in Devs, UNCHANGED <<made[d], line[d], up[d]>>
  PROVE  Owes(d)
<1>1. Feeds(d)' /\ Due(d)' = Due(d) /\ made'[d] = made[d] /\ made[d] \in Nat
  BY DEF ReadInv, Feeds, Due, Feeding
<1> QED BY <1>1 DEF Owes

\* An application takes a packet off its connection, and queues its chunks or does not.
LEMMA TakesReads ==
  ASSUME ReadInv, AnswersInv, NEW a \in Apps, down[a] # <<>>, down'[a] = Tail(down[a]), taken'[a] = taken[a],
         data'[a] = data[a] \/ data'[a] = <<>> \/ data'[a] = data[a] \o Body(Head(down[a]))
  PROVE  Keeps(a)
<1>1. PICK s, p, t : s = down[a] /\ p = Head(s) /\ t = Tail(s)
  OBVIOUS
<1>2. PICK G : s \in Seq(G)
  BY <1>1 DEF AnswersInv, AllAmong, Ends
<1>3. PICK b, x, y, z : b = Body(p) /\ x = taken[a] /\ y = data[a] /\ z = data'[a]
  OBVIOUS
<1>4. /\ x \in Seq(Nat) /\ Rising(x) /\ y \in Seq(Nat) /\ Rising(y) /\ InOrder(s)
      /\ Below(Elems(x), Elems(y)) /\ Below(Elems(x) \cup Elems(y), Nums(s))
  BY <1>1, <1>3 DEF ReadInv, Reads, Readable
<1>5. /\ b \in Seq(Nat) /\ Rising(b) /\ Elems(b) \subseteq Nums(s)
      /\ InOrder(t) /\ Nums(t) \subseteq Nums(s) /\ Below(Elems(b), Nums(t))
  BY <1>1, <1>2, <1>3, <1>4, OrderFirst
<1>6. z = y \/ z = <<>> \/ z = y \o b
  BY <1>1, <1>3
<1>7. /\ z \in Seq(Nat) /\ Rising(z) /\ Elems(z) \subseteq Elems(y) \cup Elems(b)
  <2>1. CASE z = <<>>
    BY <2>1, NoElems
  <2>2. CASE z = y \o b
    <3>1. Below(Elems(y), Elems(b))
      BY <1>4, <1>5 DEF Below
    <3> QED BY <1>4, <1>5, <2>2, <3>1, RisingJoin
  <2> QED BY <1>4, <1>6, <2>1, <2>2
<1>8. Below(Elems(x), Elems(z)) /\ Below(Elems(x) \cup Elems(z), Nums(t))
  BY <1>4, <1>5, <1>7 DEF Below
<1>9. Elems(x) \cup Elems(z) \cup Nums(t) \subseteq Elems(x) \cup Elems(y) \cup Nums(s)
  BY <1>5, <1>7
<1>10. taken'[a] = x /\ data'[a] = z /\ down'[a] = t
  BY <1>1, <1>3
<1>11. Had(a) = Elems(x) \cup Elems(y) \cup Nums(s) /\ Had(a)' = Elems(x) \cup Elems(z) \cup Nums(t)
  BY <1>1, <1>3, <1>10 DEF Had, Having
<1>12. Reads(a)'
  BY <1>4, <1>5, <1>7, <1>8, <1>10 DEF Reads, Readable
<1> QED BY <1>9, <1>11, <1>12 DEF Keeps

\* ifd_remote_recv takes a chunk off the queue.
LEMMA ReadsChunk ==
  ASSUME ReadInv, NEW a \in Apps, data[a] # <<>>, down'[a] = down[a],
         taken'[a] = Append(taken[a], Head(data[a])), data'[a] = Tail(data[a])
  PROVE  Keeps(a)
<1>1. PICK x, y, s : x = taken[a] /\ y = data[a] /\ s = down[a]
  OBVIOUS
<1>2. /\ x \in Seq(Nat) /\ Rising(x) /\ y \in Seq(Nat) /\ Rising(y) /\ InOrder(s)
      /\ Below(Elems(x), Elems(y)) /\ Below(Elems(x) \cup Elems(y), Nums(s))
  BY <1>1 DEF ReadInv, Reads, Readable
<1>3. PICK h, z, o, w : h = Head(y) /\ z = Tail(y) /\ o = <<h>> /\ w = Append(x, h)
  OBVIOUS
<1>4. /\ h \in Nat /\ z \in Seq(Nat) /\ Rising(z) /\ Below({h}, Elems(z))
      /\ h \in Elems(y) /\ Elems(z) \subseteq Elems(y)
  BY <1>1, <1>2, <1>3, RisingFirst
<1>5. o \in Seq(Nat) /\ Rising(o) /\ Elems(o) = {h}
  <2>1. Len(o) = 1 /\ o[1] = h /\ 1 .. 1 = {1}
    BY <1>3
  <2> QED BY <1>3, <1>4, <2>1 DEF Rising, Elems
<1>6. w = x \o o
  BY <1>2, <1>3, <1>4, AppendIsConcat
<1>7. w \in Seq(Nat) /\ Rising(w) /\ Elems(w) = Elems(x) \cup {h}
  <2>1. Below(Elems(x), Elems(o))
    BY <1>2, <1>4, <1>5 DEF Below
  <2> QED BY <1>2, <1>5, <1>6, <2>1, RisingJoin
<1>8. Below(Elems(w), Elems(z)) /\ Below(Elems(w) \cup Elems(z), Nums(s))
  BY <1>2, <1>4, <1>7 DEF Below
<1>9. taken'[a] = w /\ data'[a] = z /\ down'[a] = s
  BY <1>1, <1>3
<1>10. Had(a) = Elems(x) \cup Elems(y) \cup Nums(s) /\ Had(a)' = Elems(w) \cup Elems(z) \cup Nums(s)
  BY <1>1, <1>9 DEF Had, Having
<1>11. Reads(a)'
  BY <1>2, <1>4, <1>7, <1>8, <1>9 DEF Reads, Readable
<1> QED BY <1>4, <1>7, <1>10, <1>11 DEF Keeps

\* An application leaves, or loses what the proxy has not sent.
LEMMA LosesReads ==
  ASSUME ReadInv, AnswersInv, NEW a \in Apps,
         taken'[a] = taken[a] \/ taken'[a] = <<>>, data'[a] = data[a] \/ data'[a] = <<>>,
         down'[a] = down[a] \/ Loses(a)
  PROVE  Keeps(a)
<1>1. PICK x, y, s, t : x = taken[a] /\ y = data[a] /\ s = down[a] /\ t = down'[a]
  OBVIOUS
<1>2. /\ x \in Seq(Nat) /\ Rising(x) /\ y \in Seq(Nat) /\ Rising(y) /\ InOrder(s)
      /\ Below(Elems(x), Elems(y)) /\ Below(Elems(x) \cup Elems(y), Nums(s))
  BY <1>1 DEF ReadInv, Reads, Readable
<1>3. PICK G : s \in Seq(G)
  BY <1>1 DEF AnswersInv, AllAmong, Ends
<1>4. InOrder(t) /\ Nums(t) \subseteq Nums(s)
  <2>1. CASE t = s
    BY <1>2, <2>1
  <2>2. CASE Loses(a)
    <3>1. PICK k \in 0 .. Len(s) : t = SubSeq(s, 1, k)
      BY <1>1, <2>2 DEF Loses
    <3> QED BY <1>2, <1>3, <3>1, OrderPrefix
  <2> QED BY <1>1, <2>1, <2>2
<1>5. PICK u, v : u = taken'[a] /\ v = data'[a]
  OBVIOUS
<1>6. /\ u \in Seq(Nat) /\ Rising(u) /\ v \in Seq(Nat) /\ Rising(v)
      /\ Elems(u) \subseteq Elems(x) /\ Elems(v) \subseteq Elems(y)
  BY <1>1, <1>2, <1>5, NoElems
<1>7. Below(Elems(u), Elems(v)) /\ Below(Elems(u) \cup Elems(v), Nums(t))
  BY <1>2, <1>4, <1>6 DEF Below
<1>8. Had(a) = Elems(x) \cup Elems(y) \cup Nums(s) /\ Had(a)' = Elems(u) \cup Elems(v) \cup Nums(t)
  BY <1>1, <1>5 DEF Had, Having
<1>9. Reads(a)'
  BY <1>1, <1>4, <1>5, <1>6, <1>7 DEF Reads, Readable
<1> QED BY <1>4, <1>6, <1>8, <1>9 DEF Keeps

\* A packet without chunks comes.
LEMMA EmptyReads ==
  ASSUME ReadInv, AnswersInv, NEW a \in Apps, UNCHANGED <<taken[a], data[a]>>,
         NEW p, Body(p) = <<>>, down'[a] = Append(down[a], p)
  PROVE  Keeps(a)
<1>1. PICK x, y, s, t : x = taken[a] /\ y = data[a] /\ s = down[a] /\ t = down'[a]
  OBVIOUS
<1>2. /\ x \in Seq(Nat) /\ Rising(x) /\ y \in Seq(Nat) /\ Rising(y) /\ InOrder(s)
      /\ Below(Elems(x), Elems(y)) /\ Below(Elems(x) \cup Elems(y), Nums(s))
  BY <1>1 DEF ReadInv, Reads, Readable
<1>3. PICK G : s \in Seq(G)
  BY <1>1 DEF AnswersInv, AllAmong, Ends
<1>4. InOrder(t) /\ Nums(t) = Nums(s)
  <2>1. Body(p) \in Seq(Nat) /\ Rising(Body(p)) /\ Elems(Body(p)) = {} /\ Below(Nums(s), Elems(Body(p)))
    BY NoElems DEF Below
  <2>2. InOrder(Append(s, p)) /\ Nums(Append(s, p)) = Nums(s) \cup Elems(Body(p))
    BY <1>2, <1>3, <2>1, OrderMore
  <2> QED BY <1>1, <2>1, <2>2
<1>5. taken'[a] = x /\ data'[a] = y /\ down'[a] = t
  BY <1>1
<1>6. Had(a) = Elems(x) \cup Elems(y) \cup Nums(s) /\ Had(a)' = Elems(x) \cup Elems(y) \cup Nums(t)
  BY <1>1, <1>5 DEF Had, Having
<1>7. Reads(a)'
  BY <1>2, <1>4, <1>5 DEF Reads, Readable
<1> QED BY <1>4, <1>6, <1>7 DEF Keeps

\* A device that owes no more than before.
LEMMA FeedsLess ==
  ASSUME ReadInv, NEW d \in Devs, made'[d] = made[d], line'[d] = line[d] \/ line'[d] = <<>>,
         InOrder(up'[d]), Nums(up'[d]) \subseteq Nums(up[d])
  PROVE  Owes(d)
<1>1. PICK m, l, k, u, v : m = made[d] /\ l = line[d] /\ k = line'[d] /\ u = up[d] /\ v = up'[d]
  OBVIOUS
<1>2. /\ m \in Nat /\ l \in Seq(Nat) /\ Rising(l) /\ InOrder(u) /\ Below(Nums(u), Elems(l))
      /\ \A n \in Nums(u) \cup Elems(l) : n <= m
  BY <1>1 DEF ReadInv, Feeds, Feeding, Owing
<1>3. k \in Seq(Nat) /\ Rising(k) /\ Elems(k) \subseteq Elems(l)
  BY <1>1, <1>2, NoElems
<1>4. InOrder(v) /\ Nums(v) \subseteq Nums(u)
  BY <1>1
<1>5. Feeding(m, k, v) /\ Owing(k, v) \subseteq Owing(l, u)
  BY <1>2, <1>3, <1>4 DEF Feeding, Owing, Below
<1>6. Due(d) = Owing(l, u) /\ Due(d)' = Owing(k, v) /\ Feeds(d)' = Feeding(m, k, v)
  BY <1>1 DEF Due, Feeds
<1> QED BY <1>1, <1>2, <1>5, <1>6 DEF Owes

\* The exporter sends a packet without chunks; the line is flushed or not.
LEMMA FeedsEmpty ==
  ASSUME ReadInv, AnswersInv, NEW d \in Devs, made'[d] = made[d], line'[d] = line[d] \/ line'[d] = <<>>,
         NEW p, Body(p) = <<>>, up'[d] = Append(up[d], p)
  PROVE  Owes(d)
<1>1. PICK u : u = up[d]
  OBVIOUS
<1>2. PICK G : u \in Seq(G)
  BY <1>1 DEF AnswersInv, AllAmong, Ends
<1>3. InOrder(u)
  BY <1>1 DEF ReadInv, Feeds, Feeding
<1>4. Body(p) \in Seq(Nat) /\ Rising(Body(p)) /\ Elems(Body(p)) = {} /\ Below(Nums(u), Elems(Body(p)))
  BY NoElems DEF Below
<1>5. InOrder(Append(u, p)) /\ Nums(Append(u, p)) = Nums(u) \cup Elems(Body(p))
  BY <1>2, <1>3, <1>4, OrderMore
<1>6. InOrder(up'[d]) /\ Nums(up'[d]) \subseteq Nums(up[d])
  BY <1>1, <1>4, <1>5
<1> QED BY <1>6, FeedsLess

\* ria_poll_device puts what it has read of the serial line into a packet, or drops it.
LEMMA LineFeeds ==
  ASSUME RiaAssumption, ReadInv, AnswersInv, NEW d \in Devs, LineToProxy(d)
  PROVE  Owes(d)
<1>1. PICK m, l, u : m = made[d] /\ l = line[d] /\ u = up[d]
  OBVIOUS
<1>2. /\ m \in Nat /\ l \in Seq(Nat) /\ Rising(l) /\ InOrder(u) /\ Below(Nums(u), Elems(l))
      /\ \A n \in Nums(u) \cup Elems(l) : n <= m
  BY <1>1 DEF ReadInv, Feeds, Feeding, Owing
<1>3. PICK G : u \in Seq(G)
  BY <1>1 DEF AnswersInv, AllAmong, Ends
<1>4. PICK n \in 1 .. Len(l) :
        /\ up' = Put(up, d, SentBy(d, "data", None, IF n = ReadMax THEN <<>> ELSE SubSeq(l, 1, n)))
        /\ line' = Set(line, d, SubSeq(l, n + 1, Len(l)))
  BY <1>1 DEF LineToProxy
<1>5. PICK x, k, b, p : /\ x = SubSeq(l, 1, n) /\ k = SubSeq(l, n + 1, Len(l))
                        /\ b = (IF n = ReadMax THEN <<>> ELSE x) /\ p = SentBy(d, "data", None, b)
  OBVIOUS
<1>6. PICK v : v = Append(u, p)
  OBVIOUS
<1>7. up'[d] = v /\ line'[d] = k /\ made'[d] = m
  <2>1. d \in DOMAIN up /\ d \in DOMAIN line
    BY DEF AnswersInv, AllAmong, ReadInv, Ends
  <2>2. UNCHANGED made
    BY DEF LineToProxy
  <2> QED BY <1>1, <1>4, <1>5, <1>6, <2>1, <2>2 DEF Put, Set
<1>8. Body(p) = b
  BY <1>5 DEF Body, SentBy, Packet
<1>9. /\ x \in Seq(Nat) /\ k \in Seq(Nat) /\ Rising(x) /\ Rising(k)
      /\ Below(Elems(x), Elems(k)) /\ Elems(x) \subseteq Elems(l) /\ Elems(k) \subseteq Elems(l)
  BY <1>2, <1>5, RisingCut
<1>10. /\ b \in Seq(Nat) /\ Rising(b) /\ Below(Elems(b), Elems(k)) /\ Elems(b) \subseteq Elems(l)
  BY <1>5, <1>9, NoElems DEF Below
<1>11. Below(Nums(u), Elems(b))
  BY <1>2, <1>10 DEF Below
<1>12. InOrder(v) /\ Nums(v) = Nums(u) \cup Elems(b)
  BY <1>2, <1>3, <1>6, <1>8, <1>10, <1>11, OrderMore
<1>13. Feeding(m, k, v) /\ Owing(k, v) \subseteq Owing(l, u)
  BY <1>2, <1>9, <1>10, <1>12 DEF Feeding, Owing, Below
<1>14. Due(d) = Owing(l, u) /\ Due(d)' = Owing(k, v) /\ Feeds(d)' = Feeding(m, k, v)
  BY <1>1, <1>7 DEF Due, Feeds
<1> QED BY <1>1, <1>2, <1>7, <1>13, <1>14 DEF Owes

\* The card answers: its chunk has a number of its own.
LEMMA SendsFeeds ==
  ASSUME ReadInv, NEW d \in Devs, DeviceSends(d)
  PROVE  Owes(d)
<1>1. PICK m, l, u : m = made[d] /\ l = line[d] /\ u = up[d]
  OBVIOUS
<1>2. /\ m \in Nat /\ l \in Seq(Nat) /\ Rising(l) /\ InOrder(u) /\ Below(Nums(u), Elems(l))
      /\ \A n \in Nums(u) \cup Elems(l) : n <= m
  BY <1>1 DEF ReadInv, Feeds, Feeding, Owing
<1>3. PICK e, o, k : e = m + 1 /\ o = <<e>> /\ k = Append(l, e)
  OBVIOUS
<1>4. made'[d] = e /\ line'[d] = k /\ up'[d] = u
  <2>1. /\ made' = Set(made, d, made[d] + 1) /\ line' = Put(line, d, made[d] + 1) /\ up' = up
    BY DEF DeviceSends
  <2> QED BY <1>1, <1>3, <2>1 DEF Set, Put, ReadInv
<1>5. e \in Nat /\ m < e /\ o \in Seq(Nat) /\ Rising(o) /\ Elems(o) = {e} /\ k = l \o o
  <2>1. e \in Nat /\ m < e /\ o \in Seq(Nat)
    BY <1>2, <1>3
  <2>2. Len(o) = 1 /\ o[1] = e /\ 1 .. 1 = {1}
    BY <1>3
  <2>3. Rising(o) /\ Elems(o) = {e}
    BY <2>2 DEF Rising, Elems
  <2> QED BY <1>2, <1>3, <2>1, <2>3, AppendIsConcat
<1>6. Nums(u) \subseteq Nat /\ Elems(l) \subseteq Nat
  BY <1>2, NumsAre, ElemsAre
<1>7. Below(Elems(l), Elems(o)) /\ Below(Nums(u), {e})
  BY <1>2, <1>5, <1>6 DEF Below
<1>8. k \in Seq(Nat) /\ Rising(k) /\ Elems(k) = Elems(l) \cup {e}
  BY <1>2, <1>5, <1>7, RisingJoin
<1>9. Below(Nums(u), Elems(k)) /\ \A n \in Nums(u) \cup Elems(k) : n <= e
  BY <1>2, <1>5, <1>6, <1>7, <1>8 DEF Below
<1>10. Feeding(e, k, u) /\ \A n \in Owing(k, u) : n \in Owing(l, u) \/ m < n
  BY <1>2, <1>5, <1>8, <1>9 DEF Feeding, Owing
<1>11. Due(d) = Owing(l, u) /\ Due(d)' = Owing(k, u) /\ Feeds(d)' = Feeding(e, k, u) /\ m <= e
  BY <1>1, <1>2, <1>3, <1>4 DEF Due, Feeds
<1> QED BY <1>1, <1>4, <1>10, <1>11 DEF Owes

\* A step of application a that does nothing to the others, the devices and what is on
\* its way from them.
Apart(a) ==
  /\ DOMAIN taken' = Apps /\ UNCHANGED <<line, made>>
  /\ \A d \in Devs : up'[d] = up[d]
  /\ \A b \in Apps \ {a} : UNCHANGED <<taken[b], data[b], down[b]>>

\* An application that sends.
LEMMA SendingApart ==
  ASSUME RiaAssumption, ReadInv, AnswersInv, NEW a \in Apps,
         up' = up \/ \E v : up' = Set(up, a, v),
         UNCHANGED <<taken, data, down, deviceVars>>
  PROVE  Apart(a) /\ Keeps(a)
<1>1. \A d \in Devs : up'[d] = up[d]
  BY DEF RiaAssumption, Set, AnswersInv, AllAmong, Ends
<1>2. Keeps(a)
  BY ReadsSame
<1> QED BY <1>1, <1>2 DEF Apart, ReadInv, deviceVars

LEMMA LeavingApart ==
  ASSUME RiaAssumption, ReadInv, AnswersInv, TurnInv, NEW a \in Apps, AppLeaves(a)
  PROVE  Apart(a) /\ Keeps(a)
<1>1. /\ data' = Set(data, a, <<>>) /\ taken' = Set(taken, a, <<>>) /\ UNCHANGED <<up, deviceVars>>
      /\ down' = down \/ down' = Set(down, a, <<>>)
  BY DEF AppLeaves, Leaves
<1>2. a \in Ends /\ DOMAIN data = Ends /\ DOMAIN taken = Apps /\ DOMAIN down = Ends
  BY DEF Ends, TurnInv, TurnTypes, ReadInv, AnswersInv, AllAmong
<1>3. taken'[a] = <<>> /\ data'[a] = <<>> /\ (down'[a] = down[a] \/ down'[a] = <<>>)
  BY <1>1, <1>2 DEF Set
<1>4. Keeps(a)
  BY <1>2, <1>3, EmptyLoses, LosesReads
<1>5. Apart(a)
  <2>1. \A b \in Apps \ {a} : UNCHANGED <<taken[b], data[b], down[b]>>
    BY <1>1, <1>2 DEF Set, Ends
  <2> QED BY <1>1, <1>2, <2>1 DEF Apart, Set, deviceVars
<1> QED BY <1>4, <1>5

\* ria_recv takes a packet.
LEMMA ReceiveApart ==
  ASSUME RiaAssumption, ReadInv, AnswersInv, TurnInv, NEW a \in Apps, Receive(a)
  PROVE  Apart(a) /\ Keeps(a)
<1>1. PICK p : p = Head(down[a])
  OBVIOUS
<1>2. a \in Ends /\ DOMAIN data = Ends /\ DOMAIN taken = Apps /\ DOMAIN down = Ends
  BY DEF Ends, TurnInv, TurnTypes, ReadInv, AnswersInv, AllAmong
<1>3. /\ down[a] # <<>> /\ down' = Set(down, a, Tail(down[a]))
      /\ UNCHANGED <<up, taken, deviceVars>>
      /\ \/ data' = data \/ data' = Set(data, a, <<>>)
         \/ p.cmd = "data" /\ ~p.dest /\ data' = Set(data, a, Queued(data[a], p.body))
  BY <1>1 DEF Receive, Kept, appVars
<1>4. down'[a] = Tail(down[a]) /\ taken'[a] = taken[a]
  BY <1>2, <1>3 DEF Set
<1>5. data'[a] = data[a] \/ data'[a] = <<>> \/ data'[a] = data[a] \o Body(p)
  <2>1. CASE data' = data \/ data' = Set(data, a, <<>>)
    BY <1>2, <2>1 DEF Set
  <2>2. CASE p.cmd = "data" /\ ~p.dest /\ data' = Set(data, a, Queued(data[a], p.body))
    <3>1. Body(p) = p.body
      BY <2>2 DEF Body
    <3>2. data'[a] = Queued(data[a], p.body)
      BY <1>2, <2>2 DEF Set
    <3> QED BY <3>1, <3>2 DEF Queued
  <2> QED BY <1>3, <2>1, <2>2
<1>6. Keeps(a)
  BY <1>1, <1>3, <1>4, <1>5, TakesReads
<1>7. Apart(a)
  <2>1. \A b \in Apps \ {a} : data'[b] = data[b] /\ down'[b] = down[b]
    BY <1>2, <1>3 DEF Set, Ends
  <2> QED BY <1>2, <1>3, <2>1 DEF Apart, deviceVars
<1> QED BY <1>6, <1>7

\* The call of an application fails: it may lose what is queued.
LEMMA FailingApart ==
  ASSUME RiaAssumption, ReadInv, AnswersInv, TurnInv, NEW a \in Apps, CallFails(a)
  PROVE  Apart(a) /\ Keeps(a)
<1>1. data' = data \/ data' = Set(data, a, <<>>)
  BY DEF CallFails, Kept
<1>2. UNCHANGED <<up, down, taken, deviceVars>>
  BY DEF CallFails, appVars
<1>3. a \in Ends /\ DOMAIN data = Ends /\ DOMAIN taken = Apps
  BY DEF Ends, TurnInv, TurnTypes, ReadInv
<1>4. data'[a] \in {data[a], <<>>} /\ taken'[a] = taken[a] /\ down'[a] = down[a]
  BY <1>1, <1>2, <1>3 DEF Set
<1>5. Keeps(a)
  BY <1>4, LosesReads
<1>6. Apart(a)
  <2>1. \A b \in Apps \ {a} : UNCHANGED <<taken[b], data[b], down[b]>>
    BY <1>1, <1>2, <1>3 DEF Set, Ends
  <2> QED BY <1>2, <1>3, <2>1 DEF Apart, deviceVars
<1> QED BY <1>5, <1>6

LEMMA RecvApart ==
  ASSUME RiaAssumption, ReadInv, AnswersInv, TurnInv, NEW a \in Apps, RecvData(a)
  PROVE  Apart(a) /\ Keeps(a)
<1>1. CASE data[a] # <<>>
  <2>1. /\ taken' = Set(taken, a, Append(taken[a], Head(data[a])))
        /\ data' = Set(data, a, Tail(data[a])) /\ UNCHANGED <<up, down, deviceVars>>
    BY <1>1 DEF RecvData
  <2>2. a \in Ends /\ DOMAIN data = Ends /\ DOMAIN taken = Apps
    BY DEF Ends, TurnInv, TurnTypes, ReadInv
  <2>3. /\ taken'[a] = Append(taken[a], Head(data[a])) /\ data'[a] = Tail(data[a])
        /\ down'[a] = down[a]
    BY <2>1, <2>2 DEF Set
  <2>4. Keeps(a)
    BY <1>1, <2>3, ReadsChunk
  <2>5. Apart(a)
    BY <2>1, <2>2 DEF Apart, Set, deviceVars
  <2> QED BY <2>4, <2>5
<1>2. CASE data[a] = <<>>
  <2>1. UNCHANGED <<taken, data, down, deviceVars>> /\ \E v : up' = Set(up, a, v)
    BY <1>2 DEF RecvData, Calls
  <2> QED BY <2>1, SendingApart
<1> QED BY <1>1, <1>2

LEMMA AppStepApart ==
  ASSUME RiaAssumption, ReadInv, AnswersInv, TurnInv, NEW a \in Apps, AppStep(a)
  PROVE  Apart(a) /\ Keeps(a)
<1>1. ASSUME NEW cmd, NEW d, Connect(a, cmd, d)
      PROVE  Apart(a) /\ Keeps(a)
  <2>1. UNCHANGED <<taken, data, down, deviceVars>> /\ \E v : up' = Set(up, a, v)
    BY <1>1 DEF Connect, Calls
  <2> QED BY <2>1, SendingApart
<1>2. CASE ResetDevice(a)
  <2>1. UNCHANGED <<taken, data, down, deviceVars>> /\ (up' = up \/ \E v : up' = Set(up, a, v))
    BY <1>2 DEF ResetDevice, Calls
  <2> QED BY <2>1, SendingApart
<1>3. ASSUME NEW cmd, Command(a, cmd)
      PROVE  Apart(a) /\ Keeps(a)
  <2>1. UNCHANGED <<taken, data, down, deviceVars>> /\ \E v : up' = Set(up, a, v)
    BY <1>3 DEF Command, Calls
  <2> QED BY <2>1, SendingApart
<1>4. ASSUME NEW n, SendData(a, n)
      PROVE  Apart(a) /\ Keeps(a)
  <2>1. UNCHANGED <<taken, data, down, deviceVars>> /\ \E v : up' = Set(up, a, v)
    BY <1>4 DEF SendData
  <2> QED BY <2>1, SendingApart
<1>5. CASE CallFails(a)
  BY <1>5, FailingApart
<1>6. CASE GivesUp(a) \/ Close(a)
  BY <1>6, LeavingApart DEF GivesUp, Close
<1> QED BY <1>1, <1>2, <1>3, <1>4, <1>5, <1>6, RecvApart, ReceiveApart
       DEF AppStep, OpenRemote, ListDevices

LEMMA AppStepKeepsRead ==
  ASSUME RiaAssumption, RiaInv, RiaInv', AnswersInv, TurnInv, ReadInv, NEW a \in Apps, AppStep(a)
  PROVE  ReadInv'
<1>1. Aside(a) /\ Sends(a) /\ Apart(a) /\ Keeps(a)
  BY AppStepTurns, AppStepApart
<1>2. \A b \in Apps : Keeps(b)
  BY <1>1, ReadsSame DEF Apart
<1>3. \A d \in Devs : Owes(d)
  BY <1>1, FeedsSame DEF Apart
<1>4. \A b \in Apps : Fresh(b)' => Fresh(b)
  <2>1. ASSUME NEW b \in Apps \ {a}
        PROVE  Fresh(b)' => Fresh(b)
    BY <1>1 DEF Aside, Fresh, NoClaims
  <2> QED BY <1>1, <2>1 DEF Sends
<1>5. UNCHANGED peer
  BY <1>1 DEF Aside
<1>6. DOMAIN taken' = Apps /\ DOMAIN line' = Devs /\ DOMAIN made' = Devs
  BY <1>1 DEF Apart, ReadInv
<1> QED BY <1>2, <1>3, <1>4, <1>5, <1>6, ReadStep

\* A step of an exporter: what becomes of what its device owes is all there is to see to.
LEMMA DevKeepsRead ==
  ASSUME RiaAssumption, RiaInv, RiaInv', AnswersInv, TurnInv, ReadInv, NEW d \in Devs,
         UNCHANGED <<peer, taken>>, Owes(d),
         line' = line \/ \E v : line' = Set(line, d, v),
         made' = made \/ \E v : made' = Set(made, d, v),
         up' = up \/ \E v : up' = Set(up, d, v),
         down' = down \/ \E v : down' = Set(down, d, v),
         data' = data \/ \E v : data' = Set(data, d, v),
         link' = link \/ \E v : link' = Set(link, d, v)
  PROVE  ReadInv'
<1>1. /\ DOMAIN taken = Apps /\ DOMAIN line = Devs /\ DOMAIN made = Devs
      /\ DOMAIN up = Ends /\ DOMAIN down = Ends /\ DOMAIN data = Ends /\ DOMAIN link = Ends
      /\ \A b \in Apps : b # d /\ b \in Ends
      /\ \A e \in Devs : e \in Ends
  BY DEF ReadInv, RiaAssumption, AnswersInv, AllAmong, TurnInv, TurnTypes, RiaInv, ProxyTypes, Ends
<1>2. \A b \in Apps : UNCHANGED <<taken[b], data[b], down[b], up[b], link[b]>>
  BY <1>1 DEF Set
<1>3. \A b \in Apps : Keeps(b)
  BY <1>2, ReadsSame
<1>4. \A e \in Devs \ {d} : UNCHANGED <<made[e], line[e], up[e]>>
  BY <1>1 DEF Set
<1>5. \A e \in Devs : Owes(e)
  BY <1>4, FeedsSame
<1>6. \A b \in Apps : Fresh(b)' => Fresh(b)
  BY <1>2 DEF Fresh, NoClaims
<1>7. DOMAIN taken' = Apps /\ DOMAIN line' = Devs /\ DOMAIN made' = Devs
  BY <1>1 DEF Set
<1> QED BY <1>3, <1>5, <1>6, <1>7, ReadStep

LEMMA NoBody ==
  ASSUME NEW p, NEW rc, NEW body, NEW c, NEW dev
  PROVE  Body(Reply(p, rc, body)) = <<>> /\ Body(SentBy(c, "register", dev, body)) = <<>>
<1>1. Reply(p, rc, body).dest
  BY DEF Reply
<1>2. SentBy(c, "register", dev, body).cmd # "data"
  BY DEF SentBy, Packet
<1> QED BY <1>1, <1>2 DEF Body

LEMMA DevStepKeepsRead ==
  ASSUME RiaAssumption, RiaInv, RiaInv', AnswersInv, TurnInv, ReadInv, NEW d \in Devs, DevStep(d)
  PROVE  ReadInv'
<1>0. d \in DOMAIN up /\ d \in DOMAIN line
  BY DEF AnswersInv, AllAmong, ReadInv, Ends
<1>1. CASE Export(d)
  <2>1. PICK p : p = SentBy(d, "register", None, <<>>)
    OBVIOUS
  <2>2. /\ up' = Put(up, d, p) /\ UNCHANGED <<peer, taken, line, made, down, data>>
        /\ \E v : link' = Set(link, d, v)
    BY <1>1, <2>1 DEF Export, Accepts, appVars, deviceVars
  <2>3. up'[d] = Append(up[d], p) /\ Body(p) = <<>>
    BY <1>0, <2>1, <2>2, NoBody DEF Put
  <2>4. Owes(d)
    BY <2>2, <2>3, FeedsEmpty
  <2>5. \E v : up' = Set(up, d, v)
    BY <2>2 DEF Put, Set
  <2> QED BY <2>2, <2>4, <2>5, DevKeepsRead
<1>2. CASE Registered(d)
  <2>1. UNCHANGED <<peer, taken, line, made, up, data, link>> /\ \E v : down' = Set(down, d, v)
    BY <1>2 DEF Registered, proxyVars, appVars, deviceVars
  <2>2. Owes(d)
    BY <2>1, FeedsSame
  <2> QED BY <2>1, <2>2, DevKeepsRead
<1>3. CASE ExporterProcesses(d)
  <2>1. /\ UNCHANGED <<peer, taken, made, link>>
        /\ data' = data \/ \E v : data' = Set(data, d, v)
        /\ down' = down \/ \E v : down' = Set(down, d, v)
        /\ line' = line \/ line' = Set(line, d, <<>>)
        /\ up' = up \/ \E p, rc, body : up' = Put(up, d, Reply(p, rc, body))
    BY <1>3 DEF ExporterProcesses, proxyVars, appVars
  <2>2. line'[d] = line[d] \/ line'[d] = <<>>
    BY <1>0, <2>1 DEF Set
  <2>3. CASE up' = up
    <3>1. InOrder(up'[d]) /\ Nums(up'[d]) \subseteq Nums(up[d])
      BY <2>3 DEF ReadInv, Feeds, Feeding
    <3>2. Owes(d)
      BY <2>1, <2>2, <3>1, FeedsLess
    <3> QED BY <2>1, <2>3, <3>2, DevKeepsRead
  <2>4. ASSUME NEW p, NEW rc, NEW body, up' = Put(up, d, Reply(p, rc, body))
        PROVE  ReadInv'
    <3>1. PICK q : q = Reply(p, rc, body)
      OBVIOUS
    <3>2. up'[d] = Append(up[d], q) /\ Body(q) = <<>> /\ \E v : up' = Set(up, d, v)
      BY <1>0, <2>4, <3>1, NoBody DEF Put, Set
    <3>3. Owes(d)
      BY <2>1, <2>2, <3>2, FeedsEmpty
    <3> QED BY <2>1, <3>2, <3>3, DevKeepsRead
  <2> QED BY <2>1, <2>3, <2>4
<1>4. CASE LineToProxy(d)
  <2>1. /\ UNCHANGED <<peer, taken, made, link, data, down>>
        /\ \E v : line' = Set(line, d, v)
        /\ \E v : up' = Set(up, d, v)
    BY <1>4 DEF LineToProxy, proxyVars, appVars, Put, Set
  <2> QED BY <1>4, <2>1, LineFeeds, DevKeepsRead
<1>5. CASE DataToLine(d)
  <2>1. UNCHANGED <<peer, taken, line, made, up, down, link>> /\ \E v : data' = Set(data, d, v)
    BY <1>5 DEF DataToLine, proxyVars, appVars
  <2>2. Owes(d)
    BY <2>1, FeedsSame
  <2> QED BY <2>1, <2>2, DevKeepsRead
<1>6. CASE DeviceSends(d)
  <2>1. /\ UNCHANGED <<peer, taken, data, up, down, link>>
        /\ \E v : line' = Set(line, d, v)
        /\ \E v : made' = Set(made, d, v)
    BY <1>6 DEF DeviceSends, proxyVars, Put, Set
  <2> QED BY <1>6, <2>1, SendsFeeds, DevKeepsRead
<1>7. CASE ExporterExits(d)
  <2>1. /\ UNCHANGED <<peer, taken, made, up>> /\ line' = Set(line, d, <<>>)
        /\ \E v : data' = Set(data, d, v)
        /\ down' = down \/ \E v : down' = Set(down, d, v)
        /\ link' = link \/ \E v : link' = Set(link, d, v)
    BY <1>7 DEF ExporterExits, Leaves, appVars
  <2>2. line'[d] = <<>> /\ InOrder(up'[d]) /\ Nums(up'[d]) \subseteq Nums(up[d])
    BY <1>0, <2>1 DEF Set, ReadInv, Feeds, Feeding
  <2>3. Owes(d)
    BY <2>1, <2>2, FeedsLess
  <2> QED BY <2>1, <2>3, DevKeepsRead
<1> QED BY <1>1, <1>2, <1>3, <1>4, <1>5, <1>6, <1>7 DEF DevStep

\* What the proxy does to the packets for an application and to those of a device,
\* other than pass one on: it answers, reads and loses them.
LEMMA ProxyKeepsRead ==
  ASSUME RiaAssumption, RiaInv', AnswersInv, ReadInv, UNCHANGED endVars,
         \A a \in Apps : \/ down'[a] = down[a] \/ Loses(a)
                         \/ \E p : Body(p) = <<>> /\ down'[a] = Append(down[a], p),
         \A d \in Devs : InOrder(up'[d]) /\ Nums(up'[d]) \subseteq Nums(up[d]),
         \A a \in Apps : Fresh(a)' => Fresh(a),
         \A a \in Apps : peer'[a] # None => peer'[a] = peer[a] \/ Fresh(a)
  PROVE  ReadInv'
<1>1. UNCHANGED <<taken, data, line, made>>
  BY DEF endVars, appVars, deviceVars
<1>2. \A a \in Apps : Keeps(a)
  BY <1>1, LosesReads, EmptyReads
<1>3. \A d \in Devs : Owes(d)
  BY <1>1, FeedsLess
<1>4. DOMAIN taken' = Apps /\ DOMAIN line' = Devs /\ DOMAIN made' = Devs
  BY <1>1 DEF ReadInv
<1> QED BY <1>2, <1>3, <1>4, ReadStep

LEMMA DropClientKeepsRead ==
  ASSUME RiaAssumption, RiaInv, RiaInv', AnswersInv, ReadInv, NEW c \in Ends, DropClient(c)
  PROVE  ReadInv'
<1>1. /\ DOMAIN up = Ends /\ DOMAIN down = Ends /\ DOMAIN link = Ends
      /\ \A a \in Apps : a \in Ends
      /\ \A d \in Devs : d \in Ends
  BY DEF Ends, RiaInv, ProxyTypes, AnswersInv, AllAmong
<1>2. /\ link' = Set(link, c, "freed") /\ up' = Set(up, c, <<>>) /\ peer' = Detached(c)
      /\ UNCHANGED endVars
      /\ down' = Set(down, c, <<>>) \/ Unsent({c})
  BY DEF DropClient
<1>3. \A a \in Apps : UNCHANGED <<up[a], link[a]>> \/ (up'[a] = <<>> /\ link'[a] = "freed")
  BY <1>1, <1>2 DEF Set
<1>4. \A a \in Apps : Fresh(a)' => Fresh(a)
  <2>1. NoClaims(<<>>)
    BY DEF NoClaims
  <2> QED BY <1>3, <2>1 DEF Fresh, NoClaims
<1>5. ASSUME NEW a \in Apps
      PROVE  down'[a] = down[a] \/ Loses(a)
  <2>1. CASE down' = Set(down, c, <<>>)
    <3>1. down'[a] = down[a] \/ down'[a] = <<>>
      BY <1>1, <2>1 DEF Set
    <3> QED BY <1>1, <3>1, EmptyLoses
  <2>2. CASE Unsent({c})
    <3>1. {c} \in SUBSET Ends
      OBVIOUS
    <3> QED BY <1>1, <2>2, <3>1, UnsentLoses
  <2> QED BY <1>2, <2>1, <2>2
<1>6. ASSUME NEW d \in Devs
      PROVE  InOrder(up'[d]) /\ Nums(up'[d]) \subseteq Nums(up[d])
  <2>1. up'[d] = up[d] \/ up'[d] = <<>>
    BY <1>1, <1>2 DEF Set
  <2> QED BY <2>1, NoElems DEF ReadInv, Feeds, Feeding
<1>7. \A a \in Apps : peer'[a] # None => peer'[a] = peer[a] \/ Fresh(a)
  BY <1>1, <1>2 DEF Detached
<1> QED BY <1>2, <1>4, <1>5, <1>6, <1>7, ProxyKeepsRead

LEMMA ProxyDiesKeepsRead ==
  ASSUME RiaAssumption, RiaInv, RiaInv', AnswersInv, ReadInv, ProxyDies
  PROVE  ReadInv'
<1>1. Ends \in SUBSET Ends /\ (\A a \in Apps : a \in Ends) /\ (\A d \in Devs : d \in Ends)
  BY DEF Ends
<1>2. /\ link' = [e \in Ends |-> "freed"] /\ up' = [e \in Ends |-> <<>>]
      /\ peer' = [e \in Ends |-> None] /\ UNCHANGED endVars /\ Unsent(Ends)
  BY DEF ProxyDies
<1>3. \A a \in Apps : ~Fresh(a)' /\ peer'[a] = None
  BY <1>1, <1>2 DEF Fresh, NoClaims
<1>4. \A a \in Apps : down'[a] = down[a] \/ Loses(a)
  BY <1>1, <1>2, UnsentLoses
<1>5. ASSUME NEW d \in Devs
      PROVE  InOrder(up'[d]) /\ Nums(up'[d]) \subseteq Nums(up[d])
  BY <1>1, <1>2, NoElems
<1> QED BY <1>2, <1>3, <1>4, <1>5, ProxyKeepsRead

LEMMA AppRequestKeepsRead ==
  ASSUME RiaAssumption, RiaInv, RiaInv', AnswersInv, ReadInv, NEW a \in Apps, AppRequest(a)
  PROVE  ReadInv'
<1>1. PICK p : p = Head(up[a])
  OBVIOUS
<1>2. /\ up[a] # <<>> /\ up' = Set(up, a, Tail(up[a])) /\ UNCHANGED <<link, endVars>>
      /\ \/ /\ \E rc, body : Respond(a, p, rc, body)
            /\ \/ UNCHANGED peer
               \/ /\ p.cmd = "claim" /\ Claimable(p.dev)
                  /\ peer' = [peer EXCEPT ![a] = p.dev, ![p.dev] = a]
         \/ /\ peer[a] # None
            /\ down' = Put(down, peer[a], p) /\ UNCHANGED peer
  BY <1>1 DEF AppRequest
<1>3. /\ a \in Ends /\ a \notin Devs /\ \A b \in Apps : b \in Ends /\ b \notin Devs
      /\ DOMAIN up = Ends /\ DOMAIN down = Ends /\ peer \in [Ends -> Ends \cup {None}]
  BY DEF RiaAssumption, Ends, RiaInv, ProxyTypes, AnswersInv, AllAmong
<1>4. \A b \in Apps : Fresh(b)' => Fresh(b)
  <2>1. \A b \in Apps \ {a} : up'[b] = up[b] /\ link'[b] = link[b]
    BY <1>2, <1>3 DEF Set
  <2> QED BY <2>1, RequestNotFresh DEF Fresh, NoClaims
<1>5. \A d \in Devs : InOrder(up'[d]) /\ Nums(up'[d]) \subseteq Nums(up[d])
  <2>1. \A d \in Devs : up'[d] = up[d]
    BY <1>2, <1>3 DEF Set, Ends
  <2> QED BY <2>1 DEF ReadInv, Feeds, Feeding
<1>6. ASSUME NEW b \in Apps
      PROVE  peer'[b] # None => peer'[b] = peer[b] \/ Fresh(b)
  <2>1. CASE p.cmd = "claim" /\ Claimable(p.dev) /\ peer' = [peer EXCEPT ![a] = p.dev, ![p.dev] = a]
    <3>1. Fresh(a)
      <4>1. up[a] \in Seq(AppPackets)
        BY DEF RiaInv, ProxyTypes
      <4>2. 1 \in 1 .. Len(up[a]) /\ up[a][1] = p
        BY <1>1, <1>2, <4>1, HeadTailProperties
      <4> QED BY <2>1, <4>2 DEF Fresh, NoClaims
    <3>2. p.dev \in Devs
      BY <2>1 DEF Claimable, RiaInv, RegisteredListed
    <3> QED BY <1>3, <2>1, <3>1, <3>2
  <2>2. CASE UNCHANGED peer
    BY <2>2
  <2> QED BY <1>2, <2>1, <2>2
<1>7. CASE \E rc, body : Respond(a, p, rc, body)
  <2>1. PICK rc, body : Respond(a, p, rc, body)
    BY <1>7
  <2>2. PICK q : q = Reply(p, rc, body)
    OBVIOUS
  <2>3. Body(q) = <<>> /\ (down' = down \/ down' = [down EXCEPT ![a] = Append(down[a], q)])
    BY <2>1, <2>2, NoBody DEF Respond, Put
  <2>4. \A b \in Apps : down'[b] = down[b] \/ (Body(q) = <<>> /\ down'[b] = Append(down[b], q))
    BY <1>3, <2>3
  <2> QED BY <1>2, <1>4, <1>5, <1>6, <2>4, ProxyKeepsRead
<1>8. CASE peer[a] # None /\ down' = Put(down, peer[a], p) /\ UNCHANGED peer
  <2>1. peer[a] \in Devs
    BY <1>3, <1>8 DEF RiaInv, PeersDiffer
  <2>2. \A b \in Apps : down'[b] = down[b]
    BY <1>3, <1>8, <2>1 DEF Put
  <2> QED BY <1>2, <1>4, <1>5, <1>6, <2>2, ProxyKeepsRead
<1> QED BY <1>2, <1>7, <1>8

\* ria_svc_dev_handler passes chunks on to the client that has claimed the device.
LEMMA DevRequestKeepsRead ==
  ASSUME RiaAssumption, RiaInv, RiaInv', AnswersInv, ReadInv, NEW d \in Devs, DevRequest(d)
  PROVE  ReadInv'
<1>1. PICK p, u, t : u = up[d] /\ p = Head(u) /\ t = Tail(u)
  OBVIOUS
<1>2. /\ u # <<>> /\ up' = Set(up, d, t) /\ UNCHANGED <<link, peer, endVars>>
      /\ \/ \E rc, body : Respond(d, p, rc, body)
         \/ peer[d] # None /\ down' = Put(down, peer[d], p)
  BY <1>1 DEF DevRequest
<1>3. /\ d \in Ends /\ \A b \in Apps : b \in Ends /\ b # d
      /\ DOMAIN up = Ends /\ DOMAIN down = Ends /\ peer \in [Ends -> Ends \cup {None}]
      /\ \A e \in Devs : e \in Ends
  BY DEF RiaAssumption, Ends, RiaInv, ProxyTypes, AnswersInv, AllAmong
<1>4. PICK G : u \in Seq(G) /\ \A b \in Apps : down[b] \in Seq(G)
  BY <1>1, <1>3 DEF AnswersInv, AllAmong
<1>5. InOrder(u)
  BY <1>1 DEF ReadInv, Feeds, Feeding
<1>6. /\ Body(p) \in Seq(Nat) /\ Rising(Body(p)) /\ Elems(Body(p)) \subseteq Nums(u)
      /\ t \in Seq(G) /\ InOrder(t) /\ Nums(t) \subseteq Nums(u) /\ Below(Elems(Body(p)), Nums(t))
  BY <1>1, <1>2, <1>4, <1>5, OrderFirst
<1>7. /\ up'[d] = t /\ \A e \in Devs \ {d} : up'[e] = up[e]
      /\ \A b \in Apps : up'[b] = up[b]
  BY <1>2, <1>3 DEF Set
<1>8. \A e \in Devs : InOrder(up'[e]) /\ Nums(up'[e]) \subseteq Nums(up[e])
  <2>1. ASSUME NEW e \in Devs \ {d}
        PROVE  InOrder(up'[e]) /\ Nums(up'[e]) \subseteq Nums(up[e])
    BY <1>7, <2>1 DEF ReadInv, Feeds, Feeding
  <2> QED BY <1>1, <1>6, <1>7, <2>1
<1>9. \A b \in Apps : Fresh(b)' => Fresh(b)
  BY <1>2, <1>7 DEF Fresh, NoClaims
<1>10. CASE \E rc, body : Respond(d, p, rc, body)
  <2>1. down' = down \/ \E v : down' = Set(down, d, v)
    BY <1>10 DEF Respond, Put, Set
  <2>2. \A b \in Apps : down'[b] = down[b]
    BY <1>3, <2>1, SetElse
  <2> QED BY <1>2, <1>8, <1>9, <2>2, ProxyKeepsRead
<1>11. CASE peer[d] # None /\ down' = Put(down, peer[d], p)
  <2>1. PICK a : a = peer[d]
    OBVIOUS
  <2>2. a \in Apps /\ peer[a] = d
    BY <1>3, <1>11, <2>1 DEF RiaInv, PeersDiffer, PeersPaired, Ends
  <2>3. down'[a] = Append(down[a], p) /\ \A b \in Apps \ {a} : down'[b] = down[b]
    BY <1>3, <1>11, <2>1, <2>2 DEF Put
  <2>4. UNCHANGED <<taken, data, line, made, peer>>
    BY <1>2 DEF endVars, appVars, deviceVars
  <2>5. PICK x, y, s, l, m, b : /\ x = taken[a] /\ y = data[a] /\ s = down[a]
                                /\ l = line[d] /\ m = made[d] /\ b = Body(p)
    OBVIOUS
  <2>6. Readable(x, y, s) /\ Feeding(m, l, u)
    BY <1>1, <2>2, <2>5 DEF ReadInv, Reads, Feeds
  <2>7. PICK M : M = Elems(x) \cup Elems(y)
    OBVIOUS
  <2>8. /\ Below(M, Nums(s)) /\ InOrder(s) /\ Below(Nums(u), Elems(l))
        /\ \A n \in Nums(u) : n <= m
    BY <2>6, <2>7 DEF Readable, Feeding, Owing
  <2>9. /\ Below(M \cup Nums(s), Nums(u) \cup Elems(l))
        /\ \A n \in M \cup Nums(s) : n <= m
    <3>1. Follows(a, d)
      BY <1>3, <2>2 DEF ReadInv, RiaAssumption
    <3>2. Had(a) = M \cup Nums(s) /\ Due(d) = Nums(u) \cup Elems(l)
      BY <1>1, <2>5, <2>7 DEF Had, Having, Due, Owing
    <3> QED BY <2>5, <3>1, <3>2 DEF Follows
  <2>10. PICK v : v = Append(s, p)
    OBVIOUS
  <2>11. InOrder(v) /\ Nums(v) = Nums(s) \cup Elems(b)
    <3>1. Below(Nums(s), Elems(b))
      BY <1>6, <2>5, <2>9 DEF Below
    <3>2. s \in Seq(G)
      BY <1>4, <2>2, <2>5
    <3> QED BY <1>6, <2>5, <2>8, <2>10, <3>1, <3>2, OrderMore
  <2>12. Below(M, Nums(v))
    BY <1>6, <2>5, <2>8, <2>9, <2>11 DEF Below
  <2>13. Readable(x, y, v)
    BY <2>6, <2>7, <2>11, <2>12 DEF Readable
  <2>14. /\ Below(M \cup Nums(v), Nums(t) \cup Elems(l))
         /\ \A n \in M \cup Nums(v) : n <= m
    BY <1>6, <2>5, <2>8, <2>9, <2>11 DEF Below
  <2>15. /\ taken'[a] = x /\ data'[a] = y /\ down'[a] = v /\ line'[d] = l /\ made'[d] = m
    BY <2>3, <2>4, <2>5, <2>10
  <2>16. Reads(a)' /\ Follows(a, d)'
    <3>1. Had(a)' = M \cup Nums(v) /\ Due(d)' = Nums(t) \cup Elems(l)
      BY <1>7, <2>7, <2>15 DEF Had, Having, Due, Owing
    <3>2. Reads(a)'
      BY <2>13, <2>15 DEF Reads
    <3> QED BY <2>14, <2>15, <3>1, <3>2 DEF Follows
  <2>17. ~Fresh(a)'
    <3>1. peer[a] # None
      BY <1>3, <2>2 DEF RiaAssumption
    <3>2. link[a] # "none" /\ NoClaims(up[a])
      BY <1>3, <2>2, <3>1 DEF RiaInv, PeersPaired, FirstIsClaim, NoClaims, Listed
    <3> QED BY <1>9, <2>2, <3>2 DEF Fresh
  <2>18. \A e \in Devs : Owes(e)
    BY <1>8, <2>4, FeedsLess
  <2>19. ASSUME NEW c \in Apps \ {a}
         PROVE  /\ Reads(c)' /\ (Fresh(c)' => Had(c)' = {})
                /\ peer'[c] # None => Follows(c, peer[c])'
    <3>1. Reads(c)' /\ Had(c)' = Had(c) /\ Reads(c) /\ (Fresh(c)' => Had(c)' = {})
      BY <1>9, <2>3, <2>4 DEF ReadInv, Reads, Had
    <3>2. PICK D : D = peer[c]
      OBVIOUS
    <3>3. ASSUME D # None
          PROVE  Follows(c, D)'
      <4>1. D \in Devs /\ D # d /\ Follows(c, D)
        <5>1. D \in Devs /\ peer[D] = c
          BY <1>3, <3>2, <3>3 DEF RiaInv, PeersDiffer, PeersPaired
        <5> QED BY <2>1, <3>2, <3>3, <5>1 DEF ReadInv
      <4>2. Due(D)' = Due(D) /\ made'[D] = made[D]
        BY <1>7, <2>4, <4>1 DEF Due
      <4> QED BY <3>1, <4>1, <4>2 DEF Follows
    <3> QED BY <2>4, <3>1, <3>2, <3>3
  <2>20. \A c \in Apps : /\ Reads(c)' /\ (Fresh(c)' => Had(c)' = {})
                         /\ peer'[c] # None => Follows(c, peer[c])'
    BY <2>2, <2>4, <2>16, <2>17, <2>19
  <2>21. DOMAIN taken' = Apps /\ DOMAIN line' = Devs /\ DOMAIN made' = Devs
    BY <2>4 DEF ReadInv
  <2> QED BY <2>18, <2>20, <2>21 DEF ReadInv, Owes
<1> QED BY <1>2, <1>10, <1>11

LEMMA ReadInvInit ==
  ASSUME RiaAssumption, Init
  PROVE  ReadInv
<1>1. DOMAIN taken = Apps /\ DOMAIN line = Devs /\ DOMAIN made = Devs
  BY DEF Init
<1>2. ASSUME NEW a \in Apps
      PROVE  Reads(a) /\ Had(a) = {} /\ peer[a] = None
  <2>1. taken[a] = <<>> /\ data[a] = <<>> /\ down[a] = <<>> /\ peer[a] = None
    BY DEF Init, Ends
  <2>2. Readable(<<>>, <<>>, <<>>) /\ Having(<<>>, <<>>, <<>>) = {}
    BY NoElems DEF Readable, Having, Below
  <2> QED BY <2>1, <2>2 DEF Reads, Had
<1>3. ASSUME NEW d \in Devs
      PROVE  Feeds(d)
  <2>1. made[d] = 0 /\ line[d] = <<>> /\ up[d] = <<>>
    BY DEF Init, Ends
  <2>2. Feeding(0, <<>>, <<>>)
    BY NoElems DEF Feeding, Owing, Below
  <2> QED BY <2>1, <2>2 DEF Feeds
<1> QED BY <1>1, <1>2, <1>3 DEF ReadInv

\* Every step keeps what applications read in the order in which it was made.
LEMMA ReadInvNext ==
  ASSUME RiaAssumption, RiaInv, RiaInv', AnswersInv, TurnInv, ReadInv, [Next]_vars
  PROVE  ReadInv'
<1>1. CASE ProxyStep
  BY <1>1, DropClientKeepsRead, AppRequestKeepsRead, DevRequestKeepsRead, ProxyDiesKeepsRead
     DEF ProxyStep
<1>2. ASSUME NEW a \in Apps, AppStep(a)
      PROVE  ReadInv'
  BY <1>2, AppStepKeepsRead
<1>3. ASSUME NEW d \in Devs, DevStep(d)
      PROVE  ReadInv'
  BY <1>3, DevStepKeepsRead
<1>4. CASE UNCHANGED vars
  <2>1. UNCHANGED endVars /\ UNCHANGED <<up, down, link, peer>>
    BY <1>4 DEF vars, proxyVars
  <2>2. \A d \in Devs : InOrder(up'[d]) /\ Nums(up'[d]) \subseteq Nums(up[d])
    BY <2>1 DEF ReadInv, Feeds, Feeding
  <2>3. \A a \in Apps : Fresh(a)' => Fresh(a)
    BY <2>1 DEF Fresh, NoClaims
  <2> QED BY <2>1, <2>2, <2>3, ProxyKeepsRead
<1> QED BY <1>1, <1>2, <1>3, <1>4 DEF Next

\* What an application has read and has in its queue, and then the packets on their way
\* to it, are in the order of the serial line.
LEMMA ReadsInOrder ==
  ASSUME NEW a \in Apps, Reads(a), NEW G, down[a] \in Seq(G)
  PROVE  LET s == Reading(a)
         IN \A i, j \in 1 .. Len(s) : \A k \in 1 .. Len(s[i]), l \in 1 .. Len(s[j]) :
              i < j \/ (i = j /\ k < l) => s[i][k] < s[j][l]
<1>1. PICK x, y, q, n : x = taken[a] /\ y = data[a] /\ q = down[a] /\ n = Len(q)
  OBVIOUS
<1>2. /\ x \in Seq(Nat) /\ Rising(x) /\ y \in Seq(Nat) /\ Rising(y) /\ InOrder(q)
      /\ Below(Elems(x), Elems(y)) /\ Below(Elems(x) \cup Elems(y), Nums(q))
  BY <1>1 DEF Reads, Readable
<1>3. PICK z : z = x \o y
  OBVIOUS
<1>4. z \in Seq(Nat) /\ Rising(z) /\ Elems(z) = Elems(x) \cup Elems(y)
  BY <1>2, <1>3, RisingJoin
<1>5. n \in Nat
  BY <1>1, LenProperties
<1>6. PICK b, o : b = [i \in 1 .. n |-> Body(q[i])] /\ o = <<z>>
  OBVIOUS
<1>7. PICK S : S = {z} \cup {Body(q[i]) : i \in 1 .. n}
  OBVIOUS
<1>8. o \in Seq(S) /\ b \in Seq(S) /\ Len(o) = 1 /\ o[1] = z /\ Len(b) = n
      /\ \A i \in 1 .. n : b[i] = Body(q[i])
  <2>1. z \in S /\ \A i \in 1 .. n : Body(q[i]) \in S
    BY <1>7
  <2>2. b \in [1 .. n -> S]
    BY <1>6, <2>1
  <2>3. b \in Seq(S)
    BY <1>5, <2>2
  <2>4. DOMAIN b = 1 .. n /\ \A i \in 1 .. n : b[i] = Body(q[i])
    BY <1>6
  <2>5. Len(b) = n
    BY <1>5, <2>2, <2>4
  <2>6. o \in Seq(S) /\ Len(o) = 1 /\ o[1] = z
    BY <1>6, <2>1
  <2> QED BY <2>3, <2>4, <2>5, <2>6
<1>9. PICK s : s = o \o b
  OBVIOUS
<1>10. /\ Len(s) = 1 + n
       /\ \A i \in 1 .. 1 + n : s[i] = IF i <= 1 THEN o[i] ELSE b[i - 1]
  <2>1. o \in Seq(S) /\ b \in Seq(S)
    BY <1>8
  <2>2. /\ Len(s) = Len(o) + Len(b)
        /\ \A i \in 1 .. Len(o) + Len(b) : s[i] = IF i <= Len(o) THEN o[i] ELSE b[i - Len(o)]
    BY <1>9, <2>1, TwoParts
  <2>3. Len(o) = 1 /\ Len(b) = n
    BY <1>8
  <2> QED BY <2>2, <2>3
<1>11. s[1] = z /\ \A i \in 1 .. n + 1 : i = 1 \/ (i - 1 \in 1 .. n /\ s[i] = Body(q[i - 1]))
  BY <1>5, <1>8, <1>10
<1>12. s = Reading(a)
  BY <1>1, <1>3, <1>6, <1>9 DEF Reading
<1>13. ASSUME NEW i \in 1 .. n + 1
       PROVE  Rising(s[i])
  BY <1>1, <1>2, <1>4, <1>11 DEF InOrder
<1>14. ASSUME NEW i \in 1 .. n + 1, NEW j \in 1 .. n + 1, i < j
       PROVE  Below(Elems(s[i]), Elems(s[j]))
  <2>1. j - 1 \in 1 .. n /\ s[j] = Body(q[j - 1])
    BY <1>5, <1>11, <1>14
  <2>2. Elems(s[j]) \subseteq Nums(q)
    BY <1>1, <2>1 DEF Nums
  <2>3. CASE i = 1
    BY <1>2, <1>4, <1>11, <2>2, <2>3 DEF Below
  <2>4. CASE i # 1
    <3>1. i - 1 \in 1 .. n /\ s[i] = Body(q[i - 1]) /\ i - 1 < j - 1
      BY <1>5, <1>11, <1>14, <2>4
    <3> QED BY <1>1, <1>2, <2>1, <3>1 DEF InOrder
  <2> QED BY <2>3, <2>4
<1>15. ASSUME NEW i \in 1 .. n + 1, NEW j \in 1 .. n + 1,
              NEW k \in 1 .. Len(s[i]), NEW l \in 1 .. Len(s[j]),
              i < j \/ (i = j /\ k < l)
       PROVE  s[i][k] < s[j][l]
  <2>1. CASE i < j
    BY <1>14, <2>1 DEF Below, Elems
  <2>2. CASE i = j /\ k < l
    BY <1>13, <2>2 DEF Rising
  <2> QED BY <1>15, <2>1, <2>2
<1> QED BY <1>5, <1>10, <1>12, <1>15

\* Through the queues of the proxy, the exporter and the device, the calls and the data of
\* a client stay apart from those of the next one to claim the device, and in order; what
\* an application reads is in the order in which the device made it.  This holds for any
\* number of applications and devices, whatever is lost when connections end.
THEOREM RiaDataInTurn == Spec => []DataInTurn
<1>1. Init => RiaInv /\ AnswersInv /\ TurnInv /\ ReadInv
  BY RiaInvInit, AnswersInvInit, TurnInvInit, ReadInvInit, RiaAssumption
<1>2. RiaInv /\ AnswersInv /\ TurnInv /\ ReadInv /\ [Next]_vars
        => (RiaInv /\ AnswersInv /\ TurnInv /\ ReadInv)'
  BY RiaInvNext, AnswersInvNext, TurnInvNext, ReadInvNext, RiaAssumption
<1>3. AnswersInv /\ TurnInv /\ ReadInv => DataInTurn
  <2> SUFFICES ASSUME AnswersInv, TurnInv, ReadInv PROVE DataInTurn
    OBVIOUS
  <2>1. \A d \in Devs : InTurn(Coming(d))
    BY DEF TurnInv
  <2>2. \A a \in Apps : \E G : down[a] \in Seq(G) /\ Reads(a)
    BY DEF AnswersInv, AllAmong, ReadInv, Ends
  <2>3. ASSUME NEW a \in Apps
        PROVE  LET s == Reading(a)
               IN \A i, j \in 1 .. Len(s) : \A k \in 1 .. Len(s[i]), l \in 1 .. Len(s[j]) :
                    i < j \/ (i = j /\ k < l) => s[i][k] < s[j][l]
    <3>1. PICK G : down[a] \in Seq(G) /\ Reads(a)
      BY <2>2
    <3> QED BY <3>1, ReadsInOrder
  <2> QED BY <2>1, <2>3 DEF DataInTurn, InTurn
<1> QED BY <1>1, <1>2, <1>3, PTL DEF Spec

-------------------------------------------------------------------------------
(* Whose late answer it can be.  What is on its way to or from a device comes *)
(* from the device itself, from the client that has it, or from one that has  *)
(* left; so does what comes to the next client, and the number of such a      *)
(* packet is never that of a claim, which is the first of its connection.     *)

\* A call for a device: ria_send has numbered it after that of the claim.
Late(p) == p.by \in Apps /\ p.cmd \notin {"claim", "list"} /\ p.xid > 1

\* What application a sends.
Sent(a, p) == p.by = a /\ (p.cmd \in {"claim", "list"} \/ p.xid > 1)

\* The packets of application b that device d has to do with are its client's, or
\* those of one that has left.
Served(d, b) == link[d] = "freed" \/ peer[d] = b \/ phase[b] = "closed"

ToDev(d, p) == (p.by = d /\ p.dest) \/ (Late(p) /\ Served(d, p.by))

FromDev(d, p) == (p.by = d /\ ~p.dest) \/ (Late(p) /\ Served(d, p.by))

ToApp(a, p) == \/ p.by = a
               \/ p.by \in Devs /\ ~p.dest
               \/ Late(p) /\ phase[p.by] = "closed"

\* A claim or a list is the first call of its connection.
Numbered(a) ==
  /\ phase[a] = "new" => xid[a] = 0
  /\ phase[a] \notin {"new", "closed"} => xid[a] >= 1
  /\ call[a] # None /\ call[a].cmd \in {"claim", "list"} => call[a].xid = 1

Known(a) ==
  result[a] # None => \/ result[a].answer.by = a
                      \/ Inherited(result[a].answer, result[a].call)

\* A connection the proxy reads no further has no claim, and makes none.
Turned(c) == /\ c \in Apps /\ peer[c] = None /\ link[c] # "none"
             /\ \A p \in Elems(up[c]) : p.cmd # "claim"

WayInv ==
  /\ \A a \in Apps : /\ Numbered(a) /\ Known(a)
                     /\ \A p \in Elems(up[a]) \cup Elems(sbuf[a]) : Sent(a, p)
                     /\ \A p \in Elems(down[a]) : ToApp(a, p)
  /\ \A d \in Devs : /\ \A p \in Elems(rbuf[d]) \cup Elems(down[d]) : ToDev(d, p)
                     /\ \A p \in Elems(up[d]) : FromDev(d, p)
  /\ \A c \in shut : Turned(c)

\* Nobody comes back, and a device comes to another client only when the last has left.
Stay == /\ \A a \in Apps : phase[a] = "closed" => phase'[a] = "closed"
        /\ \A d \in Devs, b \in Apps : Served(d, b) => Served(d, b)'

\* What a step brings on the connection of an application, and of a device.
AppWay(a) ==
  /\ Numbered(a)' /\ Known(a)'
  /\ \A p \in Elems(up'[a]) \cup Elems(sbuf'[a]) :
       \/ p \in Elems(up[a]) \cup Elems(sbuf[a])
       \/ Sent(a, p) /\ (link[a] = "none" \/ p.cmd # "claim")
  /\ \A p \in Elems(down'[a]) : p \in Elems(down[a]) \/ ToApp(a, p)'
  /\ link[a] # "none" => link'[a] # "none"

DevWay(d) ==
  /\ \A p \in Elems(rbuf'[d]) \cup Elems(down'[d]) :
       p \in Elems(rbuf[d]) \cup Elems(down[d]) \/ ToDev(d, p)'
  /\ \A p \in Elems(up'[d]) : p \in Elems(up[d]) \/ FromDev(d, p)'

LEMMA ElemsMore ==
  ASSUME NEW S, NEW s \in Seq(S), NEW x \in S, NEW t, t = Append(s, x)
  PROVE  \A p \in Elems(t) : p \in Elems(s) \/ p = x
<1>1. Len(t) = Len(s) + 1 /\ Len(s) \in Nat
      /\ \A i \in 1 .. Len(s) + 1 : t[i] = IF i <= Len(s) THEN s[i] ELSE x
  BY AppendProperties, LenProperties
<1>2. ASSUME NEW i \in 1 .. Len(t)
      PROVE  t[i] \in Elems(s) \/ t[i] = x
  BY <1>1 DEF Elems
<1> QED BY <1>2 DEF Elems

LEMMA ElemsFirst ==
  ASSUME NEW S, NEW s \in Seq(S), s # <<>>, NEW t, t = Tail(s)
  PROVE  Elems(t) \subseteq Elems(s) /\ Head(s) \in Elems(s)
<1>1. Len(s) \in Nat \ {0} /\ Len(t) = Len(s) - 1 /\ Head(s) = s[1]
      /\ \A i \in 1 .. Len(t) : t[i] = s[i + 1]
  BY HeadTailProperties, LenProperties, EmptySeq
<1>2. ASSUME NEW i \in 1 .. Len(t)
      PROVE  t[i] \in Elems(s)
  <2>1. i + 1 \in 1 .. Len(s) /\ t[i] = s[i + 1]
    BY <1>1
  <2> QED BY <2>1 DEF Elems
<1>3. 1 \in 1 .. Len(s)
  BY <1>1
<1> QED BY <1>1, <1>2, <1>3 DEF Elems

LEMMA ElemsJoin ==
  ASSUME NEW S, NEW s \in Seq(S), NEW t \in Seq(S)
  PROVE  Elems(s \o t) = Elems(s) \cup Elems(t)
<1>0. PICK u : u = s \o t
  OBVIOUS
<1>1. Len(s) \in Nat /\ Len(t) \in Nat /\ Len(u) = Len(s) + Len(t)
      /\ \A i \in 1 .. Len(s) + Len(t) : u[i] = IF i <= Len(s) THEN s[i] ELSE t[i - Len(s)]
  BY <1>0, TwoParts
<1>2. ASSUME NEW i \in 1 .. Len(u)
      PROVE  u[i] \in Elems(s) \cup Elems(t)
  <2>1. CASE i <= Len(s)
    BY <1>1, <2>1 DEF Elems
  <2>2. CASE ~(i <= Len(s))
    <3>1. i - Len(s) \in 1 .. Len(t) /\ u[i] = t[i - Len(s)]
      BY <1>1, <2>2
    <3> QED BY <3>1 DEF Elems
  <2> QED BY <2>1, <2>2
<1>3. ASSUME NEW i \in 1 .. Len(s)
      PROVE  s[i] \in Elems(u)
  <2>1. i \in 1 .. Len(u) /\ u[i] = s[i]
    BY <1>1
  <2> QED BY <2>1 DEF Elems
<1>4. ASSUME NEW i \in 1 .. Len(t)
      PROVE  t[i] \in Elems(u)
  <2>1. PICK j : j = Len(s) + i
    OBVIOUS
  <2>2. j \in 1 .. Len(s) + Len(t) /\ ~(j <= Len(s)) /\ j - Len(s) = i
    BY <1>1, <2>1
  <2>3. j \in 1 .. Len(u) /\ u[j] = t[i]
    BY <1>1, <2>2
  <2> QED BY <2>3 DEF Elems
<1>5. Elems(u) = Elems(s) \cup Elems(t)
  BY <1>2, <1>3, <1>4 DEF Elems
<1> QED BY <1>0, <1>5

LEMMA ElemsPrefix ==
  ASSUME NEW S, NEW s \in Seq(S), NEW k \in 0 .. Len(s), NEW t, t = SubSeq(s, 1, k)
  PROVE  Elems(t) \subseteq Elems(s)
<1>1. k \in Nat /\ Len(s) \in Nat /\ Len(t) = k /\ \A i \in 1 .. k : t[i] = s[i]
  BY LenProperties
<1>2. ASSUME NEW i \in 1 .. Len(t)
      PROVE  t[i] \in Elems(s)
  <2>1. i \in 1 .. Len(s) /\ t[i] = s[i]
    BY <1>1
  <2> QED BY <2>1 DEF Elems
<1> QED BY <1>2 DEF Elems

LEMMA ElemsOne ==
  ASSUME NEW q, NEW s, s = <<q>>
  PROVE  Elems(s) = {q}
<1>1. Len(s) = 1 /\ s[1] = q
  OBVIOUS
<1> QED BY <1>1 DEF Elems

\* What the proxy keeps of a connection is of it.
LEMMA LosesElems ==
  ASSUME AnswersInv, NEW c \in Ends, down'[c] = down[c] \/ Loses(c)
  PROVE  Elems(down'[c]) \subseteq Elems(down[c])
<1>1. PICK q : q = down[c]
  OBVIOUS
<1>2. PICK H : q \in Seq(H)
  BY <1>1 DEF AnswersInv, AllAmong
<1>3. CASE Loses(c)
  <2>1. PICK k \in 0 .. Len(q) : down'[c] = SubSeq(q, 1, k)
    BY <1>1, <1>3 DEF Loses
  <2> QED BY <1>1, <1>2, <2>1, ElemsPrefix
<1> QED BY <1>3

\* A step that brings only what may be brought.
LEMMA WayStep ==
  ASSUME RiaInv, WayInv, Stay, \A a \in Apps : AppWay(a), \A d \in Devs : DevWay(d),
         \A c \in shut' : (c \in shut /\ peer'[c] = peer[c]) \/ Turned(c)'
  PROVE  WayInv'
<1>1. ASSUME NEW a \in Apps
      PROVE  /\ Numbered(a)' /\ Known(a)'
             /\ \A p \in Elems(up'[a]) \cup Elems(sbuf'[a]) : Sent(a, p)
             /\ \A p \in Elems(down'[a]) : ToApp(a, p)'
  <2>1. \A p : ToApp(a, p) => ToApp(a, p)'
    BY DEF ToApp, Stay, Late
  <2> QED BY <2>1 DEF AppWay, WayInv
<1>2. ASSUME NEW d \in Devs
      PROVE  /\ \A p \in Elems(rbuf'[d]) \cup Elems(down'[d]) : ToDev(d, p)'
             /\ \A p \in Elems(up'[d]) : FromDev(d, p)'
  <2>1. \A p : Late(p) /\ Served(d, p.by) => Served(d, p.by)'
    BY DEF Stay, Late
  <2>2. \A p : (ToDev(d, p) => ToDev(d, p)') /\ (FromDev(d, p) => FromDev(d, p)')
    BY <2>1 DEF ToDev, FromDev
  <2> QED BY <2>2 DEF DevWay, WayInv
<1>3. ASSUME NEW c \in shut'
      PROVE  Turned(c)'
  <2>1. CASE c \in shut /\ peer'[c] = peer[c]
    <3>1. Turned(c) /\ c \in Apps
      BY <2>1 DEF WayInv, Turned
    <3>2. \A p \in Elems(sbuf[c]) : p.cmd # "claim"
      BY <3>1 DEF RiaInv, FirstIsClaim, NoClaims, Elems
    <3>3. \A p \in Elems(up'[c]) : p.cmd # "claim"
      BY <3>1, <3>2 DEF Turned, AppWay
    <3> QED BY <2>1, <3>1, <3>3 DEF Turned, AppWay
  <2> QED BY <1>3, <2>1
<1>4. \A a \in Apps : /\ Numbered(a)' /\ Known(a)'
                      /\ \A p \in Elems(up'[a]) \cup Elems(sbuf'[a]) : Sent(a, p)
                      /\ \A p \in Elems(down'[a]) : ToApp(a, p)'
  BY <1>1, Zenon
<1>5. \A a \in Apps : \A p \in Elems(up'[a]) \cup Elems(sbuf'[a]) : Sent(a, p)'
  BY <1>4 DEF Sent
<1> QED BY <1>2, <1>3, <1>4, <1>5, Zenon DEF WayInv

\* A connection on which an application makes no call.
LEMMA QuietWay ==
  ASSUME WayInv, Stay, NEW a \in Apps, UNCHANGED <<phase[a], xid[a], call[a], result[a]>>,
         Elems(up'[a]) \cup Elems(sbuf'[a]) \subseteq Elems(up[a]) \cup Elems(sbuf[a]),
         \A p \in Elems(down'[a]) : p \in Elems(down[a]) \/ ToApp(a, p)',
         link[a] # "none" => link'[a] # "none"
  PROVE  AppWay(a)
<1>1. Numbered(a)'
  BY DEF WayInv, Numbered
<1>2. Known(a)'
  BY DEF WayInv, Known, Inherited, Stay
<1> QED BY <1>1, <1>2 DEF AppWay

LEMMA SameWay ==
  ASSUME NEW d \in Devs, UNCHANGED <<rbuf[d], down[d], up[d]>>
  PROVE  DevWay(d)
  BY DEF DevWay

-------------------------------------------------------------------------------
\* Function g is f, except at c.
ButAt(f, g, c) == g = f \/ \E v : g = Set(f, c, v)

\* A step that changes what program c has and is sent.
Only(c) ==
  /\ ButAt(link, link', c) /\ ButAt(up, up', c) /\ ButAt(down, down', c)
  /\ ButAt(phase, phase', c) /\ ButAt(call, call', c) /\ ButAt(xid, xid', c)
  /\ ButAt(sbuf, sbuf', c) /\ ButAt(result, result', c) /\ ButAt(rbuf, rbuf', c)
  /\ UNCHANGED <<peer, shut>>

\* What a step of a program leaves alone.
Outside(c) ==
  /\ \A b \in Ends \ {c} :
       UNCHANGED <<link[b], up[b], down[b], phase[b], call[b], xid[b]>>
  /\ \A b \in Apps \ {c} : UNCHANGED <<sbuf[b], result[b]>>
  /\ \A d \in Devs \ {c} : UNCHANGED rbuf[d]
  /\ UNCHANGED <<peer, shut>>

LEMMA ElseSame ==
  ASSUME NEW S, NEW f, DOMAIN f = S, NEW g, NEW c, ButAt(f, g, c)
  PROVE  \A b \in S \ {c} : g[b] = f[b]
  BY SetElse DEF ButAt

LEMMA OutsideIs ==
  ASSUME RiaAssumption, RiaInv, AnswersInv, NEW c \in Ends, Only(c)
  PROVE  Outside(c)
<1>1. /\ DOMAIN up = Ends /\ DOMAIN sbuf = Apps /\ DOMAIN xid = Ends /\ DOMAIN phase = Ends
      /\ DOMAIN link = Ends /\ DOMAIN call = Ends /\ DOMAIN down = Ends
      /\ DOMAIN result = Apps /\ DOMAIN rbuf = Devs
  BY DEF RiaInv, ProxyTypes, AnswersInv, AllAmong
<1>2. \A b \in Ends \ {c} : link'[b] = link[b] /\ up'[b] = up[b] /\ down'[b] = down[b]
  BY <1>1, ElseSame DEF Only
<1>3. \A b \in Ends \ {c} : phase'[b] = phase[b] /\ call'[b] = call[b] /\ xid'[b] = xid[b]
  BY <1>1, ElseSame DEF Only
<1>4. /\ \A b \in Apps \ {c} : sbuf'[b] = sbuf[b] /\ result'[b] = result[b]
      /\ \A d \in Devs \ {c} : rbuf'[d] = rbuf[d]
  BY <1>1, ElseSame DEF Only
<1> QED BY <1>2, <1>3, <1>4 DEF Outside, Only

\* A step of an application, which has its own connection right.
LEMMA AppOutside ==
  ASSUME RiaAssumption, RiaInv, WayInv, NEW a \in Apps, Outside(a), phase[a] # "closed",
         Stay => AppWay(a)
  PROVE  WayInv'
<1>1. /\ \A b \in Apps \ {a} : b \in Ends \ {a}
      /\ \A d \in Devs : d \in Ends \ {a} /\ d \in Devs \ {a}
  BY DEF RiaAssumption, Ends
<1>2. \A b \in Apps : phase[b] = "closed" => phase'[b] = "closed"
  BY <1>1 DEF Outside
<1>3. Stay
  BY <1>1, <1>2 DEF Stay, Served, Outside
<1>4. \A d \in Devs : DevWay(d)
  BY <1>1, SameWay DEF Outside
<1>5. ASSUME NEW b \in Apps PROVE AppWay(b)
  <2>1. CASE b # a
    <3>1. UNCHANGED <<link[b], up[b], down[b], phase[b], call[b], xid[b], sbuf[b], result[b]>>
      BY <1>1, <2>1 DEF Outside
    <3> QED BY <1>3, <3>1, QuietWay
  <2> QED BY <1>3, <2>1
<1>6. \A c \in shut' : c \in shut /\ peer'[c] = peer[c]
  BY DEF Outside
<1> QED BY <1>3, <1>4, <1>5, <1>6, WayStep


\* A call, whose packets come after what was not flushed.
LEMMA CallWay ==
  ASSUME RiaInv, AnswersInv, WayInv, Stay, NEW a \in Apps, NEW cmd,
         NEW S, NEW packets \in Seq(S), Calls(a, packets, cmd), UNCHANGED <<down, result>>,
         NEW n \in Nat, n = xid[a] + Len(packets), n >= 1, cmd \in {"claim", "list"} => n = 1,
         \A p \in Elems(packets) : Sent(a, p) /\ (link[a] = "none" \/ p.cmd # "claim"),
         phase'[a] \notin {"new", "closed"}, link[a] # "none" => link'[a] # "none"
  PROVE  AppWay(a)
<1>1. PICK G : AllAmong(G)
  BY DEF AnswersInv
<1>2. /\ a \in Ends /\ DOMAIN xid = Ends /\ DOMAIN call = Ends
      /\ DOMAIN up = Ends /\ DOMAIN sbuf = Apps /\ up[a] \in Seq(G) /\ sbuf[a] \in Seq(G)
  BY <1>1 DEF Ends, RiaInv, ProxyTypes, AnswersInv, AllAmong
<1>3. /\ xid'[a] = n /\ call'[a] = [cmd |-> cmd, xid |-> n]
      /\ up'[a] = up[a] \o sbuf[a] \o packets /\ sbuf'[a] = <<>>
  BY <1>2 DEF Calls, Set
<1>4. Elems(up'[a]) = Elems(up[a]) \cup Elems(sbuf[a]) \cup Elems(packets)
  <2>1. PICK T : T = G \cup S
    OBVIOUS
  <2>2. Seq(G) \subseteq Seq(T) /\ Seq(S) \subseteq Seq(T)
    BY <2>1, SeqMonotonic
  <2>3. PICK u, v, w : u = up[a] \o sbuf[a] /\ v = up[a] /\ w = sbuf[a]
    OBVIOUS
  <2>4. v \in Seq(T) /\ w \in Seq(T) /\ packets \in Seq(T)
    BY <1>2, <2>2, <2>3
  <2>5. u \in Seq(T) /\ Elems(u) = Elems(v) \cup Elems(w)
    <3>1. u = v \o w
      BY <2>3
    <3> QED BY <2>4, <3>1, ConcatProperties, ElemsJoin
  <2>6. Elems(u \o packets) = Elems(u) \cup Elems(packets)
    BY <2>4, <2>5, ElemsJoin
  <2> QED BY <1>3, <2>3, <2>5, <2>6
<1>5. Elems(sbuf'[a]) = {}
  BY <1>3, NoElems
<1>6. Numbered(a)'
  BY <1>3 DEF Numbered
<1>7. Known(a)'
  BY DEF WayInv, Known, Inherited, Stay
<1> QED BY <1>4, <1>5, <1>6, <1>7 DEF AppWay

\* ria_command
LEMMA CommandWay ==
  ASSUME RiaInv, AnswersInv, WayInv, Stay, NEW a \in Apps, NEW cmd, NEW d,
         Calls(a, <<SentBy(a, cmd, d, <<>>)>>, cmd), UNCHANGED <<down, result>>,
         \/ phase[a] = "new" /\ link[a] = "none" /\ cmd \in {"claim", "list"}
         \/ phase[a] \notin {"new", "closed"} /\ cmd \notin {"claim", "list"},
         phase'[a] \notin {"new", "closed"}, link[a] # "none" => link'[a] # "none"
  PROVE  AppWay(a)
<1>1. PICK q, s : q = SentBy(a, cmd, d, <<>>) /\ s = <<q>>
  OBVIOUS
<1>2. q.by = a /\ q.xid = xid[a] + 1 /\ q.cmd = cmd
  BY <1>1 DEF SentBy, Packet
<1>3. PICK n : n = xid[a] + Len(s)
  OBVIOUS
<1>4. xid[a] \in Nat /\ n = xid[a] + 1 /\ n \in Nat /\ n >= 1
  <2>1. xid[a] \in Nat
    BY DEF RiaInv, ProxyTypes
  <2>2. Len(s) = 1
    BY <1>1
  <2> QED BY <1>3, <2>1, <2>2
<1>5. cmd \in {"claim", "list"} => n = 1
  BY <1>4 DEF WayInv, Numbered
<1>6. cmd \notin {"claim", "list"} => q.xid > 1
  BY <1>2, <1>4 DEF WayInv, Numbered
<1>7. \A p \in Elems(s) : Sent(a, p) /\ (link[a] = "none" \/ p.cmd # "claim")
  BY <1>1, <1>2, <1>6, ElemsOne DEF Sent
<1>8. s \in Seq({q})
  BY <1>1
<1>9. Calls(a, s, cmd)
  BY <1>1
<1> QED BY <1>3, <1>4, <1>5, <1>7, <1>8, <1>9, CallWay

\* ria_send numbers every packet of data after the claim.
LEMMA DataWay ==
  ASSUME RiaInv, AnswersInv, WayInv, Stay, NEW a \in Apps, NEW n \in {1, 2}, SendData(a, n)
  PROVE  AppWay(a)
<1>1. PICK s : s = Chunked(a, n)
  OBVIOUS
<1>2. /\ phase[a] = "open" /\ call[a] = None /\ UNCHANGED <<link, down, phase, call, result>>
      /\ xid' = Set(xid, a, xid[a] + n)
  BY DEF SendData, Idle, proxyVars
<1>3. a \in Ends /\ DOMAIN xid = Ends /\ xid[a] \in Nat /\ xid[a] >= 1 /\ n \in Nat /\ n >= 1
  BY <1>2 DEF Ends, RiaInv, ProxyTypes, WayInv, Numbered
<1>4. s \in Seq(AppPackets) /\ Len(s) = n
  BY <1>1, <1>3, ChunkedAre
<1>5. \A p \in Elems(s) : Sent(a, p) /\ p.cmd # "claim"
  <2>1. ASSUME NEW i \in 1 .. n
        PROVE  Sent(a, s[i]) /\ s[i].cmd # "claim"
    <3>1. s[i].cmd = "data" /\ s[i].by = a /\ s[i].xid = xid[a] + i
      BY <1>1, <1>3, ChunkIs
    <3>2. xid[a] + i > 1
      BY <1>3
    <3> QED BY <3>1, <3>2 DEF Sent
  <2> QED BY <1>4, <2>1 DEF Elems
<1>6. PICK G : AllAmong(G)
  BY DEF AnswersInv
<1>7. PICK S : S = G \cup AppPackets
  OBVIOUS
<1>8. Seq(G) \subseteq Seq(S) /\ Seq(AppPackets) \subseteq Seq(S)
  BY <1>7, SeqMonotonic
<1>9. /\ DOMAIN up = Ends /\ DOMAIN sbuf = Apps
      /\ up[a] \in Seq(S) /\ sbuf[a] \in Seq(S) /\ s \in Seq(S)
  BY <1>3, <1>4, <1>6, <1>8 DEF AllAmong
<1>10. PICK q, r \in Seq(S) : Flushes(a, q, r, s)
  BY <1>1, <1>3, <1>9, SendDataIs
<1>11. Elems(q) \cup Elems(r) = Elems(sbuf[a]) \cup Elems(s)
  <2>1. PICK u, w : u = q \o r /\ w = sbuf[a]
    OBVIOUS
  <2>2. u = w \o s /\ w \in Seq(S)
    BY <1>9, <1>10, <2>1 DEF Flushes
  <2>3. Elems(q \o r) = Elems(q) \cup Elems(r)
    BY <1>10, ElemsJoin
  <2>4. Elems(w \o s) = Elems(w) \cup Elems(s)
    BY <1>9, <2>2, ElemsJoin
  <2> QED BY <2>1, <2>2, <2>3, <2>4
<1>12. Elems(up'[a]) = Elems(up[a]) \cup Elems(q) /\ sbuf'[a] = r
  <2>1. up'[a] = up[a] \o q /\ sbuf'[a] = r
    BY <1>3, <1>9, <1>10 DEF Flushes, Set
  <2>2. PICK u : u = up[a] /\ u \in Seq(S)
    BY <1>9
  <2> QED BY <2>1, <2>2, ElemsJoin
<1>13. Numbered(a)'
  <2>1. xid'[a] = xid[a] + n
    BY <1>2, <1>3 DEF Set
  <2> QED BY <1>2, <1>3, <2>1 DEF Numbered
<1>14. Known(a)'
  BY <1>2 DEF WayInv, Known, Inherited, Stay
<1> QED BY <1>2, <1>5, <1>11, <1>12, <1>13, <1>14 DEF AppWay

\* ria_recv compares the number alone; only what comes from one that has left, and
\* then not in answer to a claim, is another's.
LEMMA ReceiveWay ==
  ASSUME RiaInv, AnswersInv, WayInv, Stay, NEW a \in Apps, Receive(a)
  PROVE  AppWay(a)
<1>1. PICK G : AllAmong(G)
  BY DEF AnswersInv
<1>2. /\ a \in Ends /\ DOMAIN call = Ends /\ DOMAIN result = Apps /\ DOMAIN phase = Ends
      /\ DOMAIN down = Ends /\ down[a] \in Seq(G) /\ down[a] # <<>> /\ call[a] # None
      /\ phase[a] # "closed"
  BY <1>1 DEF AllAmong, AnswersInv, Receive, Ends, RiaInv, ProxyTypes
<1>3. PICK p : p = Head(down[a])
  OBVIOUS
<1>4. /\ UNCHANGED <<link, up, xid, sbuf>> /\ down' = Set(down, a, Tail(down[a]))
  BY DEF Receive, appVars, proxyVars
<1>5. Elems(down'[a]) \subseteq Elems(down[a]) /\ p \in Elems(down[a])
  <2>1. down'[a] = Tail(down[a])
    BY <1>2, <1>4 DEF Set
  <2> QED BY <1>2, <1>3, <2>1, ElemsFirst
<1>6. Numbered(a)'
  <2>1. call'[a] = call[a] \/ call'[a] = None
    BY <1>2 DEF Receive, Set
  <2>2. \/ phase'[a] = phase[a]
        \/ phase[a] \notin {"new", "closed"} /\ phase'[a] \notin {"new", "closed"}
    BY <1>2 DEF Receive, Proceeds, Set
  <2> QED BY <1>4, <2>1, <2>2 DEF WayInv, Numbered
<1>7. Known(a)'
  <2>1. CASE result' = result
    BY <2>1 DEF WayInv, Known, Inherited, Stay
  <2>2. CASE IsAnswer(p, call[a]) /\ result' = Set(result, a, [call |-> call[a], answer |-> p])
    <3>1. PICK c : c = call[a]
      OBVIOUS
    <3>2. result'[a].call = c /\ result'[a].answer = p
      BY <1>2, <2>2, <3>1 DEF Set
    <3>3. p.dest /\ p.xid = c.xid
      BY <2>2, <3>1 DEF IsAnswer
    <3>4. p.by = a \/ (Late(p) /\ phase[p.by] = "closed")
      BY <1>5, <3>3 DEF WayInv, ToApp
    <3>5. Late(p) => c.cmd \notin {"claim", "list"}
      <4>1. c.cmd \in {"claim", "list"} => c.xid = 1
        BY <1>2, <3>1 DEF WayInv, Numbered
      <4> QED BY <3>3, <4>1 DEF Late
    <3>6. p.by = a \/ Inherited(p, c)'
      BY <3>4, <3>5 DEF Inherited, Late, Stay
    <3> QED BY <3>2, <3>6 DEF Known, Inherited
  <2> QED BY <1>3, <2>1, <2>2 DEF Receive
<1> QED BY <1>4, <1>5, <1>6, <1>7 DEF AppWay

\* A step of an application that calls nobody and takes nothing.
LEMMA RestWay ==
  ASSUME WayInv, Stay, NEW a \in Apps, UNCHANGED <<link, up, down, sbuf, xid, result>>,
         call'[a] = call[a] \/ call'[a] = None,
         \/ phase'[a] = phase[a]
         \/ phase[a] \notin {"new", "closed"} /\ phase'[a] \notin {"new", "closed"}
  PROVE  AppWay(a)
<1>1. Numbered(a)'
  BY DEF WayInv, Numbered
<1>2. Known(a)'
  BY DEF WayInv, Known, Inherited, Stay
<1> QED BY <1>1, <1>2 DEF AppWay

\* An application leaves; what it has not flushed goes with it.
LEMMA LeavingWay ==
  ASSUME RiaInv, AnswersInv, NEW a \in Apps, AppLeaves(a)
  PROVE  AppWay(a)
<1>1. /\ a \in Ends /\ DOMAIN call = Ends /\ DOMAIN phase = Ends /\ DOMAIN down = Ends
      /\ DOMAIN sbuf = Apps /\ DOMAIN result = Apps /\ DOMAIN link = Ends
  BY DEF Ends, RiaInv, ProxyTypes, AnswersInv, AllAmong
<1>2. phase'[a] = "closed" /\ call'[a] = None /\ result'[a] = None
  BY <1>1 DEF AppLeaves, Leaves, Set
<1>3. up' = up /\ Elems(sbuf'[a]) = {}
  BY <1>1, NoElems DEF AppLeaves, Set
<1>4. down'[a] = down[a] \/ Elems(down'[a]) = {}
  <2>1. down'[a] = down[a] \/ down'[a] = <<>>
    BY <1>1 DEF AppLeaves, Leaves, Set
  <2> QED BY <2>1, NoElems
<1>5. link[a] # "none" => link'[a] # "none"
  BY <1>1 DEF AppLeaves, Leaves, Set
<1>6. Numbered(a)' /\ Known(a)'
  BY <1>2 DEF Numbered, Known
<1> QED BY <1>3, <1>4, <1>5, <1>6 DEF AppWay

\* What each operation of an application changes is its own.
LEMMA AppStepOnly ==
  ASSUME NEW a \in Apps, AppStep(a)
  PROVE  Only(a)
<1>1. ASSUME NEW cmd, NEW d, Connect(a, cmd, d)
      PROVE  Only(a)
  BY <1>1 DEF Connect, Accepts, Calls, Only, ButAt
<1>2. CASE ResetDevice(a)
  BY <1>2 DEF ResetDevice, Calls, Only, ButAt, proxyVars
<1>3. ASSUME NEW cmd, Command(a, cmd)
      PROVE  Only(a)
  BY <1>3 DEF Command, Calls, Only, ButAt, proxyVars
<1>4. ASSUME NEW n, SendData(a, n)
      PROVE  Only(a)
  BY <1>4 DEF SendData, Only, ButAt, proxyVars
<1>5. CASE RecvData(a)
  BY <1>5 DEF RecvData, Calls, Only, ButAt, proxyVars
<1>6. CASE GivesUp(a) \/ Close(a)
  BY <1>6 DEF GivesUp, Close, AppLeaves, Leaves, Only, ButAt, proxyVars
<1>7. ASSUME NEW ok, NEW body, Proceeds(a, ok, body)
      PROVE  ButAt(phase, phase', a)
  BY <1>7 DEF Proceeds, ButAt
<1>8. CASE Receive(a)
  <2>1. ButAt(phase, phase', a)
    BY <1>7, <1>8 DEF Receive, ButAt
  <2>2. ButAt(down, down', a) /\ ButAt(call, call', a) /\ ButAt(result, result', a)
    BY <1>8 DEF Receive, ButAt
  <2>3. UNCHANGED <<link, up, xid, sbuf, rbuf, peer, shut>>
    BY <1>8 DEF Receive, proxyVars, appVars
  <2> QED BY <2>1, <2>2, <2>3 DEF Only, ButAt
<1>9. CASE CallFails(a)
  <2>1. ButAt(phase, phase', a)
    BY <1>7, <1>9 DEF CallFails
  <2>2. ButAt(call, call', a) /\ UNCHANGED <<link, up, down, xid, sbuf, rbuf, result, peer, shut>>
    BY <1>9 DEF CallFails, proxyVars, appVars, ButAt
  <2> QED BY <2>1, <2>2 DEF Only, ButAt
<1> QED BY <1>1, <1>2, <1>3, <1>4, <1>5, <1>6, <1>8, <1>9 DEF AppStep, OpenRemote, ListDevices

\* No application does anything once it has left.
LEMMA AppStepLives ==
  ASSUME RiaInv, AnswersInv, NEW a \in Apps, AppStep(a)
  PROVE  phase[a] # "closed"
<1>1. call[a] # None => phase[a] # "closed"
  BY DEF AnswersInv
<1>2. ASSUME NEW ok, NEW body, Proceeds(a, ok, body)
      PROVE  phase[a] # "closed"
  BY <1>2 DEF Proceeds
<1>3. CASE Receive(a) \/ CallFails(a)
  BY <1>1, <1>2, <1>3 DEF Receive, CallFails
<1> QED BY <1>3 DEF AppStep, OpenRemote, ListDevices, Connect, ResetDevice, Command, SendData,
                    RecvData, Idle, GivesUp, Close

LEMMA AppStepWay ==
  ASSUME RiaAssumption, RiaInv, AnswersInv, WayInv, NEW a \in Apps, AppStep(a), Stay
  PROVE  AppWay(a)
<1>0. /\ a \in Ends /\ DOMAIN phase = Ends /\ DOMAIN link = Ends /\ DOMAIN call = Ends
  BY DEF Ends, RiaInv, ProxyTypes, AnswersInv
<1>1. ASSUME NEW cmd \in {"claim", "list"}, NEW d, Connect(a, cmd, d)
      PROVE  AppWay(a)
  <2>1. /\ phase[a] = "new" /\ link[a] = "none" /\ Calls(a, <<SentBy(a, cmd, d, <<>>)>>, cmd)
        /\ UNCHANGED <<down, result>> /\ link'[a] = "listed" /\ phase'[a] = cmd
    BY <1>0, <1>1 DEF Connect, Accepts, Set
  <2> QED BY <2>1, CommandWay
<1>2. CASE ResetDevice(a)
  <2>1. /\ phase[a] = "claimed" /\ phase'[a] = "reset" /\ UNCHANGED <<link, down, result>>
    BY <1>0, <1>2 DEF ResetDevice, Set, proxyVars
  <2>2. CASE link[a] = "freed"
    <3>1. UNCHANGED <<call, xid, up, sbuf>>
      BY <1>2, <2>2 DEF ResetDevice
    <3> QED BY <2>1, <3>1, RestWay
  <2>3. CASE link[a] # "freed"
    <3>1. Calls(a, <<SentBy(a, "reset", None, <<>>)>>, "reset")
      BY <1>2, <2>3 DEF ResetDevice
    <3> QED BY <2>1, <3>1, CommandWay
  <2> QED BY <2>2, <2>3
<1>3. ASSUME NEW cmd \in {"flush", "break", "config"}, Command(a, cmd)
      PROVE  AppWay(a)
  <2>1. /\ phase[a] = "open" /\ UNCHANGED <<link, phase, down, result>>
        /\ Calls(a, <<SentBy(a, cmd, None, <<>>)>>, cmd)
    BY <1>3 DEF Command, Idle, proxyVars
  <2> QED BY <2>1, CommandWay
<1>4. CASE SendData(a, 1) \/ SendData(a, 2)
  BY <1>4, DataWay
<1>5. CASE RecvData(a)
  <2>1. phase[a] = "open" /\ UNCHANGED <<link, phase, down, result>>
    BY <1>5 DEF RecvData, Idle, proxyVars
  <2>2. CASE UNCHANGED <<up, call, xid, sbuf>>
    BY <2>1, <2>2, RestWay
  <2>3. CASE Calls(a, <<>>, "recv")
    <3>1. xid[a] \in Nat /\ xid[a] >= 1
      BY <2>1 DEF RiaInv, ProxyTypes, WayInv, Numbered
    <3>2. PICK n, s : n = xid[a] + Len(s) /\ s = <<>>
      OBVIOUS
    <3>3. n \in Nat /\ n >= 1 /\ s \in Seq({}) /\ Elems(s) = {}
      BY <3>1, <3>2, NoElems, EmptySeq
    <3>4. Calls(a, s, "recv")
      BY <2>3, <3>2
    <3>5. \A p \in Elems(s) : Sent(a, p) /\ (link[a] = "none" \/ p.cmd # "claim")
      BY <3>3
    <3>6. PICK cmd : cmd = "recv"
      OBVIOUS
    <3>7. cmd \in {"claim", "list"} => n = 1
      BY <3>6
    <3>8. Calls(a, s, cmd) /\ phase'[a] \notin {"new", "closed"}
      BY <2>1, <3>4, <3>6
    <3> QED BY <2>1, <3>2, <3>3, <3>5, <3>7, <3>8, CallWay
  <2> QED BY <1>5, <2>2, <2>3 DEF RecvData
<1>6. CASE GivesUp(a) \/ Close(a)
  BY <1>6, LeavingWay DEF GivesUp, Close
<1>7. CASE Receive(a)
  BY <1>7, ReceiveWay
<1>8. CASE CallFails(a)
  <2>1. UNCHANGED <<link, up, down, sbuf, xid, result>> /\ call'[a] = None
    BY <1>0, <1>8 DEF CallFails, proxyVars, appVars, Set
  <2>2. Proceeds(a, FALSE, <<>>)
    BY <1>8 DEF CallFails
  <2>3. phase[a] \notin {"new", "closed"} /\ phase'[a] \notin {"new", "closed"}
    BY <1>0, <2>2 DEF Proceeds, Set
  <2> QED BY <2>1, <2>3, RestWay
<1> QED BY <1>1, <1>2, <1>3, <1>4, <1>5, <1>6, <1>7, <1>8 DEF AppStep, OpenRemote, ListDevices

LEMMA AppStepKeepsWay ==
  ASSUME RiaAssumption, RiaInv, AnswersInv, WayInv, NEW a \in Apps, AppStep(a)
  PROVE  WayInv'
<1>1. Outside(a)
  BY AppStepOnly, OutsideIs DEF Ends
<1>2. phase[a] # "closed"
  BY AppStepLives
<1>3. Stay => AppWay(a)
  BY AppStepWay
<1> QED BY <1>1, <1>2, <1>3, AppOutside

-------------------------------------------------------------------------------
\* A step of an exporter, which has its own connection right.
LEMMA DevOutside ==
  ASSUME RiaAssumption, RiaInv, WayInv, NEW d \in Devs, Outside(d),
         phase[d] = "closed" => phase'[d] = "closed", link[d] = "freed" => link'[d] = "freed",
         Stay => DevWay(d)
  PROVE  WayInv'
<1>1. /\ \A b \in Apps : b \in Ends \ {d} /\ b \in Apps \ {d}
      /\ \A e \in Devs \ {d} : e \in Ends \ {d}
  BY DEF RiaAssumption, Ends
<1>2. Stay
  BY <1>1 DEF Stay, Served, Outside
<1>3. ASSUME NEW e \in Devs PROVE DevWay(e)
  <2>1. CASE e # d
    <3>1. UNCHANGED <<rbuf[e], down[e], up[e]>>
      BY <1>1, <2>1 DEF Outside
    <3> QED BY <3>1, SameWay
  <2> QED BY <1>2, <2>1
<1>4. ASSUME NEW b \in Apps PROVE AppWay(b)
  <2>1. UNCHANGED <<link[b], up[b], down[b], phase[b], call[b], xid[b], sbuf[b], result[b]>>
    BY <1>1 DEF Outside
  <2> QED BY <1>2, <2>1, QuietWay
<1>5. \A c \in shut' : c \in shut /\ peer'[c] = peer[c]
  BY DEF Outside
<1> QED BY <1>2, <1>3, <1>4, <1>5, WayStep

\* An exporter sends packet q.
LEMMA SendingDev ==
  ASSUME AnswersInv, NEW d \in Devs, NEW q, FromDev(d, q)', up' = Put(up, d, q),
         Elems(rbuf'[d]) \cup Elems(down'[d]) \subseteq Elems(rbuf[d]) \cup Elems(down[d])
  PROVE  DevWay(d)
<1>1. PICK G : AllAmong(G)
  BY DEF AnswersInv
<1>2. PICK S, s, t : S = G \cup {q} /\ s = up[d] /\ t = Append(s, q)
  OBVIOUS
<1>3. Seq(G) \subseteq Seq(S)
  BY <1>2, SeqMonotonic
<1>4. d \in Ends /\ DOMAIN up = Ends /\ s \in Seq(S) /\ q \in S
  BY <1>1, <1>2, <1>3 DEF Ends, AllAmong
<1>5. up'[d] = t
  BY <1>2, <1>4 DEF Put
<1>6. \A p \in Elems(t) : p \in Elems(s) \/ p = q
  BY <1>2, <1>4, ElemsMore
<1> QED BY <1>2, <1>5, <1>6 DEF DevWay

\* What the exporter's own calls and data are.
LEMMA OwnPacket ==
  ASSUME NEW d \in Devs, NEW cmd, NEW body, NEW q, q = SentBy(d, cmd, None, body)
  PROVE  FromDev(d, q)'
<1>1. q.by = d /\ ~q.dest
  BY DEF SentBy, Packet
<1> QED BY <1>1 DEF FromDev

\* A reply goes where its call has come from.
LEMMA ReplyLate ==
  ASSUME NEW p, NEW rc, NEW body, NEW q, q = Reply(p, rc, body)
  PROVE  q.by = p.by /\ q.dest /\ (Late(p) => Late(q))
<1>1. q.by = p.by /\ q.xid = p.xid /\ q.cmd = p.cmd /\ q.dest
  BY DEF Reply
<1> QED BY <1>1 DEF Late

LEMMA ProcessesWay ==
  ASSUME RiaAssumption, AnswersInv, WayInv, Stay, NEW d \in Devs, ExporterProcesses(d)
  PROVE  DevWay(d)
<1>1. PICK G : AllAmong(G)
  BY DEF AnswersInv
<1>2. PICK s, t, p : s = rbuf[d] /\ t = down[d] /\ p = Head(s \o t)
  OBVIOUS
<1>3. d \in Ends /\ s \in Seq(G) /\ t \in Seq(G) /\ t # <<>> /\ DOMAIN down = Ends /\ DOMAIN rbuf = Devs
  BY <1>1, <1>2 DEF Ends, AllAmong, ExporterProcesses
<1>4. p \in Elems(s) \cup Elems(t)
  <2>1. s \o t \in Seq(G) /\ s \o t # <<>>
    BY <1>3, ConcatProperties, ConcatEqualIffEmpty
  <2>2. p \in Elems(s \o t)
    BY <1>2, <2>1, ElemsFirst
  <2> QED BY <1>3, <2>2, ElemsJoin
<1>5. Elems(rbuf'[d]) \cup Elems(down'[d]) \subseteq Elems(s) \cup Elems(t)
  <2>1. CASE s # <<>>
    <3>1. rbuf'[d] = Tail(s) /\ down'[d] = t
      BY <1>2, <1>3, <2>1 DEF ExporterProcesses, Set
    <3> QED BY <1>3, <2>1, <3>1, ElemsFirst
  <2>2. CASE s = <<>>
    <3>1. down'[d] = Tail(t) /\ rbuf'[d] = s
      BY <1>2, <1>3, <2>2 DEF ExporterProcesses, Set
    <3> QED BY <1>3, <3>1, ElemsFirst
  <2> QED BY <2>1, <2>2
<1>6. CASE up' = up
  BY <1>2, <1>5, <1>6 DEF DevWay
<1>7. ASSUME NEW rc, NEW body, ~p.dest, up' = Put(up, d, Reply(p, rc, body))
      PROVE  DevWay(d)
  <2>1. PICK q : q = Reply(p, rc, body)
    OBVIOUS
  <2>2. q.by = p.by /\ q.dest /\ (Late(p) => Late(q))
    BY <2>1, ReplyLate
  <2>3. Late(p) /\ Served(d, p.by)
    BY <1>2, <1>4, <1>7 DEF WayInv, ToDev
  <2>4. FromDev(d, q)'
    BY <2>2, <2>3 DEF FromDev, Stay, Late
  <2> QED BY <1>2, <1>5, <1>7, <2>1, <2>4, SendingDev
<1>8. up' = up \/ (~p.dest /\ \E rc, body : up' = Put(up, d, Reply(p, rc, body)))
  BY <1>2 DEF ExporterProcesses
<1> QED BY <1>6, <1>7, <1>8

LEMMA DevStepWay ==
  ASSUME RiaAssumption, AnswersInv, WayInv, Stay, NEW d \in Devs, DevStep(d)
  PROVE  DevWay(d)
<1>1. PICK G : AllAmong(G)
  BY DEF AnswersInv
<1>2. d \in Ends /\ down[d] \in Seq(G) /\ DOMAIN down = Ends /\ DOMAIN rbuf = Devs
  BY <1>1 DEF Ends, AllAmong
<1>3. CASE Export(d)
  <2>1. PICK q : q = SentBy(d, "register", None, <<>>)
    OBVIOUS
  <2>2. FromDev(d, q)' /\ up' = Put(up, d, q) /\ UNCHANGED <<down, rbuf>>
    BY <1>3, <2>1, OwnPacket DEF Export
  <2> QED BY <2>2, SendingDev
<1>4. CASE Registered(d)
  <2>1. down[d] # <<>> /\ rbuf'[d] = Tail(down[d]) /\ down'[d] = <<>> /\ up' = up
    BY <1>2, <1>4 DEF Registered, Set
  <2>2. Elems(rbuf'[d]) \subseteq Elems(down[d]) /\ Elems(down'[d]) = {}
    BY <1>2, <2>1, ElemsFirst, NoElems
  <2> QED BY <2>1, <2>2 DEF DevWay
<1>5. CASE LineToProxy(d)
  <2>1. PICK body : up' = Put(up, d, SentBy(d, "data", None, body))
    BY <1>5 DEF LineToProxy
  <2>2. PICK q : q = SentBy(d, "data", None, body)
    OBVIOUS
  <2>3. FromDev(d, q)' /\ up' = Put(up, d, q) /\ UNCHANGED <<down, rbuf>>
    BY <1>5, <2>1, <2>2, OwnPacket DEF LineToProxy
  <2> QED BY <2>3, SendingDev
<1>6. CASE DataToLine(d) \/ DeviceSends(d)
  BY <1>6, SameWay DEF DataToLine, DeviceSends
<1>7. CASE ExporterExits(d)
  <2>1. rbuf'[d] = <<>> /\ up' = up /\ (down'[d] = down[d] \/ down'[d] = <<>>)
    BY <1>2, <1>7 DEF ExporterExits, Leaves, Set
  <2> QED BY <2>1, NoElems DEF DevWay
<1> QED BY <1>3, <1>4, <1>5, <1>6, <1>7, ProcessesWay DEF DevStep

LEMMA DevStepOnly ==
  ASSUME NEW d \in Devs, DevStep(d)
  PROVE  Only(d)
<1>1. CASE Export(d)
  BY <1>1 DEF Export, Accepts, Put, Set, Only, ButAt, appVars
<1>2. CASE Registered(d)
  BY <1>2 DEF Registered, Only, ButAt, appVars, proxyVars
<1>3. CASE ExporterProcesses(d)
  <2>1. up' = up \/ \E q : up' = Put(up, d, q)
    BY <1>3 DEF ExporterProcesses
  <2>2. ButAt(up, up', d)
    BY <2>1 DEF Put, Set, ButAt
  <2>3. ButAt(down, down', d) /\ ButAt(rbuf, rbuf', d)
        /\ UNCHANGED <<link, phase, call, xid, result, sbuf, peer, shut>>
    BY <1>3 DEF ExporterProcesses, ButAt, appVars, proxyVars
  <2> QED BY <2>2, <2>3 DEF Only, ButAt
<1>4. CASE LineToProxy(d)
  <2>1. \E q : up' = Put(up, d, q)
    BY <1>4 DEF LineToProxy
  <2>2. ButAt(up, up', d)
    BY <2>1 DEF Put, Set, ButAt
  <2>3. ButAt(xid, xid', d)
        /\ UNCHANGED <<link, phase, call, down, rbuf, result, sbuf, peer, shut>>
    BY <1>4 DEF LineToProxy, ButAt, appVars, proxyVars
  <2> QED BY <2>2, <2>3 DEF Only, ButAt
<1>5. CASE DataToLine(d) \/ DeviceSends(d)
  BY <1>5 DEF DataToLine, DeviceSends, Only, ButAt, appVars, proxyVars
<1>6. CASE ExporterExits(d)
  BY <1>6 DEF ExporterExits, Leaves, Only, ButAt, appVars, proxyVars
<1> QED BY <1>1, <1>2, <1>3, <1>4, <1>5, <1>6 DEF DevStep

LEMMA DevStepKeepsWay ==
  ASSUME RiaAssumption, RiaInv, AnswersInv, WayInv, NEW d \in Devs, DevStep(d)
  PROVE  WayInv'
<1>1. d \in Ends /\ DOMAIN phase = Ends /\ DOMAIN link = Ends
  BY DEF Ends, RiaInv, ProxyTypes
<1>2. Outside(d)
  BY <1>1, DevStepOnly, OutsideIs
<1>3. phase[d] # "closed"
  BY DEF DevStep, Export, Registered, ExporterProcesses, LineToProxy, DataToLine, DeviceSends,
         ExporterExits
<1>4. link[d] = "freed" => link'[d] = "freed"
  <2>1. \/ link[d] = "none"
        \/ link' = link
        \/ link[d] = "listed"
    BY DEF DevStep, Export, Accepts, Registered, ExporterProcesses, LineToProxy, DataToLine,
           DeviceSends, ExporterExits, Leaves, proxyVars
  <2> QED BY <2>1
<1>5. Stay => DevWay(d)
  BY DevStepWay
<1> QED BY <1>2, <1>3, <1>4, <1>5, DevOutside

-------------------------------------------------------------------------------
\* The proxy's answer to a packet, or the packet it passes on, is at the end.
LEMMA PutBrings ==
  ASSUME AnswersInv, NEW c \in Ends, NEW q, down' = Put(down, c, q)
  PROVE  /\ \A p \in Elems(down'[c]) : p \in Elems(down[c]) \/ p = q
         /\ \A b \in Ends \ {c} : down'[b] = down[b]
<1>1. PICK G : AllAmong(G)
  BY DEF AnswersInv
<1>2. PICK S, s, t : S = G \cup {q} /\ s = down[c] /\ t = Append(s, q)
  OBVIOUS
<1>3. Seq(G) \subseteq Seq(S)
  BY <1>2, SeqMonotonic
<1>4. DOMAIN down = Ends /\ s \in Seq(S) /\ q \in S
  BY <1>1, <1>2, <1>3 DEF AllAmong
<1>5. down'[c] = t /\ \A b \in Ends \ {c} : down'[b] = down[b]
  BY <1>2, <1>4 DEF Put
<1>6. \A p \in Elems(t) : p \in Elems(s) \/ p = q
  BY <1>2, <1>4, ElemsMore
<1> QED BY <1>2, <1>5, <1>6

\* What the proxy reads of connection c is of it.
LEMMA ReadsElems ==
  ASSUME AnswersInv, NEW c \in Ends, up[c] # <<>>, up' = Set(up, c, Tail(up[c]))
  PROVE  /\ Elems(up'[c]) \subseteq Elems(up[c]) /\ Head(up[c]) \in Elems(up[c])
         /\ \A b \in Ends \ {c} : up'[b] = up[b]
<1>1. PICK G : AllAmong(G)
  BY DEF AnswersInv
<1>2. DOMAIN up = Ends /\ up[c] \in Seq(G)
  BY <1>1 DEF AllAmong
<1>3. up'[c] = Tail(up[c]) /\ \A b \in Ends \ {c} : up'[b] = up[b]
  BY <1>2 DEF Set
<1> QED BY <1>2, <1>3, ElemsFirst

\* The proxy serves its connections; the programs' own state stays.
LEMMA ProxyWay ==
  ASSUME RiaInv, WayInv, Stay, UNCHANGED endVars,
         \A c \in Ends : Elems(up'[c]) \subseteq Elems(up[c]),
         \A a \in Apps : \A p \in Elems(down'[a]) : p \in Elems(down[a]) \/ ToApp(a, p)',
         \A d \in Devs : \A p \in Elems(down'[d]) : p \in Elems(down[d]) \/ ToDev(d, p)',
         \A c \in Ends : link[c] # "none" => link'[c] # "none",
         \A c \in shut' : (c \in shut /\ peer'[c] = peer[c]) \/ Turned(c)'
  PROVE  WayInv'
<1>1. UNCHANGED <<phase, xid, call, result, sbuf, rbuf>>
  BY DEF endVars, appVars
<1>2. (\A a \in Apps : a \in Ends) /\ (\A d \in Devs : d \in Ends)
  BY DEF Ends
<1>3. ASSUME NEW a \in Apps PROVE AppWay(a)
  BY <1>1, <1>2, QuietWay
<1>4. \A d \in Devs : DevWay(d)
  BY <1>1, <1>2 DEF DevWay
<1> QED BY <1>3, <1>4, WayStep

\* The proxy passes on the calls of a client to the device it has claimed.
LEMMA AppRequestKeepsWay ==
  ASSUME RiaAssumption, RiaInv, AnswersInv, WayInv, NEW a \in Apps, AppRequest(a)
  PROVE  WayInv'
<1>0. /\ a \in Ends /\ (\A b \in Apps : b \in Ends) /\ (\A d \in Devs : d \in Ends /\ d # a)
      /\ \A d \in Devs : d \notin Apps
  BY DEF Ends, RiaAssumption
<1>1. /\ Listed(a) /\ up[a] # <<>> /\ up' = Set(up, a, Tail(up[a]))
      /\ UNCHANGED <<link, registered, shut, endVars, phase>>
  BY DEF AppRequest, endVars
<1>2. PICK p : p = Head(up[a])
  OBVIOUS
<1>3. /\ \A c \in Ends : Elems(up'[c]) \subseteq Elems(up[c])
      /\ p \in Elems(up[a])
  BY <1>0, <1>1, <1>2, ReadsElems
<1>4. Sent(a, p)
  BY <1>3 DEF WayInv
<1>5. CASE UNCHANGED peer
  <2>1. Stay
    BY <1>1, <1>5 DEF Stay, Served
  <2>2. \A c \in shut' : c \in shut /\ peer'[c] = peer[c]
    BY <1>1, <1>5
  <2>3. CASE \E rc, body : Respond(a, p, rc, body)
    <3>1. PICK q, rc, body : q = Reply(p, rc, body) /\ (down' = down \/ down' = Put(down, a, q))
      BY <2>3 DEF Respond
    <3>2. q.by = a
      BY <1>4, <3>1 DEF Sent, Reply
    <3>3. ToApp(a, q)'
      BY <3>2 DEF ToApp
    <3>4. CASE down' = down
      BY <1>1, <1>3, <2>1, <2>2, <3>4, ProxyWay
    <3>5. CASE down' = Put(down, a, q)
      <4>1. /\ \A r \in Elems(down'[a]) : r \in Elems(down[a]) \/ r = q
            /\ \A b \in Ends \ {a} : down'[b] = down[b]
        BY <1>0, <3>5, PutBrings
      <4>2. \A b \in Apps : \A r \in Elems(down'[b]) : r \in Elems(down[b]) \/ ToApp(b, r)'
        BY <1>0, <3>3, <4>1
      <4>3. \A d \in Devs : \A r \in Elems(down'[d]) : r \in Elems(down[d]) \/ ToDev(d, r)'
        BY <1>0, <4>1
      <4> QED BY <1>1, <1>3, <2>1, <2>2, <4>2, <4>3, ProxyWay
    <3> QED BY <3>1, <3>4, <3>5
  <2>4. CASE p.cmd \notin {"list", "claim"} /\ peer[a] # None /\ down' = Put(down, peer[a], p)
    <3>1. PICK d : d = peer[a]
      OBVIOUS
    <3>2. d \in Devs /\ peer[d] = a
      BY <1>0, <2>4, <3>1 DEF RiaInv, PeersDiffer, PeersPaired
    <3>3. Late(p) /\ p.by = a
      BY <1>4, <2>4 DEF Sent, Late
    <3>4. ToDev(d, p)'
      BY <1>5, <3>2, <3>3 DEF ToDev, Served
    <3>5. /\ \A r \in Elems(down'[d]) : r \in Elems(down[d]) \/ r = p
          /\ \A b \in Ends \ {d} : down'[b] = down[b]
      BY <1>0, <2>4, <3>1, <3>2, PutBrings
    <3>6. \A b \in Apps : \A r \in Elems(down'[b]) : r \in Elems(down[b]) \/ ToApp(b, r)'
      BY <1>0, <3>2, <3>5
    <3>7. \A e \in Devs : \A r \in Elems(down'[e]) : r \in Elems(down[e]) \/ ToDev(e, r)'
      BY <1>0, <3>4, <3>5
    <3> QED BY <1>1, <1>3, <2>1, <2>2, <3>6, <3>7, ProxyWay
  <2> QED BY <1>2, <1>5, <2>3, <2>4 DEF AppRequest
<1>6. ASSUME NEW d, d = p.dev, p.cmd = "claim", Claimable(d), Respond(a, p, 0, <<p.dev>>),
             peer' = [peer EXCEPT ![a] = d, ![d] = a]
      PROVE  WayInv'
  <2>1. d \in Devs /\ peer[d] = None /\ None \notin Apps
    BY <1>6 DEF Claimable, RiaInv, RegisteredListed, RiaAssumption
  <2>2. /\ DOMAIN peer = Ends /\ peer'[d] = a /\ \A c \in Ends \ {a, d} : peer'[c] = peer[c]
    BY <1>0, <1>6, <2>1 DEF RiaInv, ProxyTypes
  <2>3. Stay
    <3>1. ASSUME NEW e \in Devs, NEW b \in Apps, Served(e, b)
          PROVE  Served(e, b)'
      <4>1. CASE e = d
        BY <1>1, <2>1, <3>1, <4>1 DEF Served
      <4>2. CASE e # d
        BY <1>0, <1>1, <2>2, <3>1, <4>2 DEF Served
      <4> QED BY <4>1, <4>2
    <3> QED BY <1>1, <3>1 DEF Stay
  <2>4. \A c \in shut' : c \in shut /\ peer'[c] = peer[c]
    <3>1. a \notin shut
      BY <1>3, <1>6 DEF WayInv, Turned
    <3>2. ASSUME NEW c \in shut
          PROVE  peer'[c] = peer[c]
      <4>1. c \in Apps /\ c # a
        BY <3>1, <3>2 DEF WayInv, Turned
      <4> QED BY <1>0, <2>1, <2>2, <4>1
    <3> QED BY <1>1, <3>2
  <2>5. PICK q, rc, body : q = Reply(p, rc, body) /\ (down' = down \/ down' = Put(down, a, q))
    BY <1>6 DEF Respond
  <2>6. q.by = a
    BY <1>4, <2>5 DEF Sent, Reply
  <2>7. ToApp(a, q)'
    BY <2>6 DEF ToApp
  <2>8. CASE down' = down
    BY <1>1, <1>3, <2>3, <2>4, <2>8, ProxyWay
  <2>9. CASE down' = Put(down, a, q)
    <3>1. /\ \A r \in Elems(down'[a]) : r \in Elems(down[a]) \/ r = q
          /\ \A b \in Ends \ {a} : down'[b] = down[b]
      BY <1>0, <2>9, PutBrings
    <3>2. \A b \in Apps : \A r \in Elems(down'[b]) : r \in Elems(down[b]) \/ ToApp(b, r)'
      BY <1>0, <2>7, <3>1
    <3>3. \A e \in Devs : \A r \in Elems(down'[e]) : r \in Elems(down[e]) \/ ToDev(e, r)'
      BY <1>0, <3>1
    <3> QED BY <1>1, <1>3, <2>3, <2>4, <3>2, <3>3, ProxyWay
  <2> QED BY <2>5, <2>8, <2>9
<1>7. UNCHANGED peer \/ (p.cmd = "claim" /\ Claimable(p.dev) /\ Respond(a, p, 0, <<p.dev>>)
                         /\ peer' = [peer EXCEPT ![a] = p.dev, ![p.dev] = a])
  BY <1>2 DEF AppRequest
<1> QED BY <1>5, <1>6, <1>7

\* The proxy passes on what a device sends to whoever has claimed it: here the late
\* answer to one that has left comes to the next.
LEMMA DevRequestKeepsWay ==
  ASSUME RiaAssumption, RiaInv, AnswersInv, WayInv, NEW d \in Devs, DevRequest(d)
  PROVE  WayInv'
<1>0. /\ d \in Ends /\ (\A b \in Apps : b \in Ends /\ b # d) /\ \A e \in Devs : e \in Ends
  BY DEF Ends, RiaAssumption
<1>1. /\ Listed(d) /\ up[d] # <<>> /\ up' = Set(up, d, Tail(up[d]))
      /\ UNCHANGED <<link, peer, shut, endVars, phase>>
  BY DEF DevRequest, endVars
<1>2. PICK p : p = Head(up[d])
  OBVIOUS
<1>3. /\ \A c \in Ends : Elems(up'[c]) \subseteq Elems(up[c])
      /\ p \in Elems(up[d])
  BY <1>0, <1>1, <1>2, ReadsElems
<1>4. FromDev(d, p)
  BY <1>3 DEF WayInv
<1>5. Stay
  BY <1>1 DEF Stay, Served
<1>6. \A c \in shut' : c \in shut /\ peer'[c] = peer[c]
  BY <1>1
<1>7. CASE \E rc, body : Respond(d, p, rc, body)
  <2>1. PICK q, rc, body : q = Reply(p, rc, body)
                           /\ (down' = down \/ down' = Put(down, d, q))
    BY <1>7 DEF Respond
  <2>2. q.by = p.by /\ q.dest /\ (Late(p) => Late(q))
    BY <2>1, ReplyLate
  <2>3. ToDev(d, q)'
    BY <1>4, <1>5, <2>2 DEF FromDev, ToDev, Stay, Late
  <2>4. CASE down' = down
    BY <1>1, <1>3, <1>5, <1>6, <2>4, ProxyWay
  <2>5. CASE down' = Put(down, d, q)
    <3>1. /\ \A r \in Elems(down'[d]) : r \in Elems(down[d]) \/ r = q
          /\ \A b \in Ends \ {d} : down'[b] = down[b]
      BY <1>0, <2>5, PutBrings
    <3>2. \A b \in Apps : \A r \in Elems(down'[b]) : r \in Elems(down[b]) \/ ToApp(b, r)'
      BY <1>0, <3>1
    <3>3. \A e \in Devs : \A r \in Elems(down'[e]) : r \in Elems(down[e]) \/ ToDev(e, r)'
      BY <1>0, <2>3, <3>1
    <3> QED BY <1>1, <1>3, <1>5, <1>6, <3>2, <3>3, ProxyWay
  <2> QED BY <2>1, <2>4, <2>5
<1>8. CASE peer[d] # None /\ down' = Put(down, peer[d], p)
  <2>1. PICK a : a = peer[d]
    OBVIOUS
  <2>2. a \in Apps
    <3>1. d \notin Apps /\ a \in Ends /\ (d \in Apps <=> a \in Devs)
      BY <1>0, <1>8, <2>1 DEF RiaInv, ProxyTypes, PeersDiffer
    <3> QED BY <3>1 DEF Ends
  <2>3. ToApp(a, p)'
    <3>1. CASE p.by = d /\ ~p.dest
      BY <3>1 DEF ToApp
    <3>2. CASE Late(p) /\ Served(d, p.by)
      BY <1>1, <2>1, <3>2 DEF ToApp, Served, Listed
    <3> QED BY <1>4, <3>1, <3>2 DEF FromDev
  <2>4. /\ \A r \in Elems(down'[a]) : r \in Elems(down[a]) \/ r = p
        /\ \A b \in Ends \ {a} : down'[b] = down[b]
    BY <1>0, <1>8, <2>1, <2>2, PutBrings
  <2>5. \A b \in Apps : \A r \in Elems(down'[b]) : r \in Elems(down[b]) \/ ToApp(b, r)'
    BY <1>0, <2>3, <2>4
  <2>6. \A e \in Devs : \A r \in Elems(down'[e]) : r \in Elems(down[e]) \/ ToDev(e, r)'
    <3>1. \A e \in Devs : e \in Ends \ {a}
      BY <1>0, <2>2 DEF RiaAssumption
    <3> QED BY <2>4, <3>1
  <2> QED BY <1>1, <1>3, <1>5, <1>6, <2>5, <2>6, ProxyWay
<1> QED BY <1>2, <1>7, <1>8 DEF DevRequest

\* The client of a device that goes is read no further; a client that goes has left,
\* or has no device.
LEMMA DropClientKeepsWay ==
  ASSUME RiaAssumption, RiaInv, AnswersInv, WayInv, NEW c \in Ends, DropClient(c)
  PROVE  WayInv'
<1>0. /\ (\A b \in Apps : b \in Ends) /\ (\A d \in Devs : d \in Ends)
      /\ (\A d \in Devs : d \notin Apps)
      /\ DOMAIN up = Ends /\ DOMAIN down = Ends /\ DOMAIN link = Ends
  BY DEF Ends, RiaAssumption, RiaInv, ProxyTypes, AnswersInv, AllAmong
<1>1. /\ Listed(c) /\ link' = Set(link, c, "freed") /\ up' = Set(up, c, <<>>)
      /\ peer' = Detached(c) /\ UNCHANGED endVars /\ phase' = phase
      /\ shut' = IF c \in Devs THEN shut \cup ({peer[c]} \cap Apps) ELSE shut
      /\ down' = Set(down, c, <<>>) \/ Unsent({c})
      /\ phase[c] = "closed" \/ c \in shut
  BY DEF DropClient, endVars
<1>2. /\ link'[c] = "freed" /\ \A x \in Ends \ {c} : link'[x] = link[x]
      /\ up'[c] = <<>> /\ \A x \in Ends \ {c} : up'[x] = up[x]
      /\ \A x \in Ends : peer'[x] = IF x \in {c, peer[c]} THEN None ELSE peer[x]
  BY <1>0, <1>1 DEF Set, Detached
<1>3. \A x \in Ends : Elems(up'[x]) \subseteq Elems(up[x])
  <2>1. Elems(up'[c]) = {}
    BY <1>2, NoElems
  <2> QED BY <1>2, <2>1
<1>4. \A x \in Ends : Elems(down'[x]) \subseteq Elems(down[x])
  <2>1. ASSUME NEW x \in Ends PROVE down'[x] = down[x] \/ Loses(x)
    <3>1. CASE down' = Set(down, c, <<>>)
      <4>1. down'[x] = down[x] \/ down'[x] = <<>>
        BY <1>0, <3>1 DEF Set
      <4> QED BY <4>1, EmptyLoses
    <3>2. CASE Unsent({c})
      <4>1. {c} \in SUBSET Ends
        OBVIOUS
      <4> QED BY <3>2, <4>1, UnsentLoses
    <3> QED BY <1>1, <3>1, <3>2
  <2> QED BY <2>1, LosesElems
<1>5. ASSUME NEW d \in Devs, NEW b \in Apps, Served(d, b)
      PROVE  Served(d, b)'
  <2>1. d \in Ends /\ b \in Ends
    BY <1>0
  <2>2. CASE d = c
    BY <1>2, <2>2 DEF Served
  <2>3. CASE d # c /\ peer[d] = b /\ d = peer[c]
    <3>1. peer[c] # None /\ peer[peer[c]] = c
      BY <2>1, <2>3 DEF RiaInv, PeersPaired, RiaAssumption
    <3>2. b = c /\ c \notin shut
      BY <2>3, <3>1 DEF WayInv, Turned
    <3> QED BY <1>1, <3>2 DEF Served
  <2>4. CASE d # c /\ ~(peer[d] = b /\ d = peer[c])
    BY <1>1, <1>2, <1>5, <2>1, <2>4 DEF Served
  <2> QED BY <2>2, <2>3, <2>4
<1>6. Stay
  BY <1>1, <1>5 DEF Stay
<1>7. \A x \in Ends : link[x] # "none" => link'[x] # "none"
  BY <1>2
<1>8. ASSUME NEW x \in shut' PROVE Turned(x)'
  <2>1. CASE x \in shut
    <3>1. Turned(x) /\ x \in Ends
      BY <1>0, <2>1 DEF WayInv, Turned
    <3> QED BY <1>2, <1>3, <1>7, <3>1 DEF Turned
  <2>2. CASE c \in Devs /\ x = peer[c] /\ x \in Apps
    <3>1. x \in Ends /\ x # c /\ peer[x] = c /\ Listed(x)
      BY <1>0, <2>2 DEF RiaInv, PeersPaired, RiaAssumption
    <3>2. \A p \in Elems(up[x]) : p.cmd # "claim"
      <4>1. peer[x] # None
        BY <3>1 DEF RiaAssumption, Ends
      <4> QED BY <2>2, <4>1 DEF RiaInv, FirstIsClaim, Elems
    <3> QED BY <1>2, <1>3, <2>2, <3>1, <3>2 DEF Turned, Listed
  <2> QED BY <1>1, <1>8, <2>1, <2>2
<1> QED BY <1>0, <1>1, <1>3, <1>4, <1>6, <1>7, <1>8, ProxyWay

LEMMA ProxyDiesKeepsWay ==
  ASSUME RiaAssumption, RiaInv, AnswersInv, WayInv, ProxyDies
  PROVE  WayInv'
<1>0. (\A b \in Apps : b \in Ends) /\ (\A d \in Devs : d \in Ends) /\ Ends \in SUBSET Ends
  BY DEF Ends
<1>1. /\ link' = [e \in Ends |-> "freed"] /\ up' = [e \in Ends |-> <<>>] /\ shut' = {}
      /\ UNCHANGED endVars /\ phase' = phase /\ Unsent(Ends)
  BY DEF ProxyDies, endVars
<1>2. \A x \in Ends : link'[x] = "freed" /\ up'[x] = <<>>
  BY <1>1
<1>3. \A x \in Ends : Elems(up'[x]) \subseteq Elems(up[x])
  BY <1>2, NoElems
<1>4. \A x \in Ends : Elems(down'[x]) \subseteq Elems(down[x])
  BY <1>0, <1>1, UnsentLoses, LosesElems
<1>5. Stay
  BY <1>0, <1>1, <1>2 DEF Stay, Served
<1> QED BY <1>0, <1>1, <1>2, <1>3, <1>4, <1>5, ProxyWay

LEMMA WayInvInit ==
  ASSUME Init
  PROVE  WayInv
<1>1. /\ \A a \in Apps : /\ phase[a] = "new" /\ xid[a] = 0 /\ call[a] = None /\ result[a] = None
                         /\ up[a] = <<>> /\ down[a] = <<>> /\ sbuf[a] = <<>>
      /\ \A d \in Devs : up[d] = <<>> /\ down[d] = <<>> /\ rbuf[d] = <<>>
      /\ shut = {}
  BY DEF Init, Ends
<1>2. Elems(<<>>) = {}
  BY NoElems
<1> QED BY <1>1, <1>2 DEF WayInv, Numbered, Known

\* Every step keeps late answers to devices and to clients that have left.
LEMMA WayInvNext ==
  ASSUME RiaAssumption, RiaInv, AnswersInv, WayInv, [Next]_vars
  PROVE  WayInv'
<1>1. CASE ProxyStep
  BY <1>1, DropClientKeepsWay, AppRequestKeepsWay, DevRequestKeepsWay, ProxyDiesKeepsWay
     DEF ProxyStep
<1>2. ASSUME NEW a \in Apps, AppStep(a)
      PROVE  WayInv'
  BY <1>2, AppStepKeepsWay
<1>3. ASSUME NEW d \in Devs, DevStep(d)
      PROVE  WayInv'
  BY <1>3, DevStepKeepsWay
<1>4. CASE UNCHANGED vars
  <2>1. UNCHANGED <<link, up, down, endVars, peer, shut, phase>>
    BY <1>4 DEF vars, proxyVars, endVars
  <2>2. Stay
    BY <2>1 DEF Stay, Served
  <2> QED BY <2>1, <2>2, ProxyWay
<1> QED BY <1>1, <1>2, <1>3, <1>4 DEF Next

\* Whatever the proxy, other applications and exporters do, lose and leave behind, an
\* application that gave up a call is not answered with its late reply when it makes the
\* next, and no reply to another application that is still there is taken for its own.
\* What ria_recv may take, as it compares the number alone, is the late answer to a client
\* that has left, and never in answer to a claim (Inherited).
THEOREM RiaAnswersOwnCall == Spec => []AnswersOwnCall
<1>1. Init => RiaInv /\ AnswersInv /\ WayInv
  BY RiaInvInit, AnswersInvInit, WayInvInit, RiaAssumption
<1>2. RiaInv /\ AnswersInv /\ WayInv /\ [Next]_vars => (RiaInv /\ AnswersInv /\ WayInv)'
  BY RiaInvNext, AnswersInvNext, WayInvNext, RiaAssumption
<1>3. AnswersInv /\ WayInv => AnswersOwnCall
  BY DEF AnswersInv, WayInv, CommandsMatch, Known, AnswersOwnCall
<1> QED BY <1>1, <1>2, <1>3, PTL DEF Spec
=============================================================================
