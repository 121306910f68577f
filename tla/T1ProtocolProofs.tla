-------------------------- MODULE T1ProtocolProofs --------------------------
(***************************************************************************)
(* Proofs about T1Protocol: the answer of t1_transceive is that of the     *)
(* card, whatever the line garbles, loses or makes them repeat, for any    *)
(* lengths of the commands, the answers and the blocks.                    *)
(*                                                                         *)
(* None of the properties is inductive: what is returned depends on blocks *)
(* that were on the way long before.  The two ends take turns, so at most  *)
(* one block is on the way (OneBlock), and what it can be depends on what  *)
(* the card has last done: taken a chunk of the command, said a chunk of   *)
(* the answer, or taken a request (the stages of Exchange).  In every      *)
(* stage the four sequence bits, the buffers of both ends and the block    *)
(* fit together; a block that arrives moves the exchange on to the next    *)
(* stage, one that is lost or garbled leaves it where it was.              *)
(***************************************************************************)
EXTENDS T1Protocol, SequenceTheorems, TLAPS

\* ISO 7816-3: a block that cannot be used is answered by an R-block that says so.
ErrorsAreTold == CardErrors \subseteq {TRUE}

Bit   == {0, 1}
Units == Nat \X {"command", "answer", "refused"} \X Nat

Requests   == {SRequest("wtx", 1)} \cup {SRequest("ifs", k) : k \in Ifscs}
Responses  == {SResponse("wtx", 1)} \cup {SResponse("ifs", k) : k \in Ifscs}

TypeInv ==
  /\ state \in {"SENDING", "RECEIVING", "RESYNCH", "DEAD"}
  /\ ns \in Bit /\ nr \in Bit /\ cs \in Bit /\ cr \in Bit
  /\ ifsc \in Nat \ {0}
  /\ sbuf \in Seq(Units) /\ lastSend \in 0 .. Len(sbuf)
  /\ sent \in BOOLEAN
  /\ rbuf \in Seq(Units) /\ got \in Seq(Units) /\ out \in Seq(Units)
  /\ ret \in {"none", "busy", "ok", "error"}
  /\ executed \in Seq(Seq(Units))
  /\ n \in 0 .. MaxCommands
  /\ phase \in {"fresh", "ifsd", "resync", "none"}
  /\ resynced \in BOOLEAN /\ strayed \in BOOLEAN

-------------------------------------------------------------------------------
(* What can be on the line and in the card's memory of its last block        *)

CardError == RBlock(cr, TRUE)

\* Nothing that the card could say to this command has been said.
Unheard ==
  /\ toHost \in {NoBlock, Garbled, CardError}
  /\ toHost # NoBlock \/ toCard.type = "R" => last = CardError

\* The card has said block, and keeps it until the host has asked for another.
OnTheWay(block) ==
  /\ toHost \in {NoBlock, Garbled, block, CardError} \cup Requests
  /\ toCard \in {NoBlock, Garbled, RBlock(nr, TRUE), RBlock(nr, FALSE)} \cup Responses
  /\ last \in {block, CardError} \cup Requests
  /\ toHost \in Requests \/ last \in Requests \/ toCard \in Responses => later = block

AnswerBlock(unit) == IBlock(nr, out # <<>>, <<unit>>)

-------------------------------------------------------------------------------
(* The stages of an exchange                                                 *)

\* An I-block of the command, or the next one, has not reached the card.
CommandSent ==
  /\ state = "SENDING" /\ ~strayed
  /\ cs = nr /\ out = <<>> /\ rbuf = <<>>
  /\ lastSend = 0 => sbuf = <<>>
  /\ ~resynced => executed = <<>> /\ got \o sbuf = Command(n)
  /\ toCard \in {NoBlock, Garbled, RBlock(nr, TRUE),
                 IBlock(ns, Len(sbuf) > lastSend, SubSeq(sbuf, 1, lastSend))}
  /\ Unheard

\* It has, and it was not the last one.
ChunkTaken ==
  /\ state = "SENDING" /\ ~strayed
  /\ cr = 1 - ns /\ cs = nr /\ out = <<>> /\ rbuf = <<>>
  /\ lastSend < Len(sbuf)
  /\ ~resynced => executed = <<>> /\ got \o Rest(sbuf, lastSend) = Command(n)
  /\ OnTheWay(RBlock(cr, FALSE))

\* The card has said the next unit of its answer.
AnswerSaid ==
  /\ cs = 1 - nr /\ got = <<>>
  /\ ~resynced => executed = <<Command(n)>>
  /\ \E unit \in Units :
       /\ OnTheWay(AnswerBlock(unit))
       /\ ~strayed /\ state # "RESYNCH" =>
            executed # <<>> /\ rbuf \o <<unit>> \o out = Answer(n, Last(executed))
  /\ state = "SENDING" => cr = 1 - ns /\ lastSend = Len(sbuf) /\ rbuf = <<>> /\ ~strayed
  /\ state = "RECEIVING" => strayed \/ cr = ns

\* The host asks for it.
AnswerAsked ==
  /\ state = "RECEIVING"
  /\ cs = nr /\ got = <<>> /\ out # <<>>
  /\ ~resynced => executed = <<Command(n)>>
  /\ ~strayed => /\ cr = ns
                 /\ executed # <<>> /\ rbuf \o out = Answer(n, Last(executed))
  /\ toCard \in {NoBlock, Garbled, RBlock(nr, TRUE), RBlock(nr, FALSE)}
  /\ toHost \in {NoBlock, Garbled, CardError}

\* The card has not received S(RESYNC).
ResyncSent ==
  /\ state = "RESYNCH"
  /\ got = <<>> \/ out = <<>>
  /\ toCard \in {NoBlock, Garbled, SRequest("resync", 0), RBlock(nr, TRUE)}
  /\ Unheard

\* It has.
CardResynced ==
  /\ state = "RESYNCH"
  /\ cs = 0 /\ cr = 0 /\ got = <<>> /\ out = <<>>
  /\ toCard \in {NoBlock, Garbled, RBlock(nr, TRUE)}
  /\ toHost \in {NoBlock, Garbled, SResponse("resync", 0), CardError}
  /\ last \in {SResponse("resync", 0), CardError}

Exchange ==
  /\ ret = "busy" /\ phase = "none" =>
       /\ n >= 1 /\ state # "DEAD"
       /\ state = "RESYNCH" => ns = 0 /\ nr = 0 /\ resynced
       /\ \/ CommandSent \/ ChunkTaken \/ AnswerSaid \/ AnswerAsked
          \/ ResyncSent \/ CardResynced

-------------------------------------------------------------------------------
(* Outside of an exchange                                                    *)

OneBlock ==
  /\ toCard = NoBlock \/ toHost = NoBlock
  /\ ret # "busy" => toCard = NoBlock /\ toHost = NoBlock

Asking ==
  /\ phase \in {"fresh", "ifsd"} =>
       /\ ns = 0 /\ nr = 0 /\ cs = 0 /\ cr = 0 /\ got = <<>> /\ out = <<>>
       /\ state = "SENDING"
       /\ executed = <<>> 
  /\ phase = "fresh" => ret = "none"
  /\ phase = "ifsd" => ret = "busy" /\ toCard \in {NoBlock, Garbled, SRequest("ifsd", 1)}
  /\ phase = "resync" => /\ ret = "busy" /\ state = "DEAD" /\ executed = <<>>
                         /\ toCard \in {NoBlock, Garbled, SRequest("resync", 0)}
  /\ ret = "ok" => state = "RECEIVING"

IInv == TypeInv /\ OneBlock /\ Asking /\ Exchange /\ ReplyIsAnswer /\ ExecutedOnce /\ InStep

-------------------------------------------------------------------------------
(* Commands, answers and what is cut off their ends                          *)

\* Every APDU has units.
LEMMA CommandUnits ==
  ASSUME NEW k \in 1 .. MaxCommands
  PROVE  Command(k) \in Seq(Units) /\ Command(k) # <<>>
<1>1. CommandLen[k] \in Nat \ {0}  BY T1Assumption
<1>2. Command(k) \in [1 .. CommandLen[k] -> Units]  BY <1>1 DEF Command, Units
<1>3. Command(k) \in Seq(Units)  BY <1>1, <1>2, SeqDef
<1>4. Len(Command(k)) = CommandLen[k]  BY <1>1, <1>2, <1>3, LenProperties
<1>. QED  BY <1>1, <1>3, <1>4

\* So has every answer.
LEMMA AnswerUnits ==
  ASSUME NEW k \in 1 .. MaxCommands, NEW command
  PROVE  Answer(k, command) \in Seq(Units) /\ Answer(k, command) # <<>>
<1>1. CASE command = Command(k)
  <2>1. AnswerLen[k] \in Nat \ {0}  BY T1Assumption
  <2>2. Answer(k, command) \in [1 .. AnswerLen[k] -> Units]  BY <1>1, <2>1 DEF Answer, Units
  <2>3. Answer(k, command) \in Seq(Units)  BY <2>1, <2>2, SeqDef
  <2>4. Len(Answer(k, command)) = AnswerLen[k]  BY <2>1, <2>2, <2>3, LenProperties
  <2>. QED  BY <2>1, <2>3, <2>4
<1>2. CASE command # Command(k)
  BY <1>2 DEF Answer, Units
<1>. QED  BY <1>1, <1>2

\* t1_build takes a unit at least if there is one, and says whether more are left.
LEMMA ChunkTakes ==
  ASSUME NEW units \in Seq(Units), ifsc \in Nat \ {0}
  PROVE  LET k == Len(Chunk(units)) IN
         /\ k \in 0 .. Len(units)
         /\ k = 0 => units = <<>>
         /\ Chunk(units) = SubSeq(units, 1, k)
         /\ (Len(units) > ifsc) = (Len(units) > k)
<1> DEFINE j == IF Len(units) < ifsc THEN Len(units) ELSE ifsc
<1>1. Len(units) \in Nat /\ j \in 0 .. Len(units)  BY LenProperties
<1>2. \A i \in 1 .. j : units[i] \in Units  BY <1>1, ElementOfSeq
<1>3. Chunk(units) = SubSeq(units, 1, j)  BY DEF Chunk
<1>4. Len(SubSeq(units, 1, j)) = j
  <2>1. Len(SubSeq(units, 1, j)) = IF 1 <= j THEN j - 1 + 1 ELSE 0
    <3> HIDE DEF j
    <3>. QED  BY <1>1, <1>2, SubSeqProperties
  <2>. QED  BY <2>1, <1>1
<1>5. Len(Chunk(units)) = j  BY <1>3, <1>4
<1>6. Len(units) = 0 => units = <<>>  BY EmptySeq
<1>. QED  BY <1>1, <1>3, <1>5, <1>6

\* The first k units and the rest are all of them.
LEMMA RestRemains ==
  ASSUME NEW units \in Seq(Units), NEW k \in 0 .. Len(units)
  PROVE  /\ Rest(units, k) \in Seq(Units)
         /\ SubSeq(units, 1, k) \in Seq(Units)
         /\ Len(Rest(units, k)) = Len(units) - k
         /\ SubSeq(units, 1, k) \o Rest(units, k) = units
<1>1. Len(units) \in Nat  BY LenProperties
<1>2. \A i \in 1 .. Len(units) : units[i] \in Units  BY ElementOfSeq
<1>3. /\ Rest(units, k) \in Seq(Units)
      /\ Len(Rest(units, k)) = Len(units) - k
  <2>1. \A i \in k + 1 .. Len(units) : units[i] \in Units  BY <1>1, <1>2
  <2>2. /\ SubSeq(units, k + 1, Len(units)) \in Seq(Units)
        /\ Len(SubSeq(units, k + 1, Len(units)))
             = IF k + 1 <= Len(units) THEN Len(units) - (k + 1) + 1 ELSE 0
    BY <1>1, <2>1, SubSeqProperties
  <2>. QED  BY <1>1, <2>2 DEF Rest
<1>4. SubSeq(units, 1, k) \in Seq(Units)
  <2>1. \A i \in 1 .. k : units[i] \in Units  BY <1>1, <1>2
  <2>. QED  BY <2>1, SubSeqProperties
<1>5. SubSeq(units, 1, k) \o Rest(units, k) = units
  <2>1. /\ 1 \in 1 .. Len(units) + 1 /\ k \in 1 - 1 .. Len(units)
        /\ Len(units) \in k .. Len(units)
    BY <1>1
  <2>2. SubSeq(units, 1, k) \o SubSeq(units, k + 1, Len(units)) = SubSeq(units, 1, Len(units))
    BY <2>1, ConcatAdjacentSubSeq
  <2>. QED  BY <2>2, SubSeqFull DEF Rest
<1>. QED  BY <1>3, <1>4, <1>5

\* What the card says next and what it keeps are what it had to say.
LEMMA NextUnit ==
  ASSUME NEW units \in Seq(Units), units # <<>>
  PROVE  /\ Head(units) \in Units /\ Tail(units) \in Seq(Units)
         /\ (Tail(units) # <<>>) = (Len(units) > 1)
         /\ <<Head(units)>> \o Tail(units) = units
<1>1. /\ Head(units) \in Units /\ Tail(units) \in Seq(Units)
      /\ Len(Tail(units)) = Len(units) - 1
  BY HeadTailProperties
<1>2. Len(units) \in Nat \ {0} /\ Len(<<>>) = 0  BY EmptySeq
<1>3. (Tail(units) # <<>>) = (Len(units) > 1)
  <2>1. CASE Tail(units) = <<>>
    <3>1. Len(Tail(units)) = 0  BY <2>1, <1>2
    <3>. QED  BY <3>1, <2>1, <1>1, <1>2
  <2>2. CASE Tail(units) # <<>>
    <3>1. Len(Tail(units)) \in Nat \ {0}  BY <2>2, <1>1, EmptySeq
    <3>. QED  BY <3>1, <2>2, <1>1, <1>2
  <2>. QED  BY <2>1, <2>2
<1>4. <<Head(units)>> \o Tail(units) = units
  <2>1. SubSeq(units, 1, Len(units)) = <<units[1]>> \o SubSeq(units, 1 + 1, Len(units))
    BY <1>2, SubSeqRecursiveFirst
  <2>2. Tail(units) = SubSeq(units, 2, Len(units))  BY TailIsSubSeq
  <2>3. Head(units) = units[1]  BY <1>2
  <2>. QED  BY <2>1, <2>2, <2>3, SubSeqFull
<1>. QED  BY <1>1, <1>3, <1>4
-------------------------------------------------------------------------------
(* Steps of the host in an exchange                                          *)

\* S(RESYNC), or the end of the exchange if there have been too many.
LEMMA ResyncStep ==
  ASSUME IInv, ret = "busy", phase = "none", Resync, toHost' = NoBlock,
         UNCHANGED <<cardVars, askVars, ifsc, sbuf, lastSend, sent, rbuf, room, n, strayed>>
  PROVE  IInv'
<1>. USE DEF IInv, cardVars, askVars
<1>1. got = <<>> \/ out = <<>>
  BY DEF Exchange, CommandSent, ChunkTaken, AnswerSaid, AnswerAsked, ResyncSent, CardResynced
<1>2. CASE resyncs = 0
  <2>1. /\ state' = "DEAD" /\ ret' = "error" /\ toCard' = NoBlock /\ phase' = "none"
        /\ UNCHANGED <<ns, nr, resynced>>
    BY <1>2 DEF Resync, Fail
  <2>2. TypeInv'  BY <2>1 DEF TypeInv
  <2>3. OneBlock' /\ Asking' /\ Exchange' /\ ReplyIsAnswer' /\ InStep'
    BY <2>1 DEF OneBlock, Asking, Exchange, ReplyIsAnswer, InStep
  <2>4. ExecutedOnce'  BY <2>1 DEF ExecutedOnce, Command
  <2>. QED  BY <2>2, <2>3, <2>4
<1>3. CASE resyncs # 0
  <2>1. /\ ns' = 0 /\ nr' = 0 /\ state' = "RESYNCH" /\ toCard' = SRequest("resync", 0)
        /\ resynced' = TRUE /\ ret' = "busy" /\ phase' = "none"
    BY <1>3 DEF Resync
  <2>2. TypeInv'  BY <2>1 DEF TypeInv, Bit
  <2>3. ResyncSent'
    <3>1. toCard'.type # "R"  BY <2>1 DEF SRequest
    <3>. QED  BY <1>1, <2>1, <3>1 DEF ResyncSent, Unheard
  <2>4. n' >= 1  BY DEF Exchange
  <2>5. OneBlock' /\ Asking' /\ ReplyIsAnswer' /\ InStep' /\ ExecutedOnce'
    BY <2>1 DEF OneBlock, Asking, ReplyIsAnswer, InStep, ExecutedOnce
  <2>6. Exchange'  BY <2>1, <2>3, <2>4 DEF Exchange
  <2>. QED  BY <2>2, <2>5, <2>6
<1>. QED  BY <1>2, <1>3

\* What the host can have received.
LEMMA HostHears ==
  ASSUME IInv, toHost # NoBlock, phase = "none"
  PROVE  /\ ret = "busy" /\ toCard = NoBlock
         /\ \/ toHost = Garbled
            \/ toHost = CardError
            \/ ChunkTaken /\ toHost = RBlock(cr, FALSE)
            \/ (ChunkTaken \/ AnswerSaid) /\ toHost \in Requests
            \/ AnswerSaid /\ toHost.type = "I"
            \/ CardResynced /\ toHost = SResponse("resync", 0)
<1>1. ret = "busy" /\ toCard = NoBlock  BY DEF IInv, OneBlock
<1>2. CommandSent \/ ChunkTaken \/ AnswerSaid \/ AnswerAsked \/ ResyncSent \/ CardResynced
  BY <1>1 DEF IInv, Exchange
<1>3. CASE CommandSent \/ ResyncSent
  BY <1>1, <1>3 DEF CommandSent, ResyncSent, Unheard
<1>4. CASE ChunkTaken  BY <1>1, <1>4 DEF ChunkTaken, OnTheWay
<1>5. CASE AnswerSaid
  <2>1. PICK unit \in Units : OnTheWay(AnswerBlock(unit))  BY <1>5 DEF AnswerSaid
  <2>2. AnswerBlock(unit).type = "I"  BY DEF AnswerBlock, IBlock
  <2>. QED  BY <1>1, <1>5, <2>1, <2>2 DEF OnTheWay
<1>6. CASE AnswerAsked  BY <1>1, <1>6 DEF AnswerAsked
<1>7. CASE CardResynced  BY <1>1, <1>7 DEF CardResynced
<1>. QED  BY <1>2, <1>3, <1>4, <1>5, <1>6, <1>7

\* Each kind of block has its case in t1_transceive.
LEMMA HostHandles ==
  ASSUME Host
  PROVE  /\ toHost # NoBlock /\ phase = "none" /\ toHost' = NoBlock
         /\ UNCHANGED <<cardVars, askVars, room, n, errors>>
         /\ toHost = Garbled => HostGarbled /\ UNCHANGED strayed
         /\ toHost.type = "R" /\ toHost.error => HostRError /\ UNCHANGED strayed
         /\ toHost.type = "R" /\ ~toHost.error /\ state # "RECEIVING"
              => HostRSending /\ UNCHANGED strayed
         /\ toHost.type = "I" => HostI
         /\ toHost.type = "S" /\ toHost.response /\ state = "RESYNCH" => HostResynced
         /\ toHost.type = "S" /\ ~toHost.response => HostS /\ UNCHANGED strayed
<1>1. HostGarbled => toHost = Garbled  BY DEF HostGarbled
<1>2. HostRError => toHost.type = "R" /\ toHost.error  BY DEF HostRError
<1>3. HostRReceiving => toHost.type = "R" /\ ~toHost.error /\ state = "RECEIVING"
  BY DEF HostRReceiving
<1>4. HostRSending => toHost.type = "R" /\ ~toHost.error  BY DEF HostRSending
<1>5. HostI => toHost.type = "I"  BY DEF HostI
<1>6. HostResynced => toHost.type = "S" /\ toHost.response  BY DEF HostResynced
<1>7. HostS => toHost.type = "S" /\ ~(toHost.response /\ state = "RESYNCH")  BY DEF HostS
<1>8. toHost = Garbled => toHost.type = "garbled"  BY DEF Garbled
<1>9. /\ toHost # NoBlock /\ phase = "none" /\ toHost' = NoBlock
      /\ UNCHANGED <<cardVars, askVars, room, n, errors>>
      /\ \/ (HostGarbled \/ HostRError \/ HostRReceiving \/ HostRSending \/ HostS)
             /\ UNCHANGED strayed
         \/ HostI
         \/ HostResynced
  BY DEF Host
<1>. QED  BY <1>1, <1>2, <1>3, <1>4, <1>5, <1>6, <1>7, <1>8, <1>9

\* A garbled block is asked for again, or the exchange resynchronises.
LEMMA GarbledStep ==
  ASSUME IInv, Host, toHost = Garbled
  PROVE  IInv'
<1>1. /\ HostGarbled /\ UNCHANGED strayed /\ toHost' = NoBlock /\ phase = "none"
      /\ UNCHANGED <<cardVars, askVars, room, n, errors>>
  BY HostHandles
<1>2. ret = "busy" /\ toCard = NoBlock  BY HostHandles, HostHears
<1>3. UNCHANGED <<ifsc, sbuf, lastSend, sent, rbuf>>  BY <1>1 DEF HostGarbled
<1>4. CASE retries = 0 \/ sent
  <2>1. Resync  BY <1>1, <1>4 DEF HostGarbled
  <2>. QED  BY <1>1, <1>2, <1>3, <2>1, ResyncStep
<1>5. CASE ~(retries = 0 \/ sent)
  <2>1. toCard' = RBlock(nr, TRUE) /\ UNCHANGED <<state, ns, nr, resyncs, ret, resynced>>
    BY <1>1, <1>5 DEF HostGarbled
  <2>2. UNCHANGED <<phase, cs, cr, got, out, last, later, executed>>
    BY <1>1 DEF cardVars, askVars
  <2>. USE <1>1, <1>2, <1>3, <2>1, <2>2 DEF IInv
  <2>3. TypeInv' /\ OneBlock' /\ Asking' /\ ReplyIsAnswer' /\ ExecutedOnce' /\ InStep'
    BY DEF TypeInv, OneBlock, Asking, ReplyIsAnswer, ExecutedOnce, InStep, Command
  <2>4. Unheard => Unheard'
    BY DEF Unheard, Garbled, NoBlock, CardError
  <2>5. ASSUME NEW block, OnTheWay(block)
        PROVE  OnTheWay(block)'
    <3>1. /\ toHost' = NoBlock /\ toHost' \notin Requests
      BY DEF NoBlock, Requests, SRequest
    <3>2. toCard' \notin Responses  BY DEF RBlock, Responses, SResponse
    <3>. QED  BY <2>5, <3>1, <3>2 DEF OnTheWay, CardError
  <2>6. CommandSent => CommandSent'  BY <2>4 DEF CommandSent, Command
  <2>7. ChunkTaken => ChunkTaken'  BY <2>5 DEF ChunkTaken, Command, Rest
  <2>8. AnswerSaid => AnswerSaid'
    BY <2>5 DEF AnswerSaid, Command, AnswerBlock, Answer, Last
  <2>9. AnswerAsked => AnswerAsked'  BY DEF AnswerAsked, Command, Answer
  <2>10. ResyncSent => ResyncSent'  BY <2>4 DEF ResyncSent
  <2>11. CardResynced => CardResynced'  BY DEF CardResynced, CardError
  <2>. QED  BY <2>3, <2>6, <2>7, <2>8, <2>9, <2>10, <2>11 DEF Exchange
<1>. QED  BY <1>4, <1>5

\* An R-block with an error makes the host resynchronise.
LEMMA ErrorStep ==
  ASSUME IInv, Host, toHost = CardError
  PROVE  IInv'
<1>1. /\ HostRError /\ UNCHANGED strayed /\ toHost' = NoBlock /\ phase = "none"
      /\ UNCHANGED <<cardVars, askVars, room, n, errors>>
  BY HostHandles DEF CardError, RBlock
<1>2. ret = "busy"  BY HostHandles, HostHears
<1>. QED  BY <1>1, <1>2, ResyncStep DEF HostRError

\* The card's own request is answered, and what it has to say still comes.
LEMMA RequestStep ==
  ASSUME IInv, Host, ChunkTaken \/ AnswerSaid, toHost \in Requests
  PROVE  IInv'
<1>1. toHost.type = "S" /\ ~toHost.response /\ toHost.kind # "resync"
  BY DEF Requests, SRequest
<1>2. toHost.kind = "ifs" => toHost.value \in Ifscs
  BY DEF Requests, SRequest
<1>3. SResponse(toHost.kind, toHost.value) \in Responses
  <2>1. CASE toHost = SRequest("wtx", 1)
    <3>1. toHost.kind = "wtx" /\ toHost.value = 1  BY <2>1 DEF SRequest
    <3>. QED  BY <3>1 DEF Responses
  <2>2. ASSUME NEW k \in Ifscs, toHost = SRequest("ifs", k)
        PROVE  SResponse(toHost.kind, toHost.value) \in Responses
    <3>1. toHost.kind = "ifs" /\ toHost.value = k  BY <2>2 DEF SRequest
    <3>. QED  BY <3>1 DEF Responses
  <2>. QED  BY <2>1, <2>2 DEF Requests
<1>4. /\ HostS /\ UNCHANGED strayed /\ toHost' = NoBlock /\ phase = "none"
      /\ UNCHANGED <<cardVars, askVars, room, n, errors>>
  BY <1>1, HostHandles
<1>5. ret = "busy" /\ toCard = NoBlock
  BY HostHandles, HostHears
<1>6. /\ toCard' = SResponse(toHost.kind, toHost.value)
      /\ ifsc' = IF toHost.kind = "ifs" THEN toHost.value ELSE ifsc
      /\ UNCHANGED <<state, ns, nr, resyncs, ret, resynced, sbuf, lastSend, sent, rbuf>>
  BY <1>1, <1>2, <1>4, T1Assumption DEF HostS
<1>7. UNCHANGED <<phase, cs, cr, got, out, last, later, executed>>
  BY <1>4 DEF cardVars, askVars
<1>8. ifsc' \in Nat \ {0}  BY <1>2, <1>6, T1Assumption DEF IInv, TypeInv
<1>9. toCard' \in Responses  BY <1>3, <1>6
<1>. USE <1>4, <1>5, <1>6, <1>7 DEF IInv
<1>10. TypeInv'  BY <1>8 DEF TypeInv
<1>11. OneBlock' /\ Asking' /\ ReplyIsAnswer' /\ ExecutedOnce' /\ InStep'
  BY DEF OneBlock, Asking, ReplyIsAnswer, ExecutedOnce, InStep, Command
<1>12. ASSUME NEW block, OnTheWay(block)
       PROVE  OnTheWay(block)'
  BY <1>9, <1>12 DEF OnTheWay, CardError
<1>13. ChunkTaken => ChunkTaken'  BY <1>12 DEF ChunkTaken, Command, Rest
<1>14. AnswerSaid => AnswerSaid'
  BY <1>12 DEF AnswerSaid, Command, AnswerBlock, Answer, Last
<1>. QED  BY <1>10, <1>11, <1>13, <1>14 DEF Exchange

\* The next I-block of a chained command, once the card has asked for it.
LEMMA ChunkStep ==
  ASSUME IInv, Host, ChunkTaken, toHost = RBlock(cr, FALSE)
  PROVE  IInv'
<1>1. toHost.type = "R" /\ ~toHost.error /\ toHost.seq # ns /\ state = "SENDING"
  BY DEF ChunkTaken, RBlock, IInv, TypeInv, Bit
<1>2. /\ HostRSending /\ UNCHANGED strayed /\ toHost' = NoBlock /\ phase = "none"
      /\ UNCHANGED <<cardVars, askVars, room, n, errors>>
  BY <1>1, HostHandles
<1>3. ret = "busy" /\ toCard = NoBlock
  BY HostHandles, HostHears
<1> DEFINE units == Rest(sbuf, lastSend)
<1>4. /\ units \in Seq(Units) /\ units # <<>>
  <2>1. Len(units) = Len(sbuf) - lastSend /\ units \in Seq(Units)
    BY RestRemains DEF IInv, TypeInv
  <2>2. Len(units) # 0  BY <2>1, LenProperties DEF IInv, TypeInv, ChunkTaken
  <2>. QED  BY <2>1, <2>2, EmptySeq
<1> HIDE DEF units
<1>5. /\ sbuf' = units /\ sent' \in BOOLEAN
      /\ ns' = 1 - ns /\ SendChunk(units, ns')
      /\ UNCHANGED <<state, nr, resyncs, ret, resynced, ifsc, rbuf>>
  BY <1>1, <1>2, <1>4 DEF HostRSending, units
<1>6. UNCHANGED <<phase, cs, cr, got, out, last, later, executed>>
  BY <1>2 DEF cardVars, askVars
<1>7. /\ lastSend' \in 0 .. Len(sbuf') /\ (lastSend' = 0 => sbuf' = <<>>)
      /\ toCard' = IBlock(ns, Len(sbuf) > lastSend, SubSeq(sbuf, 1, lastSend))'
  BY <1>4, <1>5, ChunkTakes DEF SendChunk, IInv, TypeInv
<1>. USE <1>2, <1>3, <1>5, <1>6 DEF IInv
<1>8. TypeInv'  BY <1>4, <1>7 DEF TypeInv, Bit
<1>9. OneBlock' /\ Asking' /\ ReplyIsAnswer' /\ ExecutedOnce' /\ InStep'
  BY DEF OneBlock, Asking, ReplyIsAnswer, ExecutedOnce, InStep, Command
<1>10. CommandSent'
  <2>1. toCard'.type # "R"  BY <1>7 DEF IBlock
  <2>2. Unheard'  BY <2>1 DEF Unheard
  <2>3. ~resynced => executed = <<>> /\ got \o units = Command(n)
    BY DEF ChunkTaken, units
  <2>. QED  BY <1>7, <2>2, <2>3 DEF CommandSent, ChunkTaken, Command
<1>11. n' >= 1  BY DEF Exchange
<1>. QED  BY <1>8, <1>9, <1>10, <1>11 DEF Exchange, CommandSent

\* The response to S(RESYNC) starts both sides anew.
LEMMA ResyncedStep ==
  ASSUME IInv, Host, CardResynced, toHost = SResponse("resync", 0)
  PROVE  IInv'
<1>1. toHost.type = "S" /\ toHost.response /\ state = "RESYNCH"
  BY DEF CardResynced, SResponse
<1>2. /\ HostResynced /\ toHost' = NoBlock /\ phase = "none"
      /\ UNCHANGED <<cardVars, askVars, room, n, errors>>
  BY <1>1, HostHandles
<1>3. ret = "busy" /\ toCard = NoBlock
  BY HostHandles, HostHears
<1>4. ns = 0 /\ nr = 0 /\ resynced /\ n >= 1  BY <1>1, <1>2, <1>3 DEF IInv, Exchange
<1>5. /\ state' = "SENDING" /\ sent' = FALSE /\ rbuf' = <<>> /\ strayed' = FALSE
      /\ SendChunk(sbuf, ns)
      /\ UNCHANGED <<ns, nr, ifsc, sbuf, ret, resynced>>
  BY <1>2 DEF HostResynced
<1>6. UNCHANGED <<phase, cs, cr, got, out, last, later, executed>>
  BY <1>2 DEF cardVars, askVars
<1>7. /\ lastSend' \in 0 .. Len(sbuf') /\ (lastSend' = 0 => sbuf' = <<>>)
      /\ toCard' = IBlock(ns, Len(sbuf) > lastSend, SubSeq(sbuf, 1, lastSend))'
  BY <1>5, ChunkTakes DEF SendChunk, IInv, TypeInv
<1>. USE <1>2, <1>3, <1>4, <1>5, <1>6 DEF IInv
<1>8. TypeInv'  BY <1>7, EmptySeq DEF TypeInv
<1>9. OneBlock' /\ Asking' /\ ReplyIsAnswer' /\ ExecutedOnce' /\ InStep'
  BY DEF OneBlock, Asking, ReplyIsAnswer, ExecutedOnce, InStep
<1>10. CommandSent'
  <2>1. toCard'.type # "R"  BY <1>7 DEF IBlock
  <2>2. Unheard'  BY <2>1 DEF Unheard
  <2>. QED  BY <1>7, <2>2 DEF CommandSent, CardResynced
<1>. QED  BY <1>8, <1>9, <1>10 DEF Exchange

\* The next I-block of the answer.
LEMMA AnswerStep ==
  ASSUME IInv, Host, AnswerSaid, toHost.type = "I"
  PROVE  IInv'
<1>1. /\ HostI /\ toHost' = NoBlock /\ phase = "none"
      /\ UNCHANGED <<cardVars, askVars, room, n, errors>>
  BY HostHandles
<1>2. ret = "busy" /\ toCard = NoBlock /\ n >= 1 /\ state # "DEAD"
  BY HostHandles, HostHears DEF IInv, Exchange
<1>3. UNCHANGED <<phase, cs, cr, got, out, last, later, executed>>
  BY <1>1 DEF cardVars, askVars
<1>4. PICK unit \in Units :
        /\ toHost = AnswerBlock(unit)
        /\ ~strayed /\ state # "RESYNCH" =>
             executed # <<>> /\ rbuf \o <<unit>> \o out = Answer(n, Last(executed))
  <2>1. PICK unit \in Units :
          /\ OnTheWay(AnswerBlock(unit))
          /\ ~strayed /\ state # "RESYNCH" =>
               executed # <<>> /\ rbuf \o <<unit>> \o out = Answer(n, Last(executed))
    BY DEF AnswerSaid
  <2>2. \A b \in Requests : b.type = "S"  BY DEF Requests, SRequest
  <2>3. /\ NoBlock.type # "I" /\ Garbled.type # "I" /\ CardError.type # "I"
    BY DEF NoBlock, Garbled, CardError, RBlock
  <2>. QED  BY <2>1, <2>2, <2>3 DEF OnTheWay
<1>5. /\ toHost.seq = nr /\ toHost.data = <<unit>> /\ toHost.more = (out # <<>>)
  BY <1>4 DEF AnswerBlock, IBlock
<1>6. /\ AnswerBegins /\ TakeAnswer
      /\ strayed' = (strayed \/ state = "RESYNCH")
      /\ UNCHANGED <<ifsc, resyncs, sent, resynced>>
  BY <1>1, <1>5 DEF HostI
<1>7. /\ sbuf' \in Seq(Units) /\ lastSend' \in 0 .. Len(sbuf') /\ ns' \in Bit
      /\ ~strayed' => cr = ns'
  <2>1. CASE state = "SENDING"
    <3>1. /\ sbuf' = Rest(sbuf, lastSend) /\ lastSend' = 0 /\ ns' = 1 - ns
      BY <2>1, <1>6 DEF AnswerBegins
    <3>2. Rest(sbuf, lastSend) \in Seq(Units)  BY RestRemains DEF IInv, TypeInv
    <3>3. Len(sbuf') \in Nat  BY <3>1, <3>2, LenProperties
    <3>. QED  BY <2>1, <3>1, <3>2, <3>3 DEF IInv, TypeInv, Bit, AnswerSaid
  <2>2. CASE state # "SENDING"
    <3>1. UNCHANGED <<sbuf, lastSend, ns>>  BY <2>2, <1>6 DEF AnswerBegins
    <3>2. state \in {"RECEIVING", "RESYNCH"}  BY <1>2, <2>2 DEF IInv, TypeInv
    <3>. QED  BY <3>1, <3>2, <1>6 DEF IInv, TypeInv, AnswerSaid
  <2>. QED  BY <2>1, <2>2
<1>8. nr' = 1 - nr /\ cs = nr' /\ nr' \in Bit
  BY <1>6 DEF TakeAnswer, AnswerSaid, IInv, TypeInv, Bit
<1>9. /\ rbuf \o <<unit>> \in Seq(Units)
      /\ ~strayed' =>
           executed # <<>> /\ (rbuf \o <<unit>>) \o out = Answer(n, Last(executed))
  <2>1. rbuf \in Seq(Units) /\ out \in Seq(Units) /\ <<unit>> \in Seq(Units)
    BY DEF IInv, TypeInv
  <2>. QED  BY <1>4, <1>6, <2>1, ConcatProperties
<1>. USE <1>1, <1>2, <1>3, <1>6, <1>7, <1>8 DEF IInv
<1>10. CASE Len(rbuf) + Len(toHost.data) > room
  <2>1. /\ state' = "DEAD" /\ ret' = "error" /\ toCard' = NoBlock /\ UNCHANGED <<rbuf, retries>>
    BY <1>10 DEF TakeAnswer
  <2>2. TypeInv'  BY <2>1 DEF TypeInv
  <2>3. OneBlock' /\ Asking' /\ Exchange' /\ ReplyIsAnswer' /\ InStep'
    BY <2>1 DEF OneBlock, Asking, Exchange, ReplyIsAnswer, InStep
  <2>4. ExecutedOnce'  BY <2>1 DEF ExecutedOnce, Command
  <2>. QED  BY <2>2, <2>3, <2>4
<1>11. CASE ~(Len(rbuf) + Len(toHost.data) > room)
  <2>1. /\ rbuf' = rbuf \o <<unit>> /\ state' = "RECEIVING"
        /\ IF out # <<>> THEN toCard' = RBlock(nr', FALSE) /\ ret' = ret
                         ELSE toCard' = NoBlock /\ ret' = "ok"
    BY <1>5, <1>11 DEF TakeAnswer
  <2>2. TypeInv'  BY <1>9, <2>1 DEF TypeInv
  <2>3. /\ got = <<>> /\ (~resynced => executed = <<Command(n)>>)
    BY DEF AnswerSaid
  <2>4. CASE out # <<>>
    <3>1. toCard' = RBlock(nr', FALSE) /\ ret' = "busy"  BY <2>1, <2>4
    <3>2. AnswerAsked'
      BY <1>9, <2>1, <2>3, <2>4, <3>1 DEF AnswerAsked, Command, Answer, CardError
    <3>3. OneBlock' /\ Asking' /\ ReplyIsAnswer' /\ InStep'
      BY <2>1, <3>1 DEF OneBlock, Asking, ReplyIsAnswer, InStep
    <3>4. ExecutedOnce'  BY <3>1 DEF ExecutedOnce, Command
    <3>5. Exchange'  BY <2>1, <3>1, <3>2 DEF Exchange
    <3>. QED  BY <2>2, <3>3, <3>4, <3>5
  <2>5. CASE out = <<>>
    <3>1. toCard' = NoBlock /\ ret' = "ok"  BY <2>1, <2>5
    <3>2. ReplyIsAnswer'
      <4>1. (rbuf \o <<unit>>) \o out = rbuf'  BY <1>9, <2>1, <2>5, ConcatEmptySeq
      <4>. QED  BY <1>9, <4>1 DEF ReplyIsAnswer, Answer, Command
    <3>3. OneBlock' /\ Asking' /\ InStep' /\ Exchange'
      BY <2>1, <2>3, <2>5, <3>1 DEF OneBlock, Asking, InStep, Exchange
    <3>4. ExecutedOnce'  BY <2>3, <3>1 DEF ExecutedOnce, Command
    <3>. QED  BY <2>2, <3>2, <3>3, <3>4
  <2>. QED  BY <2>4, <2>5
<1>. QED  BY <1>10, <1>11

LEMMA HostStep ==
  ASSUME IInv, Host
  PROVE  IInv'
BY HostHandles, HostHears, GarbledStep, ErrorStep, RequestStep, ChunkStep, ResyncedStep,
   AnswerStep

-------------------------------------------------------------------------------
(* Steps of the card                                                         *)

\* What the card can have received.
LEMMA CardHears ==
  ASSUME IInv, toCard # NoBlock
  PROVE  /\ ret = "busy" /\ toHost = NoBlock
         /\ phase = "none" => n >= 1 /\ state # "DEAD"
         /\ \/ toCard = Garbled
            \/ phase = "none" /\ CommandSent /\ toCard.type = "I"
            \/ phase = "none" /\ toCard.type = "R"
            \/ phase = "none" /\ (ChunkTaken \/ AnswerSaid) /\ toCard \in Responses
            \/ phase = "none" /\ ResyncSent /\ toCard = SRequest("resync", 0)
            \/ phase = "ifsd" /\ toCard = SRequest("ifsd", 1)
            \/ phase = "resync" /\ toCard = SRequest("resync", 0)
<1>1. ret = "busy" /\ toHost = NoBlock  BY DEF IInv, OneBlock
<1>2. CASE phase # "none"
  BY <1>1, <1>2 DEF IInv, TypeInv, Asking
<1>3. CASE phase = "none"
  <2>1. /\ n >= 1 /\ state # "DEAD"
        /\ CommandSent \/ ChunkTaken \/ AnswerSaid \/ AnswerAsked \/ ResyncSent \/ CardResynced
    BY <1>1, <1>3 DEF IInv, Exchange
  <2>2. \A error \in BOOLEAN : RBlock(nr, error).type = "R"  BY DEF RBlock
  <2>3. ASSUME NEW seq, NEW more, NEW data
        PROVE  IBlock(seq, more, data).type = "I"
    BY DEF IBlock
  <2>. USE <1>1, <1>3, <2>1
  <2>4. CASE CommandSent  BY <2>2, <2>3, <2>4 DEF CommandSent
  <2>5. CASE ChunkTaken  BY <2>2, <2>5 DEF ChunkTaken, OnTheWay
  <2>6. CASE AnswerSaid  BY <2>2, <2>6 DEF AnswerSaid, OnTheWay
  <2>7. CASE AnswerAsked  BY <2>2, <2>7 DEF AnswerAsked
  <2>8. CASE ResyncSent  BY <2>2, <2>8 DEF ResyncSent
  <2>9. CASE CardResynced  BY <2>2, <2>9 DEF CardResynced
  <2>. QED  BY <1>1, <2>4, <2>5, <2>6, <2>7, <2>8, <2>9
<1>. QED  BY <1>2, <1>3

\* Each kind of block is handled by one action of the card.
LEMMA CardHandles ==
  ASSUME Card
  PROVE  /\ toCard # NoBlock /\ toCard' = NoBlock
         /\ UNCHANGED <<hostVars, askVars, n, resynced, strayed, errors>>
         /\ toCard = Garbled => CardRefuses
         /\ toCard.type = "I" => (CardI /\ toCard.seq = cr) \/ CardRefuses
         /\ toCard.type = "R" => CardR
         /\ toCard = SRequest("resync", 0) => CardResync
         /\ toCard = SRequest("ifsd", 1) => CardIfs
         /\ toCard.type = "S" /\ toCard.response /\ later # NoBlock => CardResponse
<1>1. CardI => toCard.type = "I" /\ toCard.seq = cr  BY DEF CardI
<1>2. CardR => toCard.type = "R"  BY DEF CardR
<1>3. CardResync => toCard = SRequest("resync", 0)  BY DEF CardResync
<1>4. CardIfs => toCard = SRequest("ifsd", 1)  BY DEF CardIfs
<1>5. CardResponse => toCard.type = "S" /\ toCard.response  BY DEF CardResponse
<1>6. CardRefuses => \/ toCard = Garbled
                     \/ toCard.type = "I"
                     \/ toCard.type = "S" /\ toCard.response /\ later = NoBlock
  BY DEF CardRefuses
<1>7. /\ Garbled.type = "garbled"
      /\ \A value : /\ SRequest("resync", value).type = "S"
                    /\ SRequest("resync", value).kind = "resync"
                    /\ SRequest("resync", value).response = FALSE
                    /\ SRequest("ifsd", value).type = "S"
                    /\ SRequest("ifsd", value).kind = "ifsd"
                    /\ SRequest("ifsd", value).response = FALSE
  BY DEF Garbled, SRequest
<1>8. /\ toCard # NoBlock /\ toCard' = NoBlock
      /\ UNCHANGED <<hostVars, askVars, n, resynced, strayed, errors>>
      /\ CardI \/ CardR \/ CardResync \/ CardIfs \/ CardResponse \/ CardRefuses
  BY DEF Card
<1>. QED  BY <1>1, <1>2, <1>3, <1>4, <1>5, <1>6, <1>7, <1>8

\* What a step of the card leaves alone.
LEMMA CardKeeps ==
  ASSUME Card
  PROVE  UNCHANGED <<state, ns, nr, ifsc, retries, resyncs, sbuf, lastSend, sent, rbuf, room,
                     ret, phase, n, resynced, strayed>>
BY CardHandles DEF hostVars, askVars

\* The block the card has to say comes first or after its own request.
LEMMA SaidOrAsked ==
  ASSUME NEW block, block \notin Requests, Say(block)
  PROVE  /\ toHost' \in {block} \cup Requests /\ last' \in {block} \cup Requests
         /\ toHost' \in Requests \/ last' \in Requests => later' = block
BY DEF Say, Requests

\* A block the card cannot use.
LEMMA RefuseStep ==
  ASSUME ErrorsAreTold, IInv, Card, CardRefuses
  PROVE  IInv'
<1>1. /\ toHost = NoBlock /\ ret = "busy" /\ toCard' = NoBlock /\ toCard # NoBlock
  BY CardHandles, CardHears
<1>2. /\ toHost' = CardError /\ last' = CardError
      /\ UNCHANGED <<cs, cr, got, out, later, executed>>
  BY DEF CardRefuses, Refuse, ErrorsAreTold, CardError
<1>. USE <1>1, <1>2, CardKeeps DEF IInv
<1>3. /\ TypeInv' /\ OneBlock' /\ Asking' /\ ReplyIsAnswer' /\ ExecutedOnce' /\ InStep'
  BY DEF TypeInv, OneBlock, Asking, ReplyIsAnswer, ExecutedOnce, InStep, Command
<1>4. CardError' = CardError /\ CardError \notin Requests /\ NoBlock \notin Responses
  BY DEF CardError, RBlock, Requests, SRequest, Responses, SResponse, NoBlock
<1>5. Unheard'  BY <1>4 DEF Unheard
<1>6. ASSUME NEW block, OnTheWay(block)
      PROVE  OnTheWay(block)'
  BY <1>4, <1>6 DEF OnTheWay
<1>7. CommandSent => CommandSent'  BY <1>5 DEF CommandSent, Command
<1>8. ChunkTaken => ChunkTaken'  BY <1>6 DEF ChunkTaken, Command, Rest
<1>9. AnswerSaid => AnswerSaid'  BY <1>6 DEF AnswerSaid, Command, AnswerBlock, Answer, Last
<1>10. AnswerAsked => AnswerAsked'  BY <1>4 DEF AnswerAsked, Command, Answer
<1>11. ResyncSent => ResyncSent'  BY <1>5 DEF ResyncSent
<1>12. CardResynced => CardResynced'  BY <1>4 DEF CardResynced
<1>. QED  BY <1>3, <1>7, <1>8, <1>9, <1>10, <1>11, <1>12 DEF Exchange

\* The next unit of the answer is on its way.
LEMMA NextSaid ==
  ASSUME TypeInv, NEW units \in Seq(Units), units # <<>>, SayNext(units),
         cs = nr, nr' = nr, toCard' = NoBlock
  PROVE  /\ cs' = 1 - nr /\ cs' \in Bit /\ out' \in Seq(Units)
         /\ \E unit \in Units : OnTheWay(AnswerBlock(unit))' /\ <<unit>> \o out' = units
<1> DEFINE unit == Head(units)
           block == IBlock(nr, out' # <<>>, <<unit>>)
<1>1. /\ unit \in Units /\ out' = Tail(units) /\ out' \in Seq(Units)
      /\ (out' # <<>>) = (Len(units) > 1)
      /\ <<unit>> \o out' = units
      /\ cs' = 1 - cs
  BY NextUnit DEF SayNext
<1>2. Say(block)  BY <1>1 DEF SayNext
<1>3. block \notin Requests  BY DEF IBlock, Requests, SRequest
<1>4. /\ toHost' \in {block} \cup Requests /\ last' \in {block} \cup Requests
      /\ toHost' \in Requests \/ last' \in Requests => later' = block
  <2> HIDE DEF block
  <2>. QED  BY <1>2, <1>3, SaidOrAsked
<1>5. NoBlock \notin Responses  BY DEF NoBlock, Responses, SResponse
<1>6. AnswerBlock(unit)' = block  BY DEF AnswerBlock
<1> HIDE DEF block, unit
<1>7. OnTheWay(AnswerBlock(unit))'  BY <1>4, <1>5, <1>6 DEF OnTheWay
<1>8. cs' = 1 - nr /\ cs' \in Bit  BY <1>1 DEF TypeInv, Bit
<1>. QED  BY <1>1, <1>7, <1>8

\* Pieces of a command may be put together in any order.
LEMMA PiecesJoin ==
  ASSUME NEW s \in Seq(Units), NEW t \in Seq(Units), NEW u \in Seq(Units)
  PROVE  s \o t \in Seq(Units) /\ (s \o t) \o u = s \o (t \o u)
<1>1. s \o t \in Seq(Units)  BY ConcatProperties
<1>2. (s \o t) \o u = s \o (t \o u)  BY ConcatAssociative
<1>. QED  BY <1>1, <1>2

\* A block of the command arrives.
LEMMA CommandStep ==
  ASSUME IInv, Card, phase = "none", CommandSent, toCard.type = "I", toCard.seq = cr, CardI
  PROVE  IInv'
<1>1. /\ toHost = NoBlock /\ ret = "busy" /\ n \in 1 .. MaxCommands
      /\ toCard' = NoBlock /\ toCard # NoBlock
  BY CardHandles, CardHears DEF IInv, TypeInv
<1> DEFINE data == SubSeq(sbuf, 1, lastSend)
           command == got \o data
<1>2. toCard = IBlock(ns, Len(sbuf) > lastSend, data)
  BY DEF CommandSent, NoBlock, Garbled, RBlock
<1>3. toCard.seq = ns /\ toCard.more = (Len(sbuf) > lastSend) /\ toCard.data = data
  BY <1>2 DEF IBlock
<1>4. /\ data \in Seq(Units) /\ Rest(sbuf, lastSend) \in Seq(Units)
      /\ data \o Rest(sbuf, lastSend) = sbuf
  BY RestRemains DEF IInv, TypeInv
<1>5. command \in Seq(Units) /\ command \o Rest(sbuf, lastSend) = got \o sbuf
  <2>1. got \in Seq(Units)  BY DEF IInv, TypeInv
  <2> HIDE DEF data
  <2>2. /\ command \in Seq(Units)
        /\ command \o Rest(sbuf, lastSend) = got \o (data \o Rest(sbuf, lastSend))
    BY <1>4, <2>1, PiecesJoin
  <2>. QED  BY <1>4, <2>2
<1>6. /\ cr' = 1 - ns /\ cr' \in Bit
      /\ Len(sbuf) \in Nat /\ lastSend \in Nat /\ lastSend <= Len(sbuf)
  BY <1>3, LenProperties DEF CardI, IInv, TypeInv, Bit
<1> HIDE DEF data
<1>. USE <1>1, <1>6, CardKeeps DEF IInv
<1>7. CASE Len(sbuf) > lastSend
  <2>1. /\ got' = command /\ Say(RBlock(cr', FALSE)) /\ UNCHANGED <<cs, out, executed>>
    BY <1>3, <1>7 DEF CardI
  <2>2. RBlock(cr', FALSE) \notin Requests  BY DEF RBlock, Requests, SRequest
  <2>3. /\ toHost' \in {RBlock(cr', FALSE)} \cup Requests
        /\ last' \in {RBlock(cr', FALSE)} \cup Requests
        /\ toHost' \in Requests \/ last' \in Requests => later' = RBlock(cr', FALSE)
    BY <2>1, <2>2, SaidOrAsked
  <2>4. NoBlock \notin Responses  BY DEF NoBlock, Responses, SResponse
  <2>5. OnTheWay(RBlock(cr, FALSE))'  BY <2>3, <2>4 DEF OnTheWay
  <2>6. ~resynced => got' \o Rest(sbuf, lastSend) = Command(n)
    BY <1>5, <2>1 DEF CommandSent
  <2>7. ChunkTaken'
    <3>1. lastSend < Len(sbuf)  BY <1>3, <1>7
    <3>2. ~resynced => /\ executed' = <<>>
                       /\ got' \o Rest(sbuf, lastSend)' = Command(n)'
      BY <2>1, <2>6 DEF CommandSent, Command, Rest
    <3>3. /\ state' = "SENDING" /\ ~strayed' /\ cs' = nr' /\ out' = <<>> /\ rbuf' = <<>>
          /\ cr' = 1 - ns' /\ lastSend' < Len(sbuf') /\ resynced' = resynced
      BY <2>1, <3>1 DEF CommandSent
    <3>. QED  BY <2>5, <3>2, <3>3 DEF ChunkTaken
  <2>8. TypeInv'  BY <1>5, <2>1 DEF TypeInv
  <2>9. OneBlock' /\ Asking' /\ ReplyIsAnswer' /\ ExecutedOnce' /\ InStep'
    BY <2>1 DEF OneBlock, Asking, ReplyIsAnswer, ExecutedOnce, InStep, Command
  <2>. QED  BY <2>7, <2>8, <2>9 DEF Exchange, CommandSent
<1>8. CASE ~(Len(sbuf) > lastSend)
  <2>1. lastSend = Len(sbuf) /\ data = sbuf
    <3>1. lastSend = Len(sbuf)  BY <1>3, <1>8
    <3>2. SubSeq(sbuf, 1, Len(sbuf)) = sbuf  BY SubSeqFull DEF TypeInv
    <3>. QED  BY <3>1, <3>2 DEF data
  <2>2. /\ got' = <<>> /\ executed' = Append(executed, command)
        /\ SayNext(Answer(n, command))
    BY <1>3, <1>8 DEF CardI
  <2>3. Answer(n, command) \in Seq(Units) /\ Answer(n, command) # <<>>
    BY AnswerUnits
  <2>4. /\ cs' = 1 - nr /\ cs' \in Bit /\ out' \in Seq(Units)
        /\ \E unit \in Units : /\ OnTheWay(AnswerBlock(unit))'
                               /\ <<unit>> \o out' = Answer(n, command)
    BY <2>2, <2>3, NextSaid DEF CommandSent
  <2>5. /\ executed' \in Seq(Seq(Units)) /\ executed' # <<>>
        /\ Last(executed') = command
        /\ executed = <<>> => executed' = <<command>>
    <3>1. executed \in Seq(Seq(Units)) /\ command \in Seq(Units)  BY <1>5 DEF TypeInv
    <3> HIDE DEF command
    <3>2. /\ executed' \in Seq(Seq(Units)) /\ executed' # <<>>
          /\ Len(executed') = Len(executed) + 1
          /\ executed'[Len(executed) + 1] = command
      BY <2>2, <3>1, AppendProperties
    <3>3. Len(executed') = Len(executed) + 1 /\ Last(executed') = executed'[Len(executed')]
      BY <3>2 DEF Last
    <3>4. ASSUME executed = <<>>
          PROVE  executed' = <<command>>
      BY <2>2, <3>1, <3>4, AppendIsConcat, ConcatEmptySeq
    <3>. QED  BY <3>2, <3>3, <3>4
  <2>6. ~resynced => executed' = <<Command(n)>>
    BY <2>1, <2>5 DEF CommandSent
  <2>7. AnswerSaid'
    <3>1. PICK unit \in Units : /\ OnTheWay(AnswerBlock(unit))'
                                /\ <<unit>> \o out' = Answer(n, command)
      BY <2>4
    <3>2. rbuf \o <<unit>> \o out' = Answer(n, command)
      <4>1. rbuf = <<>> /\ <<unit>> \in Seq(Units)  BY DEF CommandSent
      <4>. QED  BY <3>1, <4>1, ConcatEmptySeq
    <3>3. executed' # <<>> /\ rbuf' \o <<unit>> \o out' = Answer(n, Last(executed))'
      <4> HIDE DEF command
      <4>1. Answer(n, Last(executed))' = Answer(n, command)
        BY <2>5 DEF Answer, Command
      <4>. QED  BY <2>5, <3>2, <4>1 DEF CommandSent
    <3>4. /\ cs' = 1 - nr' /\ got' = <<>> /\ resynced' = resynced
          /\ state' = "SENDING" /\ cr' = 1 - ns' /\ lastSend' = Len(sbuf')
          /\ rbuf' = <<>> /\ ~strayed'
      BY <2>1, <2>2, <2>4 DEF CommandSent
    <3>5. ~resynced' => executed' = <<Command(n)>>'  BY <2>6, <3>4 DEF Command
    <3>. QED  BY <3>1, <3>3, <3>4, <3>5 DEF AnswerSaid
  <2>8. TypeInv'  BY <2>2, <2>4, <2>5, EmptySeq DEF TypeInv
  <2>9. OneBlock' /\ Asking' /\ ReplyIsAnswer' /\ InStep'
    BY DEF OneBlock, Asking, ReplyIsAnswer, InStep
  <2>10. ExecutedOnce'  BY <2>6 DEF ExecutedOnce, Command
  <2>. QED  BY <2>7, <2>8, <2>9, <2>10 DEF Exchange, CommandSent
<1>. QED  BY <1>7, <1>8

\* The host asks for a block: the next one, or the card's last once more.
LEMMA AskedStep ==
  ASSUME IInv, Card, phase = "none", toCard.type = "R", CardR
  PROVE  IInv'
<1>1. /\ toHost = NoBlock /\ ret = "busy" /\ n \in 1 .. MaxCommands /\ state # "DEAD"
      /\ toCard' = NoBlock /\ toCard # NoBlock
  BY CardHandles, CardHears DEF IInv, TypeInv
<1>2. UNCHANGED <<cr, got, executed>>  BY DEF CardR
<1>3. toCard.seq = nr
  <2>1. ASSUME toCard \in {NoBlock, Garbled, RBlock(nr, TRUE), RBlock(nr, FALSE)}
                          \cup Responses
        PROVE  toCard.seq = nr
    BY <2>1 DEF NoBlock, Garbled, RBlock, Responses, SResponse
  <2>2. CASE CommandSent
    <3>1. IBlock(ns, Len(sbuf) > lastSend, SubSeq(sbuf, 1, lastSend)).type # "R"
      BY DEF IBlock
    <3>. QED  BY <2>1, <2>2, <3>1 DEF CommandSent
  <2>3. CASE ResyncSent
    <3>1. SRequest("resync", 0).type # "R"  BY DEF SRequest
    <3>. QED  BY <2>1, <2>3, <3>1 DEF ResyncSent
  <2>. QED  BY <1>1, <2>1, <2>2, <2>3
            DEF IInv, Exchange, ChunkTaken, AnswerSaid, OnTheWay, AnswerAsked, CardResynced
<1>. USE <1>1, <1>2, CardKeeps DEF IInv
<1>4. CASE cs = nr /\ out # <<>>
  <2>1. SayNext(out)  BY <1>3, <1>4 DEF CardR
  <2>2. out \in Seq(Units)  BY DEF TypeInv
  <2>3. /\ cs' = 1 - nr /\ cs' \in Bit /\ out' \in Seq(Units)
        /\ \E unit \in Units : OnTheWay(AnswerBlock(unit))' /\ <<unit>> \o out' = out
    BY <1>4, <2>1, <2>2, NextSaid
  <2>4. AnswerAsked \/ ResyncSent
    <3>1. ~AnswerSaid  BY <1>4 DEF AnswerSaid, TypeInv, Bit
    <3>. QED  BY <1>4, <3>1 DEF Exchange, CommandSent, ChunkTaken, CardResynced
  <2>5. TypeInv'  BY <2>3 DEF TypeInv
  <2>6. OneBlock' /\ Asking' /\ ReplyIsAnswer' /\ ExecutedOnce' /\ InStep'
    BY DEF OneBlock, Asking, ReplyIsAnswer, ExecutedOnce, InStep, Command
  <2>7. PICK unit \in Units : OnTheWay(AnswerBlock(unit))' /\ <<unit>> \o out' = out
    BY <2>3
  <2>8. CASE AnswerAsked
    <3>1. ~strayed => /\ executed # <<>>
                      /\ rbuf \o <<unit>> \o out' = Answer(n, Last(executed))
      <4>1. rbuf \in Seq(Units) /\ <<unit>> \in Seq(Units) /\ out' \in Seq(Units)
        BY <2>5 DEF TypeInv
      <4>2. (rbuf \o <<unit>>) \o out' = rbuf \o out  BY <2>7, <4>1, PiecesJoin, ZenonT(60)
      <4>. QED  BY <2>8, <4>2 DEF AnswerAsked
    <3>2. ~strayed' /\ state' # "RESYNCH" =>
            executed' # <<>> /\ rbuf' \o <<unit>> \o out' = Answer(n, Last(executed))'
      <4>1. Answer(n, Last(executed))' = Answer(n, Last(executed))
        BY DEF Answer, Command, Last
      <4>. QED  BY <3>1, <4>1
    <3>3. /\ got' = <<>> /\ (~resynced' => executed' = <<Command(n)>>') /\ cs' = 1 - nr'
          /\ state' = "RECEIVING" /\ (strayed' \/ cr' = ns')
      BY <2>3, <2>8 DEF AnswerAsked, Command
    <3>4. AnswerSaid'  BY <2>7, <3>2, <3>3 DEF AnswerSaid
    <3>. QED  BY <2>5, <2>6, <3>4 DEF Exchange, AnswerAsked
  <2>9. CASE ResyncSent
    <3>1. ns = 0 /\ nr = 0 /\ resynced /\ n >= 1 /\ got = <<>> /\ state = "RESYNCH"
      BY <1>4, <2>9 DEF Exchange, ResyncSent
    <3>2. AnswerSaid'  BY <2>3, <2>7, <3>1 DEF AnswerSaid
    <3>. QED  BY <2>5, <2>6, <3>1, <3>2 DEF Exchange
  <2>. QED  BY <2>4, <2>8, <2>9
<1>5. CASE ~(cs = nr /\ out # <<>>)
  <2>1. toHost' = last /\ UNCHANGED <<last, later, cs, out>>
    BY <1>3, <1>5 DEF CardR, Repeat
  <2>2. TypeInv' /\ OneBlock' /\ Asking' /\ ReplyIsAnswer' /\ ExecutedOnce' /\ InStep'
    BY <2>1 DEF TypeInv, OneBlock, Asking, ReplyIsAnswer, ExecutedOnce, InStep, Command
  <2>3. NoBlock \notin Responses  BY DEF NoBlock, Responses, SResponse
  <2>4. Unheard => Unheard'  BY <2>1 DEF Unheard, CardError
  <2>5. ASSUME NEW block, OnTheWay(block)
        PROVE  OnTheWay(block)'
    BY <2>1, <2>3, <2>5 DEF OnTheWay, CardError
  <2>6. CommandSent => CommandSent'  BY <2>1, <2>4 DEF CommandSent, Command
  <2>7. ChunkTaken => ChunkTaken'  BY <2>1, <2>5 DEF ChunkTaken, Command, Rest
  <2>8. AnswerSaid => AnswerSaid'
    BY <2>1, <2>5 DEF AnswerSaid, Command, AnswerBlock, Answer, Last
  <2>9. ~AnswerAsked  BY <1>5 DEF AnswerAsked
  <2>10. ResyncSent => ResyncSent'  BY <2>1, <2>4 DEF ResyncSent
  <2>11. CardResynced => CardResynced'  BY <2>1 DEF CardResynced, CardError
  <2>. QED  BY <2>2, <2>6, <2>7, <2>8, <2>9, <2>10, <2>11 DEF Exchange
<1>. QED  BY <1>4, <1>5

\* S(RESYNC) arrives.
LEMMA CardResyncStep ==
  ASSUME IInv, Card, toCard = SRequest("resync", 0), CardResync
  PROVE  IInv'
<1>1. /\ toHost = NoBlock /\ ret = "busy" /\ toCard' = NoBlock /\ toCard # NoBlock
  BY CardHandles, CardHears
<1>2. /\ cs' = 0 /\ cr' = 0 /\ got' = <<>> /\ out' = <<>>
      /\ toHost' = SResponse("resync", 0) /\ last' = SResponse("resync", 0)
      /\ UNCHANGED executed
  BY DEF CardResync
<1>3. /\ toCard # Garbled /\ toCard.type = "S" /\ toCard \notin Responses
      /\ toCard # SRequest("ifsd", 1)
  BY DEF SRequest, Garbled, Responses, SResponse
<1>. USE <1>1, <1>2, CardKeeps DEF IInv
<1>4. TypeInv'  BY EmptySeq DEF TypeInv, Bit
<1>5. (phase = "none" /\ ResyncSent) \/ phase = "resync"
  BY <1>3, CardHears
<1>6. OneBlock' /\ Asking' /\ ReplyIsAnswer' /\ ExecutedOnce' /\ InStep'
  BY <1>5 DEF OneBlock, Asking, ReplyIsAnswer, ExecutedOnce, InStep, Command
<1>7. phase = "none" => CardResynced'
  BY <1>5 DEF ResyncSent, CardResynced
<1>. QED  BY <1>4, <1>6, <1>7 DEF Exchange

\* The S(IFS) request of t1_negotiate_ifsd arrives.
LEMMA CardIfsStep ==
  ASSUME IInv, Card, toCard = SRequest("ifsd", 1), CardIfs
  PROVE  IInv'
<1>1. /\ toHost = NoBlock /\ ret = "busy" /\ toCard' = NoBlock /\ toCard # NoBlock
  BY CardHandles, CardHears
<1>2. /\ toHost' = SResponse("ifsd", 1)
      /\ UNCHANGED <<cs, cr, got, out, later, executed>>
  BY DEF CardIfs
<1>3. /\ toCard # Garbled /\ toCard.type = "S" /\ toCard \notin Responses
      /\ toCard # SRequest("resync", 0)
  BY DEF SRequest, Garbled, Responses, SResponse
<1>4. phase = "ifsd"  BY <1>1, <1>3, CardHears
<1>. QED  BY <1>1, <1>2, <1>4, CardKeeps
          DEF IInv, TypeInv, OneBlock, Asking, Exchange, ReplyIsAnswer, ExecutedOnce, InStep

\* The answer to the card's own request arrives, and it says what it had to say.
LEMMA CardResponseStep ==
  ASSUME IInv, Card, phase = "none", ChunkTaken \/ AnswerSaid, toCard \in Responses
  PROVE  IInv'
<1>1. /\ toHost = NoBlock /\ ret = "busy" /\ toCard' = NoBlock /\ toCard # NoBlock
  BY CardHandles, CardHears
<1>2. toCard.type = "S" /\ toCard.response  BY DEF Responses, SResponse
<1>3. ASSUME NEW block, OnTheWay(block)
      PROVE  later = block
  BY <1>3 DEF OnTheWay
<1>4. later # NoBlock
  <2>1. \A error : RBlock(cr, error) # NoBlock  BY DEF RBlock, NoBlock
  <2>2. \A unit : AnswerBlock(unit) # NoBlock  BY DEF AnswerBlock, IBlock, NoBlock
  <2>. QED  BY <1>3, <2>1, <2>2 DEF ChunkTaken, AnswerSaid
<1>5. CardResponse  BY <1>2, <1>4, CardHandles
<1>6. /\ toHost' = later /\ last' = later
      /\ UNCHANGED <<cs, cr, got, out, executed>>
  BY <1>5 DEF CardResponse
<1>. USE <1>1, <1>6, CardKeeps DEF IInv
<1>7. TypeInv' /\ OneBlock' /\ Asking' /\ ReplyIsAnswer' /\ ExecutedOnce' /\ InStep'
  BY DEF TypeInv, OneBlock, Asking, ReplyIsAnswer, ExecutedOnce, InStep, Command
<1>8. NoBlock \notin Responses  BY DEF NoBlock, Responses, SResponse
<1>9. ASSUME NEW block, block \notin Requests, OnTheWay(block)
      PROVE  OnTheWay(block)'
  BY <1>3, <1>8, <1>9 DEF OnTheWay
<1>10. ChunkTaken => ChunkTaken'
  <2>1. RBlock(cr, FALSE) \notin Requests  BY DEF RBlock, Requests, SRequest
  <2>. QED  BY <1>9, <2>1 DEF ChunkTaken, Command, Rest
<1>11. AnswerSaid => AnswerSaid'
  <2>1. \A unit : AnswerBlock(unit) \notin Requests
    BY DEF AnswerBlock, IBlock, Requests, SRequest
  <2>. QED  BY <1>9, <2>1 DEF AnswerSaid, Command, AnswerBlock, Answer, Last
<1>. QED  BY <1>7, <1>10, <1>11 DEF Exchange

LEMMA CardStep ==
  ASSUME ErrorsAreTold, IInv, Card
  PROVE  IInv'
<1>1. toCard \in Responses => toCard # Garbled /\ toCard.type = "S"
  BY DEF Responses, SResponse, Garbled
<1>2. /\ \/ toCard = Garbled
         \/ phase = "none" /\ CommandSent /\ toCard.type = "I"
         \/ phase = "none" /\ toCard.type = "R"
         \/ phase = "none" /\ (ChunkTaken \/ AnswerSaid) /\ toCard \in Responses
         \/ toCard = SRequest("resync", 0)
         \/ toCard = SRequest("ifsd", 1)
  BY CardHandles, CardHears
<1>. QED  BY <1>1, <1>2, CardHandles, RefuseStep, CommandStep, AskedStep, CardResyncStep,
             CardIfsStep, CardResponseStep

-------------------------------------------------------------------------------
(* The other steps                                                           *)

LEMMA TransceiveStep ==
  ASSUME IInv, Transceive
  PROVE  IInv'
<1>1. /\ ret # "busy" /\ state # "DEAD" /\ n' = n + 1 /\ n' \in 1 .. MaxCommands
      /\ state' = "SENDING" /\ sbuf' = Command(n') /\ sent' = FALSE /\ rbuf' = <<>>
      /\ SendChunk(sbuf', ns) /\ ret' = "busy" /\ executed' = <<>>
      /\ resynced' = FALSE /\ strayed' = FALSE /\ phase' = "none"
      /\ UNCHANGED <<ns, nr, ifsc, toHost, cs, cr, got, out, last, later>>
  BY T1Assumption DEF Transceive, IInv, TypeInv
<1>2. /\ toCard = NoBlock /\ toHost = NoBlock
      /\ cs = nr /\ got = <<>> /\ out = <<>>
  BY <1>1 DEF IInv, OneBlock, InStep
<1>3. sbuf' \in Seq(Units)  BY <1>1, CommandUnits
<1>4. /\ lastSend' \in 0 .. Len(sbuf') /\ (lastSend' = 0 => sbuf' = <<>>)
      /\ toCard' = IBlock(ns', Len(sbuf') > lastSend', SubSeq(sbuf', 1, lastSend'))
  <2> DEFINE units == sbuf'
  <2>1. ifsc \in Nat \ {0} /\ units \in Seq(Units)  BY <1>3 DEF IInv, TypeInv
  <2>2. /\ toCard' = IBlock(ns, Len(units) > ifsc, Chunk(units))
        /\ lastSend' = Len(Chunk(units))
    BY <1>1 DEF SendChunk
  <2> HIDE DEF units
  <2>3. /\ lastSend' \in 0 .. Len(units) /\ (lastSend' = 0 => units = <<>>)
        /\ toCard' = IBlock(ns, Len(units) > lastSend', SubSeq(units, 1, lastSend'))
    BY <2>1, <2>2, ChunkTakes
  <2>. QED  BY <1>1, <2>3 DEF units
<1>5. TypeInv'
  <2>1. <<>> \in Seq(Units) /\ <<>> \in Seq(Seq(Units))  BY EmptySeq
  <2>2. n' \in 0 .. MaxCommands  BY <1>1 DEF IInv, TypeInv
  <2>3. lastSend' \in 0 .. Len(sbuf')  BY <1>4
  <2>. QED  BY <1>1, <1>3, <2>1, <2>2, <2>3 DEF IInv, TypeInv
<1>6. CommandSent'
  <2>1. toCard'.type # "R"  BY <1>4 DEF IBlock
  <2>2. Unheard'  BY <1>1, <1>2, <2>1 DEF Unheard
  <2>3. got' \o sbuf' = Command(n')  BY <1>1, <1>2, <1>3, ConcatEmptySeq
  <2>. QED  BY <1>1, <1>2, <1>4, <2>2, <2>3 DEF CommandSent, Command
<1>7. OneBlock' /\ Asking' /\ ReplyIsAnswer' /\ ExecutedOnce' /\ InStep'
  BY <1>1, <1>2 DEF OneBlock, Asking, ReplyIsAnswer, ExecutedOnce, InStep
<1>. QED  BY <1>1, <1>5, <1>6, <1>7 DEF IInv, Exchange

LEMMA AsksStep ==
  ASSUME IInv, Negotiate \/ Asks
  PROVE  IInv'
<1>. USE DEF IInv, cardVars
<1>1. CASE Negotiate
  BY <1>1 DEF Negotiate, TypeInv, OneBlock, Asking, Exchange, ReplyIsAnswer, ExecutedOnce, InStep
<1>2. CASE Asks /\ AsksIfs
  <2>1. /\ toHost # NoBlock /\ toHost' = NoBlock /\ phase = "ifsd" /\ state' = state
        /\ \/ ret' = "none" /\ phase' = "none" /\ toCard' = NoBlock
           \/ toCard' = SRequest("ifsd", 1) /\ ret' = ret /\ phase' = phase
        /\ UNCHANGED <<ns, nr, ifsc, sbuf, lastSend, sent, rbuf, cs, cr, got, out, executed, n,
                       resynced, strayed>>
    BY <1>2 DEF Asks, AsksIfs
  <2>. QED  BY <2>1 DEF TypeInv, OneBlock, Asking, Exchange, ReplyIsAnswer, ExecutedOnce, InStep
<1>3. CASE Asks /\ AsksResync
  <2>1. /\ toHost # NoBlock /\ toHost' = NoBlock /\ phase = "resync" /\ state' = "DEAD"
        /\ \/ toCard' = SRequest("resync", 0) /\ ret' = ret /\ phase' = phase
           \/ toCard' = NoBlock /\ ret' = "error" /\ phase' = "none"
        /\ UNCHANGED <<ns, nr, ifsc, sbuf, lastSend, sent, rbuf, cs, cr, got, out, executed, n,
                       resynced, strayed>>
    BY <1>3 DEF Asks, AsksResync
  <2>. QED  BY <2>1 DEF TypeInv, OneBlock, Asking, Exchange, ReplyIsAnswer, ExecutedOnce, InStep
<1>. QED  BY <1>1, <1>2, <1>3 DEF Asks

LEMMA ResetStep ==
  ASSUME IInv, Reset
  PROVE  IInv'
<1>1. Ifsc \in Nat \ {0}  BY T1Assumption
<1>. QED  BY <1>1, EmptySeq DEF IInv, Reset, TypeInv, Bit, OneBlock, Asking, Exchange,
             ReplyIsAnswer, ExecutedOnce, InStep

\* The line garbles the block that is on it.
LEMMA GarbleStep ==
  ASSUME IInv, Garble
  PROVE  IInv'
<1>1. /\ UNCHANGED <<state, ns, nr, ifsc, sbuf, lastSend, sent, rbuf, ret, phase, cs, cr, got,
                     out, last, later, executed, n, resynced, strayed>>
      /\ \/ toCard # NoBlock /\ toCard' = Garbled /\ toHost' = toHost
         \/ toHost # NoBlock /\ toHost' = Garbled /\ toCard' = toCard
  BY DEF Garble, hostVars, cardVars, askVars
<1>. USE <1>1 DEF IInv
<1>2. OneBlock' /\ Asking'  BY DEF OneBlock, Asking
<1>3. TypeInv' /\ ReplyIsAnswer' /\ ExecutedOnce' /\ InStep'
  BY DEF OneBlock, TypeInv, ReplyIsAnswer, ExecutedOnce, InStep, Command
<1>4. /\ Garbled \notin Requests /\ Garbled \notin Responses /\ Garbled.type # "R"
  BY DEF Garbled, Requests, Responses, SRequest, SResponse
<1>5. Unheard => Unheard'  BY <1>4 DEF Unheard, CardError
<1>6. ASSUME NEW block, OnTheWay(block)
      PROVE  OnTheWay(block)'
  BY <1>4, <1>6 DEF OnTheWay, CardError
<1>7. CommandSent => CommandSent'  BY <1>5 DEF CommandSent, Command
<1>8. ChunkTaken => ChunkTaken'  BY <1>6 DEF ChunkTaken, Command, Rest
<1>9. AnswerSaid => AnswerSaid'  BY <1>6 DEF AnswerSaid, Command, AnswerBlock, Answer, Last
<1>10. AnswerAsked => AnswerAsked'  BY DEF AnswerAsked, Command, Answer, CardError
<1>11. ResyncSent => ResyncSent'  BY <1>5 DEF ResyncSent
<1>12. CardResynced => CardResynced'  BY DEF CardResynced, CardError
<1>. QED  BY <1>2, <1>3, <1>7, <1>8, <1>9, <1>10, <1>11, <1>12 DEF Exchange

\* The block is lost.
LEMMA LoseStep ==
  ASSUME IInv, Lose
  PROVE  IInv'
<1>1. /\ toHost' = NoBlock /\ state' = "DEAD"
      /\ UNCHANGED <<ifsc, sbuf, lastSend, sent, rbuf, cs, cr, got, out, executed, n, resynced,
                     strayed>>
      /\ \/ /\ phase = "ifsd" /\ phase' = "resync" /\ ret' = ret
            /\ ns' = 0 /\ nr' = 0 /\ toCard' = SRequest("resync", 0)
         \/ /\ phase # "ifsd" /\ phase' = "none" /\ ret' = "error"
            /\ UNCHANGED <<ns, nr>> /\ toCard' = NoBlock
  BY DEF Lose, Resynchronize, cardVars
<1>. QED  BY <1>1 DEF IInv, TypeInv, Bit, OneBlock, Asking, Exchange, ReplyIsAnswer,
             ExecutedOnce, InStep, Command

-------------------------------------------------------------------------------
(* Theorems                                                                  *)

LEMMA InitHolds == Init => IInv
<1>. SUFFICES ASSUME Init
              PROVE  IInv
  OBVIOUS
<1>1. TypeInv
  <2>1. /\ <<>> \in Seq(Units) /\ <<>> \in Seq(Seq(Units)) /\ Len(<<>>) = 0
    BY EmptySeq
  <2>2. Ifsc \in Nat \ {0} /\ MaxCommands \in Nat  BY T1Assumption
  <2>3. sbuf = <<>> /\ lastSend = 0 /\ lastSend \in 0 .. Len(sbuf)
    BY <2>1 DEF Init
  <2>4. /\ rbuf = <<>> /\ got = <<>> /\ out = <<>> /\ executed = <<>> /\ n = 0 /\ ifsc = Ifsc
        /\ state = "SENDING" /\ ns = 0 /\ nr = 0 /\ cs = 0 /\ cr = 0 /\ sent = FALSE
        /\ ret = "none" /\ phase = "fresh" /\ resynced = FALSE /\ strayed = FALSE
    BY DEF Init
  <2>5. /\ sbuf \in Seq(Units) /\ rbuf \in Seq(Units) /\ got \in Seq(Units) /\ out \in Seq(Units)
        /\ executed \in Seq(Seq(Units))
    BY <2>1, <2>3, <2>4
  <2>6. n \in 0 .. MaxCommands /\ ifsc \in Nat \ {0}  BY <2>2, <2>4
  <2>7. ns \in Bit /\ nr \in Bit /\ cs \in Bit /\ cr \in Bit  BY <2>4 DEF Bit
  <2>8. lastSend \in 0 .. Len(sbuf)  BY <2>3
  <2>9. /\ state \in {"SENDING", "RECEIVING", "RESYNCH", "DEAD"}
        /\ sent \in BOOLEAN
        /\ ret \in {"none", "busy", "ok", "error"}
        /\ phase \in {"fresh", "ifsd", "resync", "none"}
        /\ resynced \in BOOLEAN /\ strayed \in BOOLEAN
    BY <2>4
  <2>. QED  BY <2>5, <2>6, <2>7, <2>8, <2>9 DEF TypeInv
<1>2. OneBlock /\ Asking /\ Exchange /\ ReplyIsAnswer /\ ExecutedOnce /\ InStep
  BY DEF Init, OneBlock, Asking, Exchange, ReplyIsAnswer, ExecutedOnce, InStep
<1>. QED  BY <1>1, <1>2 DEF IInv

LEMMA StepHolds ==
  ASSUME ErrorsAreTold, IInv, [Next]_vars
  PROVE  IInv'
<1>1. CASE Next
  BY <1>1, TransceiveStep, HostStep, AsksStep, ResetStep, GarbleStep, LoseStep, CardStep
     DEF Next
<1>2. CASE UNCHANGED vars
  <2>1. UNCHANGED <<state, ns, nr, ifsc, sbuf, lastSend, sent, rbuf, ret, phase, cs, cr, got,
                    out, last, later, executed, n, resynced, strayed, toCard, toHost>>
    BY <1>2 DEF vars, hostVars, cardVars, askVars
  <2>. USE <2>1 DEF IInv
  <2>2. TypeInv' /\ OneBlock' /\ Asking' /\ ReplyIsAnswer' /\ ExecutedOnce' /\ InStep'
    BY DEF TypeInv, OneBlock, Asking, ReplyIsAnswer, ExecutedOnce, InStep, Command, Answer, Last
  <2>3. Unheard => Unheard'  BY DEF Unheard, CardError
  <2>4. ASSUME NEW block, OnTheWay(block)
        PROVE  OnTheWay(block)'
    BY <2>4 DEF OnTheWay, CardError
  <2>5. CommandSent => CommandSent'  BY <2>3 DEF CommandSent, Command
  <2>6. ChunkTaken => ChunkTaken'  BY <2>4 DEF ChunkTaken, Command, Rest
  <2>7. AnswerSaid => AnswerSaid'  BY <2>4 DEF AnswerSaid, Command, AnswerBlock, Answer, Last
  <2>8. AnswerAsked => AnswerAsked'  BY DEF AnswerAsked, Command, Answer, CardError
  <2>9. ResyncSent => ResyncSent'  BY <2>3 DEF ResyncSent
  <2>10. CardResynced => CardResynced'  BY DEF CardResynced, CardError
  <2>. QED  BY <2>2, <2>5, <2>6, <2>7, <2>8, <2>9, <2>10 DEF Exchange
<1>. QED  BY <1>1, <1>2

LEMMA ExchangeInvariant == ErrorsAreTold => (Spec => []IInv)
<1>. SUFFICES ASSUME ErrorsAreTold
              PROVE  Spec => []IInv
  OBVIOUS
<1>1. Init => IInv  BY InitHolds
<1>2. IInv /\ [Next]_vars => IInv'  BY StepHolds
<1>. QED  BY <1>1, <1>2, PTL DEF Spec

\* The host and the card keep to the domains of their variables, and at most one
\* block is on the line: neither of them speaks before it was spoken to (t1_xcv).
THEOREM T1TypeCorrect == ErrorsAreTold => (Spec => [](TypeInv /\ OneBlock))
<1>1. IInv => TypeInv /\ OneBlock  BY DEF IInv
<1>. QED  BY <1>1, ExchangeInvariant, PTL

\* What a successful t1_transceive returns is the whole answer to the command
\* the card executed last, for any number of APDUs of any length, block sizes
\* and blocks lost, garbled and repeated.
THEOREM T1ReplyIsAnswer == ErrorsAreTold => (Spec => []ReplyIsAnswer)
<1>1. IInv => ReplyIsAnswer  BY DEF IInv
<1>. QED  BY <1>1, ExchangeInvariant, PTL

\* Without a resynchronisation the card executes the APDU it was sent, once.
THEOREM T1ExecutedOnce == ErrorsAreTold => (Spec => []ExecutedOnce)
<1>1. IInv => ExecutedOnce  BY DEF IInv
<1>. QED  BY <1>1, ExchangeInvariant, PTL

\* Exchanges leave the host and the card in step for the next one.
THEOREM T1InStep == ErrorsAreTold => (Spec => []InStep)
<1>1. IInv => InStep  BY DEF IInv
<1>. QED  BY <1>1, ExchangeInvariant, PTL
=============================================================================
