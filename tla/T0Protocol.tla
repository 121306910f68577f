----------------------------- MODULE T0Protocol -----------------------------
(***************************************************************************)
(* Commands to a T=0 card (src/src/ifd/proto-t0.c): five bytes of header,  *)
(* then the card's procedure bytes say, one by one, what comes next.  The  *)
(* line has no framing and no check: which byte a byte is follows from     *)
(* what was said before.  The card answers when it likes, and what comes   *)
(* after the handler's time limit is still on the line.                    *)
(***************************************************************************)
EXTENDS Atr

CONSTANTS
    Apdus,       \* commands: [case, lc, le], le as the parser gives it
    MaxNulls,    \* t0->max_nulls: 800
    MaxNoise,    \* bytes spoilt on the line
    Ids          \* marks to tell one command's bytes from the next one's: 1 .. n

VARIABLES
    t0,        \* t0->state
    block,     \* t0->block_oriented: the driver does the exchange
    cmd,       \* command in progress: [apdu, id, get, le], or None
    unsent,    \* bytes of it the card has not got
    got,       \* the answer so far
    nulls,     \* null_count
    line,      \* bytes from the card that nobody has read
    card,      \* the card: [st, id, want, have, out]
    answer,    \* the last command's result
    stale,     \* a receive failed since reset, and was forgotten
    noise

t0vars == <<t0, block, cmd, unsent, got, nulls, line, card, answer, stale, noise>>

\* Bytes from the card, and commands.
Tokens ==
    [type : {"null", "ack", "nak", "data", "sw2", "bad"}, id : Nat, i : Nat]
        \cup [type : {"sw1"}, id : Nat, i : Nat, sw : [kind : {"ok", "more", "error"}, n : Nat]]
Commands == [apdu : Apdus, id : Nat, get : BOOLEAN, le : Nat]

ASSUME T0Assumption ==
    /\ Apdus \subseteq [case : {"1", "2S", "3S", "4S", "none"}, lc : Nat, le : Nat]
    /\ IsFiniteSet(Ids) /\ Ids # {}
    /\ None \notin Commands

NextId(i) == (i % Cardinality(Ids)) + 1

\* "off": no power; "wait": for a header; "data": for bytes asked for; "talk": it
\* has the word.  mixed: it took a header for the data it had asked for.
CardIn(st) == [st |-> st, id |-> 0, want |-> 0, have |-> 0, asked |-> 0, out |-> <<>>, mixed |-> FALSE]

NoAnswer == [ok |-> FALSE, id |-> 0, bytes |-> <<>>]

T0Init ==
    /\ t0 = "idle"
    /\ block \in BOOLEAN
    /\ cmd = None
    /\ unsent = 0
    /\ got = <<>>
    /\ nulls = 0
    /\ line = <<>>
    /\ card = CardIn("off")
    /\ answer = NoAnswer
    /\ stale = FALSE
    /\ noise = 0

\* t0_init of a new protocol object; the reset before it left the card like c, and
\* bytes on the line.
T0Reset(c, bytes) ==
    /\ t0' = "idle"
    /\ unsent' = 0
    /\ got' = <<>>
    /\ nulls' = 0
    /\ line' = bytes
    /\ card' = c
    /\ stale' = (stale /\ c.st # "wait")
    /\ answer' = NoAnswer
    /\ UNCHANGED <<block, cmd, noise>>

-----------------------------------------------------------------------------
(* The handler                                                             *)

\* __ifd_apdu_check, for an APDU of n bytes after the header whose fifth is b
\* and whose last is e: NoCase for a length that fits none.
ApduCase(n, b, e) ==
    LET full(x) == IF x = 0 THEN 256 ELSE x
    IN  CASE n = 0             -> [case |-> "1",  lc |-> 0,       le |-> 0]
          [] n = 1             -> [case |-> "2S", lc |-> 0,       le |-> full(b)]
          [] n = 1 + full(b)   -> [case |-> "3S", lc |-> full(b), le |-> 0]
          [] n = 2 + full(b)   -> [case |-> "4S", lc |-> full(b), le |-> full(e)]
          [] OTHER             -> [case |-> "none", lc |-> 0,     le |-> 0]

\* The header reaches a card that waits for one.  Anywhere else it is lost,
\* or worse: a card that waits for data takes it for them.
Header(id, want, have) ==
    card' = IF card.st = "wait" /\ card.out = <<>>
            THEN [card EXCEPT !.st = "talk", !.id = id, !.want = want, !.have = have]
            ELSE [card EXCEPT !.mixed = @ \/ card.st = "data"]

\* Room in the buffer for data and status.
Room_NoStatus == cmd.le - Len(got)
Room == cmd.le + 2 - Len(got)

Return(state, ok, bytes) ==
    /\ cmd' = None
    /\ t0' = state
    /\ unsent' = 0
    /\ got' = <<>>
    /\ nulls' = 0
    /\ answer' = [ok |-> ok, id |-> cmd.id, bytes |-> bytes]

\* A failure while sending leaves its mark in t0->state; one while receiving
\* is followed by "done: t0->state = IDLE".
Fail(mark) ==
    /\ Return(IF t0 = "sending" THEN mark ELSE "idle", FALSE, <<>>)
    /\ stale' = (stale \/ t0 = "receiving")

T0Resynch_Pretends == TRUE
T0Resynch == FALSE

\* t0_transceive, up to the header of the first exchange.
Transceive(a) ==
    LET id == NextId(answer.id)
    IN  /\ cmd = None
        /\ \/ /\ t0 # "idle" /\ ~T0Resynch
              /\ answer' = [ok |-> FALSE, id |-> id, bytes |-> <<>>]
              /\ UNCHANGED <<t0, cmd, unsent, card>>
           \/ /\ t0 = "idle" \/ T0Resynch
              /\ t0' = IF a.lc > 0 THEN "sending" ELSE "receiving"
              /\ cmd' = [apdu |-> a, id |-> id, get |-> FALSE, le |-> a.le]
              /\ unsent' = a.lc
              /\ IF block THEN UNCHANGED card ELSE Header(id, a.lc, IF a.lc > 0 THEN 0 ELSE a.le)
              /\ UNCHANGED answer
           \/ /\ t0 = "idle" \/ T0Resynch
              /\ ~block                                  \* the header is not sent
              /\ t0' = IF a.lc > 0 THEN "confused" ELSE "idle"
              /\ answer' = [ok |-> FALSE, id |-> id, bytes |-> <<>>]
              /\ UNCHANGED <<cmd, unsent, card>>
        /\ UNCHANGED <<block, got, nulls, line, stale, noise>>

\* What follows a status in t0_transceive: for a case 4 command, GET RESPONSE.
GetResponse(le) ==
    /\ t0' = "receiving"
    /\ cmd' = [cmd EXCEPT !.get = TRUE, !.le = le]
    /\ got' = <<>>
    /\ unsent' = 0
    /\ nulls' = 0
    /\ IF block THEN UNCHANGED card ELSE Header(cmd.id, 0, le)
    /\ UNCHANGED <<answer, stale>>

LeAfter(sw) ==
    IF sw.kind = "more" /\ sw.n # 0 /\ sw.n < cmd.apdu.le THEN sw.n ELSE cmd.apdu.le

AfterStatus(bytes, sw) ==
    IF t0 = "sending" /\ cmd.apdu.case = "4S" /\ Len(bytes) = 2 /\ sw.kind # "error"
    THEN \/ GetResponse(LeAfter(sw))
         \/ ~block /\ Return("idle", FALSE, <<>>) /\ UNCHANGED <<card, stale>>
    ELSE Return("idle", TRUE, bytes) /\ UNCHANGED <<card, stale>>

\* A byte nobody expected at its place can look like any procedure byte.
Meanings(tok) ==
    CASE tok.type = "sw1"                -> {"sw"}
      [] tok.type \in {"sw2", "data"}    -> {"null", "ack", "nak", "sw", "bad"}
      [] OTHER                           -> {tok.type}

\* Bytes t0_xcv waits for when the procedure byte means p.
Needs(p) ==
    CASE p = "sw"                          -> 2
      [] p = "ack" /\ t0 = "receiving"     -> 1 + Room
      [] p = "nak" /\ t0 = "receiving"     -> 2
      [] OTHER                             -> 1

StatusOf(tok) == IF tok.type = "sw1" THEN tok.sw ELSE [kind |-> "error", n |-> 0]

\* Data for a card that asked for n bytes of them.
CardGets(n) ==
    card' = IF card.st = "data" /\ n <= card.want
            THEN [card EXCEPT !.want = @ - n, !.st = IF n >= card.asked THEN "talk" ELSE "data"]
            ELSE card

ReadsNull_NotCounted == UNCHANGED <<t0, cmd, unsent, got, nulls, card, answer, stale>>

ReadsNull ==
    IF nulls + 1 > MaxNulls
    THEN Fail("confused") /\ UNCHANGED card
    ELSE nulls' = nulls + 1 /\ UNCHANGED <<t0, cmd, unsent, got, card, answer, stale>>

\* A status that no longer fits in the buffer loses its second byte.
ReadsStatus ==
    LET bytes == got \o SubSeq(line, 1, 2)
        n == IF t0 = "receiving" /\ Len(bytes) > cmd.le + 2 THEN cmd.le + 2 ELSE Len(bytes)
    IN  AfterStatus(SubSeq(bytes, 1, n), StatusOf(line[1]))

\* Sending may fail, and does when the card asks for more than there is.
SendsData(n) ==
    \/ Fail("confused") /\ UNCHANGED card
    \/ /\ unsent # 0 /\ n <= unsent
       /\ unsent' = unsent - n
       /\ CardGets(n)
       /\ UNCHANGED <<t0, cmd, got, nulls, answer, stale>>

ReadsData(n) ==
    LET bytes == got \o SubSeq(line, 2, n + 1)
    IN  IF n = Room
        THEN Return("idle", TRUE, bytes) /\ UNCHANGED <<card, stale>>
        ELSE got' = bytes /\ UNCHANGED <<t0, cmd, unsent, nulls, card, answer, stale>>

\* One turn of the loop in t0_xcv.
ProcedureByte ==
    /\ cmd # None /\ ~block
    /\ line # <<>>
    /\ \E p \in Meanings(line[1]) :
          /\ Len(line) >= Needs(p)
          /\ line' = SubSeq(line, Needs(p) + 1, Len(line))
          /\ CASE p = "null"                       -> ReadsNull
               [] p = "sw"                         -> ReadsStatus
               [] p = "bad"                        -> Fail(t0) /\ UNCHANGED card
               [] p = "ack" /\ t0 = "sending"      -> SendsData(unsent)
               [] p = "nak" /\ t0 = "sending"      -> SendsData(1)
               [] p = "ack" /\ t0 = "receiving"    -> ReadsData(Room)
               [] p = "nak" /\ t0 = "receiving"    -> ReadsData(1)
    /\ UNCHANGED <<block, noise>>

\* The time limit passes; what had arrived of the bytes waited for is gone.
Timeout ==
    /\ cmd # None /\ ~block
    /\ line # <<>> => \E p \in Meanings(line[1]) : Len(line) < Needs(p)
    /\ line' = <<>>
    /\ Fail("confused")
    /\ UNCHANGED <<block, card, noise>>

Tok(type, id) == [type |-> type, id |-> id, i |-> 0]
\* Data bytes are numbered by how many are left.
Data(id, n) == [i \in 1 .. n |-> [type |-> "data", id |-> id, i |-> n + 1 - i]]
Status(id, kind, n) ==
    <<[type |-> "sw1", id |-> id, i |-> 0, sw |-> [kind |-> kind, n |-> n]], Tok("sw2", id)>>

\* Drivers that do the exchange themselves answer, or fail: then the state stays.
BlockExchange ==
    /\ cmd # None /\ block
    /\ \/ Fail(t0)
       \/ \E n \in {0, cmd.le}, kind \in {"ok", "more", "error"} :
             /\ LET bytes == Data(cmd.id, n) \o Status(cmd.id, kind, 1)
                IN  AfterStatus(bytes, [kind |-> kind, n |-> 1])
    /\ UNCHANGED <<block, line, card, noise>>

-----------------------------------------------------------------------------
(* The card                                                                *)

CardSays(c) == card.st = "talk" /\ card.out = <<>> /\ card' = c

\* One null byte at a time is on its way.
CardTalks ==
    \/ line = <<>> /\ CardSays([card EXCEPT !.out = <<Tok("null", card.id)>>])
    \/ /\ card.want > 0
       /\ \/ CardSays([card EXCEPT !.out = <<Tok("ack", card.id)>>, !.st = "data", !.asked = card.want])
          \/ CardSays([card EXCEPT !.out = <<Tok("nak", card.id)>>, !.st = "data", !.asked = 1])
    \/ /\ card.have > 0
       /\ CardSays([card EXCEPT !.st = "wait", !.have = 0,
                        !.out = <<Tok("ack", card.id)>> \o Data(card.id, card.have) \o Status(card.id, "ok", 0)])
    \/ /\ card.have > 0
       /\ CardSays([card EXCEPT !.have = @ - 1,
                        !.out = <<Tok("nak", card.id), [Tok("data", card.id) EXCEPT !.i = card.have]>>])
    \/ /\ card.want = 0
       /\ \E kind \in {"ok", "more"} :
             CardSays([card EXCEPT !.st = "wait", !.have = 0, !.out = Status(card.id, kind, 1)])
    \/ CardSays([card EXCEPT !.st = "wait", !.want = 0, !.have = 0, !.out = Status(card.id, "error", 0)])

\* The next byte the card sends gets on the line, now or later, whole or spoilt.  A
\* spoilt byte fits nowhere: one that reads as another procedure byte, with the parity
\* right, is beyond what T=0 and this model can tell.
CardSends ==
    /\ card.out # <<>>
    /\ card' = [card EXCEPT !.out = Tail(@)]
    /\ \/ line' = Append(line, Head(card.out)) /\ UNCHANGED noise
       \/ /\ noise < MaxNoise
          /\ line' = Append(line, Tok("bad", card.id))
          /\ noise' = noise + 1
    /\ UNCHANGED <<t0, block, cmd, unsent, got, nulls, answer, stale>>

CardSteps ==
    \/ CardSends
    \/ CardTalks /\ UNCHANGED <<t0, block, cmd, unsent, got, nulls, line, answer, stale, noise>>

HandlerSteps == ProcedureByte \/ Timeout \/ BlockExchange
=============================================================================
