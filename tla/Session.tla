------------------------------- MODULE Session ------------------------------
(***************************************************************************)
(* A slot of a reader on a serial line, from reset to reset: the core of   *)
(* src/src/ifd/reader.c and protocol.c, with the Towitoko driver           *)
(* (src/src/ifd/ifd-towitoko.c) below.  A card with an ATR gets the        *)
(* protocol the ATR names first; a card without one is probed for being a  *)
(* memory card, by writing to it (src/src/ifd/proto-sync.c).               *)
(***************************************************************************)
EXTENDS T0Protocol

CONSTANTS
    Cards,        \* [kind, inverse, atr], kind "async", "mute" or a memory card's
    Contents,     \* what memory cards hold when inserted: sequences over Byte
    Writes,       \* what applications write: [addr, data]
    PageSize,     \* 256: ifd_sync writes within a page
    MaxFaults,    \* driver commands that fail or do nothing
    MaxWork       \* things the user and the applications do

VARIABLES
    icc,          \* the card in the slot, or None
    mem,          \* what a memory card holds
    meant,        \* what it should hold
    proto,        \* slot->proto: None, "T0", "T1" or a memory card's protocol
    atr,          \* slot->atr, the first atr_len bytes
    parity,       \* of the serial line
    op,           \* operation under way, or None: a probe or a write
    faults,
    excused,      \* a command for the memory card failed, or the card was drawn
    work

slotvars == <<icc, mem, meant, proto, atr, parity, op, faults, excused, work>>
vars == <<t0vars, slotvars>>

MemoryKinds == {"i2c_short", "i2c_long", "2wire", "3wire"}
Probes == <<"i2c_short", "i2c_long", "2wire", "3wire">>
Toggle(p) == IF p = "even" THEN "odd" ELSE "even"

\* Bytes of a memory card: 0, 1 and what the inverse of a byte is.
Byte == 0 .. 3
Inverted(b) == 3 - b

\* Operations of more than one step: a detection, and a write, for an application or
\* within a detection.
Probings == [type : {"probe"}, i : DOMAIN Probes, step : {"read", "atr", "restore"},
             byte : Byte, again : BOOLEAN]
Writings == [type : {"write"}, p : MemoryKinds, addr : Nat, data : Seq(Byte),
             step : {"store", "compare"}, retries : 0 .. 2, then : Probings \cup {None}]
Operations == Probings \cup Writings

ASSUME SessionAssumption ==
    /\ PageSize \in Nat \ {0}
    /\ Contents \subseteq Seq(Byte) \ {<<>>}
    /\ Writes \subseteq [addr : Nat, data : Seq(Byte)]
    /\ \A c \in Cards : c.kind = "async" => IsAtr(c.atr)
    /\ None \notin Cards \cup Operations \cup MemoryKinds \cup {"T0", "T1"}

Init ==
    /\ T0Init
    /\ icc = None
    /\ mem = <<>>
    /\ meant = <<>>
    /\ proto = None
    /\ atr = <<>>
    /\ parity = "even"
    /\ op = None
    /\ faults = 0
    /\ excused = FALSE
    /\ work = 0

Works == work < MaxWork /\ work' = work + 1

Idle == cmd = None /\ op = None

-----------------------------------------------------------------------------
(* The user                                                                *)

\* Nobody changes cards within the fraction of a second an operation on one takes.
Insert(c) ==
    /\ icc = None
    /\ op = None
    /\ icc' = c
    /\ IF c.kind \in MemoryKinds
       THEN \E m \in Contents : mem' = m /\ meant' = m
       ELSE UNCHANGED <<mem, meant>>
    /\ excused' = FALSE
    /\ UNCHANGED <<t0vars, proto, atr, parity, op, faults>>

\* Bytes on their way are lost with the card; the slot keeps its protocol.
Draw ==
    /\ icc # None
    /\ icc' = None
    /\ card' = [CardIn("off") EXCEPT !.mixed = card.mixed]
    /\ mem' = <<>>
    /\ meant' = <<>>
    /\ excused' = TRUE
    /\ UNCHANGED <<t0, block, cmd, unsent, got, nulls, line, answer, stale, noise,
                   proto, atr, parity, op, faults>>

-----------------------------------------------------------------------------
(* Reset                                                                   *)

\* The slot forgets ATR and protocol before anything is tried.
Forget == atr' = <<>> /\ proto' = None

\* twt_card_reset did not get as far as trying, or the card was silent, or fell
\* silent before its ATR was complete.
ResetFails ==
    /\ Idle
    /\ \/ icc # None /\ icc.kind = "async" /\ UNCHANGED faults
       \/ icc = None /\ UNCHANGED faults
       \/ icc # None /\ faults < MaxFaults /\ faults' = faults + 1
    /\ Forget
    /\ parity' \in {"even", "odd"}
    /\ IF card.st = "wait" THEN T0Reset(CardIn("off"), <<>>)
       ELSE \E c \in {card, CardIn("off")} : T0Reset(c, <<>>)
    /\ UNCHANGED <<icc, mem, meant, op, excused>>

\* ifd_card_request with a card that answers: the first byte by the driver, the
\* rest by the loop, which stops where it thinks the ATR ends.  tried is the
\* parity at which the card was heard.
GotAtr(tried) ==
    LET n == AtrExpected(icc.atr)
        whole == SubSeq(icc.atr, 1, n)
        named == AtrProtocol(whole)
    IN  /\ n <= Len(icc.atr)
        /\ atr' = whole
        /\ parity' = IF icc.inverse THEN Toggle(tried) ELSE tried
        /\ proto' = CASE named = 0 -> "T0" [] named = 1 -> "T1" [] OTHER -> None
        /\ T0Reset(CardIn("wait"), [i \in 1 .. Len(icc.atr) - n |-> Tok("bad", 0)])
        /\ UNCHANGED <<icc, mem, meant, op, faults, excused>>

\* A card that does not answer may be one without a processor.
Request ==
    /\ Idle
    /\ icc # None
    /\ \/ /\ icc.kind = "async"
          /\ \E tried \in {"even", "odd"} : GotAtr(tried)
       \/ /\ icc.kind # "async"
          /\ Forget
          /\ op' = [type |-> "probe", i |-> 1, step |-> "read", byte |-> 0, again |-> TRUE]
          /\ parity' = "even"
          /\ T0Reset(CardIn("off"), <<>>)
          /\ UNCHANGED <<icc, mem, meant, faults, excused>>

-----------------------------------------------------------------------------
(* Memory cards                                                            *)

\* A command of the driver to a memory card with protocol p fails when the card is
\* not of that kind or not there, and now and then otherwise.
Fits(p) == icc # None /\ icc.kind = p
MayFail == faults < MaxFaults

DriverFails(p) ==
    \/ ~Fits(p) /\ UNCHANGED <<faults, excused>>
    \/ Fits(p) /\ MayFail /\ faults' = faults + 1 /\ excused' = TRUE

DriverWorks(p) == Fits(p) /\ UNCHANGED <<faults, excused>>

StoreAt(addr, data) ==
    mem' = [i \in DOMAIN mem |-> IF i - 1 \in addr .. addr + Len(data) - 1 THEN data[i - addr] ELSE mem[i]]

\* twt_sync_write_buffer is content when a part got written, and nobody looks
\* how much; or the card keeps what it had.
DriverPretends(p, addr, data) ==
    /\ Fits(p) /\ MayFail /\ faults' = faults + 1
    /\ \E n \in 0 .. Len(data) - 1 : StoreAt(addr, SubSeq(data, 1, n))
    /\ UNCHANGED excused

Stores(p, addr, data) ==
    \/ DriverWorks(p) /\ StoreAt(addr, data)
    \/ DriverPretends(p, addr, data)

\* A failed command may have reached the card all the same.
FailsToStore(p, addr, data) ==
    /\ DriverFails(p)
    /\ UNCHANGED mem \/ (Fits(p) /\ StoreAt(addr, data))

\* The loop of sync_write for the slot's protocol p; a retry is one more turn, and
\* an I2C write of more than one byte has two of them.  then: what for.
I2C == {"i2c_short", "i2c_long"}
Writing(p, addr, data, then) ==
    [type |-> "write", p |-> p, addr |-> addr, data |-> data, step |-> "store",
     retries |-> IF p \in I2C /\ Len(data) > 1 THEN 2 ELSE 1, then |-> then]

Probing(i, again) == [type |-> "probe", i |-> i, step |-> "read", byte |-> 0, again |-> again]

\* Once nothing fits at even parity, all is tried again at odd parity.
DetectionFails(o) ==
    /\ op' = IF o.again THEN Probing(1, FALSE) ELSE None
    /\ parity' = IF o.again THEN "odd" ELSE parity
    /\ UNCHANGED proto

\* The next kind of card to try.
ProbeMisses(o) ==
    IF o.i < Len(Probes)
    THEN op' = Probing(o.i + 1, o.again) /\ UNCHANGED <<parity, proto>>
    ELSE DetectionFails(o)

\* atr is that of a processor card: what is read of a card with wires in its place
\* is left out.
ProbeHits(o) ==
    /\ op' = None
    /\ proto' = Probes[o.i]
    /\ UNCHANGED parity

\* ifd_sync_probe_icc: read a byte; an I2C card must take it inverted, and gets
\* it back.  A card with wires is then read for an ATR; if that fails no other kind
\* is tried.
Probe ==
    LET p == Probes[op.i]
    IN  /\ op # None /\ op.type = "probe"
        /\ \/ /\ DriverFails(p)
              /\ IF op.step = "atr" THEN DetectionFails(op) ELSE ProbeMisses(op)
           \/ /\ DriverWorks(p)
              /\ CASE op.step = "atr" -> ProbeHits(op)
                   [] op.step = "read" /\ p \in I2C ->
                        /\ op' = Writing(p, 0, <<Inverted(mem[1])>>, [op EXCEPT !.byte = mem[1]])
                        /\ UNCHANGED <<proto, parity>>
                   [] op.step = "read" /\ p \notin I2C /\ mem[1] \notin {0, 3} ->
                        /\ op' = [op EXCEPT !.step = "atr"]
                        /\ UNCHANGED <<proto, parity>>
                   [] OTHER -> ProbeMisses(op)
        /\ UNCHANGED <<t0vars, icc, mem, meant, atr>>

WriteMemory(w) ==
    /\ Idle
    /\ proto \in MemoryKinds
    /\ op' = Writing(proto, w.addr, w.data, None)
    /\ UNCHANGED <<t0vars, icc, mem, meant, proto, atr, parity, faults, excused>>

Chunk ==
    LET room == PageSize - (op.addr % PageSize)
    IN  SubSeq(op.data, 1, IF Len(op.data) < room THEN Len(op.data) ELSE room)

Stored(addr, data) == SubSeq(mem, addr + 1, addr + Len(data)) = data

\* The end of sync_write.  An application is told of an error; detection takes
\* a failed write for another kind of card, and does not mind a failed restore.
WriteEnds(ok) ==
    IF op.then = None
    THEN op' = None /\ UNCHANGED <<proto, parity>>
    ELSE CASE op.then.step = "restore" -> ProbeHits(op.then)
           [] op.then.step = "read" /\ ok ->
                /\ op' = Writing(op.p, 0, <<op.then.byte>>, [op.then EXCEPT !.step = "restore"])
                /\ UNCHANGED <<proto, parity>>
           [] OTHER -> ProbeMisses(op.then)

WriteFails ==
    /\ meant' = IF op.then = None THEN mem' ELSE meant
    /\ WriteEnds(FALSE)

WriteGoesOn ==
    LET n == Len(Chunk)
    IN  /\ meant' = IF op.then # None THEN meant
                    ELSE [i \in DOMAIN meant |->
                            IF i - 1 \in op.addr .. op.addr + n - 1 THEN Chunk[i - op.addr] ELSE meant[i]]
        /\ IF n < Len(op.data)
           THEN /\ op' = [op EXCEPT !.step = "store", !.addr = @ + n, !.data = SubSeq(@, n + 1, Len(@))]
                /\ UNCHANGED <<proto, parity>>
           ELSE WriteEnds(TRUE)

WriteAgain ==
    IF op.retries > 0
    THEN op' = [op EXCEPT !.step = "store", !.retries = @ - 1] /\ UNCHANGED <<meant, proto, parity>>
    ELSE WriteFails

\* The byte that detection inverted does not go back, and the retries are used up.
NotRestored ==
    /\ op.then # None /\ op.then.step = "restore"
    /\ op.retries = 0
    /\ ~Stored(op.addr, Chunk)

Compared_Skipped(same) == TRUE
Compared(same) == same

WriteStep ==
    /\ op # None /\ op.type = "write"
    /\ \/ /\ op.step = "store"
          /\ FailsToStore(op.p, op.addr, Chunk)
          /\ WriteFails
       \/ /\ op.step = "store"
          /\ Stores(op.p, op.addr, Chunk)
          /\ op' = [op EXCEPT !.step = "compare"]
          /\ UNCHANGED <<meant, proto, parity>>
       \/ /\ op.step = "compare"
          /\ UNCHANGED mem
          /\ Fits(op.p)
          /\ UNCHANGED faults
          /\ excused' = (excused \/ NotRestored)
          /\ IF Compared(Stored(op.addr, Chunk)) THEN WriteGoesOn ELSE WriteAgain
       \* The result of sync_read is not looked at, only the buffer it did not fill.
       \/ /\ op.step = "compare"
          /\ UNCHANGED mem
          /\ DriverFails(op.p)
          /\ WriteGoesOn \/ WriteAgain
    /\ UNCHANGED <<t0vars, icc, atr>>

-----------------------------------------------------------------------------
\* ifd_card_command: whatever protocol the slot was left with.
Command(a) ==
    /\ Idle
    /\ proto = "T0"
    /\ Transceive(a)
    /\ UNCHANGED <<icc, mem, meant, proto, atr, parity, op, faults, excused>>

\* ifd_card_status with IFD_CARD_STATUS_CHANGED.
StatusChanged ==
    /\ Idle
    /\ atr # <<>>
    /\ atr' = <<>>
    /\ UNCHANGED <<t0vars, icc, mem, meant, proto, parity, op, faults, excused>>

\* ifd_set_protocol: a new protocol object, unless it is the one in use.  A new T=0
\* object knows nothing of what the old one left half done.
SetProtocol(p) ==
    /\ Idle
    /\ p # proto
    /\ proto' = p
    /\ IF p = "T0" THEN t0' = "idle" /\ stale' = TRUE ELSE UNCHANGED <<t0, stale>>
    /\ UNCHANGED <<block, cmd, unsent, got, nulls, line, card, answer, noise,
                   icc, mem, meant, atr, parity, op, faults, excused>>

\* What users and applications begin.
Begin ==
    \/ \E c \in Cards : Insert(c)
    \/ Draw
    \/ ResetFails
    \/ Request
    \/ \E w \in Writes : WriteMemory(w)
    \/ \E a \in Apdus : Command(a)
    \/ StatusChanged
    \/ \E p \in {"T0", "T1"} : SetProtocol(p)

Next ==
    \/ Works /\ Begin
    \/ (Probe \/ WriteStep) /\ UNCHANGED work
    \/ (HandlerSteps \/ CardSteps) /\ UNCHANGED slotvars

\* The handler, once it has begun something, goes on by itself; the card need not.
Fairness ==
    /\ WF_vars(HandlerSteps /\ UNCHANGED slotvars)
    /\ WF_vars((Probe \/ WriteStep) /\ UNCHANGED work)

Spec == Init /\ [][Next]_vars /\ Fairness

-----------------------------------------------------------------------------
(* Properties                                                              *)

\* What a command returns is that command's answer: the card's data in the order
\* sent, no byte missing or doubled between two, and a status behind them, unless a receive failed since the
\* reset (t0_transceive then goes on as if nothing had happened, "done:") or the
\* protocol was taken anew.
AnswersInTurn ==
    answer.ok /\ ~stale =>
        LET bytes == answer.bytes
            n == Len(bytes) - 2
        IN  /\ n >= 0
            /\ \A i \in DOMAIN bytes : bytes[i].id = answer.id
            /\ \A i \in 1 .. n : bytes[i].type \in {"data", "bad"}
            /\ \A i, j \in 1 .. n :
                  bytes[i].type = "data" /\ bytes[j].type = "data" => bytes[i].i - bytes[j].i = j - i
            /\ bytes[n + 1].type \in {"sw1", "bad"}
            /\ bytes[n + 2].type \in {"sw2", "bad"}

\* A card that waits for the data of one command is never sent the header of the
\* next: a send that failed leaves t0->state so that only a reset helps
\* (t0_resynch), unless the application has the protocol made anew.
HeaderNotData == card.mixed => stale

\* After a reset the program has the ATR, the whole ATR and nothing but the ATR:
\* no byte of it is left for the first command, ifd_atr_complete says so of all of
\* it and of no shorter part, the protocol is the one the card offers first, and
\* ifd_atr_parse, where it accepts the ATR, agrees.
ResetIsClean ==
    LET info == AtrParse(atr)
        fresh == atr # <<>> /\ cmd = None /\ answer = NoAnswer
    IN  /\ fresh => line = <<>>
        /\ fresh /\ card.st # "off" => atr = icc.atr
        /\ atr # <<>> => \A n \in 0 .. Len(atr) : AtrComplete(atr, n) <=> n = Len(atr)
        /\ atr # <<>> /\ info.ok => info.default = AtrProtocol(atr) /\ info.default \in info.supported
        /\ atr # <<>> /\ info.ok /\ Named(atr) # {} => info.supported = Named(atr)

\* A memory card holds what the applications wrote to it, byte for byte and across
\* pages, even where the reader wrote a part only and said nothing; detecting a
\* card leaves no trace on it.  Excused: a command of the driver that failed, and a
\* byte that detection could not write back (ifd_sync_probe_icc does not look).
MemoryKept == op = None /\ ~excused => mem = meant

\* Whatever the card says or does not say, each command comes to an end
\* (t0->max_nulls and the time limits), and each detection and write.
CommandsReturn == (cmd # None \/ op # None) ~> (cmd = None /\ op = None)
=============================================================================
