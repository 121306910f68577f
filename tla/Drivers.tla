------------------------------- MODULE Drivers ------------------------------
(***************************************************************************)
(* A handler with one of the drivers.                                      *)
(***************************************************************************)
EXTENDS GemPc, Ccid, Kaan, CyberJack

Init ==
    /\ DriverInit
    /\ driver \in Drivers
    /\ \/ driver = "gempc" /\ GemInit
       \/ driver = "ccid" /\ CcidInit
       \/ driver = "kaan" /\ KaanInit
       \/ driver = "cyberjack" /\ CjInit

DriverSteps == GemNext \/ CcidNext \/ KaanNext \/ CjNext

Next == DriverSteps \/ LateArrives \/ Insert \/ Draw \/ HandlerAsks

Spec == Init /\ [][Next]_vars /\ WF_vars(DriverSteps)

-----------------------------------------------------------------------------
Told(kind) == told # None /\ told.op.kind = kind /\ told.ok /\ op = None

\* A command that began with the number 1 waits for it after a resync, which makes the
\* reader count from 0: it is sent, executed and resynchronised for ever.
OutOfStep == driver = "gempc" /\ link.busy /\ link.seq # link.ns

Fragmented(c) == driver = "gempc" /\ Len(Bytes(c)) > InputMax   \* and ExchangeMax
CutShort(c) == driver = "gempc" /\ c.lc > 0 /\ c.le > c.lc /\ c.le >= BlockMax

\* What a command returns is the card's answer to it, whole, or the status word that
\* refuses it, and an answer says that the card has executed it; what a PIN's
\* verification returns is what came of that PIN.  An answer that ccid_command
\* has given up waiting for, or a block gbp_transceive has asked for again, is
\* not taken for another command's.
AnswersOwn ==
    /\ Told("transact") =>
         /\ told.data \in {AnswerTo(told.op), Refusal(told.op)} \/ CutShort(told.op)
         /\ told.data = AnswerTo(told.op) => ran # <<>>
    /\ told # None /\ told.op.kind = "verify" /\ op = None =>
         /\ told.data = <<"9000">> => ran = <<<<<<told.op.id, "right">>>>>>
         /\ told.data = <<"wrong">> => ran = <<<<<<told.op.id, "wrong">>>>>>
         /\ told.data \in {<<"cancel">>, <<"timeout">>} => ran = <<>>

\* No card executes a command twice, or a part of one, while the driver recovers from
\* blocks that are garbled or lost (gbp_transceive): except in the loop above, and for
\* long commands, of which gpc_iso_send_frag sends the wrong part.
RunsOnce ==
    op # None /\ op.kind = "transact" =>
        /\ \A i \in DOMAIN ran : ran[i] = Bytes(op) \/ Fragmented(op)
        /\ Len(ran) <= 1 \/ OutOfStep

Agreed ==
    CASE driver \in {"gempc", "kaan"} -> dd.proto = icc.proto
      [] driver = "ccid" -> CcidAgrees
      [] driver = "cyberjack" -> TRUE

\* After a reset, or an application's choice of a protocol, driver, reader and card speak
\* the same protocol at the same speed, whatever the reader does by itself and
\* whatever the card made of the PTS (gpc_set_protocol, ccid_set_protocol,
\* kaan_set_protocol).
ProtocolAgreed ==
    /\ slot.proto # None /\ icc # None /\ icc.on
    /\ Told("reset") \/ (Told("select") /\ driver = "ccid" /\ Renegotiates)
    => Agreed

\* The driver's own state may be in the way of a reset: its protocol object went with
\* the last one, or the last status left it without a state.  And a reader may not
\* have the card's voltage.
Unready ==
    \/ driver = "cyberjack" /\ ~dd.spare
    \/ driver = "ccid" /\ "voltage" \notin rdr.features /\ told.op.card.volt \notin rdr.volts

\* An answer without an ATR is taken for one.
MistakesSW == driver = "cyberjack" /\ slot.atr = StatusWord

\* A reset that succeeds has the ATR of the card that was in the reader when it began;
\* without faults the card that stays in the reader can be reset, at whichever voltage.
ResetTrue ==
    told # None /\ told.op.kind = "reset" /\ op = None =>
        /\ told.ok => slot.atr = told.op.card \/ MistakesSW
        /\ ~told.ok /\ told.in /\ faults = 0 => Unready

\* An exchange that fails may have woken a terminal the driver takes for frozen.
Unwatched == driver = "kaan" /\ dd.frozen /\ ~rdr.frozen

\* A status that is told was true when it was asked for or when it was told.
StatusTrue ==
    Told("poll") \/ Told("status") =>
        (slot.status # "absent") \in {told.in, told.op.card # None} \/ Unwatched

\* A write to a memory card that succeeds has written all the bytes, of those one command
\* can take, and what is read is what the card holds from the first byte on, however
\* many chunks it takes (kaan_update_binary, kaan_read_binary).
MemoryKept ==
    icc # None /\ icc.on =>
        /\ Told("write") /\ told.in /\ told.op.len <= FileMax =>
             \A i \in DOMAIN icc.mem \cap 1 .. told.op.len : icc.mem[i] = told.op.id
        /\ Told("read") =>
             IsPrefix(SubSeq(told.data, 1, Least(Len(told.data), told.op.len)), icc.mem)

\* "the number or resyncs is limited, too" (proto-gbp.c): a command given to
\* gbp_transceive comes to an end.
ResyncsLimited == (driver = "gempc" /\ link.busy) ~> (driver # "gempc" \/ ~link.busy)

\* Every operation ends, with fairness of driver and reader and a bounded number of
\* faults: however many blocks ask for time, chunks or voltages there are to try.
OperationsEnd == (op # None) ~> (op = None \/ OutOfStep \/ at = "crashed")
=============================================================================
